--------------------------- MODULE DeckViewProofs ---------------------------
(***************************************************************************)
(* What the application shows of its decks, for every number of tracks,    *)
(* slots, calls and places in the command ring: what is drawn belongs to   *)
(* the track that is shown (PeaksBelong), and the track that is shown is   *)
(* the one that plays, once the ring is drained (ViewMatches).             *)
(*                                                                         *)
(* PeaksBelong.  The waveform and the grid of a track arrive from a worker *)
(* that may have been overtaken by loads, scratches, doubles and restarts. *)
(* The argument follows each pair of a track and its drawing from place to *)
(* place: the deck, the park, the host and the other deck.                 *)
(*                                                                         *)
(* ViewMatches.  While commands wait, the two sides differ by what they    *)
(* will do.  The argument keeps a third account: the face of an engine is  *)
(* what shows of it, a command acts on faces alone (AppliedShows), so the  *)
(* commands in the ring lead from the engine's face to a face that agrees  *)
(* with the copy (CopyInv).  A call appends to the ring and changes the    *)
(* copy, the engine takes the head: each moves one end of the path.        *)
(***************************************************************************)
EXTENDS DeckView, TLAPS

\* Three records, for the decks and the slots of a session under way.
Collection == \E f \in [1..3 -> Tracks] : \A i, j \in 1..3 : f[i] = f[j] => i = j

-----------------------------------------------------------------------------
(* The invariant *)

Screens == [tune : Held, peaks : Drawings, parked : ParkedScreens \cup {None}, host : HostedScreens \cup {None}]

TypeInv ==
  /\ view \in [Decks -> Screens]
  /\ samples \in [Slots -> Held]
  /\ loads \subseteq [deck : Decks, track : Tracks]
  /\ workers \subseteq [deck : Decks, track : Tracks, stage : {"peaks", "grid"}]

\* A screen whose every drawing belongs to its tune.
Fits(x) ==
  /\ x \in Screens /\ Belongs(x)
  /\ x.parked # None => Belongs(x.parked)
  /\ x.host # None => Belongs(x.host)

IInv == TypeInv /\ PeaksBelong

\* The invariant says of every deck that its screen fits.
LEMMA ScreensFit ==
  PeaksBelong /\ view \in [Decks -> Screens] <=> view \in [Decks -> Screens] /\ \A d \in Decks : Fits(view[d])
BY DEF PeaksBelong, Fits

-----------------------------------------------------------------------------
(* The pieces a screen is made of *)

\* A screen put together from a tune with its drawing, a park and a host.
LEMMA ScreenOf ==
  ASSUME NEW t \in Held, NEW p \in Drawings, NEW k \in ParkedScreens \cup {None}, NEW h \in HostedScreens \cup {None},
         Belongs([tune |-> t, peaks |-> p]), k # None => Belongs(k), h # None => Belongs(h)
  PROVE  Fits([tune |-> t, peaks |-> p, parked |-> k, host |-> h])
BY DEF Fits, Screens, Belongs

\* The parts of a screen that fits.
LEMMA PartsOf ==
  ASSUME NEW x, Fits(x)
  PROVE  /\ x = [tune |-> x.tune, peaks |-> x.peaks, parked |-> x.parked, host |-> x.host]
         /\ x.tune \in Held /\ x.peaks \in Drawings
         /\ x.parked \in ParkedScreens \cup {None} /\ x.host \in HostedScreens \cup {None}
         /\ Belongs([tune |-> x.tune, peaks |-> x.peaks])
         /\ x.parked # None => Belongs(x.parked)
         /\ x.host # None => Belongs(x.host)
BY DEF Fits, Screens, Belongs

\* A screen with one part exchanged.
LEMMA ScreenWith ==
  ASSUME NEW x \in Screens, NEW q
  PROVE  /\ [x EXCEPT !.peaks = q] = [tune |-> x.tune, peaks |-> q, parked |-> x.parked, host |-> x.host]
         /\ [x EXCEPT !.parked = q] = [tune |-> x.tune, peaks |-> x.peaks, parked |-> q, host |-> x.host]
         /\ [x EXCEPT !.host = q] = [tune |-> x.tune, peaks |-> x.peaks, parked |-> x.parked, host |-> q]
BY DEF Screens

\* An empty screen with a drawing, or with a track and its drawing.
LEMMA BlankWith ==
  ASSUME NEW t, NEW p
  PROVE  /\ [Blank EXCEPT !.peaks = p] = [tune |-> None, peaks |-> p, parked |-> None, host |-> None]
         /\ [Blank EXCEPT !.tune = t, !.peaks = p] = [tune |-> t, peaks |-> p, parked |-> None, host |-> None]
<1>. DEFINE b == [tune |-> t, peaks |-> None, parked |-> None, host |-> None]
<1>1. [Blank EXCEPT !.peaks = p] = [tune |-> None, peaks |-> p, parked |-> None, host |-> None]
  BY DEF Blank
<1>2. [Blank EXCEPT !.tune = t] = b
  BY DEF Blank
<1>3. [b EXCEPT !.peaks = p] = [tune |-> t, peaks |-> p, parked |-> None, host |-> None]
  OBVIOUS
<1>. HIDE DEF b
<1>. QED
  BY <1>1, <1>2, <1>3

\* A fresh waveform belongs to its track, and an empty deck to none.
LEMMA NewDrawing ==
  ASSUME NEW t \in Held
  PROVE  /\ Belongs([tune |-> t, peaks |-> None])
         /\ t \in Tracks => Peaks(t, None) \in Drawings /\ Belongs([tune |-> t, peaks |-> Peaks(t, None)])
         /\ t \in Tracks => Peaks(t, t) \in Drawings /\ Belongs([tune |-> t, peaks |-> Peaks(t, t)])
BY DEF Belongs, Peaks, Drawings, Held

\* A deck that shows a track, or none, without its waveform fits.
LEMMA BlankFits ==
  ASSUME NEW t \in Held
  PROVE  Fits([Blank EXCEPT !.tune = t])
<1>1. [Blank EXCEPT !.tune = t] = [tune |-> t, peaks |-> None, parked |-> None, host |-> None]
  BY DEF Blank
<1>2. None \in Drawings /\ Belongs([tune |-> t, peaks |-> None])
  BY NewDrawing DEF Drawings
<1>. QED
  BY <1>1, <1>2, ScreenOf

\* A worker draws on a screen, or a park, that shows its track.
LEMMA DrawnBelongs ==
  ASSUME NEW w \in [deck : Decks, track : Tracks, stage : {"peaks", "grid"}],
         NEW p \in Drawings, Belongs([tune |-> w.track, peaks |-> p])
  PROVE  LET q == IF w.stage = "peaks" THEN Peaks(w.track, None)
                  ELSE IF p = None THEN None ELSE [p EXCEPT !.grid = w.track]
         IN q \in Drawings /\ Belongs([tune |-> w.track, peaks |-> q])
<1>0. w.track \in Tracks /\ w.track # None
  BY TracksAssumption
<1>1. CASE w.stage = "peaks"
  BY <1>0, <1>1, NewDrawing DEF Held
<1>2. CASE w.stage # "peaks" /\ p = None
  BY <1>2 DEF Drawings, Belongs
<1>3. CASE w.stage # "peaks" /\ p # None
  <2>1. p \in [of : Tracks, grid : Held] /\ p.of = w.track
    BY <1>0, <1>3 DEF Drawings, Belongs
  <2>. DEFINE q == [p EXCEPT !.grid = w.track]
  <2>2. q \in Drawings /\ q.of = w.track /\ q.grid = w.track
    BY <1>0, <2>1 DEF Drawings, Held
  <2>3. Belongs([tune |-> w.track, peaks |-> q])
    BY <2>2 DEF Belongs
  <2>. QED
    BY <1>3, <2>2, <2>3
<1>. QED
  BY <1>1, <1>2, <1>3

\* The screen of the deck that shows the worker's track, drawn on.
LEMMA LiveFits ==
  ASSUME NEW w \in [deck : Decks, track : Tracks, stage : {"peaks", "grid"}],
         NEW x, Fits(x), x.tune = w.track
  PROVE  Fits(Drawn(x, w))
<1>. DEFINE q == IF w.stage = "peaks" THEN Peaks(w.track, None)
                 ELSE IF x.peaks = None THEN None ELSE [x.peaks EXCEPT !.grid = w.track]
            y == [tune |-> x.tune, peaks |-> q, parked |-> x.parked, host |-> x.host]
<1>1. q \in Drawings /\ Belongs([tune |-> x.tune, peaks |-> q])
  BY PartsOf, DrawnBelongs
<1>2. Fits(y)
  BY <1>1, PartsOf, ScreenOf
<1>3. Drawn(x, w) = y
  <2>1. x \in Screens
    BY DEF Fits
  <2>2. CASE w.stage = "peaks"
    BY <2>1, <2>2, ScreenWith DEF Drawn
  <2>3. CASE w.stage # "peaks" /\ x.peaks = None
    BY <2>3, PartsOf DEF Drawn
  <2>4. CASE w.stage # "peaks" /\ x.peaks # None
    BY <2>1, <2>4, ScreenWith DEF Drawn
  <2>. QED
    BY <2>2, <2>3, <2>4
<1>. QED
  BY <1>2, <1>3

\* The park that shows the worker's track, drawn on, by itself and in its screen.
LEMMA DrawnPark ==
  ASSUME NEW w \in [deck : Decks, track : Tracks, stage : {"peaks", "grid"}],
         NEW k \in ParkedScreens, Belongs(k), k.tune = w.track
  PROVE  /\ Drawn(k, w) \in ParkedScreens /\ Belongs(Drawn(k, w))
         /\ Drawn(k, w).tune = k.tune /\ Drawn(k, w).to = k.to
<1>. DEFINE q == IF w.stage = "peaks" THEN Peaks(w.track, None)
                 ELSE IF k.peaks = None THEN None ELSE [k.peaks EXCEPT !.grid = w.track]
            l == [tune |-> k.tune, peaks |-> q, to |-> k.to]
<1>1. Belongs([tune |-> w.track, peaks |-> k.peaks]) /\ k.peaks \in Drawings
  BY DEF Belongs, ParkedScreens
<1>2. q \in Drawings /\ Belongs([tune |-> w.track, peaks |-> q])
  BY <1>1, DrawnBelongs
<1>3. l \in ParkedScreens /\ Belongs(l)
  BY <1>2 DEF Belongs, ParkedScreens
<1>4. Drawn(k, w) = l
  BY DEF Drawn, ParkedScreens
<1>. QED
  BY <1>3, <1>4

\* So does the screen it is parked on.
LEMMA ParkFits ==
  ASSUME NEW w \in [deck : Decks, track : Tracks, stage : {"peaks", "grid"}],
         NEW x, Fits(x), x.parked # None, x.parked.tune = w.track
  PROVE  Fits([x EXCEPT !.parked = Drawn(@, w)])
<1>. DEFINE l == Drawn(x.parked, w)
<1>1. l \in ParkedScreens /\ Belongs(l)
  BY PartsOf, DrawnPark
<1>2. x \in Screens
  BY DEF Fits
<1>. HIDE DEF l
<1>3. [x EXCEPT !.parked = l] = [tune |-> x.tune, peaks |-> x.peaks, parked |-> l, host |-> x.host]
  BY <1>2, ScreenWith
<1>4. Fits([tune |-> x.tune, peaks |-> x.peaks, parked |-> l, host |-> x.host])
  BY <1>1, PartsOf, ScreenOf
<1>. QED
  BY <1>3, <1>4 DEF l

-----------------------------------------------------------------------------
(* Every step keeps the screens fitting *)

\* A session begins with empty decks, or with a record on each.
LEMMA InvInit ==
  ASSUME Collection
  PROVE  Init => IInv
<1>. SUFFICES ASSUME Init PROVE IInv
  OBVIOUS
<1>0. loads = {} /\ workers = {} /\ None \in Held /\ Blank = [Blank EXCEPT !.tune = None]
  BY DEF Init, Held, Blank
<1>1. CASE Stopped
  <2>1. Fits(Blank)
    BY <1>0, BlankFits
  <2>2. view = [d \in Decks |-> Blank] /\ samples = [s \in Slots |-> None]
    BY <1>1 DEF Stopped
  <2>3. Blank \in Screens
    BY <2>1 DEF Fits
  <2>4. view \in [Decks -> Screens] /\ samples \in [Slots -> Held]
    BY <1>0, <2>2, <2>3
  <2>5. \A d \in Decks : Fits(view[d])
    BY <2>1, <2>2
  <2>. QED
    BY <1>0, <2>4, <2>5, ScreensFit DEF IInv, TypeInv
<1>2. CASE UnderWay
  <2>. DEFINE f == CHOOSE g \in [1..3 -> Tracks] : \A i, j \in 1..3 : g[i] = g[j] => i = j
              record(d) == IF d = DeckA THEN f[1] ELSE f[2]
              screen(d) == [Blank EXCEPT !.tune = record(d), !.peaks = Peaks(record(d), record(d))]
  <2>1. f \in [1..3 -> Tracks]
    BY Collection DEF Collection
  <2>2. view = [d \in Decks |-> screen(d)] /\ samples = [s \in Slots |-> f[3]]
    BY <1>2 DEF UnderWay
  <2>. HIDE DEF f
  <2>3. ASSUME NEW d \in Decks PROVE Fits(screen(d))
    <3>1. record(d) \in Tracks /\ record(d) \in Held
      BY <2>1 DEF Held
    <3>. HIDE DEF record
    <3>. DEFINE p == Peaks(record(d), record(d))
    <3>. HIDE DEF p
    <3>2. screen(d) = [tune |-> record(d), peaks |-> p, parked |-> None, host |-> None]
      BY BlankWith DEF p
    <3>3. p \in Drawings /\ Belongs([tune |-> record(d), peaks |-> p])
      BY <3>1, NewDrawing DEF p
    <3>. QED
      BY <3>1, <3>2, <3>3, ScreenOf
  <2>. HIDE DEF screen
  <2>4. \A d \in Decks : screen(d) \in Screens
    BY <2>3 DEF Fits
  <2>5. view \in [Decks -> Screens] /\ \A d \in Decks : Fits(view[d])
    BY <2>2, <2>3, <2>4
  <2>6. samples \in [Slots -> Held]
    BY <2>1, <2>2 DEF Held
  <2>. QED
    BY <1>0, <2>5, <2>6, ScreensFit DEF IInv, TypeInv
<1>. QED
  BY <1>1, <1>2 DEF Init

\* What the invariant asks of the next screens.
Fit == view' \in [Decks -> Screens] /\ \A d \in Decks : Fits(view'[d])

\* The invariant, taken apart into screens and put together again.
LEMMA InvFits ==
  /\ IInv => TypeInv /\ \A d \in Decks : Fits(view[d]) /\ view[d] \in Screens
  /\ TypeInv' /\ Fit => IInv'
BY DEF IInv, TypeInv, PeaksBelong, Fits, Fit

\* One screen changes.
LEMMA OneFits ==
  ASSUME IInv, NEW d \in Decks, NEW x, Fits(x), view' = [view EXCEPT ![d] = x]
  PROVE  Fit
BY InvFits DEF TypeInv, Fits, Fit

\* Both decks' screens change.
LEMMA BothFit ==
  ASSUME IInv, NEW d \in Decks, NEW x, NEW y, Fits(x), Fits(y),
         view' = [view EXCEPT ![d] = x, ![Other(d)] = y]
  PROVE  Fit
BY InvFits DEF TypeInv, Fits, Fit

\* No screen changes.
LEMMA SameFits ==
  ASSUME IInv, view' = view
  PROVE  Fit
BY InvFits DEF TypeInv, Fit

\* A load that comes in blanks its deck.
LEMMA LoadKeeps ==
  ASSUME IInv, LoadInstall
  PROVE  IInv'
<1>1. PICK l \in loads :
        /\ loads' = loads \ {l} /\ samples' = samples
        /\ \/ /\ view' = [view EXCEPT ![l.deck] = [Blank EXCEPT !.tune = l.track]]
              /\ workers' = workers \cup {[deck |-> l.deck, track |-> l.track, stage |-> "peaks"]}
           \/ UNCHANGED <<view, workers>>
  BY DEF LoadInstall
<1>2. l \in [deck : Decks, track : Tracks] /\ l.track \in Held /\ l.deck \in Decks
  BY DEF IInv, TypeInv, Held
<1>3. Fit
  BY <1>1, <1>2, BlankFits, OneFits, SameFits
<1>4. TypeInv'
  BY <1>1, <1>2, <1>3 DEF IInv, TypeInv, Fit
<1>. QED
  BY <1>3, <1>4, InvFits

\* A worker draws where its track is shown, and nowhere else.
LEMMA AnalyseKeeps ==
  ASSUME IInv, Analyse
  PROVE  IInv'
<1>1. PICK w \in workers :
        /\ samples' = samples /\ loads' = loads
        /\ \/ workers' = workers \ {w}
           \/ workers' = (workers \ {w}) \cup {[w EXCEPT !.stage = "grid"]}
        /\ \/ IsLive(w) /\ view' = [view EXCEPT ![w.deck] = Drawn(@, w)]
           \/ IsParked(w) /\ view' = [view EXCEPT ![w.deck].parked = Drawn(@, w)]
           \/ view' = view
  BY DEF Analyse
<1>2. w \in [deck : Decks, track : Tracks, stage : {"peaks", "grid"}] /\ w.deck \in Decks
      /\ Fits(view[w.deck]) /\ view \in [Decks -> Screens]
  BY InvFits DEF IInv, TypeInv
<1>3. ASSUME IsLive(w), view' = [view EXCEPT ![w.deck] = Drawn(@, w)]
      PROVE  Fit
  <2>1. Fits(Drawn(view[w.deck], w))
    BY <1>2, <1>3, LiveFits DEF IsLive
  <2>. QED
    BY <1>2, <1>3, <2>1, OneFits
<1>4. ASSUME IsParked(w), view' = [view EXCEPT ![w.deck].parked = Drawn(@, w)]
      PROVE  Fit
  <2>1. Fits([view[w.deck] EXCEPT !.parked = Drawn(@, w)])
    BY <1>2, <1>4, ParkFits DEF IsParked
  <2>. QED
    BY <1>2, <1>4, <2>1, OneFits
<1>5. Fit
  BY <1>1, <1>3, <1>4, SameFits
<1>6. workers' \subseteq [deck : Decks, track : Tracks, stage : {"peaks", "grid"}]
  BY <1>1, <1>2 DEF IInv, TypeInv
<1>. QED
  BY <1>1, <1>5, <1>6, InvFits DEF IInv, TypeInv, Fit

\* What a screen that fits still fits after an exchange.
LEMMA PutFits ==
  ASSUME NEW x, Fits(x), NEW t \in Held, NEW p \in Drawings, Belongs([tune |-> t, peaks |-> p]),
         NEW k \in ParkedScreens \cup {None}, k # None => Belongs(k),
         NEW h \in HostedScreens \cup {None}, h # None => Belongs(h)
  PROVE  /\ Fits([x EXCEPT !.tune = t, !.peaks = p])
         /\ Fits([x EXCEPT !.parked = k, !.tune = t, !.peaks = p])
         /\ Fits([x EXCEPT !.tune = t, !.peaks = p, !.host = h])
         /\ Fits([x EXCEPT !.parked = k])
         /\ Fits([x EXCEPT !.host = h])
<1>. DEFINE t0 == x.tune
            p0 == x.peaks
            k0 == x.parked
            h0 == x.host
<1>1. /\ t0 \in Held /\ p0 \in Drawings /\ k0 \in ParkedScreens \cup {None} /\ h0 \in HostedScreens \cup {None}
      /\ Belongs([tune |-> t0, peaks |-> p0])
      /\ k0 # None => Belongs(k0)
      /\ h0 # None => Belongs(h0)
  BY PartsOf
<1>2. x = [tune |-> t0, peaks |-> p0, parked |-> k0, host |-> h0]
  BY PartsOf
<1>. HIDE DEF t0, p0, k0, h0
<1>. DEFINE a == [x EXCEPT !.tune = t]
            b == [a EXCEPT !.peaks = p]
            c == [x EXCEPT !.parked = k]
            d == [c EXCEPT !.tune = t]
            e == [d EXCEPT !.peaks = p]
            f == [b EXCEPT !.host = h]
            g == [x EXCEPT !.host = h]
<1>3. ASSUME NEW t1, NEW p1, NEW k1, NEW h1
      PROVE  [[tune |-> t1, peaks |-> p1, parked |-> k1, host |-> h1] EXCEPT !.tune = t] =
               [tune |-> t, peaks |-> p1, parked |-> k1, host |-> h1]
  OBVIOUS
<1>4. ASSUME NEW t1, NEW p1, NEW k1, NEW h1
      PROVE  [[tune |-> t1, peaks |-> p1, parked |-> k1, host |-> h1] EXCEPT !.peaks = p] =
               [tune |-> t1, peaks |-> p, parked |-> k1, host |-> h1]
  OBVIOUS
<1>5. ASSUME NEW t1, NEW p1, NEW k1, NEW h1
      PROVE  [[tune |-> t1, peaks |-> p1, parked |-> k1, host |-> h1] EXCEPT !.parked = k] =
               [tune |-> t1, peaks |-> p1, parked |-> k, host |-> h1]
  OBVIOUS
<1>6. ASSUME NEW t1, NEW p1, NEW k1, NEW h1
      PROVE  [[tune |-> t1, peaks |-> p1, parked |-> k1, host |-> h1] EXCEPT !.host = h] =
               [tune |-> t1, peaks |-> p1, parked |-> k1, host |-> h]
  OBVIOUS
<1>7. a = [tune |-> t, peaks |-> p0, parked |-> k0, host |-> h0]
  BY <1>2, <1>3
<1>8. c = [tune |-> t0, peaks |-> p0, parked |-> k, host |-> h0]
  BY <1>2, <1>5
<1>9. g = [tune |-> t0, peaks |-> p0, parked |-> k0, host |-> h]
  BY <1>2, <1>6
<1>. HIDE DEF a, c, g
<1>10. b = [tune |-> t, peaks |-> p, parked |-> k0, host |-> h0]
  BY <1>4, <1>7
<1>11. d = [tune |-> t, peaks |-> p0, parked |-> k, host |-> h0]
  BY <1>3, <1>8
<1>. HIDE DEF b, d
<1>12. f = [tune |-> t, peaks |-> p, parked |-> k0, host |-> h]
  BY <1>6, <1>10
<1>13. e = [tune |-> t, peaks |-> p, parked |-> k, host |-> h0]
  BY <1>4, <1>11
<1>. HIDE DEF e, f
<1>14. Fits(b) /\ Fits(e) /\ Fits(f)
  BY <1>1, <1>10, <1>12, <1>13, ScreenOf
<1>15. Fits(c) /\ Fits(g)
  BY <1>1, <1>8, <1>9, ScreenOf
<1>. QED
  BY <1>14, <1>15, Zenon DEF a, b, c, d, e, f, g

\* The steps that leave every screen alone.
LEMMA QuietKeep ==
  ASSUME IInv, Start \/ LoadBegin \/ BindSample \/ Transport \/ Apply \/ Platter
  PROVE  IInv'
<1>1. view' = view /\ workers' = workers
  BY DEF Start, LoadBegin, BindSample, Transport, Apply, Platter
<1>2. Fresh # {} => Decoded \in Tracks
  BY DEF Decoded, Fresh
<1>3. loads' \subseteq [deck : Decks, track : Tracks]
  BY <1>2 DEF Start, LoadBegin, BindSample, Transport, Apply, Platter, IInv, TypeInv
<1>4. samples' \in [Slots -> Held]
  BY <1>2 DEF Start, LoadBegin, BindSample, Transport, Apply, Platter, IInv, TypeInv, Held
<1>. QED
  BY <1>1, <1>3, <1>4, SameFits, InvFits DEF IInv, TypeInv, Fit

\* Stopping the session blanks every screen.
LEMMA StopKeeps ==
  ASSUME IInv, Stop
  PROVE  IInv'
<1>1. Blank = [Blank EXCEPT !.tune = None] /\ None \in Held
  BY DEF Blank, Held
<1>2. Fits(Blank)
  BY <1>1, BlankFits
<1>3. /\ view' = [d \in Decks |-> Blank] /\ samples' = [s \in Slots |-> None]
      /\ loads' = loads /\ workers' = workers
  BY DEF Stop
<1>4. Fit
  BY <1>2, <1>3 DEF Fit, Fits
<1>. QED
  BY <1>1, <1>3, <1>4, InvFits DEF IInv, TypeInv, Fit

\* Thru takes the tune away and leaves a drawing that belongs to none.
LEMMA ModeKeeps ==
  ASSUME IInv, SetMode
  PROVE  IInv'
<1>1. PICK d \in Decks : \/ view' = [view EXCEPT ![d] = [Blank EXCEPT !.peaks = view[d].peaks]]
                         \/ view' = view
  BY DEF SetMode
<1>2. UNCHANGED <<samples, loads, workers>>
  BY DEF SetMode
<1>. DEFINE p == view[d].peaks
<1>3. Fits(view[d]) /\ p \in Drawings /\ Belongs([tune |-> view[d].tune, peaks |-> p])
  BY InvFits, PartsOf
<1>. HIDE DEF p
<1>4. Belongs([tune |-> None, peaks |-> p]) /\ None \in Held
  BY <1>3 DEF Belongs, Held
<1>5. Fits([tune |-> None, peaks |-> p, parked |-> None, host |-> None])
  BY <1>3, <1>4, ScreenOf
<1>6. Fits([Blank EXCEPT !.peaks = p])
  BY <1>5, BlankWith, Zenon
<1>7. Fit
  BY <1>1, <1>6, OneFits, SameFits DEF p
<1>. QED
  BY <1>2, <1>7, InvFits DEF IInv, TypeInv, Fit

\* Instant Doubles copies a tune with the drawing that belongs to it.
LEMMA DoubleKeeps ==
  ASSUME IInv, Double
  PROVE  IInv'
<1>1. PICK d \in Decks :
        view' = [view EXCEPT ![Other(d)] = [Blank EXCEPT !.tune = view[d].tune, !.peaks = view[d].peaks]]
  BY DEF Double
<1>2. UNCHANGED <<samples, loads, workers>> /\ Other(d) \in Decks
  BY DEF Double, Other, Decks
<1>. DEFINE t == view[d].tune
            p == view[d].peaks
<1>3. Fits(view[d]) /\ t \in Held /\ p \in Drawings /\ Belongs([tune |-> t, peaks |-> p])
  BY InvFits, PartsOf
<1>. HIDE DEF t, p
<1>4. Fits([tune |-> t, peaks |-> p, parked |-> None, host |-> None])
  BY <1>3, ScreenOf
<1>5. Fits([Blank EXCEPT !.tune = t, !.peaks = p])
  BY <1>4, BlankWith, Zenon
<1>6. Fit
  BY <1>1, <1>2, <1>5, OneFits DEF t, p
<1>. QED
  BY <1>2, <1>6, InvFits DEF IInv, TypeInv, Fit

\* Three updates of one deck are one update of its screen.
LEMMA DeckPut ==
  ASSUME NEW f \in [Decks -> Screens], NEW d \in Decks, NEW k, NEW t, NEW p
  PROVE  [f EXCEPT ![d].parked = k, ![d].tune = t, ![d].peaks = p] =
           [f EXCEPT ![d] = [f[d] EXCEPT !.parked = k, !.tune = t, !.peaks = p]]
<1>. DEFINE x1 == [f[d] EXCEPT !.parked = k]
            x2 == [x1 EXCEPT !.tune = t]
            x3 == [x2 EXCEPT !.peaks = p]
            f1 == [f EXCEPT ![d] = x1]
            f2 == [f1 EXCEPT ![d] = [f1[d] EXCEPT !.tune = t]]
            f3 == [f2 EXCEPT ![d] = [f2[d] EXCEPT !.peaks = p]]
<1>. HIDE DEF x1
<1>1. f1[d] = x1
  OBVIOUS
<1>. HIDE DEF f1
<1>2. f2 = [f1 EXCEPT ![d] = x2]
  BY <1>1
<1>3. f1 \in [Decks -> Screens \cup {x1}]
  BY DEF f1
<1>. HIDE DEF f2, x2
<1>4. f2[d] = x2
  BY <1>2, <1>3
<1>5. f3 = [f2 EXCEPT ![d] = x3]
  BY <1>4
<1>. HIDE DEF f3, x3
<1>6. f3 = [f EXCEPT ![d] = x3]
  BY <1>2, <1>5 DEF f1
<1>. QED
  BY <1>6, Zenon DEF f1, f2, f3, x1, x2, x3

\* A scratch parks the tune of the deck with its drawing, and hosts a doubled
\* one on the other deck; the sample shows no drawing yet.
LEMMA EngageKeeps ==
  ASSUME IInv, EngageScratch
  PROVE  IInv'
<1>. DEFINE hosted(o, d) == [tune |-> view[d].tune, peaks |-> view[d].peaks, parked |-> None,
                             host |-> [tune |-> view[o].tune, peaks |-> view[o].peaks]]
            base(d, to) == IF to = None THEN view ELSE [view EXCEPT ![Other(d)] = hosted(Other(d), d)]
<1>1. PICK d \in Decks, s \in Slots :
        /\ samples[s] # None
        /\ view' = [base(d, GoesTo(d)) EXCEPT
             ![d].parked = IF @ = None THEN Before(d, GoesTo(d)) ELSE @,
             ![d].tune = samples[s],
             ![d].peaks = Peaks(samples[s], None)]
  BY Zenon DEF EngageScratch
<1>2. UNCHANGED <<samples, loads, workers>>
  BY DEF EngageScratch
<1>. DEFINE o == Other(d)
            to == GoesTo(d)
            B == base(d, to)
            t == samples[s]
            p == Peaks(t, None)
            k == IF B[d].parked = None THEN Before(d, to) ELSE B[d].parked
            x == [B[d] EXCEPT !.parked = k, !.tune = t, !.peaks = p]
<1>3. o \in Decks /\ o # d /\ to \in Decks \cup {None} /\ view \in [Decks -> Screens]
  BY DecksAssumption DEF Other, Decks, GoesTo, IInv, TypeInv
<1>4. t \in Held /\ p \in Drawings /\ Belongs([tune |-> t, peaks |-> p])
  <2>1. t \in Tracks
    BY <1>1 DEF IInv, TypeInv, Held
  <2>. QED
    BY <2>1, NewDrawing DEF Held
<1>5. Fits(view[d]) /\ Fits(view[o])
  BY <1>3, InvFits
<1>6. Fits(hosted(o, d))
  <2>. DEFINE h == [tune |-> view[o].tune, peaks |-> view[o].peaks]
  <2>1. h \in HostedScreens /\ Belongs(h)
    BY <1>5, PartsOf DEF HostedScreens
  <2>2. /\ view[d].tune \in Held /\ view[d].peaks \in Drawings
        /\ Belongs([tune |-> view[d].tune, peaks |-> view[d].peaks])
    BY <1>5, PartsOf
  <2>. HIDE DEF h
  <2>3. Fits([tune |-> view[d].tune, peaks |-> view[d].peaks, parked |-> None, host |-> h])
    BY <2>1, <2>2, ScreenOf
  <2>. QED
    BY <2>3 DEF h
<1>. HIDE DEF hosted
<1>7. B \in [Decks -> Screens] /\ B[d] = view[d] /\ Fits(B[o])
  BY <1>3, <1>5, <1>6 DEF Fits
<1>8. k \in ParkedScreens \cup {None} /\ (k # None => Belongs(k))
  <2>1. Before(d, to) \in ParkedScreens /\ Belongs(Before(d, to))
    <3>1. /\ view[d].tune \in Held /\ view[d].peaks \in Drawings
          /\ Belongs([tune |-> view[d].tune, peaks |-> view[d].peaks])
      BY <1>5, PartsOf
    <3>. QED
      BY <1>3, <3>1 DEF Before, ParkedScreens, Belongs
  <2>2. view[d].parked \in ParkedScreens \cup {None} /\ (view[d].parked # None => Belongs(view[d].parked))
    BY <1>5, PartsOf
  <2>. HIDE DEF B, to
  <2>. QED
    BY <1>7, <2>1, <2>2
<1>9. view' = [B EXCEPT ![d] = x]
  <2>1. view' = [B EXCEPT ![d].parked = k, ![d].tune = t, ![d].peaks = p]
    BY <1>1, Zenon
  <2>. HIDE DEF B, k, t, p
  <2>. QED
    BY <1>7, <2>1, DeckPut, Zenon
<1>. HIDE DEF B, k, t, p, o, to
<1>10. Fits(x)
  BY <1>4, <1>5, <1>7, <1>8, PutFits, Zenon
<1>. HIDE DEF x
<1>11. Fit
  <2>1. \A e \in Decks : e = d \/ e = o
    BY <1>3 DEF Decks
  <2>. QED
    BY <1>3, <1>7, <1>9, <1>10, <2>1 DEF Fit, Fits
<1>. QED
  BY <1>2, <1>11, InvFits DEF IInv, TypeInv, Fit

\* The end of a scratch gives a drawing back together with its tune: the one
\* parked, or the one the other deck shows of the same tune.
LEMMA ReleaseKeeps ==
  ASSUME IInv, ReleaseScratch
  PROVE  IInv'
<1>. DEFINE o(d) == Other(d)
            P(d) == view[d].parked
            own(d) == IF view[o(d)].peaks = None THEN P(d).peaks ELSE view[o(d)].peaks
            home(d) == [view[d] EXCEPT !.parked = None, !.tune = view[o(d)].tune, !.peaks = own(d)]
            left(d) == IF view[o(d)].host = None THEN [view[o(d)] EXCEPT !.tune = None, !.peaks = None]
                       ELSE [view[o(d)] EXCEPT !.tune = view[o(d)].host.tune,
                                               !.peaks = view[o(d)].host.peaks, !.host = None]
            alone(d) == [view[d] EXCEPT !.parked = None, !.tune = P(d).tune, !.peaks = P(d).peaks]
<1>1. PICK d \in Decks :
        /\ P(d) # None
        /\ \/ /\ view[o(d)].tune = P(d).tune
              /\ view' = [view EXCEPT ![d] = home(d), ![Other(d)] = left(d)]
           \/ view' = [view EXCEPT ![d] = alone(d), ![Other(d)] = [view[o(d)] EXCEPT !.host = None]]
           \/ view' = [view EXCEPT ![d] = [view[d] EXCEPT !.parked = None]]
  <2>1. PICK d \in Decks :
          LET p == view[d].parked
              back == p.tune # None /\ view[Other(d)].tune = p.tune
              homed == [view EXCEPT
                ![d] = [@ EXCEPT !.parked = None, !.tune = view[Other(d)].tune,
                                 !.peaks = IF view[Other(d)].peaks = None THEN p.peaks
                                           ELSE view[Other(d)].peaks],
                ![Other(d)] = IF @.host = None THEN [@ EXCEPT !.tune = None, !.peaks = None]
                              ELSE [@ EXCEPT !.tune = view[Other(d)].host.tune,
                                             !.peaks = view[Other(d)].host.peaks, !.host = None]]
              freed == [view EXCEPT
                ![d] = [@ EXCEPT !.parked = None, !.tune = p.tune, !.peaks = p.peaks],
                ![Other(d)].host = None]
          IN /\ p # None
             /\ \/ view' = IF back THEN homed ELSE freed
                \/ view' = [view EXCEPT ![d].parked = None]
    BY Zenon DEF ReleaseScratch
  <2>2. Other(d) # d /\ Other(d) \in Decks /\ view \in [Decks -> Screens]
    BY DecksAssumption DEF Other, Decks, IInv, TypeInv
  <2>3. /\ [view EXCEPT ![d] = home(d)][Other(d)] = view[Other(d)]
        /\ [view EXCEPT ![d] = alone(d)][Other(d)] = view[Other(d)]
    <3>. HIDE DEF home, alone
    <3>. QED
      BY <2>2
  <2>. QED
    BY <2>1, <2>2, <2>3, Zenon
<1>2. UNCHANGED <<samples, loads, workers>>
  BY DEF ReleaseScratch
<1>3. Other(d) \in Decks /\ Fits(view[d]) /\ Fits(view[Other(d)]) /\ None \in Held /\ None \in Drawings
      /\ Belongs([tune |-> None, peaks |-> None])
  BY InvFits, NewDrawing DEF Other, Decks, Held, Drawings
<1>4. P(d) \in ParkedScreens /\ Belongs(P(d)) /\ P(d).tune \in Held /\ P(d).peaks \in Drawings
      /\ Belongs([tune |-> P(d).tune, peaks |-> P(d).peaks])
  <2>1. P(d) \in ParkedScreens /\ Belongs(P(d))
    BY <1>1, <1>3, PartsOf
  <2>. QED
    BY <2>1 DEF ParkedScreens, Belongs
<1>5. view[Other(d)].tune \in Held /\ view[Other(d)].peaks \in Drawings
      /\ Belongs([tune |-> view[Other(d)].tune, peaks |-> view[Other(d)].peaks])
  BY <1>3, PartsOf
<1>6. Fits(left(d))
  <2>. DEFINE y == view[Other(d)]
              h == y.host
  <2>1. CASE h = None
    <3>1. Fits([y EXCEPT !.tune = None, !.peaks = None])
      BY <1>3, PutFits, Zenon
    <3>. QED
      BY <2>1, <3>1
  <2>2. CASE h # None
    <3>1. h \in HostedScreens /\ Belongs(h)
      BY <1>3, <2>2, PartsOf
    <3>2. h.tune \in Held /\ h.peaks \in Drawings /\ Belongs([tune |-> h.tune, peaks |-> h.peaks])
      BY <3>1 DEF HostedScreens, Belongs
    <3>3. Fits([y EXCEPT !.tune = h.tune, !.peaks = h.peaks, !.host = None])
      BY <1>3, <3>2, PutFits, Zenon
    <3>. QED
      BY <2>2, <3>3
  <2>. QED
    BY <2>1, <2>2
<1>7. ASSUME view[o(d)].tune = P(d).tune, view' = [view EXCEPT ![d] = home(d), ![Other(d)] = left(d)]
      PROVE  Fit
  <2>1. own(d) \in Drawings /\ Belongs([tune |-> view[o(d)].tune, peaks |-> own(d)])
    BY <1>4, <1>5, <1>7
  <2>. HIDE DEF own
  <2>2. Fits(home(d))
    BY <1>3, <1>5, <2>1, PutFits, Zenon
  <2>. HIDE DEF home, left
  <2>. QED
    BY <1>6, <1>7, <2>2, BothFit
<1>8. ASSUME view' = [view EXCEPT ![d] = alone(d), ![Other(d)] = [view[o(d)] EXCEPT !.host = None]]
      PROVE  Fit
  <2>1. Fits(alone(d))
    BY <1>3, <1>4, PutFits, Zenon
  <2>2. Fits([view[Other(d)] EXCEPT !.host = None])
    BY <1>3, PutFits, Zenon
  <2>. HIDE DEF alone
  <2>. QED
    BY <1>8, <2>1, <2>2, BothFit
<1>9. ASSUME view' = [view EXCEPT ![d] = [view[d] EXCEPT !.parked = None]]
      PROVE  Fit
  <2>1. Fits([view[d] EXCEPT !.parked = None])
    BY <1>3, PutFits, Zenon
  <2>. QED
    BY <1>9, <2>1, OneFits
<1>10. Fit
  BY <1>1, <1>7, <1>8, <1>9, Zenon
<1>. QED
  BY <1>2, <1>10, InvFits DEF IInv, TypeInv, Fit

-----------------------------------------------------------------------------
(* What a command does to what is on the decks *)

\* The face of an engine: the track on a deck, the tune parked there, where it
\* was doubled to and what was displaced by it, and the samples.
NoKeep == [on |-> FALSE, track |-> None, to |-> None, host |-> None]
Keeps == [on : BOOLEAN, track : Held, to : Decks \cup {None}, host : Held]
Faces == [src : [Decks -> Held], park : [Decks -> Keeps], samp : [Slots -> Held]]
KeepOf(p) ==
  IF p = None THEN NoKeep
  ELSE [on |-> TRUE, track |-> p.track, to |-> p.doubled,
        host |-> IF p.host = None THEN None ELSE p.host.track]
Face(e) == [src |-> [d \in Decks |-> e.deck[d].src],
            park |-> [d \in Decks |-> KeepOf(e.park[d])],
            samp |-> e.samp]

\* An engine that keeps a record of the host exactly of a doubled tune.
PairedPark(p) == p # None => (p.host = None <=> p.doubled = None)
Fine(e) == e \in Engines /\ \A d \in Decks : PairedPark(e.park[d])

\* A deck gets a track and a park; a slot gets a sample.
With(f, d, t, k) == [src |-> [f.src EXCEPT ![d] = t], park |-> [f.park EXCEPT ![d] = k], samp |-> f.samp]
Sampled(f, s, t) == [src |-> f.src, park |-> f.park, samp |-> [f.samp EXCEPT ![s] = t]]

\* The commands, on faces.
FaceDouble(f, d, to) == With(f, to, IF f.src[d] = None THEN f.src[to] ELSE f.src[d], NoKeep)
FaceEngage(f, d, s, to) ==
  IF f.samp[s] = None THEN f
  ELSE IF f.park[d].on THEN With(f, d, f.samp[s], f.park[d])
  ELSE IF to \in Decks \ {d} /\ f.src[d] # None
       THEN With(With(f, to, f.src[d], NoKeep), d, f.samp[s],
                 [on |-> TRUE, track |-> f.src[d], to |-> to, host |-> f.src[to]])
       ELSE With(f, d, f.samp[s], [on |-> TRUE, track |-> f.src[d], to |-> None, host |-> None])
Live(f, d) == f.park[d].track # None /\ f.park[d].to # None /\ f.src[f.park[d].to] = f.park[d].track
FaceRelease(f, d) ==
  LET k == f.park[d]
  IN IF ~k.on THEN f
     ELSE With(IF Live(f, d) THEN With(f, k.to, k.host, f.park[k.to]) ELSE f, d, k.track, NoKeep)
Faced(f, c) ==
  CASE c.op = "load" -> With(f, c.deck, c.track, NoKeep)
    [] c.op = "sample" -> Sampled(f, c.slot, c.track)
    [] c.op = "clear" -> Sampled(f, c.slot, None)
    [] c.op \in {"gain", "play", "pause"} -> f
    [] c.op = "mode" -> IF c.mode = "Thru" THEN With(f, c.deck, None, NoKeep) ELSE f
    [] c.op = "engage" -> FaceEngage(f, c.deck, c.slot, c.to)
    [] c.op = "release" -> FaceRelease(f, c.deck)
    [] c.op = "double" -> FaceDouble(f, c.deck, c.to)

\* The commands of the application.
Commands ==
  [op : {"load"}, deck : Decks, track : Tracks] \cup [op : {"sample"}, slot : Slots, track : Tracks]
    \cup [op : {"clear", "gain"}, slot : Slots] \cup [op : {"play", "pause", "release"}, deck : Decks]
    \cup [op : {"mode"}, deck : Decks, mode : Modes]
    \cup [op : {"engage"}, deck : Decks, slot : Slots, to : Decks \cup {None}]
    \cup {c \in [op : {"double"}, deck : Decks, to : Decks] : c.deck # c.to}

\* What the assumptions say of the constants.
LEMMA Constants ==
  /\ None \notin Tracks /\ None \notin Decks /\ None \notin Hosts /\ None \notin Parks
  /\ None \in Held /\ FadeBlocks \in 0..FadeBlocks /\ NoKeep \in Keeps
  /\ Decks = {DeckA, DeckB} /\ DeckA # DeckB
BY TracksAssumption, BoundsAssumption, NoneAssumption, DecksAssumption DEF Decks, Held, Keeps, NoKeep

\* With replaces one deck.
LEMMA WithIs ==
  ASSUME NEW f \in Faces, NEW d \in Decks, NEW t \in Held, NEW k \in Keeps
  PROVE  With(f, d, t, k) \in Faces
BY DEF With, Faces

\* What is on the deck that got something, and what stays.
LEMMA WithHas ==
  ASSUME NEW f \in Faces, NEW d \in Decks, NEW t, NEW k
  PROVE  /\ With(f, d, t, k).src[d] = t /\ With(f, d, t, k).park[d] = k
         /\ \A c \in Decks \ {d} : With(f, d, t, k).src[c] = f.src[c] /\ With(f, d, t, k).park[c] = f.park[c]
         /\ With(f, d, t, k).samp = f.samp
BY DEF With, Faces

\* The last one counts.
LEMMA WithTwice ==
  ASSUME NEW f \in Faces, NEW d \in Decks, NEW t, NEW k, NEW u, NEW l
  PROVE  With(With(f, d, t, k), d, u, l) = With(f, d, u, l)
BY DEF With, Faces

\* A deck that gets what it has.
LEMMA WithOwn ==
  ASSUME NEW f \in Faces, NEW d \in Decks
  PROVE  With(f, d, f.src[d], f.park[d]) = f
<1>1. f.src \in [Decks -> Held] /\ f.park \in [Decks -> Keeps]
      /\ f = [src |-> f.src, park |-> f.park, samp |-> f.samp]
  BY DEF Faces
<1>. QED
  BY <1>1 DEF With

\* Two decks may be served in any order.
LEMMA WithSwap ==
  ASSUME NEW f \in Faces, NEW c \in Decks, NEW d \in Decks, c # d, NEW t, NEW k, NEW u, NEW l
  PROVE  With(With(f, c, t, k), d, u, l) = With(With(f, d, u, l), c, t, k)
<1>1. f.src \in [Decks -> Held] /\ f.park \in [Decks -> Keeps]
  BY DEF Faces
<1>2. [[f.src EXCEPT ![c] = t] EXCEPT ![d] = u] = [[f.src EXCEPT ![d] = u] EXCEPT ![c] = t]
  BY <1>1
<1>3. [[f.park EXCEPT ![c] = k] EXCEPT ![d] = l] = [[f.park EXCEPT ![d] = l] EXCEPT ![c] = k]
  BY <1>1
<1>. QED
  BY <1>2, <1>3 DEF With

\* The face of an engine is a face.
LEMMA FaceIs ==
  ASSUME NEW e, Fine(e)
  PROVE  /\ Face(e) \in Faces
         /\ \A d \in Decks : /\ e.deck[d] \in DeckStates /\ Face(e).src[d] = e.deck[d].src
                             /\ Face(e).park[d] = KeepOf(e.park[d])
                             /\ Face(e).src[d] \in Held /\ Face(e).park[d] \in Keeps
                             /\ Face(e).park[d].on = (e.park[d] # None)
         /\ Face(e).samp = e.samp /\ \A s \in Slots : e.samp[s] \in Held
<1>1. \A d \in Decks : e.deck[d] \in DeckStates /\ e.park[d] \in Parks \cup {None}
  BY DEF Fine, Engines
<1>2. \A d \in Decks : KeepOf(e.park[d]) \in Keeps /\ KeepOf(e.park[d]).on = (e.park[d] # None)
  BY <1>1, Constants DEF KeepOf, Keeps, Parks, Hosts, NoKeep
<1>3. \A d \in Decks : e.deck[d].src \in Held
  BY <1>1 DEF DeckStates
<1>4. e.samp \in [Slots -> Held]
  BY DEF Fine, Engines
<1>. QED
  BY <1>1, <1>2, <1>3, <1>4 DEF Face, Faces

\* Two engines that differ on one deck, and two that do not differ in what shows.
LEMMA FaceWith ==
  ASSUME NEW e, NEW g, Fine(e), Fine(g), NEW d \in Decks, g.samp = e.samp,
         \A c \in Decks \ {d} : g.deck[c].src = e.deck[c].src /\ g.park[c] = e.park[c]
  PROVE  Face(g) = With(Face(e), d, g.deck[d].src, KeepOf(g.park[d]))
BY DEF Face, With

\* An engine that differs in nothing that shows.
LEMMA FaceSame ==
  ASSUME NEW e, NEW g, g.samp = e.samp,
         \A c \in Decks : g.deck[c].src = e.deck[c].src /\ g.park[c] = e.park[c]
  PROVE  Face(g) = Face(e)
BY DEF Face

\* Same says that nothing but ramps, transport, modes and trash differ.
Same(e, g) == Fine(g) /\ Face(g) = Face(e) /\ g.park = e.park

\* One field of a deck, or one field of an engine.
LEMMA StateWith ==
  ASSUME NEW x \in DeckStates
  PROVE  /\ \A v \in Held : [x EXCEPT !.src = v] \in DeckStates
         /\ [x EXCEPT !.playing = TRUE] \in DeckStates
         /\ [x EXCEPT !.playing = FALSE] \in DeckStates
         /\ \A v \in Held : [x EXCEPT !.prev = v] \in DeckStates
         /\ \A v \in 0..FadeBlocks : [x EXCEPT !.fade = v] \in DeckStates
         /\ \A v \in Held : [x EXCEPT !.pending = v] \in DeckStates
         /\ \A v \in SUBSET Tracks : [x EXCEPT !.dropped = v] \in DeckStates
BY DEF DeckStates

\* A deck is replaced: its track shows.
LEMMA DeckPutShows ==
  ASSUME NEW e, Fine(e), NEW d \in Decks, NEW y \in DeckStates
  PROVE  LET g == [e EXCEPT !.deck[d] = y] IN
           /\ Fine(g) /\ Face(g) = With(Face(e), d, y.src, Face(e).park[d])
           /\ g.deck[d] = y /\ g.park = e.park /\ g.mode = e.mode /\ g.prior = e.prior
<1>. DEFINE g == [e EXCEPT !.deck[d] = y]
<1>1. /\ g \in Engines /\ g.deck[d] = y /\ \A c \in Decks \ {d} : g.deck[c] = e.deck[c]
      /\ g.park = e.park /\ g.mode = e.mode /\ g.prior = e.prior /\ g.samp = e.samp
  BY DEF Engines, Fine
<1>. HIDE DEF g
<1>2. Fine(g)
  BY <1>1 DEF Fine
<1>3. Face(g) = With(Face(e), d, g.deck[d].src, KeepOf(g.park[d]))
  BY <1>1, <1>2, FaceWith
<1>4. Face(e).park[d] = KeepOf(e.park[d])
  BY FaceIs
<1>. QED
  BY <1>1, <1>2, <1>3, <1>4 DEF g

\* A park is replaced: what is parked shows.
LEMMA ParkPutShows ==
  ASSUME NEW e, Fine(e), NEW d \in Decks, NEW p \in Parks \cup {None}, PairedPark(p)
  PROVE  LET g == [e EXCEPT !.park[d] = p] IN
           /\ Fine(g) /\ Face(g) = With(Face(e), d, Face(e).src[d], KeepOf(p))
           /\ g.deck = e.deck /\ g.park[d] = p /\ g.mode = e.mode /\ g.prior = e.prior
<1>. DEFINE g == [e EXCEPT !.park[d] = p]
<1>1. /\ g \in Engines /\ g.deck = e.deck
      /\ g.park[d] = p /\ \A c \in Decks \ {d} : g.park[c] = e.park[c]
      /\ g.mode = e.mode /\ g.prior = e.prior /\ g.samp = e.samp
  BY DEF Engines, Fine
<1>. HIDE DEF g
<1>2. Fine(g)
  BY <1>1 DEF Fine
<1>3. Face(g) = With(Face(e), d, g.deck[d].src, KeepOf(g.park[d]))
  BY <1>1, <1>2, FaceWith
<1>4. Face(e).src[d] = e.deck[d].src
  BY FaceIs
<1>. QED
  BY <1>1, <1>2, <1>3, <1>4 DEF g

\* A control mode, or the one to be restored, does not show.
LEMMA ModePutShows ==
  ASSUME NEW e, Fine(e), NEW d \in Decks
  PROVE  /\ \A m \in Modes : LET g == [e EXCEPT !.mode[d] = m] IN Same(e, g) /\ g.deck = e.deck /\ g.prior = e.prior
         /\ \A m \in (Modes \ {"Internal"}) \cup {None} :
              LET g == [e EXCEPT !.prior[d] = m] IN Same(e, g) /\ g.deck = e.deck /\ g.mode = e.mode
<1>1. ASSUME NEW m \in Modes
      PROVE  LET g == [e EXCEPT !.mode[d] = m] IN Same(e, g) /\ g.deck = e.deck /\ g.prior = e.prior
  <2>. DEFINE g == [e EXCEPT !.mode[d] = m]
  <2>1. g \in Engines /\ g.deck = e.deck /\ g.park = e.park /\ g.samp = e.samp /\ g.prior = e.prior
    BY DEF Engines, Fine
  <2>. HIDE DEF g
  <2>2. Same(e, g)
    BY <2>1, FaceSame DEF Same, Fine
  <2>. QED
    BY <2>1, <2>2 DEF g
<1>2. ASSUME NEW m \in (Modes \ {"Internal"}) \cup {None}
      PROVE  LET g == [e EXCEPT !.prior[d] = m] IN Same(e, g) /\ g.deck = e.deck /\ g.mode = e.mode
  <2>. DEFINE g == [e EXCEPT !.prior[d] = m]
  <2>1. g \in Engines /\ g.deck = e.deck /\ g.park = e.park /\ g.samp = e.samp /\ g.mode = e.mode
    BY DEF Engines, Fine
  <2>. HIDE DEF g
  <2>2. Same(e, g)
    BY <2>1, FaceSame DEF Same, Fine
  <2>. QED
    BY <2>1, <2>2 DEF g
<1>. QED
  BY <1>1, <1>2

\* A slot is loaded or cleared.
LEMMA SamplePutShows ==
  ASSUME NEW e, Fine(e), NEW s \in Slots, NEW t \in Held
  PROVE  LET g == [e EXCEPT !.samp[s] = t] IN Fine(g) /\ Face(g) = Sampled(Face(e), s, t)
<1>. DEFINE g == [e EXCEPT !.samp[s] = t]
<1>1. /\ g \in Engines /\ g.deck = e.deck /\ g.park = e.park /\ g.samp = [e.samp EXCEPT ![s] = t]
  BY DEF Engines, Fine
<1>. HIDE DEF g
<1>2. Fine(g)
  BY <1>1 DEF Fine
<1>3. Face(g) = Sampled(Face(e), s, t)
  BY <1>1 DEF Face, Sampled
<1>. QED
  BY <1>2, <1>3 DEF g

\* A transport change of a deck, and what it leaves of the track.
LEMMA DeclickIs ==
  ASSUME NEW x \in DeckStates
  PROVE  StartDeclick(x) \in DeckStates /\ StartDeclick(x).src = x.src
<1>. DEFINE p == IF x.pending = None THEN x.prev ELSE x.pending
            q == IF x.pending = None THEN x.dropped ELSE x.dropped \cup ({x.prev} \ {None})
            a == [x EXCEPT !.prev = x.src]
            b == [a EXCEPT !.fade = FadeBlocks]
            c == [b EXCEPT !.pending = p]
            y == [c EXCEPT !.dropped = q]
<1>1. /\ x.src \in Held /\ p \in Held /\ q \in SUBSET Tracks
  BY DEF DeckStates, Held
<1>2. StartDeclick(x) = y
  BY DEF StartDeclick
<1>3. y.src = x.src
  BY DEF DeckStates
<1>. HIDE DEF p, q
<1>4. a \in DeckStates
  BY <1>1, StateWith
<1>. HIDE DEF a
<1>5. b \in DeckStates
  BY <1>4, StateWith, Constants
<1>. HIDE DEF b
<1>6. c \in DeckStates
  BY <1>1, <1>5, StateWith
<1>. HIDE DEF c
<1>7. y \in DeckStates
  BY <1>1, <1>6, StateWith
<1>. HIDE DEF y
<1>. QED
  BY <1>2, <1>3, <1>7

\* A seek leaves the track.
LEMMA PositionIs ==
  ASSUME NEW x \in DeckStates
  PROVE  SetPosition(x) \in DeckStates /\ SetPosition(x).src = x.src
BY DeclickIs DEF SetPosition

\* A swap brings the new track.
LEMMA SwapIs ==
  ASSUME NEW x \in DeckStates, NEW u \in Held
  PROVE  SwapSource(x, u) \in DeckStates /\ SwapSource(x, u).src = u
<1>. DEFINE y == StartDeclick(x)
<1>. HIDE DEF y
<1>1. [y EXCEPT !.src = u] \in DeckStates /\ [y EXCEPT !.src = u].src = u
  BY DeclickIs, StateWith DEF y, DeckStates
<1>. QED
  BY <1>1 DEF SwapSource, y

\* A deck is emptied.
LEMMA ClearIs ==
  ASSUME NEW x \in DeckStates
  PROVE  ClearSource(x) \in DeckStates /\ ClearSource(x).src = None
BY SwapIs, Constants DEF ClearSource

\* Play and pause leave the track.
LEMMA PlayingIs ==
  ASSUME NEW x \in DeckStates, NEW on \in BOOLEAN
  PROVE  SetPlaying(x, on) \in DeckStates /\ SetPlaying(x, on).src = x.src
<1>. DEFINE y == IF x.playing = on THEN x ELSE StartDeclick(x)
            z == [y EXCEPT !.playing = on]
<1>1. y \in DeckStates /\ y.src = x.src
  BY DeclickIs
<1>2. SetPlaying(x, on) = z
  BY DEF SetPlaying
<1>. HIDE DEF y
<1>3. z = [y EXCEPT !.playing = TRUE] \/ z = [y EXCEPT !.playing = FALSE]
  OBVIOUS
<1>4. z.src = y.src
  BY <1>1 DEF DeckStates
<1>. HIDE DEF z
<1>5. z \in DeckStates
  BY <1>1, <1>3, StateWith
<1>. QED
  BY <1>1, <1>2, <1>4, <1>5

\* The trash and the sweep do not show.
LEMMA TrashShows ==
  ASSUME NEW e, Fine(e), NEW t \in Held
  PROVE  LET g == Trash(e, t) IN
           Same(e, g) /\ g.deck = e.deck /\ g.mode = e.mode /\ g.prior = e.prior
<1>1. CASE t = None
  BY <1>1 DEF Trash, Same
<1>2. CASE t # None
  <2>. DEFINE q == Append(e.out, t)
              g == [e EXCEPT !.out = q]
  <2>1. t \in Tracks /\ e.out \in Seq(Tracks)
    BY <1>2 DEF Held, Engines, Fine
  <2>2. q \in Seq(Tracks)
    BY <2>1
  <2>. HIDE DEF q
  <2>3. /\ g \in Engines /\ g.deck = e.deck /\ g.park = e.park /\ g.samp = e.samp
        /\ g.mode = e.mode /\ g.prior = e.prior
    BY <2>2 DEF Engines, Fine
  <2>4. Trash(e, t) = g
    BY <1>2 DEF Trash, q
  <2>. HIDE DEF g
  <2>5. Same(e, g)
    BY <2>3, FaceSame DEF Same, Fine
  <2>. QED
    BY <2>3, <2>4, <2>5
<1>. QED
  BY <1>1, <1>2

\* Sweeping a deck empties its ramp, which does not show.
LEMMA SweepShows ==
  ASSUME NEW e, Fine(e), NEW d \in Decks
  PROVE  Same(e, Sweep(e, d))
<1>. DEFINE x == e.deck[d]
            over == IF x.fade = 0 THEN x.prev ELSE None
            kept == IF x.fade = 0 THEN None ELSE x.prev
            a == Trash(e, x.pending)
            b == Trash(a, over)
            w == [x EXCEPT !.pending = None]
            y == [x EXCEPT !.pending = None, !.prev = kept]
            g == [b EXCEPT !.deck[d] = y]
<1>1. x \in DeckStates /\ x.pending \in Held /\ over \in Held /\ kept \in Held
  BY FaceIs, Constants DEF DeckStates
<1>2. Sweep(e, d) = g
  BY DEF Sweep
<1>3. w \in DeckStates
  BY <1>1, StateWith, Constants
<1>4. y = [w EXCEPT !.prev = kept]
  OBVIOUS
<1>5. y.src = x.src
  BY <1>1 DEF DeckStates
<1>6. Same(e, a) /\ a.deck = e.deck
  BY <1>1, TrashShows
<1>. HIDE DEF w, over, kept, a
<1>7. Same(a, b) /\ b.deck = a.deck
  BY <1>1, <1>6, TrashShows DEF Same
<1>. HIDE DEF y, b
<1>8. y \in DeckStates
  BY <1>1, <1>3, <1>4, StateWith
<1>9. Fine(b) /\ Face(b) = Face(e) /\ b.park = e.park
  BY <1>6, <1>7 DEF Same
<1>10. Fine(g) /\ Face(g) = With(Face(b), d, y.src, Face(b).park[d]) /\ g.park = b.park
  BY <1>8, <1>9, DeckPutShows
<1>11. y.src = Face(e).src[d] /\ Face(e) \in Faces /\ Face(e).src[d] \in Held /\ Face(e).park[d] \in Keeps
  BY <1>5, FaceIs
<1>12. Face(g) = Face(e)
  BY <1>9, <1>10, <1>11, WithOwn
<1>. QED
  BY <1>2, <1>9, <1>10, <1>12 DEF Same

\* A deck takes y, and is swept.
LEMMA PutAndSweepShows ==
  ASSUME NEW e, Fine(e), NEW d \in Decks, NEW y \in DeckStates
  PROVE  LET g == Sweep([e EXCEPT !.deck[d] = y], d) IN
           Fine(g) /\ Face(g) = With(Face(e), d, y.src, Face(e).park[d]) /\ g.park = e.park
<1>. DEFINE a == [e EXCEPT !.deck[d] = y]
<1>1. Fine(a) /\ Face(a) = With(Face(e), d, y.src, Face(e).park[d]) /\ a.park = e.park
  BY DeckPutShows
<1>. HIDE DEF a
<1>2. Same(a, Sweep(a, d))
  BY <1>1, SweepShows
<1>. QED
  BY <1>1, <1>2 DEF a, Same

\* The park of a deck goes.
LEMMA AbandonShows ==
  ASSUME NEW e, Fine(e), NEW d \in Decks
  PROVE  LET g == Abandon(e, d) IN
           /\ Fine(g) /\ Face(g) = With(Face(e), d, Face(e).src[d], NoKeep)
           /\ g.deck = e.deck /\ g.mode = e.mode /\ g.prior = e.prior
           /\ g.park[d] = None /\ \A c \in Decks \ {d} : g.park[c] = e.park[c]
<1>0. Face(e) \in Faces /\ Face(e).src[d] \in Held /\ Face(e).park[d] = KeepOf(e.park[d])
      /\ Face(e).park[d] \in Keeps
  BY FaceIs
<1>1. CASE e.park[d] = None
  <2>1. Face(e).park[d] = NoKeep
    BY <1>0, <1>1 DEF KeepOf
  <2>2. With(Face(e), d, Face(e).src[d], NoKeep) = Face(e)
    BY <1>0, <2>1, WithOwn
  <2>. QED
    BY <1>1, <2>2 DEF Abandon
<1>2. CASE e.park[d] # None
  <2>. DEFINE p == e.park[d]
              a == Trash(e, p.track)
              b == IF p.host = None THEN a ELSE Trash(a, p.host.track)
              g == [b EXCEPT !.park[d] = None]
  <2>1. p.track \in Held /\ (p.host # None => p.host.track \in Held)
    BY <1>2 DEF Engines, Parks, Hosts, Fine
  <2>2. Abandon(e, d) = g
    BY <1>2 DEF Abandon
  <2>3. Same(e, a) /\ a.deck = e.deck /\ a.mode = e.mode /\ a.prior = e.prior
    BY <2>1, TrashShows
  <2>. HIDE DEF a
  <2>4. Same(a, b) /\ b.deck = a.deck /\ b.mode = a.mode /\ b.prior = a.prior
    BY <2>1, <2>3, TrashShows DEF Same
  <2>. HIDE DEF b, p
  <2>5. Fine(b) /\ Face(b) = Face(e) /\ b.park = e.park
    BY <2>3, <2>4 DEF Same
  <2>6. PairedPark(None) /\ KeepOf(None) = NoKeep /\ None \in Parks \cup {None}
    BY DEF PairedPark, KeepOf
  <2>7. /\ Fine(g) /\ Face(g) = With(Face(b), d, Face(b).src[d], NoKeep)
        /\ g.deck = b.deck /\ g.park[d] = None /\ g.mode = b.mode /\ g.prior = b.prior
    BY <2>5, <2>6, ParkPutShows
  <2>8. \A c \in Decks \ {d} : g.park[c] = b.park[c]
    BY <2>5 DEF Fine, Engines
  <2>. HIDE DEF g
  <2>. QED
    BY <2>2, <2>3, <2>4, <2>5, <2>7, <2>8
<1>. QED
  BY <1>1, <1>2

\* Of the modes only Thru shows.
LEMMA ModeShows ==
  ASSUME NEW e, Fine(e), NEW d \in Decks, NEW m \in Modes
  PROVE  LET g == SetControlMode(e, d, m) IN
           /\ Fine(g)
           /\ Face(g) = IF m = "Thru" THEN With(Face(e), d, None, NoKeep) ELSE Face(e)
<1>. DEFINE a == [e EXCEPT !.prior[d] = None]
            on == SetPlaying(a.deck[d], TRUE)
            b == Abandon(a, d)
            off == ClearSource(b.deck[d])
            done == CASE m = "Internal" -> [a EXCEPT !.deck[d] = on]
                      [] m = "Timecode" -> a
                      [] m = "Thru" -> [b EXCEPT !.deck[d] = off]
            g == [done EXCEPT !.mode[d] = m]
            X == IF m = "Thru" THEN With(Face(e), d, None, NoKeep) ELSE Face(e)
<1>1. Same(e, a) /\ a.deck = e.deck
  BY ModePutShows
<1>2. SetControlMode(e, d, m) = g
  BY DEF SetControlMode
<1>. HIDE DEF a
<1>3. Fine(a) /\ Face(a) = Face(e) /\ Face(a) \in Faces /\ a.deck[d] \in DeckStates
      /\ Face(a).src[d] = a.deck[d].src /\ Face(a).src[d] \in Held /\ Face(a).park[d] \in Keeps
  BY <1>1, FaceIs DEF Same
<1>4. Fine(done) /\ Face(done) = X
  <2>1. CASE m = "Internal"
    <3>1. on \in DeckStates /\ on.src = a.deck[d].src
      BY <1>3, PlayingIs
    <3>. DEFINE h == [a EXCEPT !.deck[d] = on]
    <3>2. done = h
      BY <2>1
    <3>. HIDE DEF on
    <3>3. Fine(h) /\ Face(h) = With(Face(a), d, on.src, Face(a).park[d])
      BY <1>3, <3>1, DeckPutShows
    <3>4. Face(h) = Face(a)
      BY <1>3, <3>1, <3>3, WithOwn
    <3>. HIDE DEF done, h
    <3>. QED
      BY <1>3, <2>1, <3>2, <3>3, <3>4
  <2>2. CASE m = "Timecode"
    BY <1>3, <2>2
  <2>3. CASE m = "Thru"
    <3>1. Fine(b) /\ Face(b) = With(Face(a), d, Face(a).src[d], NoKeep)
      BY <1>3, AbandonShows
    <3>2. done = [b EXCEPT !.deck[d] = off]
      BY <2>3
    <3>. HIDE DEF b
    <3>3. off \in DeckStates /\ off.src = None
      BY <3>1, FaceIs, ClearIs
    <3>. DEFINE h == [b EXCEPT !.deck[d] = off]
    <3>. HIDE DEF off
    <3>4. Fine(h) /\ Face(h) = With(Face(b), d, off.src, Face(b).park[d])
      BY <3>1, <3>3, DeckPutShows
    <3>5. Face(b).park[d] = NoKeep
      BY <1>3, <3>1, WithHas, Constants
    <3>6. Face(h) = With(Face(a), d, None, NoKeep)
      BY <1>3, <3>1, <3>3, <3>4, <3>5, WithTwice
    <3>. HIDE DEF h, done
    <3>. QED
      BY <1>3, <2>3, <3>2, <3>4, <3>6 DEF h
  <2>. QED
    BY <2>1, <2>2, <2>3 DEF Modes
<1>. HIDE DEF done, X
<1>5. Same(done, g)
  BY <1>4, ModePutShows
<1>. QED
  BY <1>2, <1>4, <1>5 DEF Same, X

\* A tune lands on a deck, or none.
LEMMA LandShows ==
  ASSUME NEW e, Fine(e), NEW d \in Decks, NEW x, x.playing \in BOOLEAN, x.track \in Held
  PROVE  LET g == Land(e, d, x) IN
           Fine(g) /\ Face(g) = With(Face(e), d, x.track, Face(e).park[d]) /\ g.park = e.park
<1>. DEFINE p == SetPlaying(e.deck[d], x.playing)
            q == SwapSource(p, x.track)
            y == SetPosition(q)
<1>1. p \in DeckStates
  BY FaceIs, PlayingIs
<1>. HIDE DEF p
<1>2. q \in DeckStates /\ q.src = x.track
  BY <1>1, SwapIs
<1>. HIDE DEF q
<1>3. y \in DeckStates /\ y.src = x.track
  BY <1>2, PositionIs
<1>4. Land(e, d, x) = Sweep([e EXCEPT !.deck[d] = y], d)
  BY DEF Land, p, q
<1>. HIDE DEF y
<1>. QED
  BY <1>3, <1>4, PutAndSweepShows

\* A tune is given back, or the deck is left empty.
LEMMA GiveBackShows ==
  ASSUME NEW e, Fine(e), NEW d \in Decks, NEW x, x.playing \in BOOLEAN, x.track \in Held
  PROVE  LET g == GiveBack(e, d, x) IN
           Fine(g) /\ Face(g) = With(Face(e), d, x.track, Face(e).park[d]) /\ g.park = e.park
<1>1. CASE x.track # None
  BY <1>1, LandShows DEF GiveBack
<1>2. CASE x.track = None
  <2>. DEFINE p == SetPlaying(e.deck[d], x.playing)
              y == ClearSource(p)
  <2>1. p \in DeckStates
    BY FaceIs, PlayingIs
  <2>. HIDE DEF p
  <2>2. y \in DeckStates /\ y.src = None
    BY <2>1, ClearIs
  <2>3. GiveBack(e, d, x) = Sweep([e EXCEPT !.deck[d] = y], d)
    BY <1>2 DEF GiveBack, p
  <2>. HIDE DEF y
  <2>. QED
    BY <1>2, <2>2, <2>3, PutAndSweepShows
<1>. QED
  BY <1>1, <1>2

\* The commands, one by one, do to the face what Faced says.
LEMMA LoadShows ==
  ASSUME NEW e, Fine(e), NEW d \in Decks, NEW t \in Held
  PROVE  Fine(Load(e, d, t)) /\ Face(Load(e, d, t)) = With(Face(e), d, t, NoKeep)
<1>. DEFINE a == Abandon(e, d)
            m == a.prior[d]
            b == IF m = None THEN a ELSE SetControlMode(a, d, m)
            y == SwapSource(b.deck[d], t)
<1>1. Face(e) \in Faces /\ Face(e).src[d] \in Held
  BY FaceIs
<1>2. Fine(a) /\ Face(a) = With(Face(e), d, Face(e).src[d], NoKeep)
  BY AbandonShows
<1>3. m \in Modes \cup {None}
  BY <1>2 DEF Fine, Engines
<1>4. Load(e, d, t) = Sweep([b EXCEPT !.deck[d] = y], d)
  BY DEF Load
<1>. HIDE DEF a
<1>5. Fine(b) /\ (Face(b) = Face(a) \/ Face(b) = With(Face(a), d, None, NoKeep))
  BY <1>2, <1>3, ModeShows
<1>6. Face(b) = With(Face(e), d, Face(e).src[d], NoKeep) \/ Face(b) = With(Face(e), d, None, NoKeep)
  BY <1>1, <1>2, <1>5, WithTwice
<1>. HIDE DEF b
<1>7. y \in DeckStates /\ y.src = t
  <2>1. b.deck[d] \in DeckStates
    BY <1>5, FaceIs
  <2>. QED
    BY <2>1, SwapIs
<1>. HIDE DEF y
<1>8. Fine(Load(e, d, t)) /\ Face(Load(e, d, t)) = With(Face(b), d, t, Face(b).park[d])
  BY <1>4, <1>5, <1>7, PutAndSweepShows
<1>9. Face(b).park[d] = NoKeep
  BY <1>1, <1>6, WithHas, Constants
<1>. QED
  BY <1>1, <1>6, <1>8, <1>9, WithTwice

\* The sampler loads and clears a slot.
LEMMA SamplerShows ==
  ASSUME NEW e, Fine(e), NEW s \in Slots, NEW t \in Held
  PROVE  /\ Fine(SamplerLoad(e, s, t)) /\ Face(SamplerLoad(e, s, t)) = Sampled(Face(e), s, t)
         /\ Fine(SamplerClear(e, s)) /\ Face(SamplerClear(e, s)) = Sampled(Face(e), s, None)
<1>. DEFINE a == Trash(e, e.samp[s])
<1>1. Fine(a) /\ Face(a) = Face(e)
  BY FaceIs, TrashShows DEF Same
<1>. HIDE DEF a
<1>2. \A u \in Held : Fine([a EXCEPT !.samp[s] = u]) /\ Face([a EXCEPT !.samp[s] = u]) = Sampled(Face(e), s, u)
  BY <1>1, SamplePutShows
<1>. QED
  BY <1>2, Constants DEF SamplerLoad, SamplerClear, a

\* Play and pause do not show.
LEMMA TransportShows ==
  ASSUME NEW e, Fine(e), NEW d \in Decks
  PROVE  /\ Fine(Play(e, d)) /\ Face(Play(e, d)) = Face(e)
         /\ Fine(Pause(e, d)) /\ Face(Pause(e, d)) = Face(e)
<1>1. ASSUME NEW on \in BOOLEAN
      PROVE  LET g == [e EXCEPT !.deck[d] = SetPlaying(e.deck[d], on)] IN Fine(g) /\ Face(g) = Face(e)
  <2>. DEFINE y == SetPlaying(e.deck[d], on)
              g == [e EXCEPT !.deck[d] = y]
  <2>1. y \in DeckStates /\ y.src = e.deck[d].src
    BY FaceIs, PlayingIs
  <2>. HIDE DEF y
  <2>2. Fine(g) /\ Face(g) = With(Face(e), d, y.src, Face(e).park[d])
    BY <2>1, DeckPutShows
  <2>3. Face(e) \in Faces /\ y.src = Face(e).src[d] /\ Face(e).src[d] \in Held /\ Face(e).park[d] \in Keeps
    BY <2>1, FaceIs
  <2>4. Face(g) = Face(e)
    BY <2>2, <2>3, WithOwn
  <2>. QED
    BY <2>2, <2>4 DEF y
<1>. DEFINE a == [e EXCEPT !.deck[d] = SetPlaying(e.deck[d], TRUE)]
<1>2. Fine(a) /\ Face(a) = Face(e)
  BY <1>1
<1>3. Play(e, d) = [a EXCEPT !.mode[d] = "Internal"]
  BY DEF Play
<1>. HIDE DEF a
<1>4. Same(a, Play(e, d))
  <2>1. "Internal" \in Modes
    BY DEF Modes
  <2>. QED
    BY <1>2, <1>3, <2>1, ModePutShows
<1>5. Pause(e, d) = [e EXCEPT !.deck[d] = SetPlaying(e.deck[d], FALSE)]
  BY DEF Pause
<1>. QED
  BY <1>1, <1>2, <1>4, <1>5 DEF Same

\* Instant Doubles puts the track of one deck on the other.
LEMMA DoubleShows ==
  ASSUME NEW e, Fine(e), NEW d \in Decks, NEW to \in Decks, d # to
  PROVE  Fine(InstantDouble(e, d, to)) /\ Face(InstantDouble(e, d, to)) = FaceDouble(Face(e), d, to)
<1>. DEFINE a == Abandon(e, to)
            x == a.deck[d]
            l == [track |-> x.src, playing |-> x.playing]
<1>1. Face(e) \in Faces /\ Face(e).src[to] \in Held /\ Face(e).src[d] \in Held
  BY FaceIs
<1>2. Fine(a) /\ Face(a) = With(Face(e), to, Face(e).src[to], NoKeep) /\ a.deck = e.deck
  BY AbandonShows
<1>3. x.src = Face(e).src[d] /\ x.src \in Held /\ x.playing \in BOOLEAN
  BY <1>2, FaceIs DEF DeckStates
<1>4. InstantDouble(e, d, to) = IF x.src = None THEN a ELSE Land(a, to, l)
  BY DEF InstantDouble
<1>. HIDE DEF a, x
<1>5. CASE x.src = None
  BY <1>2, <1>3, <1>4, <1>5 DEF FaceDouble
<1>6. CASE x.src # None
  <2>1. l.playing \in BOOLEAN /\ l.track \in Held /\ l.track = Face(e).src[d]
    BY <1>3
  <2>. HIDE DEF l
  <2>2. Fine(Land(a, to, l)) /\ Face(Land(a, to, l)) = With(Face(a), to, l.track, Face(a).park[to])
    BY <1>2, <2>1, LandShows
  <2>3. Face(a).park[to] = NoKeep
    BY <1>1, <1>2, WithHas, Constants
  <2>4. With(Face(a), to, l.track, NoKeep) = With(Face(e), to, l.track, NoKeep)
    BY <1>1, <1>2, <2>1, WithTwice
  <2>. QED
    BY <1>3, <1>4, <1>6, <2>1, <2>2, <2>3, <2>4 DEF FaceDouble
<1>. QED
  BY <1>5, <1>6

\* A doubled tune: the other deck takes it, and the park knows what it displaced.
LEMMA DoubleOntoShows ==
  ASSUME NEW e, Fine(e), NEW d \in Decks, NEW to \in Decks, d # to
  PROVE  LET g == DoubleOnto(e, d, to)
             f == Face(e)
         IN /\ Fine(g)
            /\ Face(g) = With(With(f, to, f.src[d], NoKeep), d, f.src[d],
                              [on |-> TRUE, track |-> f.src[d], to |-> to, host |-> f.src[to]])
<1>. DEFINE f == Face(e)
            a == Abandon(e, to)
            host == [track |-> a.deck[to].src, playing |-> a.deck[to].playing]
            own == a.mode[to]
            prior == IF a.prior[to] = None THEN own ELSE a.prior[to]
            c == [a EXCEPT !.prior[to] = prior]
            b == IF own = "Internal" THEN a ELSE [c EXCEPT !.mode[to] = "Internal"]
            x == e.deck[d]
            l == [track |-> x.src, playing |-> x.playing]
            h == Land(b, to, l)
            p == Parked(x, to, host)
            g == [h EXCEPT !.park[d] = p]
<1>1. f \in Faces /\ f.src[to] \in Held /\ f.src[d] \in Held /\ x \in DeckStates /\ x.src = f.src[d]
  BY FaceIs
<1>2. /\ Fine(a) /\ Face(a) = With(f, to, f.src[to], NoKeep) /\ a.deck = e.deck
  BY AbandonShows
<1>3. DoubleOnto(e, d, to) = g
  BY DEF DoubleOnto
<1>4. host \in Hosts /\ host.track = f.src[to]
  BY <1>2, FaceIs DEF Hosts, DeckStates
<1>5. own \in Modes /\ (own # "Internal" => prior \in (Modes \ {"Internal"}) \cup {None})
  BY <1>2 DEF Fine, Engines
<1>6. p \in Parks /\ p \in Parks \cup {None} /\ p.track = f.src[d] /\ p.doubled = to /\ p.host = host
  BY <1>1, <1>4 DEF Parked, Parks, DeckStates
<1>7. l.track = f.src[d] /\ l.track \in Held /\ l.playing \in BOOLEAN
  BY <1>1 DEF DeckStates
<1>. HIDE DEF a, host, own, prior, p, l, x
<1>8. own # "Internal" => Same(a, c)
  BY <1>2, <1>5, ModePutShows
<1>9. own # "Internal" => Fine(c) /\ Face(c) = Face(a)
  BY <1>8 DEF Same
<1>. HIDE DEF c
<1>10. own # "Internal" => Same(c, [c EXCEPT !.mode[to] = "Internal"])
  BY <1>9, ModePutShows DEF Modes
<1>11. Fine(b) /\ Face(b) = Face(a)
  BY <1>2, <1>9, <1>10 DEF Same
<1>. HIDE DEF b
<1>12. Fine(h) /\ Face(h) = With(Face(b), to, f.src[d], Face(b).park[to])
  BY <1>7, <1>11, LandShows
<1>13. Face(b).park[to] = NoKeep
  BY <1>1, <1>2, <1>11, WithHas, Constants
<1>14. Face(h) = With(f, to, f.src[d], NoKeep)
  BY <1>1, <1>2, <1>11, <1>12, <1>13, WithTwice
<1>. HIDE DEF h
<1>15. PairedPark(p) /\ KeepOf(p) = [on |-> TRUE, track |-> f.src[d], to |-> to, host |-> f.src[to]]
  BY <1>4, <1>6, Constants DEF PairedPark, KeepOf
<1>16. Fine(g) /\ Face(g) = With(Face(h), d, Face(h).src[d], KeepOf(p))
  BY <1>6, <1>12, <1>15, ParkPutShows
<1>17. Face(h).src[d] = f.src[d]
  BY <1>1, <1>14, WithHas, Constants
<1>. HIDE DEF g, f
<1>. QED
  BY <1>3, <1>14, <1>15, <1>16, <1>17 DEF f

\* A scratch takes a sample, over the park that is there or a new one.
LEMMA EngageShows ==
  ASSUME NEW e, Fine(e), NEW d \in Decks, NEW s \in Slots, NEW to \in Decks \cup {None}
  PROVE  Fine(Engage(e, d, s, to)) /\ Face(Engage(e, d, s, to)) = FaceEngage(Face(e), d, s, to)
<1>. DEFINE f == Face(e)
            t == e.samp[s]
            b == Park(e, d, to)
            q == SwapSource(b.deck[d], t)
            y == SetPosition(q)
            new == [on |-> TRUE, track |-> f.src[d], to |-> None, host |-> None]
            dbl == [on |-> TRUE, track |-> f.src[d], to |-> to, host |-> f.src[to]]
            X == IF f.park[d].on THEN f
                 ELSE IF to \in Decks \ {d} /\ f.src[d] # None
                      THEN With(With(f, to, f.src[d], NoKeep), d, f.src[d], dbl)
                      ELSE With(f, d, f.src[d], new)
<1>1. /\ f \in Faces /\ f.src[d] \in Held /\ f.park[d] \in Keeps /\ e.deck[d] \in DeckStates
      /\ f.src[d] = e.deck[d].src /\ f.park[d].on = (e.park[d] # None)
      /\ t \in Held /\ f.samp[s] = t
  BY FaceIs
<1>2. CASE t = None
  BY <1>1, <1>2 DEF Engage, FaceEngage
<1>3. CASE t # None
  <2>1. Fine(b) /\ Face(b) = X
    <3>1. CASE e.park[d] # None
      BY <1>1, <3>1 DEF Park
    <3>2. CASE e.park[d] = None /\ to \in Decks \ {d} /\ f.src[d] # None
      <4>1. b = DoubleOnto(e, d, to)
        BY <1>1, <3>2 DEF Park
      <4>2. X = With(With(f, to, f.src[d], NoKeep), d, f.src[d], dbl)
        BY <1>1, <3>2
      <4>. QED
        BY <3>2, <4>1, <4>2, DoubleOntoShows
    <3>3. CASE e.park[d] = None /\ ~(to \in Decks \ {d} /\ f.src[d] # None)
      <4>. DEFINE p == Parked(e.deck[d], None, None)
      <4>1. b = [e EXCEPT !.park[d] = p]
        BY <1>1, <3>3 DEF Park
      <4>2. p \in Parks \cup {None} /\ p # None /\ PairedPark(p) /\ KeepOf(p) = new
        BY <1>1, Constants DEF Parked, Parks, DeckStates, PairedPark, KeepOf
      <4>. HIDE DEF p, b, new
      <4>3. Fine(b) /\ Face(b) = With(f, d, f.src[d], KeepOf(p))
        BY <4>1, <4>2, ParkPutShows
      <4>. QED
        BY <1>1, <3>3, <4>2, <4>3
    <3>. QED
      BY <3>1, <3>2, <3>3
  <2>. HIDE DEF b
  <2>2. q \in DeckStates /\ q.src = t
    <3>1. b.deck[d] \in DeckStates
      BY <2>1, FaceIs
    <3>. HIDE DEF t
    <3>. QED
      BY <1>1, <3>1, SwapIs
  <2>. HIDE DEF q
  <2>3. y \in DeckStates /\ y.src = t
    BY <2>2, PositionIs
  <2>4. Engage(e, d, s, to) = Sweep([b EXCEPT !.deck[d] = y], d)
    BY <1>3 DEF Engage, b, q
  <2>. HIDE DEF y
  <2>5. /\ Fine(Engage(e, d, s, to))
        /\ Face(Engage(e, d, s, to)) = With(Face(b), d, t, Face(b).park[d])
    BY <2>1, <2>3, <2>4, PutAndSweepShows
  <2>6. CASE f.park[d].on
    BY <1>1, <1>3, <2>1, <2>5, <2>6 DEF FaceEngage
  <2>7. CASE ~f.park[d].on /\ to \in Decks \ {d} /\ f.src[d] # None
    <3>. DEFINE w == With(f, to, f.src[d], NoKeep)
    <3>1. w \in Faces /\ dbl \in Keeps
      BY <1>1, <2>7, WithIs, Constants DEF Keeps, Faces
    <3>2. Face(b) = With(w, d, f.src[d], dbl)
      BY <2>1, <2>7
    <3>. HIDE DEF w, dbl
    <3>0. Face(b).park[d] = dbl
      BY <3>1, <3>2, WithHas
    <3>3. With(Face(b), d, t, Face(b).park[d]) = With(w, d, t, dbl)
      BY <3>0, <3>1, <3>2, WithTwice
    <3>. QED
      BY <1>1, <1>3, <2>5, <2>7, <3>3 DEF FaceEngage, w, dbl
  <2>8. CASE ~f.park[d].on /\ ~(to \in Decks \ {d} /\ f.src[d] # None)
    <3>1. new \in Keeps
      BY <1>1, Constants DEF Keeps
    <3>2. Face(b) = With(f, d, f.src[d], new)
      BY <2>1, <2>8
    <3>. HIDE DEF new
    <3>0. Face(b).park[d] = new
      BY <1>1, <3>2, WithHas
    <3>3. With(Face(b), d, t, Face(b).park[d]) = With(f, d, t, new)
      BY <1>1, <3>0, <3>2, WithTwice
    <3>. QED
      BY <1>1, <1>3, <2>5, <2>8, <3>3 DEF FaceEngage, new
  <2>. QED
    BY <2>6, <2>7, <2>8
<1>. QED
  BY <1>2, <1>3

\* The host of a doubled tune gets back what it played.
LEMMA RevertShows ==
  ASSUME NEW e, Fine(e), NEW to \in Decks, NEW host \in Hosts
  PROVE  Fine(Revert(e, to, host)) /\ Face(Revert(e, to, host)) = With(Face(e), to, host.track, Face(e).park[to])
<1>. DEFINE m == e.prior[to]
            c == [e EXCEPT !.mode[to] = m]
            a == IF m = None THEN e ELSE [c EXCEPT !.prior[to] = None]
<1>1. m \in (Modes \ {"Internal"}) \cup {None} /\ host.track \in Held /\ host.playing \in BOOLEAN
  BY DEF Fine, Engines, Hosts
<1>2. Revert(e, to, host) = GiveBack(a, to, host)
  BY DEF Revert
<1>. HIDE DEF m
<1>3. m # None => Same(e, c)
  BY <1>1, ModePutShows
<1>4. m # None => Fine(c) /\ Face(c) = Face(e)
  BY <1>3 DEF Same
<1>. HIDE DEF c
<1>5. m # None => Same(c, [c EXCEPT !.prior[to] = None])
  BY <1>4, ModePutShows
<1>6. Fine(a) /\ Face(a) = Face(e)
  BY <1>4, <1>5 DEF Same
<1>. HIDE DEF a
<1>. QED
  BY <1>1, <1>2, <1>6, GiveBackShows

\* The end of a scratch brings the tune back, and the host its own.
LEMMA ReleaseShows ==
  ASSUME NEW e, Fine(e), NEW d \in Decks
  PROVE  Fine(Release(e, d)) /\ Face(Release(e, d)) = FaceRelease(Face(e), d)
<1>. DEFINE f == Face(e)
            p == e.park[d]
            k == f.park[d]
            live == StillDoubled(e, d)
            a == [e EXCEPT !.park[d] = None]
            b == CASE p.host = None -> a
                   [] p.host # None /\ live -> Revert(a, p.doubled, p.host)
                   [] p.host # None /\ ~live -> Trash(a, p.host.track)
            l == [track |-> p.track, playing |-> IF live THEN e.deck[p.doubled].playing ELSE p.playing]
            X == IF Live(f, d) THEN With(f, k.to, k.host, f.park[k.to]) ELSE f
<1>1. f \in Faces /\ f.src[d] \in Held /\ k = KeepOf(p) /\ k \in Keeps /\ k.on = (p # None)
  BY FaceIs
<1>2. CASE p = None
  BY <1>1, <1>2 DEF Release, FaceRelease
<1>3. CASE p # None
  <2>1. p \in Parks /\ PairedPark(p)
    BY <1>3 DEF Fine, Engines
  <2>2. /\ k.track = p.track /\ k.to = p.doubled /\ k.host = (IF p.host = None THEN None ELSE p.host.track)
        /\ p.track \in Held /\ p.playing \in BOOLEAN /\ p.doubled \in Decks \cup {None}
        /\ p.host \in Hosts \cup {None}
    BY <1>1, <1>3, <2>1 DEF KeepOf, Parks
  <2>3. live <=> Live(f, d)
    <3>1. p.doubled # None => f.src[p.doubled] = e.deck[p.doubled].src
      BY <2>2, FaceIs
    <3>. QED
      BY <2>2, <3>1 DEF StillDoubled, Live
  <2>4. live => p.doubled \in Decks /\ p.host # None /\ p.host \in Hosts /\ k.host = p.host.track
    BY <1>3, <2>1, <2>2 DEF StillDoubled, PairedPark
  <2>5. l.track = k.track /\ l.track \in Held /\ l.playing \in BOOLEAN
    <3>1. live => e.deck[p.doubled].playing \in BOOLEAN
      BY <2>4, FaceIs DEF DeckStates
    <3>. QED
      BY <2>2, <3>1 DEF StillDoubled
  <2>6. Release(e, d) = GiveBack(b, d, l)
    BY <1>3 DEF Release
  <2>7. None \in Parks \cup {None} /\ PairedPark(None) /\ KeepOf(None) = NoKeep
    BY DEF PairedPark, KeepOf
  <2>8. Fine(a) /\ Face(a) = With(f, d, f.src[d], NoKeep)
    BY <2>7, ParkPutShows
  <2>9. f.park[d] \in Keeps /\ k.host \in Held /\ k.track \in Held
    BY <1>1 DEF Keeps
  <2>. HIDE DEF a, l, live, p, k
  <2>10. Fine(b) /\ With(Face(b), d, k.track, Face(b).park[d]) = With(X, d, k.track, NoKeep)
    <3>1. CASE live
      <4>1. b = Revert(a, p.doubled, p.host)
        BY <2>4, <3>1
      <4>. DEFINE o == p.doubled
      <4>2. o \in Decks /\ k.to = o
        BY <2>2, <2>4, <3>1
      <4>3. Fine(b) /\ Face(b) = With(Face(a), o, k.host, Face(a).park[o])
        BY <2>4, <2>8, <3>1, <4>1, RevertShows
      <4>4. X = With(f, o, k.host, f.park[o])
        BY <2>2, <2>3, <3>1
      <4>. HIDE DEF o, b, X
      <4>5. f.park[o] \in Keeps /\ f.src[o] \in Held /\ \A c \in Decks : f.park[c] \in Keeps /\ f.src[c] \in Held
        BY <1>1, <4>2 DEF Faces
      <4>6. CASE o = d
        <5>1. Face(a).park[d] = NoKeep
          BY <1>1, <2>8, WithHas, Constants
        <5>2. Face(b) = With(f, d, k.host, NoKeep)
          BY <1>1, <2>8, <4>3, <4>6, <5>1, WithTwice
        <5>3. Face(b).park[d] = NoKeep
          BY <1>1, <2>9, <5>2, WithHas, Constants
        <5>4. With(Face(b), d, k.track, NoKeep) = With(f, d, k.track, NoKeep)
          BY <1>1, <5>2, WithTwice
        <5>5. With(X, d, k.track, NoKeep) = With(f, d, k.track, NoKeep)
          BY <1>1, <4>4, <4>6, WithTwice
        <5>. QED
          BY <4>3, <5>3, <5>4, <5>5
      <4>7. CASE o # d
        <5>1. Face(a).park[o] = f.park[o] /\ Face(a) \in Faces
          BY <1>1, <2>8, <4>2, <4>7, WithHas, WithIs, Constants
        <5>2. Face(b).park[d] = NoKeep
          BY <1>1, <2>8, <2>9, <4>2, <4>3, <4>5, <4>7, <5>1, WithHas, Constants
        <5>3. Face(b) = With(With(f, d, f.src[d], NoKeep), o, k.host, f.park[o])
          BY <2>8, <4>3, <5>1
        <5>4. With(Face(b), d, k.track, NoKeep) = With(With(f, o, k.host, f.park[o]), d, k.track, NoKeep)
          <6>1. Face(b) = With(With(f, o, k.host, f.park[o]), d, f.src[d], NoKeep)
            BY <1>1, <4>2, <4>7, <5>3, WithSwap
          <6>2. With(f, o, k.host, f.park[o]) \in Faces
            BY <1>1, <2>9, <4>2, <4>5, WithIs
          <6>. QED
            BY <6>1, <6>2, WithTwice
        <5>. QED
          BY <4>3, <4>4, <5>2, <5>4
      <4>. QED
        BY <4>6, <4>7
    <3>2. CASE ~live
      <4>1. Fine(b) /\ Face(b) = Face(a)
        <5>1. CASE p.host = None
          BY <2>8, <5>1
        <5>2. CASE p.host # None
          <6>1. p.host.track \in Held
            BY <2>2, <5>2 DEF Hosts
          <6>2. b = Trash(a, p.host.track)
            BY <3>2, <5>2
          <6>. HIDE DEF b
          <6>. QED
            BY <2>8, <6>1, <6>2, TrashShows DEF Same
        <5>. QED
          BY <5>1, <5>2
      <4>2. X = f
        BY <2>3, <3>2
      <4>. HIDE DEF b, X
      <4>3. Face(b).park[d] = NoKeep
        BY <1>1, <2>8, <4>1, WithHas, Constants
      <4>4. With(Face(b), d, k.track, NoKeep) = With(f, d, k.track, NoKeep)
        BY <1>1, <2>8, <4>1, WithTwice
      <4>. QED
        BY <4>1, <4>2, <4>3, <4>4
    <3>. QED
      BY <3>1, <3>2
  <2>. HIDE DEF b, X
  <2>11. Fine(GiveBack(b, d, l)) /\ Face(GiveBack(b, d, l)) = With(Face(b), d, k.track, Face(b).park[d])
    BY <2>5, <2>10, GiveBackShows
  <2>12. FaceRelease(f, d) = With(X, d, k.track, NoKeep)
    BY <1>1, <1>3 DEF FaceRelease, X, k
  <2>. QED
    BY <2>6, <2>10, <2>11, <2>12
<1>. QED
  BY <1>2, <1>3

\* What the ramps and the trash hold does not show.
LEMMA SettledShows ==
  ASSUME NEW e, Fine(e)
  PROVE  Fine(Settled(e)) /\ Face(Settled(e)) = Face(e)
<1>. DEFINE x(d) == [EmptyDeck EXCEPT !.src = e.deck[d].src, !.playing = e.deck[d].playing]
            k == [d \in Decks |-> x(d)]
            g == [e EXCEPT !.out = <<>>, !.deck = k]
<1>1. \A d \in Decks : x(d) \in DeckStates /\ x(d).src = e.deck[d].src
  <2>1. \A d \in Decks : e.deck[d].src \in Held /\ e.deck[d].playing \in BOOLEAN
    BY FaceIs DEF DeckStates
  <2>2. EmptyDeck \in DeckStates
    BY Constants, BoundsAssumption DEF EmptyDeck, DeckStates
  <2>. QED
    BY <2>1, <2>2 DEF DeckStates
<1>. HIDE DEF x
<1>2. k \in [Decks -> DeckStates] /\ \A d \in Decks : k[d].src = e.deck[d].src
  BY <1>1
<1>3. Settled(e) = g
  BY DEF Settled, x
<1>. HIDE DEF k
<1>4. <<>> \in Seq(Tracks)
  OBVIOUS
<1>5. g \in Engines /\ g.deck = k /\ g.park = e.park /\ g.samp = e.samp
  BY <1>2, <1>4 DEF Fine, Engines
<1>. HIDE DEF g
<1>6. Fine(g) /\ Face(g) = Face(e)
  BY <1>2, <1>5, FaceSame DEF Fine
<1>. QED
  BY <1>3, <1>6

\* A command moves the engine from one face to the other, whatever else the
\* engine holds: ramps, trash, transport and modes play no part.
LEMMA AppliedShows ==
  ASSUME NEW e, Fine(e), NEW c \in Commands
  PROVE  Fine(Settled(Applied(e, c))) /\ Face(Settled(Applied(e, c))) = Faced(Face(e), c)
<1>1. SUFFICES Fine(Applied(e, c)) /\ Face(Applied(e, c)) = Faced(Face(e), c)
  BY SettledShows
<1>2. CASE c.op = "load"
  <2>1. c.deck \in Decks /\ c.track \in Held
    BY <1>2 DEF Commands, Held
  <2>. QED
    BY <1>2, <2>1, LoadShows DEF Applied, Faced
<1>3. CASE c.op = "sample"
  <2>1. c.slot \in Slots /\ c.track \in Held
    BY <1>3 DEF Commands, Held
  <2>. QED
    BY <1>3, <2>1, SamplerShows DEF Applied, Faced
<1>4. CASE c.op = "clear"
  <2>1. c.slot \in Slots
    BY <1>4 DEF Commands
  <2>. QED
    BY <1>4, <2>1, SamplerShows, Constants DEF Applied, Faced
<1>5. CASE c.op = "gain"
  BY <1>5 DEF Applied, Faced
<1>6. CASE c.op \in {"play", "pause"}
  <2>1. c.deck \in Decks
    BY <1>6 DEF Commands
  <2>. QED
    BY <1>6, <2>1, TransportShows DEF Applied, Faced
<1>7. CASE c.op = "mode"
  <2>1. c.deck \in Decks /\ c.mode \in Modes
    BY <1>7 DEF Commands
  <2>. QED
    BY <1>7, <2>1, ModeShows DEF Applied, Faced
<1>8. CASE c.op = "engage"
  <2>1. c.deck \in Decks /\ c.slot \in Slots /\ c.to \in Decks \cup {None}
    BY <1>8 DEF Commands
  <2>. QED
    BY <1>8, <2>1, EngageShows DEF Applied, Faced
<1>9. CASE c.op = "release"
  <2>1. c.deck \in Decks
    BY <1>9 DEF Commands
  <2>. QED
    BY <1>9, <2>1, ReleaseShows DEF Applied, Faced
<1>10. CASE c.op = "double"
  <2>1. c.deck \in Decks /\ c.to \in Decks /\ c.deck # c.to
    BY <1>10 DEF Commands
  <2>. QED
    BY <1>10, <2>1, DoubleShows DEF Applied, Faced
<1>11. c.op \in {"load", "sample", "clear", "gain", "play", "pause", "release", "mode", "engage", "double"}
  BY DEF Commands
<1>. QED
  BY <1>2, <1>3, <1>4, <1>5, <1>6, <1>7, <1>8, <1>9, <1>10, <1>11

\* A command takes a face to a face.
LEMMA FacedIs ==
  ASSUME NEW f \in Faces, NEW c \in Commands
  PROVE  Faced(f, c) \in Faces
<1>0. /\ f.src \in [Decks -> Held] /\ f.park \in [Decks -> Keeps] /\ f.samp \in [Slots -> Held]
      /\ None \in Held /\ NoKeep \in Keeps
  BY Constants DEF Faces
<1>1. CASE c.op \in {"load", "mode"}
  <2>1. c.deck \in Decks /\ (c.op = "load" => c.track \in Held)
    BY <1>1 DEF Commands, Held
  <2>. QED
    BY <1>0, <1>1, <2>1, WithIs DEF Faced
<1>2. CASE c.op \in {"sample", "clear"}
  <2>1. c.slot \in Slots /\ (c.op = "sample" => c.track \in Held)
    BY <1>2 DEF Commands, Held
  <2>2. \A t \in Held : Sampled(f, c.slot, t) \in Faces
    BY <1>0, <2>1 DEF Sampled, Faces
  <2>. QED
    BY <1>0, <1>2, <2>1, <2>2 DEF Faced
<1>3. CASE c.op \in {"gain", "play", "pause"}
  BY <1>3 DEF Faced
<1>4. CASE c.op = "engage"
  <2>. DEFINE d == c.deck
              t == f.samp[c.slot]
              w == With(f, c.to, f.src[d], NoKeep)
              dbl == [on |-> TRUE, track |-> f.src[d], to |-> c.to, host |-> f.src[c.to]]
              new == [on |-> TRUE, track |-> f.src[d], to |-> None, host |-> None]
  <2>1. d \in Decks /\ c.slot \in Slots /\ c.to \in Decks \cup {None}
    BY <1>4 DEF Commands
  <2>2. t \in Held /\ f.src[d] \in Held /\ f.park[d] \in Keeps /\ new \in Keeps
    BY <1>0, <2>1 DEF Keeps
  <2>3. c.to \in Decks => w \in Faces /\ dbl \in Keeps
    BY <1>0, <2>1, <2>2, WithIs DEF Keeps
  <2>4. FaceEngage(f, d, c.slot, c.to) \in {f, With(f, d, t, f.park[d]), With(f, d, t, new)}
          \/ (c.to \in Decks /\ FaceEngage(f, d, c.slot, c.to) = With(w, d, t, dbl))
    BY DEF FaceEngage
  <2>5. Faced(f, c) = FaceEngage(f, d, c.slot, c.to)
    BY <1>4 DEF Faced
  <2>. HIDE DEF d, t, w, dbl, new
  <2>. QED
    BY <2>1, <2>2, <2>3, <2>4, <2>5, WithIs
<1>5. CASE c.op = "release"
  <2>. DEFINE d == c.deck
              k == f.park[d]
              w == With(f, k.to, k.host, f.park[k.to])
              v == IF Live(f, d) THEN w ELSE f
  <2>1. d \in Decks /\ k \in Keeps
    BY <1>0, <1>5 DEF Commands
  <2>2. k.track \in Held /\ k.host \in Held /\ k.to \in Decks \cup {None}
    BY <2>1 DEF Keeps
  <2>3. v \in Faces
    BY <1>0, <2>2, WithIs DEF Live
  <2>4. Faced(f, c) = IF ~k.on THEN f ELSE With(v, d, k.track, NoKeep)
    BY <1>5 DEF Faced, FaceRelease
  <2>. HIDE DEF d, k, v
  <2>. QED
    BY <1>0, <2>1, <2>2, <2>3, <2>4, WithIs
<1>6. CASE c.op = "double"
  <2>1. c.deck \in Decks /\ c.to \in Decks
    BY <1>6 DEF Commands
  <2>. QED
    BY <1>0, <1>6, <2>1, WithIs DEF Faced, FaceDouble
<1>7. c.op \in {"load", "sample", "clear", "gain", "play", "pause", "release", "mode", "engage", "double"}
  BY DEF Commands
<1>. QED
  BY <1>1, <1>2, <1>3, <1>4, <1>5, <1>6, <1>7

-----------------------------------------------------------------------------
(* Where the commands in the ring lead *)

\* The commands of q take a face f to a face g, one after the other.
Leads(f, q, g) ==
  \E run \in [0..Len(q) -> Faces] :
    run[0] = f /\ run[Len(q)] = g /\ \A i \in 1..Len(q) : run[i] = Faced(run[i - 1], q[i])

\* An empty ring leads nowhere else.
LEMMA LeadsEmpty ==
  ASSUME NEW f \in Faces, NEW g
  PROVE  Leads(f, <<>>, g) <=> f = g
<1>1. ASSUME Leads(f, <<>>, g) PROVE f = g
  BY <1>1 DEF Leads
<1>2. ASSUME f = g PROVE Leads(f, <<>>, g)
  <2>1. [i \in 0..Len(<<>>) |-> f] \in [0..Len(<<>>) -> Faces] /\ [i \in 0..Len(<<>>) |-> f][0] = f
        /\ [i \in 0..Len(<<>>) |-> f][Len(<<>>)] = f /\ 1..Len(<<>>) = {}
    OBVIOUS
  <2>. QED
    BY <1>2, <2>1 DEF Leads
<1>. QED
  BY <1>1, <1>2

\* One more command in the ring is one more step.
LEMMA LeadsAppend ==
  ASSUME NEW f, NEW q \in Seq(Commands), NEW g, NEW c \in Commands, Leads(f, q, g)
  PROVE  g \in Faces /\ Leads(f, Append(q, c), Faced(g, c))
<1>. DEFINE n == Len(q)
            p == Append(q, c)
<1>1. PICK run \in [0..n -> Faces] :
        run[0] = f /\ run[n] = g /\ \A i \in 1..n : run[i] = Faced(run[i - 1], q[i])
  BY DEF Leads
<1>2. n \in Nat /\ Len(p) = n + 1 /\ p[n + 1] = c /\ \A i \in 1..n : p[i] = q[i]
  OBVIOUS
<1>. HIDE DEF n, p
<1>3. g \in Faces
  BY <1>1, <1>2
<1>. DEFINE h == Faced(g, c)
            w == [i \in 0..(n + 1) |-> IF i <= n THEN run[i] ELSE h]
<1>4. h \in Faces
  BY <1>3, FacedIs
<1>. HIDE DEF h
<1>5. w \in [0..(n + 1) -> Faces]
  BY <1>1, <1>2, <1>4
<1>6. w[0] = f /\ w[n + 1] = h
  BY <1>1, <1>2
<1>7. ASSUME NEW i \in 1..(n + 1) PROVE w[i] = Faced(w[i - 1], p[i])
  <2>1. CASE i <= n
    <3>1. i \in 1..n /\ i - 1 \in 0..n /\ i \in 0..(n + 1) /\ i - 1 \in 0..(n + 1)
      BY <1>2, <2>1
    <3>2. w[i] = run[i] /\ w[i - 1] = run[i - 1]
      BY <1>2, <2>1, <3>1
    <3>. QED
      BY <1>1, <1>2, <3>1, <3>2
  <2>2. CASE i = n + 1
    <3>1. i - 1 = n /\ n \in 0..(n + 1)
      BY <1>2, <2>2
    <3>2. w[i - 1] = g
      BY <1>1, <1>2, <3>1
    <3>. QED
      BY <1>2, <1>6, <2>2, <3>2 DEF h
  <2>. QED
    BY <1>2, <2>1, <2>2
<1>8. Leads(f, p, h)
  <2>. HIDE DEF w
  <2>. QED
    BY <1>2, <1>5, <1>6, <1>7 DEF Leads
<1>. QED
  BY <1>3, <1>8 DEF p, h

\* The command the engine takes is the first step.
LEMMA LeadsTail ==
  ASSUME NEW f, NEW q \in Seq(Commands), q # <<>>, NEW g, Leads(f, q, g)
  PROVE  Leads(Faced(f, Head(q)), Tail(q), g)
<1>. DEFINE n == Len(q)
            p == Tail(q)
            c == Head(q)
            m == n - 1
<1>1. PICK run \in [0..n -> Faces] :
        run[0] = f /\ run[n] = g /\ \A i \in 1..n : run[i] = Faced(run[i - 1], q[i])
  BY DEF Leads
<1>2. n \in Nat /\ n >= 1 /\ m \in Nat /\ Len(p) = m /\ q[1] = c /\ \A i \in 1..m : p[i] = q[i + 1]
  OBVIOUS
<1>. HIDE DEF p, c
<1>. DEFINE w == [i \in 0..m |-> run[i + 1]]
<1>3. w \in [0..m -> Faces] /\ w[m] = g
  BY <1>1, <1>2
<1>4. w[0] = Faced(f, c)
  <2>1. 1 \in 1..n /\ 1 - 1 = 0 /\ 0 \in 0..m
    BY <1>2
  <2>2. run[1] = Faced(run[0], q[1])
    BY <1>1, <2>1
  <2>. QED
    BY <1>1, <1>2, <2>1, <2>2
<1>5. ASSUME NEW i \in 1..m PROVE w[i] = Faced(w[i - 1], p[i])
  <2>1. i + 1 \in 1..n /\ i \in 0..m /\ i - 1 \in 0..m /\ (i + 1) - 1 = i /\ (i - 1) + 1 = i
    BY <1>2
  <2>2. w[i] = run[i + 1] /\ w[i - 1] = run[i]
    BY <2>1
  <2>3. run[i + 1] = Faced(run[i], q[i + 1])
    BY <1>1, <2>1
  <2>. QED
    BY <1>2, <2>2, <2>3
<1>. HIDE DEF w, m
<1>6. Leads(Faced(f, c), p, g)
  BY <1>2, <1>3, <1>4, <1>5 DEF Leads
<1>. QED
  BY <1>6 DEF p, c

-----------------------------------------------------------------------------
(* What the application shows, and where the ring leads *)

\* A face agrees with a deck of the copy: the tune and what is parked.
DeckAgrees(f, v, d) ==
  /\ f.src[d] = v[d].tune
  /\ f.park[d].on = (v[d].parked # None)
  /\ v[d].parked # None => f.park[d].track = v[d].parked.tune /\ f.park[d].to = v[d].parked.to
\* It displaced on the host what the copy gives back there.
HostAgrees(f, v, d) ==
  v[d].parked # None /\ v[d].parked.to # None /\ v[Other(d)].host # None
    => f.park[d].host = v[Other(d)].host.tune
\* It holds the sample of the copy, or some sample after a refused gain.
SlotAgrees(f, u, m, s) == IF s \in m THEN f.samp[s] # None ELSE f.samp[s] = u[s]
\* A tune is only ever doubled onto the other deck.
ParkedAcross(v, d) == v[d].parked # None => v[d].parked.to \in {None, Other(d)}
Agrees(f, v, u, m) ==
  /\ \A d \in Decks : d \notin m => DeckAgrees(f, v, d)
  /\ \A d \in Decks : d \notin m /\ Other(d) \notin m => HostAgrees(f, v, d)
  /\ \A s \in Slots : SlotAgrees(f, u, m, s)
  /\ \A d \in Decks : ParkedAcross(v, d)

\* The commands in the ring lead the engine to what the application shows.
CopyInv ==
  /\ Fine(eng) /\ ring \in Seq(Commands) /\ misled \subseteq Decks \cup Slots
  /\ \E g \in Faces : Leads(Face(eng), ring, g) /\ Agrees(g, view, samples, misled)

\* There are two decks, and the other one of the other is the first again.
LEMMA TwoDecks ==
  ASSUME NEW d \in Decks
  PROVE  /\ Other(d) \in Decks /\ Other(d) # d /\ Other(Other(d)) = d /\ \A c \in Decks : c = d \/ c = Other(d)
         /\ d \notin Slots /\ Other(d) \notin Slots
BY Constants, ScreensAssumption DEF Other, Decks

\* A call that sends a command takes where the ring leads one step on.
LEMMA SentLeads ==
  ASSUME CopyInv, NEW g, NEW c \in Commands, Leads(Face(eng), ring, g), eng' = eng, ring' = Append(ring, c)
  PROVE  Fine(eng)' /\ ring' \in Seq(Commands) /\ Faced(g, c) \in Faces /\ Leads(Face(eng'), ring', Faced(g, c))
<1>1. Fine(eng) /\ ring \in Seq(Commands)
  BY DEF CopyInv
<1>2. g \in Faces /\ Leads(Face(eng), Append(ring, c), Faced(g, c))
  BY <1>1, LeadsAppend
<1>. QED
  BY <1>1, <1>2, FacedIs

\* A deck gets a track and no scratch, or it is misled from now on.
LEMMA PutAgrees ==
  ASSUME NEW g \in Faces, NEW v, NEW u, NEW m, Agrees(g, v, u, m), NEW d \in Decks, v \in [Decks -> Screens],
         NEW x \in Screens, x.parked = None, x.host = None, NEW t, NEW n,
         \/ n = m \ {d} /\ x.tune = t
         \/ n = m \cup {d}
  PROVE  Agrees(With(g, d, t, NoKeep), [v EXCEPT ![d] = x], u, n)
<1>. DEFINE f == With(g, d, t, NoKeep)
            w == [v EXCEPT ![d] = x]
            o == Other(d)
<1>1. /\ f.src[d] = t /\ f.park[d] = NoKeep /\ f.samp = g.samp
      /\ f.src[o] = g.src[o] /\ f.park[o] = g.park[o] /\ w[d] = x /\ w[o] = v[o]
      /\ NoKeep.on = FALSE
  BY WithHas, TwoDecks DEF NoKeep
<1>2. /\ o \in Decks /\ o # d /\ Other(o) = d /\ \A c \in Decks : c = d \/ c = o
      /\ d \notin Slots /\ o \notin Slots /\ (o \in n <=> o \in m)
  BY TwoDecks
<1>3. \A s \in Slots : s \in n <=> s \in m
  BY <1>2
<1>4. /\ o \notin m => DeckAgrees(g, v, o)
      /\ ParkedAcross(v, o) /\ \A s \in Slots : SlotAgrees(g, u, m, s)
  BY <1>2 DEF Agrees
<1>. HIDE DEF f, w, o
<1>5. d \notin n => DeckAgrees(f, w, d)
  BY <1>1 DEF DeckAgrees
<1>6. o \notin n => DeckAgrees(f, w, o)
  BY <1>1, <1>2, <1>4 DEF DeckAgrees
<1>7. HostAgrees(f, w, d) /\ HostAgrees(f, w, o)
  BY <1>1, <1>2 DEF HostAgrees
<1>8. \A s \in Slots : SlotAgrees(f, u, n, s)
  BY <1>1, <1>3, <1>4 DEF SlotAgrees
<1>9. ParkedAcross(w, d) /\ ParkedAcross(w, o)
  BY <1>1, <1>2, <1>4 DEF ParkedAcross
<1>10. Agrees(f, w, u, n)
  BY <1>2, <1>5, <1>6, <1>7, <1>8, <1>9 DEF Agrees
<1>. QED
  BY <1>10 DEF f, w

\* Both decks are misled: only the slots have to agree.
LEMMA MisledAgrees ==
  ASSUME NEW g, NEW v, NEW u, NEW m, Agrees(g, v, u, m), NEW f, f.samp = g.samp, NEW d \in Decks,
         NEW w, \A c \in Decks : ParkedAcross(w, c)
  PROVE  Agrees(f, w, u, m \cup {d, Other(d)})
<1>1. \A s \in Slots : SlotAgrees(f, u, m \cup {d, Other(d)}, s)
  BY TwoDecks DEF Agrees, SlotAgrees
<1>. QED
  BY <1>1, TwoDecks DEF Agrees

\* A slot gets a sample.
LEMMA SampleAgrees ==
  ASSUME NEW g \in Faces, NEW v, NEW u \in [Slots -> Held], NEW m, Agrees(g, v, u, m), NEW s \in Slots, NEW t
  PROVE  /\ Agrees(Sampled(g, s, t), v, [u EXCEPT ![s] = t], m \ {s})
         /\ t # None => Agrees(Sampled(g, s, t), v, u, m \cup {s})
<1>. DEFINE f == Sampled(g, s, t)
<1>1. f.src = g.src /\ f.park = g.park /\ f.samp[s] = t /\ \A r \in Slots \ {s} : f.samp[r] = g.samp[r]
  BY DEF Sampled, Faces
<1>. HIDE DEF f
<1>2. s \notin Decks /\ \A d \in Decks : Other(d) \in Decks
  BY TwoDecks
<1>3. \A d \in Decks : /\ DeckAgrees(g, v, d) => DeckAgrees(f, v, d)
                       /\ HostAgrees(g, v, d) => HostAgrees(f, v, d)
  BY <1>1 DEF DeckAgrees, HostAgrees
<1>4. Agrees(f, v, [u EXCEPT ![s] = t], m \ {s})
  <2>1. \A r \in Slots : SlotAgrees(f, [u EXCEPT ![s] = t], m \ {s}, r)
    BY <1>1 DEF Agrees, SlotAgrees
  <2>. QED
    BY <1>2, <1>3, <2>1 DEF Agrees
<1>5. ASSUME t # None PROVE Agrees(f, v, u, m \cup {s})
  <2>1. \A r \in Slots : SlotAgrees(f, u, m \cup {s}, r)
    BY <1>1, <1>5 DEF Agrees, SlotAgrees
  <2>. QED
    BY <1>2, <1>3, <2>1 DEF Agrees
<1>. QED
  BY <1>4, <1>5 DEF f

\* What is drawn plays no part.
LEMMA RedrawnAgrees ==
  ASSUME NEW g, NEW v, NEW u, NEW m, Agrees(g, v, u, m), NEW w,
         \A d \in Decks : /\ w[d].tune = v[d].tune /\ w[d].host = v[d].host
                          /\ w[d].parked = None <=> v[d].parked = None
                          /\ v[d].parked # None => /\ w[d].parked.tune = v[d].parked.tune
                                                   /\ w[d].parked.to = v[d].parked.to
  PROVE  Agrees(g, w, u, m)
<1>1. \A d \in Decks : /\ DeckAgrees(g, v, d) => DeckAgrees(g, w, d)
                       /\ HostAgrees(g, v, d) => HostAgrees(g, w, d)
                       /\ ParkedAcross(v, d) => ParkedAcross(w, d)
  BY TwoDecks DEF DeckAgrees, HostAgrees, ParkedAcross
<1>. QED
  BY <1>1 DEF Agrees

-----------------------------------------------------------------------------
(* Every step keeps the copy where the ring leads *)

\* What both parts of the invariant say of the copy.
LEMMA CopyTypes ==
  ASSUME IInv
  PROVE  /\ view \in [Decks -> Screens] /\ samples \in [Slots -> Held]
         /\ \A d \in Decks : /\ view[d] \in Screens /\ Fits(view[d]) /\ view[d].tune \in Held
                             /\ view[d].peaks \in Drawings
                             /\ view[d].parked \in ParkedScreens \cup {None}
BY InvFits, PartsOf DEF TypeInv

\* A load empties the park and shows its track.
LEMMA LoadCopies ==
  ASSUME IInv, CopyInv, LoadInstall
  PROVE  CopyInv'
<1>1. PICK l \in loads :
        /\ eng' = eng /\ samples' = samples
        /\ \/ /\ ring' = Append(ring, [op |-> "load", deck |-> l.deck, track |-> l.track])
              /\ view' = [view EXCEPT ![l.deck] = [Blank EXCEPT !.tune = l.track]]
              /\ misled' = misled \ {l.deck}
           \/ UNCHANGED <<ring, view, misled>>
  BY DEF LoadInstall, Send
<1>2. PICK g \in Faces : Leads(Face(eng), ring, g) /\ Agrees(g, view, samples, misled)
  BY DEF CopyInv
<1>3. CASE UNCHANGED <<ring, view, misled>>
  BY <1>1, <1>2, <1>3 DEF CopyInv
<1>4. CASE /\ ring' = Append(ring, [op |-> "load", deck |-> l.deck, track |-> l.track])
           /\ view' = [view EXCEPT ![l.deck] = [Blank EXCEPT !.tune = l.track]]
           /\ misled' = misled \ {l.deck}
  <2>. DEFINE d == l.deck
              t == l.track
              c == [op |-> "load", deck |-> d, track |-> t]
              x == [Blank EXCEPT !.tune = t]
  <2>1. d \in Decks /\ t \in Tracks /\ t \in Held
    BY DEF IInv, TypeInv, Held
  <2>2. c \in Commands /\ Faced(g, c) = With(g, d, t, NoKeep)
    BY <2>1 DEF Commands, Faced
  <2>3. x \in Screens /\ x.parked = None /\ x.host = None /\ x.tune = t
    <3>1. Fits(x)
      BY <2>1, BlankFits
    <3>. QED
      BY <3>1 DEF Fits, Blank
  <2>4. view \in [Decks -> Screens]
    BY CopyTypes
  <2>. HIDE DEF c, x
  <2>5. Agrees(With(g, d, t, NoKeep), [view EXCEPT ![d] = x], samples, misled \ {d})
    BY <1>2, <2>1, <2>3, <2>4, PutAgrees
  <2>6. /\ Fine(eng)' /\ ring' \in Seq(Commands) /\ Faced(g, c) \in Faces /\ Leads(Face(eng'), ring', Faced(g, c))
    BY <1>1, <1>2, <1>4, <2>2, SentLeads DEF c
  <2>. QED
    BY <1>1, <1>4, <2>2, <2>5, <2>6 DEF CopyInv, x
<1>. QED
  BY <1>1, <1>3, <1>4

\* A worker changes nothing but what is drawn.
LEMMA AnalyseCopies ==
  ASSUME IInv, CopyInv, Analyse
  PROVE  CopyInv'
<1>1. PICK w \in workers :
        /\ UNCHANGED <<eng, ring, samples, misled>>
        /\ \/ view' = [view EXCEPT ![w.deck] = Drawn(@, w)]
           \/ IsParked(w) /\ view' = [view EXCEPT ![w.deck].parked = Drawn(@, w)]
           \/ view' = view
  BY DEF Analyse
<1>2. /\ w \in [deck : Decks, track : Tracks, stage : {"peaks", "grid"}] /\ w.deck \in Decks
      /\ view \in [Decks -> Screens] /\ Fits(view[w.deck])
  BY CopyTypes DEF IInv, TypeInv
<1>. DEFINE Alike(d) ==
       /\ view'[d].tune = view[d].tune /\ view'[d].host = view[d].host
       /\ (view'[d].parked = None) <=> (view[d].parked = None)
       /\ view[d].parked # None => view'[d].parked.tune = view[d].parked.tune /\ view'[d].parked.to = view[d].parked.to
<1>3. ASSUME view' = [view EXCEPT ![w.deck] = Drawn(@, w)]
      PROVE  \A d \in Decks : Alike(d)
  <2>1. ASSUME NEW x \in Screens
        PROVE  Drawn(x, w).tune = x.tune /\ Drawn(x, w).host = x.host /\ Drawn(x, w).parked = x.parked
    BY DEF Drawn, Screens
  <2>2. view'[w.deck] = Drawn(view[w.deck], w) /\ \A d \in Decks \ {w.deck} : view'[d] = view[d]
    BY <1>2, <1>3
  <2>. QED
    BY <1>2, <2>1, <2>2
<1>4. ASSUME IsParked(w), view' = [view EXCEPT ![w.deck].parked = Drawn(@, w)]
      PROVE  \A d \in Decks : Alike(d)
  <2>. DEFINE k == view[w.deck].parked
              l == Drawn(k, w)
  <2>1. k # None /\ k.tune = w.track /\ k \in ParkedScreens /\ Belongs(k)
    BY <1>2, <1>4, PartsOf DEF IsParked
  <2>2. l \in ParkedScreens /\ l.tune = k.tune /\ l.to = k.to
    BY <1>2, <2>1, DrawnPark
  <2>. HIDE DEF l
  <2>3. /\ view'[w.deck].tune = view[w.deck].tune /\ view'[w.deck].host = view[w.deck].host
        /\ view'[w.deck].parked = l
        /\ \A d \in Decks \ {w.deck} : view'[d] = view[d]
    <3>1. view' = [view EXCEPT ![w.deck] = [view[w.deck] EXCEPT !.parked = l]]
      BY <1>4 DEF l
    <3>2. view[w.deck] \in Screens
      BY <1>2
    <3>. QED
      BY <1>2, <3>1, <3>2 DEF Screens
  <2>. QED
    BY <2>1, <2>2, <2>3, ScreensAssumption
<1>5. \A d \in Decks : Alike(d)
  BY <1>1, <1>3, <1>4
<1>6. PICK g \in Faces : Leads(Face(eng), ring, g) /\ Agrees(g, view, samples, misled)
  BY DEF CopyInv
<1>7. Agrees(g, view', samples, misled)
  BY <1>5, <1>6, RedrawnAgrees
<1>. QED
  BY <1>1, <1>6, <1>7 DEF CopyInv

\* Nothing is loaded on either side, as when a session starts or ends.
Nothing == /\ eng = NewEngine /\ ring = <<>> /\ misled = {}
           /\ view = [d \in Decks |-> Blank] /\ samples = [s \in Slots |-> None]

\* Then the empty ring leads to the empty decks of the copy.
LEMMA NothingShows == Nothing => CopyInv
<1>. SUFFICES ASSUME Nothing PROVE CopyInv
  OBVIOUS
<1>. USE DEF Nothing
<1>1. EmptyDeck \in DeckStates /\ EmptyDeck.src = None
  BY Constants, BoundsAssumption DEF EmptyDeck, DeckStates
<1>2. NewEngine \in Engines
  <2>1. <<>> \in Seq(Tracks) /\ "Timecode" \in Modes
    BY DEF Modes
  <2>. QED
    BY <1>1, <2>1, Constants DEF NewEngine, Engines
<1>3. \A d \in Decks : eng.deck[d].src = None /\ eng.park[d] = None
  BY <1>1 DEF NewEngine
<1>4. Fine(eng)
  BY <1>2, <1>3 DEF Fine, PairedPark
<1>. DEFINE g == Face(eng)
<1>5. g \in Faces /\ \A d \in Decks : g.src[d] = None /\ g.park[d] = NoKeep
  BY <1>3, <1>4, FaceIs DEF KeepOf
<1>6. g.samp = samples
  BY <1>4, FaceIs DEF NewEngine
<1>7. \A d \in Decks : view[d].tune = None /\ view[d].parked = None
  BY DEF Blank
<1>. HIDE DEF g
<1>8. Agrees(g, view, samples, misled)
  <2>1. NoKeep.on = FALSE
    BY DEF NoKeep
  <2>2. \A d \in Decks : DeckAgrees(g, view, d) /\ HostAgrees(g, view, d) /\ ParkedAcross(view, d)
    BY <1>5, <1>7, <2>1 DEF DeckAgrees, HostAgrees, ParkedAcross
  <2>3. \A s \in Slots : SlotAgrees(g, samples, misled, s)
    BY <1>6 DEF SlotAgrees
  <2>. QED
    BY <2>2, <2>3 DEF Agrees
<1>9. Leads(Face(eng), ring, g)
  BY <1>5, LeadsEmpty DEF g
<1>10. ring \in Seq(Commands) /\ misled \subseteq Decks \cup Slots
  OBVIOUS
<1>. QED
  BY <1>4, <1>5, <1>8, <1>9, <1>10 DEF CopyInv

\* A session begins with empty decks, or with a record on each and no scratch.
LEMMA CopyInit ==
  ASSUME Collection
  PROVE  Init => CopyInv
<1>. SUFFICES ASSUME Init PROVE CopyInv
  OBVIOUS
<1>0. misled = {}
  BY DEF Init
<1>1. CASE Stopped
  BY <1>0, <1>1, NothingShows DEF Stopped, Nothing
<1>2. CASE UnderWay
  <2>. DEFINE f == CHOOSE g \in [1..3 -> Tracks] : \A i, j \in 1..3 : g[i] = g[j] => i = j
              record(d) == IF d = DeckA THEN f[1] ELSE f[2]
              deck(d) == [EmptyDeck EXCEPT !.src = record(d), !.playing = (d = DeckA)]
              decks == [d \in Decks |-> deck(d)]
              samp == [s \in Slots |-> f[3]]
              screen(d) == [Blank EXCEPT !.tune = record(d), !.peaks = Peaks(record(d), record(d))]
  <2>1. f \in [1..3 -> Tracks]
    BY Collection DEF Collection
  <2>2. /\ eng = [NewEngine EXCEPT !.deck = decks, !.mode[DeckA] = "Internal", !.samp = samp]
        /\ ring = <<>> /\ view = [d \in Decks |-> screen(d)] /\ samples = samp
    BY <1>2 DEF UnderWay
  <2>3. f[1] \in Held /\ f[2] \in Held /\ f[3] \in Held
    BY <2>1 DEF Held
  <2>. HIDE DEF f
  <2>4. \A d \in Decks : record(d) \in Held
    BY <2>3
  <2>. HIDE DEF record
  <2>5. EmptyDeck \in DeckStates
    BY Constants, BoundsAssumption DEF EmptyDeck, DeckStates
  <2>6. \A d \in Decks : deck(d) \in DeckStates /\ deck(d).src = record(d)
    BY <2>4, <2>5 DEF DeckStates
  <2>. HIDE DEF deck
  <2>7. decks \in [Decks -> DeckStates] /\ (\A d \in Decks : decks[d].src = record(d)) /\ samp \in [Slots -> Held]
    BY <2>3, <2>6
  <2>. HIDE DEF decks, samp
  <2>8. /\ eng \in Engines /\ eng.deck = decks /\ eng.samp = samp
        /\ \A d \in Decks : eng.park[d] = None
    <3>1. <<>> \in Seq(Tracks) /\ "Timecode" \in Modes /\ "Internal" \in Modes
      BY DEF Modes
    <3>2. /\ NewEngine.mode \in [Decks -> Modes] /\ NewEngine.park \in [Decks -> Parks \cup {None}]
          /\ NewEngine.prior \in [Decks -> (Modes \ {"Internal"}) \cup {None}] /\ NewEngine.out \in Seq(Tracks)
      BY <3>1 DEF NewEngine
    <3>3. [NewEngine EXCEPT !.deck = decks, !.mode[DeckA] = "Internal", !.samp = samp] =
            [deck |-> decks, park |-> NewEngine.park, mode |-> [NewEngine.mode EXCEPT ![DeckA] = "Internal"],
             prior |-> NewEngine.prior, samp |-> samp, out |-> NewEngine.out]
      <4>. DEFINE e == NewEngine
                  m == [e.mode EXCEPT ![DeckA] = "Internal"]
                  a == [e EXCEPT !.deck = decks]
                  b == [a EXCEPT !.mode = m]
      <4>1. e = [deck |-> e.deck, park |-> e.park, mode |-> e.mode, prior |-> e.prior, samp |-> e.samp, out |-> e.out]
        BY DEF NewEngine
      <4>. HIDE DEF e
      <4>2. a = [deck |-> decks, park |-> e.park, mode |-> e.mode, prior |-> e.prior, samp |-> e.samp, out |-> e.out]
        BY <4>1
      <4>3. a.mode = e.mode
        BY <4>2
      <4>. HIDE DEF m, a
      <4>4. b = [deck |-> decks, park |-> e.park, mode |-> m, prior |-> e.prior, samp |-> e.samp, out |-> e.out]
        BY <4>2
      <4>. HIDE DEF b
      <4>5. [b EXCEPT !.samp = samp] =
              [deck |-> decks, park |-> e.park, mode |-> m, prior |-> e.prior, samp |-> samp, out |-> e.out]
        BY <4>4
      <4>6. [e EXCEPT !.deck = decks, !.mode[DeckA] = "Internal", !.samp = samp] = [b EXCEPT !.samp = samp]
        BY <4>3, Zenon DEF a, b, m
      <4>. QED
        BY <4>5, <4>6 DEF e, m
    <3>4. [NewEngine.mode EXCEPT ![DeckA] = "Internal"] \in [Decks -> Modes]
      BY <3>1, <3>2
    <3>5. \A d \in Decks : NewEngine.park[d] = None
      BY DEF NewEngine
    <3>6. /\ eng.deck = decks /\ eng.samp = samp /\ eng.park = NewEngine.park
          /\ eng \in Engines
      BY <2>2, <2>7, <3>2, <3>3, <3>4 DEF Engines
    <3>. QED
      BY <3>5, <3>6
  <2>9. Fine(eng)
    BY <2>8 DEF Fine, PairedPark
  <2>. DEFINE g == Face(eng)
  <2>10. g \in Faces /\ g.samp = samp /\ \A d \in Decks : g.src[d] = record(d) /\ g.park[d] = NoKeep
    BY <2>7, <2>8, <2>9, FaceIs DEF KeepOf
  <2>11. \A d \in Decks : view[d].tune = record(d) /\ view[d].parked = None
    <3>1. \A d \in Decks : screen(d) = [tune |-> record(d), peaks |-> Peaks(record(d), record(d)),
                                        parked |-> None, host |-> None]
      BY BlankWith
    <3>. QED
      BY <2>2, <3>1
  <2>. HIDE DEF g
  <2>12. Agrees(g, view, samples, misled)
    <3>1. NoKeep.on = FALSE
      BY DEF NoKeep
    <3>2. \A d \in Decks : DeckAgrees(g, view, d) /\ HostAgrees(g, view, d) /\ ParkedAcross(view, d)
      BY <2>10, <2>11, <3>1 DEF DeckAgrees, HostAgrees, ParkedAcross
    <3>3. \A s \in Slots : SlotAgrees(g, samples, misled, s)
      BY <1>0, <2>2, <2>10 DEF SlotAgrees
    <3>. QED
      BY <3>2, <3>3 DEF Agrees
  <2>13. Leads(Face(eng), ring, g)
    BY <2>2, <2>10, LeadsEmpty DEF g
  <2>14. ring \in Seq(Commands) /\ misled \subseteq Decks \cup Slots
    <3>1. <<>> \in Seq(Commands) /\ {} \subseteq Decks \cup Slots
      OBVIOUS
    <3>. QED
      BY <1>0, <2>2, <3>1
  <2>. QED
    BY <2>9, <2>10, <2>12, <2>13, <2>14 DEF CopyInv
<1>. QED
  BY <1>1, <1>2 DEF Init

\* The steps that send nothing and show nothing new.
LEMMA StillCopies ==
  ASSUME CopyInv, Start \/ LoadBegin \/ Stop
  PROVE  CopyInv'
<1>1. CASE Stop
  <2>1. Nothing'
    BY <1>1 DEF Stop, Nothing
  <2>. QED
    BY <2>1, NothingShows, PTL
<1>2. CASE Start \/ LoadBegin
  <2>1. UNCHANGED <<eng, ring, view, samples, misled>>
    BY <1>2 DEF Start, LoadBegin
  <2>. QED
    BY <2>1 DEF CopyInv
<1>. QED
  BY <1>1, <1>2

\* The platter moves, and nothing else does.
LEMMA PlatterShows ==
  ASSUME Fine(eng), Platter
  PROVE  Fine(eng') /\ Face(eng') = Face(eng)
<1>1. PICK d \in Decks : eng' = [eng EXCEPT !.deck[d].playing = ~@]
  BY DEF Platter
<1>2. eng.deck \in [Decks -> DeckStates]
  BY DEF Fine, Engines
<1>. DEFINE x == [eng.deck[d] EXCEPT !.playing = ~@]
            k == [eng.deck EXCEPT ![d] = x]
            e == [eng EXCEPT !.deck = k]
<1>3. x \in DeckStates /\ x.src = eng.deck[d].src
  <2>1. eng.deck[d] \in DeckStates
    BY <1>2
  <2>. QED
    BY <2>1 DEF DeckStates
<1>. HIDE DEF x
<1>4. k \in [Decks -> DeckStates] /\ \A c \in Decks : k[c].src = eng.deck[c].src
  BY <1>2, <1>3
<1>5. eng' = e
  BY <1>1 DEF x
<1>. HIDE DEF k
<1>6. e \in Engines /\ e.deck = k /\ e.park = eng.park /\ e.samp = eng.samp
  BY <1>2, <1>4 DEF Fine, Engines
<1>. HIDE DEF e
<1>7. Fine(e) /\ Face(e) = Face(eng)
  BY <1>2, <1>4, <1>6, FaceSame DEF Fine
<1>. QED
  BY <1>5, <1>7

\* So where the ring leads, and what is shown, stay.
LEMMA PlatterCopies ==
  ASSUME CopyInv, Platter
  PROVE  CopyInv'
<1>1. UNCHANGED <<ring, view, samples, misled>>
  BY DEF Platter
<1>2. Fine(eng') /\ Face(eng') = Face(eng)
  BY PlatterShows DEF CopyInv
<1>. QED
  BY <1>1, <1>2 DEF CopyInv

\* Play and pause do not show.
LEMMA TransportCopies ==
  ASSUME CopyInv, Transport
  PROVE  CopyInv'
<1>1. PICK d \in Decks, op \in {"play", "pause"} : ring' = Append(ring, [op |-> op, deck |-> d])
  BY DEF Transport, Send
<1>2. UNCHANGED <<eng, view, samples, misled>>
  BY DEF Transport
<1>3. PICK g \in Faces : Leads(Face(eng), ring, g) /\ Agrees(g, view, samples, misled)
  BY DEF CopyInv
<1>. DEFINE c == [op |-> op, deck |-> d]
<1>4. c \in Commands /\ Faced(g, c) = g
  BY DEF Commands, Faced
<1>. HIDE DEF c
<1>5. Fine(eng)' /\ ring' \in Seq(Commands) /\ Leads(Face(eng'), ring', g)
  BY <1>1, <1>2, <1>3, <1>4, SentLeads DEF c
<1>. QED
  BY <1>2, <1>3, <1>5 DEF CopyInv

\* The engine takes a command, and the ring leads where it led.
LEMMA ApplyCopies ==
  ASSUME CopyInv, Apply
  PROVE  CopyInv'
<1>1. /\ ring # <<>> /\ ring' = Tail(ring) /\ eng' = Settled(Applied(eng, Head(ring)))
      /\ UNCHANGED <<view, samples, misled>>
  BY DEF Apply
<1>2. Fine(eng) /\ ring \in Seq(Commands)
  BY DEF CopyInv
<1>3. PICK g \in Faces : Leads(Face(eng), ring, g) /\ Agrees(g, view, samples, misled)
  BY DEF CopyInv
<1>4. Head(ring) \in Commands /\ Tail(ring) \in Seq(Commands)
  BY <1>1, <1>2
<1>5. Fine(eng') /\ Face(eng') = Faced(Face(eng), Head(ring))
  BY <1>1, <1>2, <1>4, AppliedShows
<1>6. Leads(Face(eng'), ring', g)
  BY <1>1, <1>2, <1>3, <1>5, LeadsTail
<1>. QED
  BY <1>1, <1>3, <1>4, <1>5, <1>6 DEF CopyInv

\* A sample without its gain leaves the slot of the copy behind.
LEMMA BindCopies ==
  ASSUME IInv, CopyInv, BindSample
  PROVE  CopyInv'
<1>1. PICK s \in Slots :
        \/ /\ Fresh # {}
           /\ \/ /\ ring' = Append(Append(ring, [op |-> "sample", slot |-> s, track |-> Decoded]),
                                   [op |-> "gain", slot |-> s])
                 /\ samples' = [samples EXCEPT ![s] = Decoded] /\ misled' = misled \ {s}
              \/ /\ ring' = Append(ring, [op |-> "sample", slot |-> s, track |-> Decoded])
                 /\ samples' = samples /\ misled' = misled \cup {s}
        \/ /\ ring' = Append(ring, [op |-> "clear", slot |-> s])
           /\ samples' = [samples EXCEPT ![s] = None] /\ misled' = misled \ {s}
  BY Zenon DEF BindSample, Send
<1>2. UNCHANGED <<eng, view>>
  BY DEF BindSample
<1>3. Fresh # {} => Decoded \in Tracks
  BY DEF Decoded, Fresh
<1>4. PICK g \in Faces : Leads(Face(eng), ring, g) /\ Agrees(g, view, samples, misled)
  BY DEF CopyInv
<1>5. samples \in [Slots -> Held] /\ Fine(eng) /\ ring \in Seq(Commands) /\ misled \subseteq Decks \cup Slots
  BY CopyTypes DEF CopyInv
<1>6. CASE Fresh # {} /\ \/ /\ ring' = Append(Append(ring, [op |-> "sample", slot |-> s, track |-> Decoded]),
                                              [op |-> "gain", slot |-> s])
                            /\ samples' = [samples EXCEPT ![s] = Decoded] /\ misled' = misled \ {s}
                         \/ /\ ring' = Append(ring, [op |-> "sample", slot |-> s, track |-> Decoded])
                            /\ samples' = samples /\ misled' = misled \cup {s}
  <2>1. PICK t \in Tracks : t = Decoded
    BY <1>3, <1>6
  <2>. DEFINE b == [op |-> "sample", slot |-> s, track |-> t]
              c == [op |-> "gain", slot |-> s]
              f == Sampled(g, s, t)
  <2>2. b \in Commands /\ c \in Commands /\ Faced(g, b) = f /\ Faced(f, c) = f
    BY DEF Commands, Faced
  <2>3. /\ t # None /\ Agrees(f, view, [samples EXCEPT ![s] = t], misled \ {s})
        /\ Agrees(f, view, samples, misled \cup {s})
    <3>1. t # None
      BY Constants
    <3>. HIDE DEF f
    <3>. QED
      BY <1>4, <1>5, <3>1, SampleAgrees DEF f
  <2>4. \/ ring' = Append(Append(ring, b), c) /\ samples' = [samples EXCEPT ![s] = t] /\ misled' = misled \ {s}
        \/ ring' = Append(ring, b) /\ samples' = samples /\ misled' = misled \cup {s}
    BY <1>6, <2>1
  <2>. HIDE DEF b, c, f
  <2>5. Leads(Face(eng), Append(ring, b), f) /\ Append(ring, b) \in Seq(Commands) /\ f \in Faces
    BY <1>4, <1>5, <2>2, LeadsAppend, FacedIs
  <2>6. Leads(Face(eng), Append(Append(ring, b), c), f) /\ Append(Append(ring, b), c) \in Seq(Commands)
    <3>. DEFINE r == Append(ring, b)
    <3>. HIDE DEF r
    <3>1. r \in Seq(Commands) /\ Leads(Face(eng), r, f)
      BY <2>5 DEF r
    <3>2. Leads(Face(eng), Append(r, c), Faced(f, c)) /\ Append(r, c) \in Seq(Commands)
      BY <2>2, <3>1, LeadsAppend
    <3>. QED
      BY <2>2, <3>2 DEF r
  <2>7. Leads(Face(eng), ring', f) /\ ring' \in Seq(Commands) /\ Agrees(f, view, samples', misled')
    BY <2>3, <2>4, <2>5, <2>6
  <2>8. misled' \subseteq Decks \cup Slots
    BY <1>5, <2>4
  <2>. QED
    BY <1>2, <1>5, <2>5, <2>7, <2>8 DEF CopyInv
<1>7. CASE /\ ring' = Append(ring, [op |-> "clear", slot |-> s])
           /\ samples' = [samples EXCEPT ![s] = None] /\ misled' = misled \ {s}
  <2>. DEFINE c == [op |-> "clear", slot |-> s]
              f == Sampled(g, s, None)
  <2>1. c \in Commands /\ Faced(g, c) = f
    BY DEF Commands, Faced
  <2>. HIDE DEF c
  <2>2. Fine(eng)' /\ ring' \in Seq(Commands) /\ f \in Faces /\ Leads(Face(eng'), ring', f)
    BY <1>2, <1>4, <1>7, <2>1, SentLeads DEF c
  <2>. HIDE DEF f
  <2>3. Agrees(f, view, samples', misled')
    BY <1>4, <1>5, <1>7, SampleAgrees DEF f
  <2>4. misled' \subseteq Decks \cup Slots
    BY <1>5, <1>7
  <2>. QED
    BY <1>2, <2>2, <2>3, <2>4 DEF CopyInv
<1>. QED
  BY <1>1, <1>6, <1>7

\* Thru takes the track off both sides; another mode shows on neither.
LEMMA ModeCopies ==
  ASSUME IInv, CopyInv, SetMode
  PROVE  CopyInv'
<1>1. PICK d \in Decks, m \in Modes :
        /\ ring' = Append(ring, [op |-> "mode", deck |-> d, mode |-> m])
        /\ \/ /\ m = "Thru" /\ view' = [view EXCEPT ![d] = [Blank EXCEPT !.peaks = view[d].peaks]]
              /\ misled' = misled \ {d}
           \/ m # "Thru" /\ UNCHANGED <<view, misled>>
  BY Zenon DEF SetMode, Send
<1>2. UNCHANGED <<eng, samples>>
  BY DEF SetMode
<1>3. PICK g \in Faces : Leads(Face(eng), ring, g) /\ Agrees(g, view, samples, misled)
  BY DEF CopyInv
<1>. DEFINE c == [op |-> "mode", deck |-> d, mode |-> m]
            x == [Blank EXCEPT !.peaks = view[d].peaks]
<1>4. c \in Commands /\ Faced(g, c) = (IF m = "Thru" THEN With(g, d, None, NoKeep) ELSE g)
  BY DEF Commands, Faced
<1>5. x \in Screens /\ x.parked = None /\ x.host = None /\ x.tune = None
  <2>1. x = [tune |-> None, peaks |-> view[d].peaks, parked |-> None, host |-> None]
    BY BlankWith
  <2>. HIDE DEF x
  <2>. QED
    BY <2>1, CopyTypes DEF Screens, Held
<1>6. view \in [Decks -> Screens]
  BY CopyTypes
<1>. HIDE DEF c, x
<1>7. Agrees(Faced(g, c), view', samples, misled')
  <2>1. CASE m = "Thru"
    <3>1. Agrees(With(g, d, None, NoKeep), [view EXCEPT ![d] = x], samples, misled \ {d})
      BY <1>3, <1>5, <1>6, PutAgrees
    <3>. QED
      BY <1>1, <1>4, <2>1, <3>1 DEF x
  <2>2. CASE m # "Thru"
    BY <1>1, <1>3, <1>4, <2>2
  <2>. QED
    BY <2>1, <2>2
<1>8. Fine(eng)' /\ ring' \in Seq(Commands) /\ Faced(g, c) \in Faces /\ Leads(Face(eng'), ring', Faced(g, c))
  BY <1>1, <1>2, <1>3, <1>4, SentLeads DEF c
<1>9. misled' \subseteq Decks \cup Slots
  BY <1>1 DEF CopyInv
<1>. QED
  BY <1>2, <1>7, <1>8, <1>9 DEF CopyInv

\* Instant Doubles puts the same tune on the other deck of both sides, or
\* passes on that they differ.
LEMMA DoubleCopies ==
  ASSUME IInv, CopyInv, Double
  PROVE  CopyInv'
<1>1. PICK d \in Decks :
        /\ view[d].tune # None
        /\ ring' = Append(ring, [op |-> "double", deck |-> d, to |-> Other(d)])
        /\ view' = [view EXCEPT ![Other(d)] = [Blank EXCEPT !.tune = view[d].tune, !.peaks = view[d].peaks]]
        /\ misled' = IF d \in misled THEN misled \cup {Other(d)} ELSE misled \ {Other(d)}
  BY Zenon DEF Double, Send
<1>2. UNCHANGED <<eng, samples>>
  BY DEF Double
<1>3. PICK g \in Faces : Leads(Face(eng), ring, g) /\ Agrees(g, view, samples, misled)
  BY DEF CopyInv
<1>. DEFINE o == Other(d)
            c == [op |-> "double", deck |-> d, to |-> o]
            x == [Blank EXCEPT !.tune = view[d].tune, !.peaks = view[d].peaks]
            t == IF g.src[d] = None THEN g.src[o] ELSE g.src[d]
<1>4. o \in Decks /\ o # d
  BY TwoDecks
<1>5. c \in Commands /\ Faced(g, c) = With(g, o, t, NoKeep)
  BY <1>4 DEF Commands, Faced, FaceDouble
<1>6. x \in Screens /\ x.parked = None /\ x.host = None /\ x.tune = view[d].tune
  <2>1. x = [tune |-> view[d].tune, peaks |-> view[d].peaks, parked |-> None, host |-> None]
    BY BlankWith
  <2>. HIDE DEF x
  <2>. QED
    BY <2>1, CopyTypes DEF Screens
<1>7. view \in [Decks -> Screens]
  BY CopyTypes
<1>8. d \notin misled => x.tune = t
  <2>1. d \notin misled => g.src[d] = view[d].tune
    BY <1>3 DEF Agrees, DeckAgrees
  <2>. QED
    BY <1>1, <1>6, <2>1
<1>. HIDE DEF c, x, t
<1>9. Agrees(With(g, o, t, NoKeep), [view EXCEPT ![o] = x], samples, misled')
  <2>. HIDE DEF o
  <2>1. CASE d \in misled
    <3>1. misled' = misled \cup {o}
      BY <1>1, <2>1 DEF o
    <3>. QED
      BY <1>3, <1>4, <1>6, <1>7, <3>1, PutAgrees
  <2>2. CASE d \notin misled
    <3>1. misled' = misled \ {o}
      BY <1>1, <2>2 DEF o
    <3>. QED
      BY <1>3, <1>4, <1>6, <1>7, <1>8, <2>2, <3>1, PutAgrees
  <2>. QED
    BY <2>1, <2>2
<1>10. Fine(eng)' /\ ring' \in Seq(Commands) /\ Faced(g, c) \in Faces /\ Leads(Face(eng'), ring', Faced(g, c))
  BY <1>1, <1>2, <1>3, <1>5, SentLeads DEF c
<1>11. misled' \subseteq Decks \cup Slots
  BY <1>1, <1>4 DEF CopyInv
<1>. QED
  BY <1>1, <1>2, <1>5, <1>9, <1>10, <1>11 DEF CopyInv, x

\* The scratch on a face: the tune of the deck is parked, unless one is, and a
\* doubled one displaces the tune of the other deck.
Engaged(g, f, d, o, s, to) ==
  /\ f.samp = g.samp /\ f.src[d] = g.samp[s]
  /\ to = None => f.src[o] = g.src[o] /\ f.park[o] = g.park[o]
  /\ to # None => f.src[o] = g.src[d] /\ f.park[o] = NoKeep
  /\ g.park[d].on => f.park[d] = g.park[d]
  /\ ~g.park[d].on => /\ f.park[d].on = TRUE /\ f.park[d].track = g.src[d] /\ f.park[d].to = to
                      /\ to # None => f.park[d].host = g.src[o]

\* FaceEngage does this.
LEMMA EngagedFace ==
  ASSUME NEW g \in Faces, NEW d \in Decks, NEW s \in Slots, g.samp[s] # None, NEW to \in {None, Other(d)},
         to # None => ~g.park[d].on /\ g.src[d] # None
  PROVE  Engaged(g, FaceEngage(g, d, s, to), d, Other(d), s, to)
<1>. DEFINE f == FaceEngage(g, d, s, to)
            o == Other(d)
            t == g.samp[s]
            w == With(g, o, g.src[d], NoKeep)
            dbl == [on |-> TRUE, track |-> g.src[d], to |-> to, host |-> g.src[o]]
            new == [on |-> TRUE, track |-> g.src[d], to |-> None, host |-> None]
<1>. SUFFICES Engaged(g, f, d, o, s, to)
  OBVIOUS
<1>1. o \in Decks /\ o # d /\ None \notin Decks /\ d \in Decks \ {o}
  BY TwoDecks, Constants
<1>. HIDE DEF o, f
<1>2. g.src[d] \in Held /\ NoKeep \in Keeps
  BY Constants DEF Faces
<1>3. CASE to # None
  <2>1. to = o /\ ~g.park[d].on /\ g.src[d] # None
    BY <1>3 DEF o
  <2>2. f = With(w, d, t, dbl)
    BY <1>1, <1>3, <2>1 DEF FaceEngage, f
  <2>3. w \in Faces
    BY <1>1, <1>2, WithIs
  <2>4. w.src[o] = g.src[d] /\ w.park[o] = NoKeep /\ w.samp = g.samp
    BY <1>1, WithHas
  <2>. HIDE DEF w, dbl, t
  <2>5. f.src[d] = t /\ f.park[d] = dbl /\ f.src[o] = w.src[o] /\ f.park[o] = w.park[o] /\ f.samp = w.samp
    BY <1>1, <2>2, <2>3, WithHas
  <2>. QED
    BY <1>3, <2>1, <2>4, <2>5 DEF t, dbl, Engaged
<1>4. CASE to = None
  <2>. DEFINE k == IF g.park[d].on THEN g.park[d] ELSE new
  <2>1. f = With(g, d, t, k)
    BY <1>1, <1>4 DEF FaceEngage, f
  <2>. HIDE DEF t, k
  <2>2. f.src[d] = t /\ f.park[d] = k /\ f.src[o] = g.src[o] /\ f.park[o] = g.park[o] /\ f.samp = g.samp
    BY <1>1, <2>1, WithHas
  <2>. QED
    BY <1>4, <2>2 DEF t, k, Engaged
<1>. QED
  BY <1>3, <1>4

\* A scratch takes the sample and parks the tune on both sides; where a slot
\* or a deck was misled, so are the decks that depend on it.
LEMMA EngageCopies ==
  ASSUME IInv, CopyInv, EngageScratch
  PROVE  CopyInv'
<1>. DEFINE hosted(o, d) == [tune |-> view[d].tune, peaks |-> view[d].peaks, parked |-> None,
                          host |-> [tune |-> view[o].tune, peaks |-> view[o].peaks]]
            base(d, to) == IF to = None THEN view ELSE [view EXCEPT ![Other(d)] = hosted(Other(d), d)]
<1>1. PICK d \in Decks, s \in Slots :
        /\ samples[s] # None
        /\ ring' = Append(ring, [op |-> "engage", deck |-> d, slot |-> s, to |-> GoesTo(d)])
        /\ view' = [base(d, GoesTo(d)) EXCEPT
             ![d].parked = IF @ = None THEN Before(d, GoesTo(d)) ELSE @,
             ![d].tune = samples[s],
             ![d].peaks = Peaks(samples[s], None)]
        /\ misled' = misled \cup (IF s \in misled THEN {d} ELSE {})
                            \cup (IF d \in misled /\ GoesTo(d) # None THEN {GoesTo(d)} ELSE {})
  <2>1. PICK d \in Decks, s \in Slots :
          LET to == GoesTo(d)
              o == Other(d)
              hosts == [view EXCEPT
                ![o] = [tune |-> view[d].tune, peaks |-> view[d].peaks, parked |-> None,
                        host |-> [tune |-> view[o].tune, peaks |-> view[o].peaks]]]
              below == IF to = None THEN view ELSE hosts
          IN /\ samples[s] # None
             /\ Send([op |-> "engage", deck |-> d, slot |-> s, to |-> to])
             /\ view' = [below EXCEPT
                  ![d].parked = IF @ = None THEN Before(d, to) ELSE @,
                  ![d].tune = samples[s],
                  ![d].peaks = Peaks(samples[s], None)]
             /\ misled' = misled \cup (IF s \in misled THEN {d} ELSE {})
                                \cup (IF d \in misled /\ to # None THEN {to} ELSE {})
    BY Zenon DEF EngageScratch
  <2>. QED
    BY <2>1, Zenon DEF Send
<1>2. UNCHANGED <<eng, samples>>
  BY DEF EngageScratch
<1>3. PICK g \in Faces : Leads(Face(eng), ring, g) /\ Agrees(g, view, samples, misled)
  BY DEF CopyInv
<1>. DEFINE o == Other(d)
<1>4. /\ o \in Decks /\ o # d /\ Other(o) = d /\ \A c \in Decks : c = d \/ c = o
      /\ d \notin Slots /\ o \notin Slots
  BY TwoDecks
<1>5. PICK to \in {None, o} : to = GoesTo(d)
  BY DEF GoesTo
<1>6. to # None => to = o /\ view[d].parked = None /\ view[d].tune # None
  BY <1>5 DEF GoesTo
<1>. DEFINE c == [op |-> "engage", deck |-> d, slot |-> s, to |-> to]
            f == FaceEngage(g, d, s, to)
<1>7. c \in Commands /\ Faced(g, c) = f
  BY <1>4 DEF Commands, Faced
<1>. HIDE DEF c
<1>8. ring' = Append(ring, c)
  BY <1>1, <1>5 DEF c
<1>9. Fine(eng)' /\ ring' \in Seq(Commands) /\ f \in Faces /\ Leads(Face(eng'), ring', f)
  BY <1>2, <1>3, <1>7, <1>8, SentLeads
\* The screens.
<1>10. /\ view \in [Decks -> Screens] /\ view[d] \in Screens
       /\ view[d].parked \in ParkedScreens \cup {None}
       /\ Before(d, to) # None /\ Before(d, to).tune = view[d].tune /\ Before(d, to).to = to
  <2>1. view \in [Decks -> Screens] /\ view[d] \in Screens /\ view[d].parked \in ParkedScreens \cup {None}
        /\ view[d].tune \in Held /\ view[d].peaks \in Drawings
    BY CopyTypes
  <2>2. Before(d, to) \in ParkedScreens
    BY <1>4, <2>1 DEF Before, ParkedScreens
  <2>. QED
    BY <2>1, <2>2, ScreensAssumption DEF Before
<1>11. /\ view'[d].tune = samples[s] /\ view'[d].host = view[d].host
       /\ view'[d].parked = (IF view[d].parked = None THEN Before(d, to) ELSE view[d].parked)
       /\ view'[o] = (IF to = None THEN view[o] ELSE hosted(o, d))
  <2>. DEFINE B == base(d, to)
              k == IF B[d].parked = None THEN Before(d, to) ELSE B[d].parked
              t == samples[s]
              p == Peaks(t, None)
  <2>1. view' = [B EXCEPT ![d].parked = k, ![d].tune = t, ![d].peaks = p]
    BY <1>1, <1>5, Zenon
  <2>. HIDE DEF hosted
  <2>2. B \in [Decks -> Screens \cup {hosted(o, d)}] /\ B[d] = view[d] /\ B[o] = (IF to = None THEN view[o] ELSE hosted(o, d))
    BY <1>4, <1>10
  <2>3. B \in [Decks -> Screens]
    <3>1. Fits(view[d]) /\ Fits(view[o])
      BY <1>4, CopyTypes
    <3>2. hosted(o, d) \in Screens
      <4>1. [tune |-> view[o].tune, peaks |-> view[o].peaks] \in HostedScreens
        BY <3>1, PartsOf DEF HostedScreens
      <4>2. view[d].tune \in Held /\ view[d].peaks \in Drawings
        BY <3>1, PartsOf
      <4>. QED
        BY <4>1, <4>2 DEF hosted, Screens
    <3>. QED
      BY <2>2, <3>2
  <2>. HIDE DEF B, k, t, p
  <2>4. view' = [B EXCEPT ![d] = [B[d] EXCEPT !.parked = k, !.tune = t, !.peaks = p]]
    BY <2>1, <2>3, DeckPut, Zenon
  <2>5. view'[d] = [B[d] EXCEPT !.parked = k, !.tune = t, !.peaks = p] /\ view'[o] = B[o]
    BY <1>4, <2>3, <2>4
  <2>6. B[d] \in Screens
    BY <2>3
  <2>7. view'[d].tune = t /\ view'[d].parked = k /\ view'[d].host = B[d].host
    BY <2>5, <2>6 DEF Screens
  <2>. QED
    BY <2>2, <2>5, <2>7 DEF k, t
<1>12. to # None => /\ view'[o].tune = view[d].tune /\ view'[o].parked = None
                    /\ view'[o].host.tune = view[o].tune
  BY <1>11
\* The face.
<1>13. SlotAgrees(g, samples, misled, s) /\ g.samp[s] # None
  BY <1>1, <1>3 DEF Agrees, SlotAgrees
<1>14. d \notin misled => DeckAgrees(g, view, d)
  BY <1>3 DEF Agrees
<1>15. o \notin misled => DeckAgrees(g, view, o)
  BY <1>3, <1>4 DEF Agrees
<1>16. misled \subseteq misled' /\ misled' \subseteq misled \cup {d, o}
       /\ (s \in misled => d \in misled') /\ (d \in misled /\ to # None => o \in misled')
  BY <1>1, <1>5
<1>. HIDE DEF o, f, hosted, base
<1>17. CASE d \in misled /\ to # None
  <2>1. d \in misled' /\ o \in misled'
    BY <1>16, <1>17
  <2>2. f.samp = g.samp
    BY DEF f, FaceEngage, With
  <2>3. Agrees(f, view', samples, misled \cup {d, Other(d)})
    <3>1. \A e \in Decks : ParkedAcross(view, e)
      BY <1>3 DEF Agrees
    <3>2. ParkedAcross(view', d) /\ ParkedAcross(view', o)
      BY <1>4, <1>5, <1>10, <1>11, <1>12, <3>1 DEF ParkedAcross, o
    <3>. QED
      BY <1>3, <1>4, <2>2, <3>2, MisledAgrees
  <2>4. misled' = misled \cup {d, Other(d)}
    BY <1>16, <2>1 DEF o
  <2>5. misled' \subseteq Decks \cup Slots
    BY <1>4, <1>16 DEF CopyInv
  <2>. QED
    BY <1>2, <1>9, <2>3, <2>4, <2>5 DEF CopyInv
<1>18. CASE ~(d \in misled /\ to # None)
  <2>1. to # None => ~g.park[d].on /\ g.src[d] # None
    BY <1>6, <1>14, <1>18 DEF DeckAgrees
  <2>2. /\ f.samp = g.samp /\ f.src[d] = g.samp[s]
        /\ to = None => f.src[o] = g.src[o] /\ f.park[o] = g.park[o]
        /\ to # None => f.src[o] = g.src[d] /\ f.park[o] = NoKeep
        /\ g.park[d].on => f.park[d] = g.park[d]
        /\ ~g.park[d].on => /\ f.park[d].on = TRUE /\ f.park[d].track = g.src[d] /\ f.park[d].to = to
                            /\ to # None => f.park[d].host = g.src[o]
    <3>1. to \in {None, Other(d)}
      BY DEF o
    <3>2. Engaged(g, FaceEngage(g, d, s, to), d, Other(d), s, to)
      BY <1>13, <2>1, <3>1, EngagedFace
    <3>3. Engaged(g, f, d, o, s, to)
      BY <3>2 DEF f, o
    <3>. QED
      BY <3>3 DEF Engaged
  <2>3. d \notin misled' => DeckAgrees(f, view', d)
    <3>1. SUFFICES ASSUME d \notin misled' PROVE DeckAgrees(f, view', d)
      OBVIOUS
    <3>2. s \notin misled /\ d \notin misled
      BY <1>16, <3>1
    <3>3. f.src[d] = view'[d].tune
      BY <1>11, <1>13, <2>2, <3>2 DEF SlotAgrees
    <3>4. CASE view[d].parked = None
      BY <1>10, <1>11, <1>14, <2>2, <3>2, <3>3, <3>4 DEF DeckAgrees
    <3>5. CASE view[d].parked # None
      BY <1>11, <1>14, <2>2, <3>2, <3>3, <3>5 DEF DeckAgrees
    <3>. QED
      BY <3>4, <3>5
  <2>4. o \notin misled' => DeckAgrees(f, view', o)
    <3>1. SUFFICES ASSUME o \notin misled' PROVE DeckAgrees(f, view', o)
      OBVIOUS
    <3>2. CASE to = None
      BY <1>11, <1>15, <1>16, <2>2, <3>1, <3>2 DEF DeckAgrees
    <3>3. CASE to # None
      <4>1. NoKeep.on = FALSE
        BY DEF NoKeep
      <4>. QED
        BY <1>12, <1>14, <1>18, <2>2, <3>3, <4>1 DEF DeckAgrees
    <3>. QED
      BY <3>2, <3>3
  <2>5. d \notin misled' /\ o \notin misled' => HostAgrees(f, view', d)
    <3>1. SUFFICES ASSUME d \notin misled', o \notin misled' PROVE HostAgrees(f, view', d)
      OBVIOUS
    <3>2. d \notin misled /\ o \notin misled
      BY <1>16, <3>1
    <3>3. HostAgrees(g, view, d)
      BY <1>3, <3>2 DEF Agrees, o
    <3>4. CASE to # None
      BY <1>6, <1>12, <1>14, <1>15, <2>2, <3>2, <3>4 DEF HostAgrees, DeckAgrees, o
    <3>5. CASE to = None /\ view[d].parked = None
      BY <1>10, <1>11, <3>5 DEF HostAgrees
    <3>6. CASE to = None /\ view[d].parked # None
      BY <1>11, <1>14, <2>2, <3>2, <3>3, <3>6 DEF HostAgrees, DeckAgrees, o
    <3>. QED
      BY <3>4, <3>5, <3>6
  <2>6. d \notin misled' /\ o \notin misled' => HostAgrees(f, view', o)
    <3>1. SUFFICES ASSUME d \notin misled', o \notin misled' PROVE HostAgrees(f, view', o)
      OBVIOUS
    <3>2. d \notin misled /\ o \notin misled
      BY <1>16, <3>1
    <3>3. HostAgrees(g, view, o)
      BY <1>3, <1>4, <3>2 DEF Agrees
    <3>4. CASE to # None
      BY <1>12, <3>4 DEF HostAgrees
    <3>5. CASE to = None
      BY <1>4, <1>11, <2>2, <3>3, <3>5 DEF HostAgrees
    <3>. QED
      BY <3>4, <3>5
  <2>7. \A r \in Slots : SlotAgrees(f, samples, misled', r)
    <3>1. \A r \in Slots : SlotAgrees(g, samples, misled, r) /\ (r \in misled' <=> r \in misled)
      BY <1>3, <1>4, <1>16 DEF Agrees
    <3>. QED
      BY <2>2, <3>1 DEF SlotAgrees
  <2>8. ParkedAcross(view', d) /\ ParkedAcross(view', o)
    <3>1. \A e \in Decks : ParkedAcross(view, e)
      BY <1>3 DEF Agrees
    <3>. QED
      BY <1>4, <1>5, <1>10, <1>11, <1>12, <3>1 DEF ParkedAcross, o
  <2>9. Agrees(f, view', samples, misled')
    BY <1>4, <2>3, <2>4, <2>5, <2>6, <2>7, <2>8 DEF Agrees, o
  <2>10. misled' \subseteq Decks \cup Slots
    BY <1>4, <1>16 DEF CopyInv
  <2>. QED
    BY <1>2, <1>9, <2>9, <2>10 DEF CopyInv
<1>. QED
  BY <1>17, <1>18

\* The end of a scratch on a face: the deck gets its tune back, and the host of
\* a doubled one what it had.
Released(g, f, d, o) ==
  LET k == g.park[d]
  IN /\ f.samp = g.samp
     /\ k.on => /\ f.src[d] = k.track /\ f.park[d] = NoKeep
                /\ f.park[o] = g.park[o]
                /\ f.src[o] = IF Live(g, d) THEN k.host ELSE g.src[o]

\* FaceRelease does this.
LEMMA ReleasedFace ==
  ASSUME NEW g \in Faces, NEW d \in Decks, g.park[d].on => g.park[d].to \in {None, Other(d)}
  PROVE  Released(g, FaceRelease(g, d), d, Other(d))
<1>. DEFINE f == FaceRelease(g, d)
            o == Other(d)
            k == g.park[d]
            w == With(g, k.to, k.host, g.park[k.to])
            x == IF Live(g, d) THEN w ELSE g
<1>. SUFFICES Released(g, f, d, o)
  OBVIOUS
<1>1. o \in Decks /\ o # d /\ o \in Decks \ {d} /\ d \in Decks \ {o}
  BY TwoDecks
<1>2. k.host \in Held /\ g.park[o] \in Keeps
  BY <1>1 DEF Faces, Keeps
<1>3. CASE ~k.on
  BY <1>3 DEF Released, FaceRelease
<1>4. CASE k.on
  <2>1. f = With(x, d, k.track, NoKeep)
    BY <1>4 DEF FaceRelease
  <2>2. Live(g, d) => k.to = o
    BY <1>4 DEF Live
  <2>. HIDE DEF f, o, k
  <2>3. /\ x \in Faces /\ x.samp = g.samp /\ x.park[o] = g.park[o]
        /\ x.src[o] = (IF Live(g, d) THEN k.host ELSE g.src[o])
    <3>1. CASE Live(g, d)
      <4>1. x = With(g, o, k.host, g.park[o])
        BY <2>2, <3>1
      <4>. HIDE DEF x
      <4>. QED
        BY <1>1, <1>2, <3>1, <4>1, WithIs, WithHas
    <3>2. CASE ~Live(g, d)
      BY <3>2
    <3>. QED
      BY <3>1, <3>2
  <2>. HIDE DEF x
  <2>4. f.src[d] = k.track /\ f.park[d] = NoKeep /\ f.src[o] = x.src[o] /\ f.park[o] = x.park[o] /\ f.samp = x.samp
    BY <1>1, <2>1, <2>3, WithHas
  <2>. QED
    BY <2>3, <2>4 DEF Released, k
<1>. QED
  BY <1>3, <1>4

\* A release that was sent gives the tune back on both sides; when they take
\* it differently, or it was refused, both decks are misled.
LEMMA ReleaseCopies ==
  ASSUME IInv, CopyInv, ReleaseScratch
  PROVE  CopyInv'
<1>. DEFINE P(d) == view[d].parked
            over(d) == [view[d] EXCEPT !.parked = None]
            back(d, o) == P(d).tune # None /\ view[o].tune = P(d).tune
            home(d, o) == [view[d] EXCEPT !.parked = None, !.tune = view[o].tune,
                                          !.peaks = IF view[o].peaks = None THEN P(d).peaks ELSE view[o].peaks]
            left(o) == IF view[o].host = None THEN [view[o] EXCEPT !.tune = None, !.peaks = None]
                       ELSE [view[o] EXCEPT !.tune = view[o].host.tune, !.peaks = view[o].host.peaks, !.host = None]
            alone(d) == [view[d] EXCEPT !.parked = None, !.tune = P(d).tune, !.peaks = P(d).peaks]
            freed(o) == [view[o] EXCEPT !.host = None]
            split(d, o) == d \in misled \/ (back(d, o) /\ (P(d).to # o \/ view[o].host = None))
            sent(d) == ring' = Append(ring, [op |-> "release", deck |-> d])
<1>1. PICK d \in Decks :
        /\ P(d) # None
        /\ \/ /\ sent(d)
              /\ view' = IF back(d, Other(d)) THEN [view EXCEPT ![d] = home(d, Other(d)), ![Other(d)] = left(Other(d))]
                         ELSE [view EXCEPT ![d] = alone(d), ![Other(d)] = freed(Other(d))]
              /\ misled' = IF split(d, Other(d)) THEN misled \cup {d, Other(d)} ELSE misled
           \/ /\ view' = [view EXCEPT ![d] = over(d)]
              /\ misled' = misled \cup {d, Other(d)}
              /\ ring' = ring
  <2>1. PICK d \in Decks :
          LET p == view[d].parked
              o == Other(d)
              doubled == p.tune # None /\ view[o].tune = p.tune
              homed == [view EXCEPT
                ![d] = [@ EXCEPT !.parked = None, !.tune = view[o].tune,
                                 !.peaks = IF view[o].peaks = None THEN p.peaks ELSE view[o].peaks],
                ![o] = IF @.host = None THEN [@ EXCEPT !.tune = None, !.peaks = None]
                       ELSE [@ EXCEPT !.tune = view[o].host.tune, !.peaks = view[o].host.peaks, !.host = None]]
              lone == [view EXCEPT
                ![d] = [@ EXCEPT !.parked = None, !.tune = p.tune, !.peaks = p.peaks],
                ![o].host = None]
          IN /\ p # None
             /\ \/ /\ Send([op |-> "release", deck |-> d])
                   /\ view' = IF doubled THEN homed ELSE lone
                   /\ misled' = IF \/ d \in misled
                                   \/ doubled /\ (p.to # o \/ view[o].host = None)
                                THEN misled \cup {d, o} ELSE misled
                \/ /\ view' = [view EXCEPT ![d].parked = None]
                   /\ misled' = misled \cup {d, o}
                   /\ ring' = ring
    BY Zenon DEF ReleaseScratch
  <2>2. Other(d) # d /\ Other(d) \in Decks /\ view \in [Decks -> Screens]
    BY TwoDecks, CopyTypes
  <2>3. /\ [view EXCEPT ![d] = home(d, Other(d))][Other(d)] = view[Other(d)]
        /\ [view EXCEPT ![d] = alone(d)][Other(d)] = view[Other(d)]
    <3>. HIDE DEF home, alone
    <3>. QED
      BY <2>2
  <2>4. Send([op |-> "release", deck |-> d]) => sent(d)
    BY DEF Send
  <2>. QED
    BY <2>1, <2>2, <2>3, <2>4, Zenon
<1>2. UNCHANGED <<eng, samples>>
  BY DEF ReleaseScratch
<1>3. PICK g \in Faces : Leads(Face(eng), ring, g) /\ Agrees(g, view, samples, misled)
  BY DEF CopyInv
<1>. DEFINE o == Other(d)
            c == [op |-> "release", deck |-> d]
            f == FaceRelease(g, d)
<1>4. /\ o \in Decks /\ o # d /\ Other(o) = d /\ \A e \in Decks : e = d \/ e = o
      /\ d \notin Slots /\ o \notin Slots
  BY TwoDecks
<1>5. c \in Commands /\ Faced(g, c) = f
  BY DEF Commands, Faced
<1>. HIDE DEF c
<1>6. sent(d) => ring' = Append(ring, c)
  BY DEF c
<1>. HIDE DEF sent, f
<1>7. sent(d) => Fine(eng)' /\ ring' \in Seq(Commands) /\ f \in Faces /\ Leads(Face(eng'), ring', f)
  BY <1>2, <1>3, <1>5, <1>6, SentLeads
\* The screens.
<1>8. view \in [Decks -> Screens] /\ view[d] \in Screens /\ view[o] \in Screens
  BY <1>4, CopyTypes
<1>9. /\ over(d).parked = None
      /\ home(d, o).parked = None /\ home(d, o).tune = view[o].tune /\ home(d, o).host = view[d].host
      /\ alone(d).parked = None /\ alone(d).tune = P(d).tune /\ alone(d).host = view[d].host
      /\ freed(o).parked = view[o].parked /\ freed(o).tune = view[o].tune
      /\ left(o).parked = view[o].parked
      /\ view[o].host # None => left(o).tune = view[o].host.tune
  BY <1>8 DEF Screens
<1>10. misled' \subseteq Decks \cup Slots
  BY <1>1, <1>4 DEF CopyInv, o
<1>11. ASSUME NEW w, w[d].parked = None, w[o].parked = view[o].parked
       PROVE  \A e \in Decks : ParkedAcross(w, e)
  BY <1>3, <1>4, <1>11 DEF Agrees, ParkedAcross
<1>12. f.samp = g.samp
  BY DEF f, FaceRelease, With
<1>13. ASSUME NEW h \in Faces, h.samp = g.samp, Leads(Face(eng'), ring', h), Fine(eng)', ring' \in Seq(Commands),
              misled' = misled \cup {d, o}, view'[d].parked = None, view'[o].parked = view[o].parked
       PROVE  CopyInv'
  <2>1. \A e \in Decks : ParkedAcross(view', e)
    BY <1>11, <1>13
  <2>2. Agrees(h, view', samples, misled \cup {d, Other(d)})
    BY <1>3, <1>13, <2>1, MisledAgrees
  <2>. QED
    BY <1>2, <1>10, <1>13, <2>2 DEF CopyInv, o
<1>. HIDE DEF over, home, left, alone, freed, back, split
\* A release that is refused.
<1>14. CASE view' = [view EXCEPT ![d] = over(d)] /\ misled' = misled \cup {d, Other(d)} /\ ring' = ring
  <2>1. Leads(Face(eng'), ring', g) /\ Fine(eng)' /\ ring' \in Seq(Commands)
    BY <1>2, <1>3, <1>14 DEF CopyInv
  <2>2. view'[d].parked = None /\ view'[o].parked = view[o].parked /\ misled' = misled \cup {d, o}
    BY <1>4, <1>8, <1>9, <1>14 DEF o
  <2>. QED
    BY <1>13, <2>1, <2>2
\* A release that is sent.
<1>15. CASE /\ sent(d)
            /\ view' = IF back(d, Other(d)) THEN [view EXCEPT ![d] = home(d, Other(d)), ![Other(d)] = left(Other(d))]
                       ELSE [view EXCEPT ![d] = alone(d), ![Other(d)] = freed(Other(d))]
            /\ misled' = IF split(d, Other(d)) THEN misled \cup {d, Other(d)} ELSE misled
  <2>1. /\ view'[d] = (IF back(d, o) THEN home(d, o) ELSE alone(d))
        /\ view'[o] = (IF back(d, o) THEN left(o) ELSE freed(o))
        /\ misled' = (IF split(d, o) THEN misled \cup {d, o} ELSE misled)
    BY <1>4, <1>8, <1>15
  <2>. HIDE DEF o
  <2>2. view'[d].parked = None /\ view'[o].parked = view[o].parked /\ view'[d].host = view[d].host
    BY <1>9, <2>1
  <2>3. CASE split(d, o)
    BY <1>7, <1>12, <1>13, <1>15, <2>1, <2>2, <2>3
  <2>4. CASE ~split(d, o)
    <3>1. d \notin misled /\ misled' = misled /\ (back(d, o) => P(d).to = o /\ view[o].host # None)
      BY <2>1, <2>4 DEF split
    <3>2. DeckAgrees(g, view, d) /\ ParkedAcross(view, d) /\ g.park[d].on
      BY <1>1, <1>3, <3>1 DEF Agrees, DeckAgrees
    <3>3. g.park[d].track = P(d).tune /\ g.park[d].to = P(d).to /\ g.park[d].to \in {None, o}
      BY <1>1, <3>2 DEF DeckAgrees, ParkedAcross, o
    <3>4. /\ f.src[d] = P(d).tune /\ f.park[d] = NoKeep /\ f.park[o] = g.park[o]
          /\ f.src[o] = (IF Live(g, d) THEN g.park[d].host ELSE g.src[o])
      <4>1. Released(g, FaceRelease(g, d), d, Other(d))
        BY <3>3, ReleasedFace DEF o
      <4>2. Released(g, f, d, o)
        BY <4>1 DEF f, o
      <4>. QED
        BY <3>2, <3>3, <4>2 DEF Released
    <3>5. DeckAgrees(f, view', d)
      <4>1. view'[d].tune = P(d).tune
        BY <1>9, <2>1 DEF back
      <4>2. NoKeep.on = FALSE
        BY DEF NoKeep
      <4>. QED
        BY <2>2, <3>4, <4>1, <4>2 DEF DeckAgrees
    <3>6. o \notin misled => DeckAgrees(f, view', o)
      <4>1. SUFFICES ASSUME o \notin misled PROVE DeckAgrees(f, view', o)
        OBVIOUS
      <4>2. DeckAgrees(g, view, o)
        BY <1>3, <1>4, <4>1 DEF Agrees
      <4>3. g.src[o] = view[o].tune
        BY <4>2 DEF DeckAgrees
      <4>4. Live(g, d) <=> back(d, o)
        <5>1. back(d, o) => P(d).to = o
          BY <3>1
        <5>2. None \notin Decks
          BY Constants
        <5>. QED
          BY <1>4, <3>3, <4>3, <5>1, <5>2 DEF Live, back
      <4>5. f.src[o] = view'[o].tune
        <5>1. CASE back(d, o)
          <6>1. HostAgrees(g, view, d)
            BY <1>3, <3>1, <4>1 DEF Agrees, o
          <6>2. g.park[d].host = view[o].host.tune
            BY <1>1, <1>4, <3>1, <5>1, <6>1, Constants DEF HostAgrees, o
          <6>. QED
            BY <1>9, <2>1, <3>1, <3>4, <4>4, <5>1, <6>2
        <5>2. CASE ~back(d, o)
          BY <1>9, <2>1, <3>4, <4>3, <4>4, <5>2
        <5>. QED
          BY <5>1, <5>2
      <4>. QED
        BY <2>2, <3>4, <4>2, <4>5 DEF DeckAgrees
    <3>7. HostAgrees(f, view', d)
      BY <2>2 DEF HostAgrees
    <3>8. o \notin misled => HostAgrees(f, view', o)
      <4>1. SUFFICES ASSUME o \notin misled PROVE HostAgrees(f, view', o)
        OBVIOUS
      <4>2. HostAgrees(g, view, o)
        BY <1>3, <1>4, <3>1, <4>1 DEF Agrees
      <4>. QED
        BY <1>4, <2>2, <3>4, <4>2 DEF HostAgrees
    <3>9. \A s \in Slots : SlotAgrees(f, samples, misled, s)
      BY <1>3, <1>12 DEF Agrees, SlotAgrees
    <3>10. \A e \in Decks : ParkedAcross(view', e)
      BY <1>11, <2>2
    <3>11. Agrees(f, view', samples, misled)
      BY <1>4, <3>5, <3>6, <3>7, <3>8, <3>9, <3>10 DEF Agrees
    <3>. QED
      BY <1>2, <1>7, <1>10, <1>15, <3>1, <3>11 DEF CopyInv
  <2>. QED
    BY <2>3, <2>4
<1>. QED
  BY <1>1, <1>14, <1>15

-----------------------------------------------------------------------------
(* The theorems *)

\* Every step keeps what is drawn with what it was drawn from.
LEMMA InvStep == IInv /\ [Next]_vars => IInv'
<1>. SUFFICES ASSUME IInv, [Next]_vars PROVE IInv'
  OBVIOUS
<1>1. CASE UNCHANGED vars
  <2>1. view' = view /\ samples' = samples /\ loads' = loads /\ workers' = workers
    BY <1>1 DEF vars
  <2>. QED
    BY <2>1, SameFits, InvFits DEF IInv, TypeInv, Fit
<1>. QED
  BY <1>1, QuietKeep, StopKeeps, LoadKeeps, AnalyseKeeps, ModeKeeps, DoubleKeeps, EngageKeeps,
     ReleaseKeeps DEF Next, Press

\* The invariant holds throughout a session, whatever its calls.
LEMMA InvHolds ==
  ASSUME Collection
  PROVE  Spec => []IInv
BY InvInit, InvStep, PTL DEF Spec

\* Every step keeps the ring leading to what is shown.
LEMMA CopyStep == IInv /\ CopyInv /\ [Next]_vars => CopyInv'
<1>. SUFFICES ASSUME IInv, CopyInv, [Next]_vars PROVE CopyInv'
  OBVIOUS
<1>1. CASE UNCHANGED vars
  <2>1. UNCHANGED <<eng, ring, view, samples, misled>>
    BY <1>1 DEF vars
  <2>. QED
    BY <2>1 DEF CopyInv
<1>. QED
  BY <1>1, StillCopies, PlatterCopies, TransportCopies, ApplyCopies, BindCopies, ModeCopies, DoubleCopies,
     EngageCopies, ReleaseCopies, LoadCopies, AnalyseCopies DEF Next, Press

\* So it leads there throughout a session.
LEMMA CopyHolds ==
  ASSUME Collection
  PROVE  Spec => []CopyInv
BY InvHolds, CopyInit, CopyStep, PTL DEF Spec

\* No deck draws the waveform or the grid of another track than the one it
\* shows, for any number of tracks, slots, calls and commands in the ring.
THEOREM DrawingsBelong ==
  ASSUME Collection
  PROVE  Spec => []PeaksBelong
<1>1. IInv => PeaksBelong
  BY DEF IInv
<1>. QED
  BY <1>1, InvHolds, PTL

\* Once the ring is drained, decks and slots show what the engine has on them
\* and what it parks there, unless the two sides took a release or a sample
\* differently, for any number of tracks, slots, calls and commands.
THEOREM DecksAreShown ==
  ASSUME Collection
  PROVE  Spec => []ViewMatches
<1>1. CopyInv => ViewMatches
  <2>. SUFFICES ASSUME CopyInv, ring = <<>>
                PROVE  /\ \A d \in Decks \ misled : Shown(d)
                       /\ \A s \in Slots \ misled : samples[s] = eng.samp[s]
    BY DEF ViewMatches
  <2>1. PICK g \in Faces : Leads(Face(eng), ring, g) /\ Agrees(g, view, samples, misled)
    BY DEF CopyInv
  <2>2. Fine(eng) /\ Face(eng) \in Faces
    BY FaceIs DEF CopyInv
  <2>3. g = Face(eng)
    BY <2>1, <2>2, LeadsEmpty
  <2>4. ASSUME NEW d \in Decks, d \notin misled PROVE Shown(d)
    <3>1. DeckAgrees(Face(eng), view, d)
      BY <2>1, <2>3, <2>4 DEF Agrees
    <3>2. Face(eng).src[d] = eng.deck[d].src /\ Face(eng).park[d] = KeepOf(eng.park[d])
      BY <2>2, FaceIs
    <3>3. /\ KeepOf(eng.park[d]).on = (eng.park[d] # None)
          /\ eng.park[d] # None => KeepOf(eng.park[d]).track = eng.park[d].track
      BY DEF KeepOf, NoKeep
    <3>. QED
      BY <3>1, <3>2, <3>3 DEF DeckAgrees, Shown
  <2>5. ASSUME NEW s \in Slots, s \notin misled PROVE samples[s] = eng.samp[s]
    BY <2>1, <2>2, <2>3, <2>5, FaceIs DEF Agrees, SlotAgrees
  <2>. QED
    BY <2>4, <2>5
<1>. QED
  BY <1>1, CopyHolds, PTL

\* What is on the decks changes by the command at the head of the ring, as Faced
\* has it from the face alone, or when the session stops.
FaceStep == \/ Face(eng') = Face(eng)
            \/ ring # <<>> /\ ring' = Tail(ring) /\ Face(eng') = Faced(Face(eng), Head(ring))
            \/ Stop /\ eng' = NewEngine

\* No ramp, no transport, no mode and no trash decides where a track goes: the
\* engine with all of them implements the one of Faced, which has none.
THEOREM TracksFollowCommands ==
  ASSUME Collection
  PROVE  Spec => [][FaceStep]_vars
<1>1. CopyInv /\ [Next]_vars => [FaceStep]_vars
  <2>. SUFFICES ASSUME CopyInv, Next PROVE FaceStep
    OBVIOUS
  <2>1. CASE Apply
    <3>1. /\ ring # <<>> /\ ring' = Tail(ring) /\ eng' = Settled(Applied(eng, Head(ring)))
      BY <2>1 DEF Apply
    <3>2. Fine(eng) /\ ring \in Seq(Commands)
      BY DEF CopyInv
    <3>3. Head(ring) \in Commands
      BY <3>1, <3>2
    <3>. QED
      BY <3>1, <3>2, <3>3, AppliedShows DEF FaceStep
  <2>2. CASE Platter
    BY <2>2, PlatterShows DEF FaceStep, CopyInv
  <2>3. CASE Stop
    BY <2>3 DEF Stop, FaceStep
  <2>4. CASE Start \/ LoadBegin \/ BindSample \/ Transport \/ SetMode \/ EngageScratch \/ ReleaseScratch
               \/ Double \/ LoadInstall \/ Analyse
    <3>1. eng' = eng
      BY <2>4 DEF Start, LoadBegin, BindSample, Transport, SetMode, EngageScratch, ReleaseScratch, Double,
                  LoadInstall, Analyse
    <3>. QED
      BY <3>1 DEF FaceStep
  <2>. QED
    BY <2>1, <2>2, <2>3, <2>4 DEF Next, Press
<1>. QED
  BY <1>1, CopyHolds, PTL DEF Spec

=============================================================================
