------------------------- MODULE DeckTracksProofs -------------------------
(***************************************************************************)
(* Proofs about DeckTracks, for every number of tracks, slots and calls    *)
(* and every capacity: the types, that the audio thread never frees a      *)
(* track (DeckTracks implements TrackCustody), that no ramp outlives its   *)
(* block and that no two scratches host each other.                        *)
(*                                                                         *)
(* The argument: whatever a command does, the tracks that the engine holds *)
(* after it, counting those on their way out, are the ones it held before  *)
(* and the one in the command.  One lemma per operator of DeckOps says so. *)
(***************************************************************************)
EXTENDS DeckTracks, TLAPS

\* What the assumptions say of the constants.
LEMMA Constants ==
  /\ None \notin Tracks /\ None \notin Decks /\ None \notin Modes
  /\ None \notin Hosts /\ None \notin Parks
  /\ FadeBlocks \in Nat /\ FadeBlocks > 0 /\ RingCap \in Nat /\ TrashCap \in Nat /\ TrashCap > 0
  /\ Budget \in Nat
  /\ Decks = {DeckA, DeckB} /\ DeckA # DeckB
BY TracksAssumption, BoundsAssumption, NoneAssumption, DecksAssumption DEF Decks

-----------------------------------------------------------------------------
(* What an engine holds *)

DeckHolds(x, t) == t \in {x.src, x.prev, x.pending} \/ t \in x.dropped
ParkHolds(p, t) == p # None /\ (p.track = t \/ (p.host # None /\ p.host.track = t))
Outgoing(q, t) == \E i \in DOMAIN q : q[i] = t

Holds(e, t) ==
  \/ \E d \in Decks : DeckHolds(e.deck[d], t)
  \/ \E d \in Decks : ParkHolds(e.park[d], t)
  \/ \E s \in Slots : e.samp[s] = t
  \/ Outgoing(e.out, t)

\* A ramp that is over has given its track up.
RampOver(x) == x.fade = 0 => x.prev = None
RampsOver(e) == \A d \in Decks : RampOver(e.deck[d])

\* The engine f holds what e holds and the tracks of T, and no ramp went on
\* past its end.
Gains(e, f, T) ==
  /\ f \in Engines
  /\ \A t \in Tracks : Holds(f, t) <=> Holds(e, t) \/ t \in T
  /\ RampsOver(e) => RampsOver(f)

\* Parks are only given up.
Shrinks(e, f) == \A d \in Decks : f.park[d] \in {e.park[d], None}

\* Gains compose.
LEMMA GainsTrans ==
  ASSUME NEW e, NEW f, NEW g, NEW T, NEW U, NEW V,
         Gains(e, f, T), Gains(f, g, U), \A t \in Tracks : t \in V <=> t \in T \/ t \in U
  PROVE  Gains(e, g, V)
BY DEF Gains

-----------------------------------------------------------------------------
(* One field of a record at a time *)

\* A deck with one field changed is a deck.
LEMMA StateWith ==
  ASSUME NEW x \in DeckStates
  PROVE  /\ \A v \in Held : [x EXCEPT !.src = v] \in DeckStates
         /\ [x EXCEPT !.playing = TRUE] \in DeckStates
         /\ [x EXCEPT !.playing = FALSE] \in DeckStates
         /\ \A v \in Held : [x EXCEPT !.prev = v] \in DeckStates
         /\ \A v \in 0..FadeBlocks : [x EXCEPT !.fade = v] \in DeckStates
         /\ \A v \in Held : [x EXCEPT !.pending = v] \in DeckStates
         /\ \A v \in SUBSET Tracks : [x EXCEPT !.dropped = v] \in DeckStates
BY DEF DeckStates

\* A deck is replaced.
LEMMA PutDeck ==
  ASSUME NEW e \in Engines, NEW d \in Decks, NEW y \in DeckStates
  PROVE  LET f == [e EXCEPT !.deck[d] = y] IN
           /\ f \in Engines
           /\ f.deck[d] = y /\ \A c \in Decks \ {d} : f.deck[c] = e.deck[c]
           /\ f.park = e.park /\ f.mode = e.mode /\ f.prior = e.prior
           /\ f.samp = e.samp /\ f.out = e.out
BY DEF Engines

\* Writing a park changes nothing else.
LEMMA PutPark ==
  ASSUME NEW e \in Engines, NEW d \in Decks, NEW y \in Parks \cup {None}
  PROVE  LET f == [e EXCEPT !.park[d] = y] IN
           /\ f \in Engines
           /\ f.park[d] = y /\ \A c \in Decks \ {d} : f.park[c] = e.park[c]
           /\ f.deck = e.deck /\ f.mode = e.mode /\ f.prior = e.prior
           /\ f.samp = e.samp /\ f.out = e.out
BY DEF Engines

\* Writing a mode changes nothing else.
LEMMA PutMode ==
  ASSUME NEW e \in Engines, NEW d \in Decks, NEW y \in Modes
  PROVE  LET f == [e EXCEPT !.mode[d] = y] IN
           /\ f \in Engines
           /\ f.deck = e.deck /\ f.park = e.park /\ f.prior = e.prior
           /\ f.samp = e.samp /\ f.out = e.out
BY DEF Engines

\* Writing a remembered mode changes nothing else.
LEMMA PutPrior ==
  ASSUME NEW e \in Engines, NEW d \in Decks, NEW y \in (Modes \ {"Internal"}) \cup {None}
  PROVE  LET f == [e EXCEPT !.prior[d] = y] IN
           /\ f \in Engines
           /\ f.deck = e.deck /\ f.park = e.park /\ f.mode = e.mode
           /\ f.samp = e.samp /\ f.out = e.out
BY DEF Engines

\* Writing a sampler slot changes nothing else.
LEMMA PutSample ==
  ASSUME NEW e \in Engines, NEW s \in Slots, NEW y \in Held
  PROVE  LET f == [e EXCEPT !.samp[s] = y] IN
           /\ f \in Engines
           /\ f.samp[s] = y /\ \A c \in Slots \ {s} : f.samp[c] = e.samp[c]
           /\ f.deck = e.deck /\ f.park = e.park /\ f.mode = e.mode /\ f.prior = e.prior
           /\ f.out = e.out
BY DEF Engines

-----------------------------------------------------------------------------
(* The deck *)

\* y is x after a transport change that may bring in the tracks of T.
Turns(x, y, T) ==
  /\ y \in DeckStates
  /\ \A t \in Tracks : DeckHolds(y, t) <=> DeckHolds(x, t) \/ t \in T
  /\ RampOver(x) => RampOver(y)

\* A ramp that begins holds on to the track that plays, and loses none.
LEMMA DeclickIs ==
  ASSUME NEW x \in DeckStates
  PROVE  LET y == StartDeclick(x) IN
           /\ Turns(x, y, {})
           /\ y.src = x.src /\ y.playing = x.playing /\ y.prev = x.src
           /\ y.fade # 0
<1> DEFINE p == IF x.pending = None THEN x.prev ELSE x.pending
           q == IF x.pending = None THEN x.dropped ELSE x.dropped \cup ({x.prev} \ {None})
           a == [x EXCEPT !.prev = x.src]
           b == [a EXCEPT !.fade = FadeBlocks]
           c == [b EXCEPT !.pending = p]
           y == [c EXCEPT !.dropped = q]
<1>1. /\ x.src \in Held /\ x.prev \in Held /\ x.pending \in Held /\ x.dropped \in SUBSET Tracks
      /\ p \in Held /\ q \in SUBSET Tracks
  BY DEF DeckStates, Held
<1>2. StartDeclick(x) = y
  BY DEF StartDeclick
<1>3. /\ y.src = x.src /\ y.playing = x.playing /\ y.prev = x.src /\ y.fade = FadeBlocks
      /\ y.pending = p /\ y.dropped = q
  BY DEF DeckStates
<1>4. \A t \in Tracks : t \in {x.src, x.prev, x.pending} \/ t \in x.dropped
                          <=> t \in {x.src, p} \/ t \in q
  BY Constants
<1> HIDE DEF p, q
<1>5. a \in DeckStates
  BY <1>1, StateWith
<1> HIDE DEF a
<1>6. b \in DeckStates
  <2>1. FadeBlocks \in 0..FadeBlocks
    BY Constants
  <2> QED
    BY <1>5, <2>1, StateWith
<1> HIDE DEF b
<1>7. c \in DeckStates
  BY <1>1, <1>6, StateWith
<1> HIDE DEF c
<1>8. y \in DeckStates
  BY <1>1, <1>7, StateWith
<1> HIDE DEF y
<1> QED
  BY <1>2, <1>3, <1>4, <1>8, Constants DEF Turns, DeckHolds, RampOver

\* A swap of the source adds the new track and loses none.
LEMMA SwapIs ==
  ASSUME NEW x \in DeckStates, NEW t \in Held
  PROVE  Turns(x, SwapSource(x, t), {t})
<1> DEFINE y == StartDeclick(x)
           z == [y EXCEPT !.src = t]
<1>1. /\ Turns(x, y, {}) /\ y \in DeckStates /\ y.src = x.src /\ y.prev = x.src /\ y.fade # 0
  BY DeclickIs DEF Turns
<1>2. SwapSource(x, t) = z
  BY DEF SwapSource
<1> HIDE DEF y
<1>3. z \in DeckStates
  BY <1>1, StateWith
<1>4. /\ z.src = t /\ z.prev = y.prev /\ z.pending = y.pending /\ z.dropped = y.dropped
      /\ z.fade = y.fade
  BY <1>1 DEF DeckStates
<1> HIDE DEF z
<1> QED
  BY <1>1, <1>2, <1>3, <1>4 DEF Turns, DeckHolds, RampOver

\* Starting and stopping a deck loses no track.
LEMMA PlayingIs ==
  ASSUME NEW x \in DeckStates, NEW on \in BOOLEAN
  PROVE  Turns(x, SetPlaying(x, on), {})
<1> DEFINE y == IF x.playing = on THEN x ELSE StartDeclick(x)
           z == [y EXCEPT !.playing = on]
<1>1. SetPlaying(x, on) = z
  BY DEF SetPlaying
<1>2. Turns(x, y, {}) /\ y \in DeckStates
  BY DeclickIs DEF Turns
<1> HIDE DEF y
<1>3. z = [y EXCEPT !.playing = TRUE] \/ z = [y EXCEPT !.playing = FALSE]
  OBVIOUS
<1>4. /\ z.src = y.src /\ z.prev = y.prev /\ z.pending = y.pending /\ z.dropped = y.dropped
      /\ z.fade = y.fade
  BY <1>2 DEF DeckStates
<1> HIDE DEF z
<1>5. z \in DeckStates
  BY <1>2, <1>3, StateWith
<1> QED
  BY <1>1, <1>2, <1>4, <1>5 DEF Turns, DeckHolds, RampOver

\* Turns of one deck compose.
LEMMA TurnsTrans ==
  ASSUME NEW x, NEW y, NEW z, NEW T, NEW U, NEW V, Turns(x, y, T), Turns(y, z, U),
         \A t \in Tracks : t \in V <=> t \in T \/ t \in U
  PROVE  Turns(x, z, V)
BY DEF Turns

\* The tune of a park lands on a deck, or the deck is emptied.
LEMMA LandsIs ==
  ASSUME NEW x \in DeckStates, NEW on \in BOOLEAN, NEW t \in Held
  PROVE  /\ Turns(x, SetPosition(SwapSource(x, t)), {t})
         /\ Turns(x, SetPosition(SwapSource(SetPlaying(x, on), t)), {t})
         /\ Turns(x, ClearSource(SetPlaying(x, on)), {})
<1> DEFINE p == SetPlaying(x, on)
<1>1. Turns(x, p, {}) /\ p \in DeckStates
  BY PlayingIs DEF Turns
<1> HIDE DEF p
<1>2. \A y \in DeckStates : Turns(y, SetPosition(SwapSource(y, t)), {t})
  <2> TAKE y \in DeckStates
  <2>1. Turns(y, SwapSource(y, t), {t}) /\ SwapSource(y, t) \in DeckStates
    BY SwapIs DEF Turns
  <2>2. Turns(SwapSource(y, t), SetPosition(SwapSource(y, t)), {})
    BY <2>1, DeclickIs DEF SetPosition
  <2> QED
    BY <2>1, <2>2, TurnsTrans
<1>3. Turns(p, ClearSource(p), {None})
  BY <1>1, SwapIs DEF ClearSource, Held
<1>4. Turns(x, SetPosition(SwapSource(p, t)), {t})
  BY <1>1, <1>2, TurnsTrans
<1>5. Turns(x, ClearSource(p), {})
  BY <1>1, <1>3, TurnsTrans, Constants
<1> QED
  BY <1>2, <1>4, <1>5 DEF p

\* A transport change of one deck, in the engine.
LEMMA DeckGains ==
  ASSUME NEW e \in Engines, NEW d \in Decks, NEW y, NEW T, Turns(e.deck[d], y, T)
  PROVE  LET f == [e EXCEPT !.deck[d] = y] IN
           /\ Gains(e, f, T) /\ f.deck[d] = y
           /\ f.park = e.park /\ f.mode = e.mode /\ f.prior = e.prior /\ f.samp = e.samp /\ f.out = e.out
           /\ \A c \in Decks \ {d} : f.deck[c] = e.deck[c]
<1> DEFINE f == [e EXCEPT !.deck[d] = y]
<1>1. y \in DeckStates
  BY DEF Turns
<1>2. /\ f \in Engines /\ f.deck[d] = y /\ \A c \in Decks \ {d} : f.deck[c] = e.deck[c]
      /\ f.park = e.park /\ f.mode = e.mode /\ f.prior = e.prior /\ f.samp = e.samp /\ f.out = e.out
  BY <1>1, PutDeck
<1> HIDE DEF f
<1>3. \A t \in Tracks : Holds(f, t) <=> Holds(e, t) \/ t \in T
  BY <1>2 DEF Holds, Turns
<1>4. RampsOver(e) => RampsOver(f)
  BY <1>2 DEF RampsOver, Turns
<1> QED
  BY <1>2, <1>3, <1>4 DEF Gains, f

-----------------------------------------------------------------------------
(* The engine *)

Same(e, f) ==
  /\ f.deck = e.deck /\ f.park = e.park /\ f.mode = e.mode /\ f.prior = e.prior /\ f.samp = e.samp

\* A track that leaves is on its way out, after those that left before it.
LEMMA TrashIs ==
  ASSUME NEW e \in Engines, NEW t \in Held
  PROVE  LET f == Trash(e, t) IN
           /\ Gains(e, f, {t}) /\ Same(e, f)
           /\ \A u \in Tracks : Outgoing(f.out, u) <=> Outgoing(e.out, u) \/ u = t
<1> DEFINE f == Trash(e, t)
<1>1. CASE t = None
  <2>1. f = e
    BY <1>1 DEF Trash
  <2> QED
    BY <1>1, <2>1, Constants DEF Gains, Same
<1>2. CASE t # None
  <2> DEFINE q == Append(e.out, t)
             g == [e EXCEPT !.out = q]
  <2>1. t \in Tracks /\ e.out \in Seq(Tracks)
    BY <1>2 DEF Held, Engines
  <2>2. q \in Seq(Tracks) /\ \A u \in Tracks : Outgoing(q, u) <=> Outgoing(e.out, u) \/ u = t
    <3>1. q \in Seq(Tracks) /\ Len(q) = Len(e.out) + 1 /\ DOMAIN q = 1..Len(q)
          /\ DOMAIN e.out = 1..Len(e.out) /\ Len(e.out) \in Nat
      BY <2>1
    <3>2. q[Len(q)] = t /\ \A i \in DOMAIN e.out : q[i] = e.out[i]
      BY <2>1, <3>1
    <3>3. \A i \in DOMAIN q : i \in DOMAIN e.out \/ i = Len(q)
      BY <3>1
    <3>4. Len(q) \in DOMAIN q /\ \A i \in DOMAIN e.out : i \in DOMAIN q
      BY <3>1
    <3> HIDE DEF q
    <3> QED
      BY <3>1, <3>2, <3>3, <3>4 DEF Outgoing
  <2>3. f = g
    BY <1>2 DEF Trash
  <2> HIDE DEF q
  <2>4. g \in Engines /\ Same(e, g) /\ g.out = q
    BY <2>2 DEF Engines, Same
  <2> HIDE DEF f, g
  <2>5. Gains(e, f, {t}) /\ Same(e, f)
    BY <2>2, <2>3, <2>4 DEF Gains, Holds, Same, RampsOver
  <2> QED
    BY <2>2, <2>3, <2>4, <2>5 DEF f
<1> QED
  BY <1>1, <1>2

\* A park may be given up once its tracks are on their way out.
LEMMA ForgetPark ==
  ASSUME NEW e \in Engines, NEW d \in Decks,
         \A t \in Tracks : ParkHolds(e.park[d], t) => Outgoing(e.out, t)
  PROVE  LET f == [e EXCEPT !.park[d] = None] IN
           /\ Gains(e, f, {})
           /\ f.park[d] = None /\ \A c \in Decks \ {d} : f.park[c] = e.park[c]
           /\ f.deck = e.deck /\ f.mode = e.mode /\ f.prior = e.prior /\ f.samp = e.samp
<1> DEFINE f == [e EXCEPT !.park[d] = None]
<1>1. /\ f \in Engines /\ f.park[d] = None /\ \A c \in Decks \ {d} : f.park[c] = e.park[c]
      /\ f.deck = e.deck /\ f.mode = e.mode /\ f.prior = e.prior /\ f.samp = e.samp
      /\ f.out = e.out
  BY PutPark
<1> HIDE DEF f
<1>2. Gains(e, f, {})
  BY <1>1 DEF Gains, Holds, ParkHolds, RampsOver
<1> QED
  BY <1>1, <1>2 DEF f

\* sweep_deck_disposal loses nothing, and leaves no ramp that is over.
LEMMA SweepIs ==
  ASSUME NEW e \in Engines, NEW d \in Decks
  PROVE  LET f == Sweep(e, d) IN
           /\ f \in Engines /\ \A t \in Tracks : Holds(f, t) <=> Holds(e, t)
           /\ RampOver(f.deck[d]) /\ \A c \in Decks \ {d} : f.deck[c] = e.deck[c]
           /\ f.park = e.park /\ f.mode = e.mode /\ f.prior = e.prior /\ f.samp = e.samp
<1> DEFINE x == e.deck[d]
           over == IF x.fade = 0 THEN x.prev ELSE None
           kept == IF x.fade = 0 THEN None ELSE x.prev
           a == Trash(e, x.pending)
           b == Trash(a, over)
           w == [x EXCEPT !.pending = None]
           y == [x EXCEPT !.pending = None, !.prev = kept]
           f == [b EXCEPT !.deck[d] = y]
<1>1. x \in DeckStates /\ x.pending \in Held /\ over \in Held /\ kept \in Held /\ None \in Held
  BY DEF Engines, DeckStates, Held
<1>2. Sweep(e, d) = f
  BY DEF Sweep
<1>3. w \in DeckStates
  BY <1>1, StateWith
<1>4. y = [w EXCEPT !.prev = kept]
  OBVIOUS
<1>5. y.src = x.src /\ y.prev = kept /\ y.pending = None /\ y.dropped = x.dropped /\ y.fade = x.fade
  BY <1>1 DEF DeckStates
<1>6. (x.fade = 0 => over = x.prev /\ kept = None) /\ (x.fade # 0 => kept = x.prev /\ over = None)
  OBVIOUS
<1>7. /\ Gains(e, a, {x.pending}) /\ Same(e, a)
      /\ \A u \in Tracks : Outgoing(a.out, u) <=> Outgoing(e.out, u) \/ u = x.pending
  BY <1>1, TrashIs
<1> HIDE DEF w, over, kept, a
<1>8. /\ Same(a, b) /\ b \in Engines
      /\ \A u \in Tracks : Outgoing(b.out, u) <=> Outgoing(a.out, u) \/ u = over
  BY <1>1, <1>7, TrashIs DEF Gains
<1> HIDE DEF y
<1>9. y \in DeckStates
  BY <1>1, <1>3, <1>4, StateWith
<1> HIDE DEF b
<1>10. /\ f \in Engines /\ f.deck[d] = y /\ \A c \in Decks \ {d} : f.deck[c] = b.deck[c]
       /\ f.park = b.park /\ f.mode = b.mode /\ f.prior = b.prior /\ f.samp = b.samp /\ f.out = b.out
  BY <1>8, <1>9, PutDeck
<1> HIDE DEF f
<1>11. \A t \in Tracks : DeckHolds(x, t) <=> DeckHolds(y, t) \/ t = x.pending \/ t = over
  BY <1>5, <1>6, Constants DEF DeckHolds
<1>12. ASSUME NEW t \in Tracks
       PROVE  Holds(f, t) <=> Holds(e, t)
  <2>1. f.deck[d] = y /\ (\A c \in Decks \ {d} : f.deck[c] = e.deck[c]) /\ f.park = e.park /\ f.samp = e.samp
    BY <1>7, <1>8, <1>10 DEF Same
  <2>2. Outgoing(f.out, t) <=> Outgoing(e.out, t) \/ t = x.pending \/ t = over
    BY <1>7, <1>8, <1>10
  <2>3. (\E c \in Decks : DeckHolds(e.deck[c], t)) <=>
          (\E c \in Decks : DeckHolds(f.deck[c], t)) \/ t = x.pending \/ t = over
    <3>1. DeckHolds(e.deck[d], t) <=> DeckHolds(f.deck[d], t) \/ t = x.pending \/ t = over
      BY <1>11, <2>1
    <3>. QED
      BY <2>1, <3>1
  <2>. QED
    BY <2>1, <2>2, <2>3 DEF Holds
<1>13. RampOver(y)
  BY <1>5, <1>6 DEF RampOver
<1> QED
  BY <1>2, <1>7, <1>8, <1>10, <1>12, <1>13 DEF Same

\* The sweep of a deck loses no track: what it takes is in the trash.
LEMMA SweepGains ==
  ASSUME NEW e \in Engines, NEW d \in Decks
  PROVE  Gains(e, Sweep(e, d), {}) /\ Sweep(e, d).park = e.park
BY SweepIs DEF Gains, RampsOver

\* An abandoned park is trashed, not lost.
LEMMA AbandonIs ==
  ASSUME NEW e \in Engines, NEW d \in Decks
  PROVE  LET f == Abandon(e, d) IN
           /\ Gains(e, f, {}) /\ f.park[d] = None /\ \A c \in Decks \ {d} : f.park[c] = e.park[c]
           /\ f.deck = e.deck /\ f.mode = e.mode /\ f.prior = e.prior /\ f.samp = e.samp
<1>1. CASE e.park[d] = None
  BY <1>1 DEF Abandon, Gains
<1>2. CASE e.park[d] # None
  <2> DEFINE p == e.park[d]
             a == Trash(e, p.track)
             b == IF p.host = None THEN a ELSE Trash(a, p.host.track)
             f == [b EXCEPT !.park[d] = None]
  <2>1. p \in Parks /\ p.track \in Held /\ (p.host # None => p.host.track \in Held)
    BY <1>2 DEF Engines, Parks, Hosts
  <2>2. Abandon(e, d) = f
    BY <1>2 DEF Abandon
  <2>3. /\ Gains(e, a, {p.track}) /\ Same(e, a) /\ a \in Engines
        /\ \A u \in Tracks : Outgoing(a.out, u) <=> Outgoing(e.out, u) \/ u = p.track
    BY <2>1, TrashIs DEF Gains
  <2> HIDE DEF a
  <2>4. /\ b \in Engines /\ Same(a, b) /\ (RampsOver(a) => RampsOver(b))
        /\ \A u \in Tracks : Outgoing(b.out, u)
                               <=> Outgoing(a.out, u) \/ (p.host # None /\ u = p.host.track)
    BY <2>1, <2>3, TrashIs DEF Gains, Same
  <2> HIDE DEF b
  <2>5. \A t \in Tracks : ParkHolds(b.park[d], t) => Outgoing(b.out, t)
    BY <2>3, <2>4 DEF ParkHolds, Same
  <2>7. /\ Gains(b, f, {})
        /\ f.park[d] = None /\ \A c \in Decks \ {d} : f.park[c] = b.park[c]
        /\ f.deck = b.deck /\ f.mode = b.mode /\ f.prior = b.prior /\ f.samp = b.samp
    <3> HIDE DEF p
    <3> QED
      BY <2>4, <2>5, ForgetPark
  <2> HIDE DEF f
  <2>8. \A t \in Tracks : Holds(b, t) <=> Holds(e, t)
    BY <1>2, <2>3, <2>4 DEF Holds, ParkHolds, Same
  <2>9. Gains(e, b, {})
    BY <2>3, <2>4, <2>8 DEF Gains
  <2>10. Gains(e, f, {})
    BY <2>7, <2>9, GainsTrans
  <2> QED
    BY <2>2, <2>3, <2>4, <2>7, <2>10 DEF Same
<1> QED
  BY <1>1, <1>2

\* A change of mode loses no track.
LEMMA ModeIs ==
  ASSUME NEW e \in Engines, NEW d \in Decks, NEW m \in Modes
  PROVE  LET f == SetControlMode(e, d, m) IN
           Gains(e, f, {}) /\ Shrinks(e, f)
<1> DEFINE a == [e EXCEPT !.prior[d] = None]
           on == SetPlaying(a.deck[d], TRUE)
           b == Abandon(a, d)
           done == CASE m = "Internal" -> [a EXCEPT !.deck[d] = on]
                     [] m = "Timecode" -> a
                     [] m = "Thru" -> [b EXCEPT !.deck[d] = ClearSource(b.deck[d])]
           f == [done EXCEPT !.mode[d] = m]
<1>1. /\ a \in Engines /\ a.deck = e.deck /\ a.park = e.park /\ a.samp = e.samp /\ a.out = e.out
  <2>1. None \in (Modes \ {"Internal"}) \cup {None}
    OBVIOUS
  <2> QED
    BY <2>1, PutPrior
<1>2. SetControlMode(e, d, m) = f
  BY DEF SetControlMode
<1> HIDE DEF a
<1>3. Gains(e, a, {}) /\ a.park = e.park
  BY <1>1 DEF Gains, Holds, RampsOver
<1>4. Gains(a, done, {}) /\ Shrinks(a, done)
  <2>1. CASE m = "Internal"
    <3>1. a.deck[d] \in DeckStates
      BY <1>1 DEF Engines
    <3>2. Turns(a.deck[d], on, {})
      BY <3>1, PlayingIs
    <3> DEFINE g == [a EXCEPT !.deck[d] = on]
    <3>3. done = g
      BY <2>1
    <3> HIDE DEF on, done
    <3>4. Gains(a, g, {}) /\ g.park = a.park
      <4>1. a \in Engines
        BY <1>1
      <4> HIDE DEF done
      <4> QED
        BY <3>2, <4>1, DeckGains
    <3> QED
      BY <3>3, <3>4 DEF Shrinks
  <2>2. CASE m = "Timecode"
    BY <1>1, <2>2 DEF Gains, Shrinks
  <2>3. CASE m = "Thru"
    <3>1. Gains(a, b, {}) /\ Shrinks(a, b) /\ b \in Engines
      BY <1>1, AbandonIs DEF Shrinks, Gains
    <3> HIDE DEF b
    <3>2. b.deck[d] \in DeckStates
      BY <3>1 DEF Engines
    <3>3. Turns(b.deck[d], ClearSource(b.deck[d]), {None})
      BY <3>2, SwapIs DEF ClearSource, Held
    <3> DEFINE g == [b EXCEPT !.deck[d] = ClearSource(b.deck[d])]
    <3>4. Gains(b, g, {None}) /\ g.park = b.park
      BY <3>1, <3>3, DeckGains
    <3>5. done = g
      BY <2>3
    <3> HIDE DEF done, g
    <3>6. Gains(a, done, {})
      BY <3>1, <3>4, <3>5, GainsTrans, Constants
    <3> QED
      BY <3>1, <3>4, <3>5, <3>6 DEF Shrinks
  <2> QED
    BY <2>1, <2>2, <2>3 DEF Modes
<1> HIDE DEF done
<1>5. done \in Engines
  BY <1>4 DEF Gains
<1>6. /\ f \in Engines /\ f.deck = done.deck /\ f.park = done.park /\ f.samp = done.samp
      /\ f.out = done.out
  BY <1>5, PutMode
<1> HIDE DEF f
<1>7. Gains(done, f, {}) /\ f.park = done.park
  BY <1>6 DEF Gains, Holds, RampsOver
<1>8. Gains(e, f, {})
  BY <1>3, <1>4, <1>7, GainsTrans
<1> QED
  BY <1>2, <1>3, <1>4, <1>7, <1>8 DEF Shrinks

\* A deck takes y, and is swept.
LEMMA PutAndSweep ==
  ASSUME NEW e \in Engines, NEW d \in Decks, NEW y, NEW T, Turns(e.deck[d], y, T)
  PROVE  LET f == Sweep([e EXCEPT !.deck[d] = y], d) IN
           Gains(e, f, T) /\ f.park = e.park
<1> DEFINE a == [e EXCEPT !.deck[d] = y]
<1>0. Gains(e, a, T) /\ a.park = e.park
  BY DeckGains
<1>1. Gains(e, a, T) /\ a.park = e.park /\ a \in Engines
  BY <1>0 DEF Gains
<1> HIDE DEF a
<1>2. Gains(a, Sweep(a, d), {}) /\ Sweep(a, d).park = a.park
  BY <1>1, SweepGains
<1>3. Gains(e, Sweep(a, d), T)
  BY <1>1, <1>2, GainsTrans
<1> QED
  BY <1>1, <1>2, <1>3 DEF a

\* A track that lands on a deck is added to what the engine holds.
LEMMA LandIs ==
  ASSUME NEW e \in Engines, NEW d \in Decks, NEW x, x.playing \in BOOLEAN, x.track \in Held
  PROVE  Gains(e, Land(e, d, x), {x.track}) /\ Land(e, d, x).park = e.park
<1> DEFINE y == SetPosition(SwapSource(SetPlaying(e.deck[d], x.playing), x.track))
<1>1. e.deck[d] \in DeckStates
  BY DEF Engines
<1>2. Turns(e.deck[d], y, {x.track})
  BY <1>1, LandsIs
<1>3. Land(e, d, x) = Sweep([e EXCEPT !.deck[d] = y], d)
  BY DEF Land
<1> HIDE DEF y
<1> QED
  BY <1>2, <1>3, PutAndSweep

\* So is the one given back to a deck, if there is one.
LEMMA GiveBackIs ==
  ASSUME NEW e \in Engines, NEW d \in Decks, NEW x, x.playing \in BOOLEAN, x.track \in Held
  PROVE  Gains(e, GiveBack(e, d, x), {x.track}) /\ GiveBack(e, d, x).park = e.park
<1>1. CASE x.track # None
  BY <1>1, LandIs DEF GiveBack
<1>2. CASE x.track = None
  <2> DEFINE y == ClearSource(SetPlaying(e.deck[d], x.playing))
  <2>1. e.deck[d] \in DeckStates
    BY DEF Engines
  <2>2. Turns(e.deck[d], y, {})
    BY <2>1, LandsIs
  <2>3. GiveBack(e, d, x) = Sweep([e EXCEPT !.deck[d] = y], d)
    BY <1>2 DEF GiveBack
  <2> HIDE DEF y
  <2>4. Gains(e, GiveBack(e, d, x), {}) /\ GiveBack(e, d, x).park = e.park
    BY <2>2, <2>3, PutAndSweep
  <2> QED
    BY <1>2, <2>4, Constants DEF Gains
<1> QED
  BY <1>1, <1>2

-----------------------------------------------------------------------------
(* The commands *)

\* What every command does: it adds its own track, and gives up parks, or
\* starts a scratch whose host is in none.
Hosting(e) == \A c, d \in Decks : c # d /\ e.park[c] # None /\ e.park[d] # None =>
                ~(e.park[c].doubled = d /\ e.park[d].doubled = c)
Commanded(e, f, T) == Gains(e, f, T) /\ (Hosting(e) => Hosting(f))

\* A command that only gives up parks keeps hosts apart.
LEMMA ShrinkingCommand ==
  ASSUME NEW e, NEW f, NEW T, Gains(e, f, T), Shrinks(e, f)
  PROVE  Commanded(e, f, T)
BY DEF Commanded, Hosting, Shrinks

\* A transport change of one deck.
LEMMA TransportIs ==
  ASSUME NEW e \in Engines, NEW d \in Decks
  PROVE  /\ Commanded(e, Play(e, d), {})
         /\ Commanded(e, Pause(e, d), {})
         /\ Commanded(e, Seek(e, d), {})
<1>1. e.deck[d] \in DeckStates
  BY DEF Engines
<1>2. /\ Turns(e.deck[d], SetPlaying(e.deck[d], TRUE), {})
      /\ Turns(e.deck[d], SetPlaying(e.deck[d], FALSE), {})
      /\ Turns(e.deck[d], SetPosition(e.deck[d]), {})
  BY <1>1, PlayingIs, DeclickIs DEF SetPosition
<1>3. Commanded(e, Pause(e, d), {})
  <2> DEFINE y == SetPlaying(e.deck[d], FALSE)
             f == [e EXCEPT !.deck[d] = y]
  <2>0. Turns(e.deck[d], y, {})
    BY <1>2
  <2>1. Gains(e, f, {}) /\ f.park = e.park
    <3> HIDE DEF y
    <3> QED  BY <2>0, DeckGains
  <2>2. Pause(e, d) = f
    BY DEF Pause
  <2> HIDE DEF f
  <2> QED
    BY <2>1, <2>2, ShrinkingCommand DEF Shrinks
<1>4. Commanded(e, Seek(e, d), {})
  <2> DEFINE y == SetPosition(e.deck[d])
             f == [e EXCEPT !.deck[d] = y]
  <2>0. Turns(e.deck[d], y, {})
    BY <1>2
  <2>1. Gains(e, f, {}) /\ f.park = e.park
    <3> HIDE DEF y
    <3> QED  BY <2>0, DeckGains
  <2>2. Seek(e, d) = f
    BY DEF Seek
  <2> HIDE DEF f
  <2> QED
    BY <2>1, <2>2, ShrinkingCommand DEF Shrinks
<1>5. Commanded(e, Play(e, d), {})
  <2> DEFINE y == SetPlaying(e.deck[d], TRUE)
             f == [e EXCEPT !.deck[d] = y]
             g == [f EXCEPT !.mode[d] = "Internal"]
  <2>0. Turns(e.deck[d], y, {})
    BY <1>2
  <2>1. Gains(e, f, {}) /\ f.park = e.park
    <3> HIDE DEF y
    <3> QED  BY <2>0, DeckGains
  <2>2. Play(e, d) = g
    BY DEF Play
  <2> HIDE DEF f
  <2>3. f \in Engines /\ "Internal" \in Modes
    BY <2>1 DEF Gains, Modes
  <2>4. g \in Engines /\ g.deck = f.deck /\ g.park = f.park /\ g.samp = f.samp /\ g.out = f.out
    BY <2>3, PutMode
  <2> HIDE DEF g
  <2>5. Gains(f, g, {})
    BY <2>4 DEF Gains, Holds, RampsOver
  <2>6. Gains(e, g, {})
    BY <2>1, <2>5, GainsTrans
  <2> QED
    BY <2>1, <2>2, <2>4, <2>6, ShrinkingCommand DEF Shrinks
<1> QED
  BY <1>3, <1>4, <1>5

\* The effect of Load.
LEMMA LoadIs ==
  ASSUME NEW e \in Engines, NEW d \in Decks, NEW t \in Tracks
  PROVE  Commanded(e, Load(e, d, t), {t})
<1> DEFINE a == Abandon(e, d)
           b == IF a.prior[d] = None THEN a ELSE SetControlMode(a, d, a.prior[d])
           y == SwapSource(b.deck[d], t)
           f == Sweep([b EXCEPT !.deck[d] = y], d)
<1>1. Load(e, d, t) = f
  BY DEF Load
<1>2. Gains(e, a, {}) /\ Shrinks(e, a) /\ a \in Engines
  BY AbandonIs DEF Gains, Shrinks
<1> HIDE DEF a
<1>3. Gains(a, b, {}) /\ Shrinks(a, b)
  <2>1. CASE a.prior[d] = None
    BY <1>2, <2>1 DEF Gains, Shrinks
  <2>2. CASE a.prior[d] # None
    <3>1. a.prior[d] \in Modes
      BY <1>2, <2>2 DEF Engines
    <3> QED
      BY <1>2, <2>2, <3>1, ModeIs
  <2> QED
    BY <2>1, <2>2
<1>4. b \in Engines
  BY <1>3 DEF Gains
<1> HIDE DEF b
<1>5. Turns(b.deck[d], y, {t})
  <2>1. b.deck[d] \in DeckStates /\ t \in Held
    BY <1>4 DEF Engines, Held
  <2> QED
    BY <2>1, SwapIs
<1> HIDE DEF y
<1>6. Gains(b, f, {t}) /\ f.park = b.park
  BY <1>4, <1>5, PutAndSweep
<1> HIDE DEF f
<1>7. Gains(e, b, {})
  BY <1>2, <1>3, GainsTrans
<1>8. Gains(e, f, {t})
  BY <1>6, <1>7, GainsTrans
<1> QED
  BY <1>1, <1>2, <1>3, <1>6, <1>8, ShrinkingCommand DEF Shrinks

\* The effect of LoadSample.
LEMMA SampleIs ==
  ASSUME NEW e \in Engines, NEW s \in Slots, NEW t \in Held
  PROVE  Commanded(e, [Trash(e, e.samp[s]) EXCEPT !.samp[s] = t], {t})
<1> DEFINE a == Trash(e, e.samp[s])
           f == [a EXCEPT !.samp[s] = t]
<1>1. e.samp[s] \in Held
  BY DEF Engines
<1>2. /\ Gains(e, a, {e.samp[s]}) /\ Same(e, a) /\ a \in Engines
      /\ \A u \in Tracks : Outgoing(a.out, u) <=> Outgoing(e.out, u) \/ u = e.samp[s]
  BY <1>1, TrashIs DEF Gains
<1> HIDE DEF a
<1>3. /\ f \in Engines /\ f.samp[s] = t /\ \A c \in Slots \ {s} : f.samp[c] = a.samp[c]
      /\ f.deck = a.deck /\ f.park = a.park /\ f.out = a.out
  BY <1>2, PutSample
<1> HIDE DEF f
<1>4. \A u \in Tracks : Holds(f, u) <=> Holds(e, u) \/ u = t
  BY <1>2, <1>3 DEF Holds, Same
<1>5. Gains(e, f, {t})
  BY <1>2, <1>3, <1>4 DEF Gains, RampsOver, Same
<1> QED
  BY <1>2, <1>3, <1>5, ShrinkingCommand DEF Shrinks, Same, f, a

\* The effect of InstantDouble.
LEMMA DoubleIs ==
  ASSUME NEW e \in Engines, NEW from \in Decks, NEW to \in Decks
  PROVE  Commanded(e, InstantDouble(e, from, to), {})
<1> DEFINE a == Abandon(e, to)
           x == a.deck[from]
           y == [track |-> x.src, playing |-> x.playing]
           f == Land(a, to, y)
<1>1. Gains(e, a, {}) /\ Shrinks(e, a) /\ a \in Engines
  BY AbandonIs DEF Gains, Shrinks
<1> HIDE DEF a
<1>2. InstantDouble(e, from, to) = IF from = to THEN e ELSE IF x.src = None THEN a ELSE f
  BY DEF InstantDouble, a
<1>3. x \in DeckStates
  BY <1>1 DEF Engines
<1>4. y.playing \in BOOLEAN /\ y.track \in Held /\ y.track = x.src
  BY <1>3 DEF DeckStates
<1>5. Gains(a, f, {y.track}) /\ f.park = a.park
  <2> HIDE DEF y
  <2> QED  BY <1>1, <1>4, LandIs
<1>6. \A t \in Tracks : t = x.src => Holds(a, t)
  BY DEF Holds, DeckHolds
<1> HIDE DEF f, y, x
<1>7. Gains(a, f, {})
  BY <1>4, <1>5, <1>6 DEF Gains
<1>8. Gains(e, f, {})
  BY <1>1, <1>7, GainsTrans
<1>9. Commanded(e, f, {})
  BY <1>1, <1>5, <1>8, ShrinkingCommand DEF Shrinks
<1>10. Commanded(e, a, {})
  BY <1>1, ShrinkingCommand
<1>11. Commanded(e, e, {})
  BY DEF Commanded, Gains
<1> QED
  BY <1>2, <1>9, <1>10, <1>11

\* A park may take tracks that the engine holds anyway.
LEMMA NewPark ==
  ASSUME NEW e \in Engines, NEW d \in Decks, NEW y \in Parks, e.park[d] = None,
         \A t \in Tracks : ParkHolds(y, t) => Holds(e, t)
  PROVE  LET f == [e EXCEPT !.park[d] = y] IN
           /\ Gains(e, f, {})
           /\ f.park[d] = y /\ \A c \in Decks \ {d} : f.park[c] = e.park[c]
<1> DEFINE f == [e EXCEPT !.park[d] = y]
<1>1. /\ f \in Engines /\ f.park[d] = y /\ \A c \in Decks \ {d} : f.park[c] = e.park[c]
      /\ f.deck = e.deck /\ f.samp = e.samp /\ f.out = e.out
  BY PutPark
<1> HIDE DEF f
<1>2. \A t \in Tracks : Holds(f, t) => Holds(e, t)
  BY <1>1 DEF Holds
<1>3. \A t \in Tracks : Holds(e, t) => Holds(f, t)
  BY <1>1 DEF Holds, ParkHolds
<1>4. Gains(e, f, {})
  BY <1>1, <1>2, <1>3 DEF Gains, RampsOver
<1> QED
  BY <1>1, <1>4 DEF f

\* The effect of a scratch onto the other deck's tune.
LEMMA DoubleOntoIs ==
  ASSUME NEW e \in Engines, NEW d \in Decks, NEW to \in Decks \ {d}, e.park[d] = None
  PROVE  Commanded(e, DoubleOnto(e, d, to), {})
<1> DEFINE a == Abandon(e, to)
           host == [track |-> a.deck[to].src, playing |-> a.deck[to].playing]
           prior == IF a.prior[to] = None THEN a.mode[to] ELSE a.prior[to]
           w == [a EXCEPT !.prior[to] = prior]
           b == IF a.mode[to] = "Internal" THEN a ELSE [w EXCEPT !.mode[to] = "Internal"]
           tune == [track |-> e.deck[d].src, playing |-> e.deck[d].playing]
           c == Land(b, to, tune)
           y == Parked(e.deck[d], to, host)
           f == [c EXCEPT !.park[d] = y]
<1>1. DoubleOnto(e, d, to) = f
  BY DEF DoubleOnto
<1>2. /\ Gains(e, a, {}) /\ a.park[to] = None /\ a.park[d] = None /\ a \in Engines
      /\ a.deck = e.deck
  BY AbandonIs DEF Gains
<1> HIDE DEF a
<1>3. e.deck[d] \in DeckStates /\ a.deck[to] \in DeckStates /\ a.mode[to] \in Modes
  BY <1>2 DEF Engines
<1>4. /\ host \in Hosts /\ tune.track \in Held /\ tune.playing \in BOOLEAN
      /\ host.track = a.deck[to].src /\ tune.track = e.deck[d].src
  BY <1>3 DEF DeckStates, Hosts
<1>5. Gains(a, b, {}) /\ b.park = a.park /\ b.deck = a.deck
  <2>1. CASE a.mode[to] = "Internal"
    BY <1>2, <2>1 DEF Gains
  <2>2. CASE a.mode[to] # "Internal"
    <3>1. prior \in (Modes \ {"Internal"}) \cup {None}
      BY <1>2, <1>3, <2>2 DEF Engines
    <3> HIDE DEF prior
    <3>2. /\ w \in Engines /\ w.deck = a.deck /\ w.park = a.park /\ w.samp = a.samp
          /\ w.out = a.out
      BY <1>2, <3>1, PutPrior
    <3> DEFINE z == [w EXCEPT !.mode[to] = "Internal"]
    <3>3. b = z
      BY <2>2
    <3> HIDE DEF w, b
    <3>4. "Internal" \in Modes
      BY DEF Modes
    <3>5. z \in Engines /\ z.deck = w.deck /\ z.park = w.park /\ z.samp = w.samp /\ z.out = w.out
      BY <3>2, <3>4, PutMode
    <3> HIDE DEF z
    <3> QED
      BY <3>2, <3>3, <3>5 DEF Gains, Holds, RampsOver
  <2> QED
    BY <2>1, <2>2
<1> HIDE DEF b, tune
<1>6. b \in Engines
  BY <1>5 DEF Gains
<1>7. Gains(b, c, {tune.track}) /\ c.park = b.park
  BY <1>4, <1>6, LandIs
<1> HIDE DEF c
<1>8. c \in Engines /\ c.park[d] = None /\ c.park[to] = None
  BY <1>2, <1>5, <1>7 DEF Gains
<1> HIDE DEF host
<1>9. y \in Parks /\ y.track = e.deck[d].src /\ y.host = host
  BY <1>3, <1>4 DEF Parked, Parks, DeckStates
<1>10. \A t \in Tracks : ParkHolds(y, t) => Holds(e, t)
  BY <1>2, <1>4, <1>9 DEF ParkHolds, Holds, DeckHolds
<1>11. \A t \in Tracks : t = tune.track => Holds(e, t)
  BY <1>4 DEF Holds, DeckHolds
<1>12. Gains(e, c, {})
  BY <1>2, <1>5, <1>7, <1>11 DEF Gains
<1> HIDE DEF y
<1>13. \A t \in Tracks : ParkHolds(y, t) => Holds(c, t)
  BY <1>10, <1>12 DEF Gains
<1>14. Gains(c, f, {}) /\ f.park[d] = y /\ f.park[to] = None
  BY <1>8, <1>9, <1>13, NewPark
<1> HIDE DEF f
<1>15. Gains(e, f, {})
  BY <1>12, <1>14, GainsTrans
<1>16. Hosting(f)
  BY <1>14, Constants DEF Hosting
<1> QED
  BY <1>1, <1>15, <1>16 DEF Commanded

\* The effect of Park.
LEMMA ParkIs ==
  ASSUME NEW e \in Engines, NEW d \in Decks, NEW to \in Decks \cup {None}
  PROVE  Commanded(e, Park(e, d, to), {})
<1>1. CASE e.park[d] # None
  BY <1>1 DEF Park, Commanded, Gains
<1>2. CASE e.park[d] = None /\ to \in Decks \ {d} /\ e.deck[d].src # None
  BY <1>2, DoubleOntoIs DEF Park
<1>3. CASE e.park[d] = None /\ ~(to \in Decks \ {d} /\ e.deck[d].src # None)
  <2> DEFINE y == Parked(e.deck[d], None, None)
             f == [e EXCEPT !.park[d] = y]
  <2>1. e.deck[d] \in DeckStates
    BY DEF Engines
  <2>2. y \in Parks /\ y.track = e.deck[d].src /\ y.host = None /\ y.doubled = None
    BY <2>1 DEF Parked, Parks, DeckStates
  <2>3. \A t \in Tracks : ParkHolds(y, t) => Holds(e, t)
    BY <2>2 DEF ParkHolds, Holds, DeckHolds
  <2>4. Park(e, d, to) = f
    BY <1>3 DEF Park
  <2> HIDE DEF y
  <2>5. Gains(e, f, {}) /\ f.park[d] = y /\ \A c \in Decks \ {d} : f.park[c] = e.park[c]
    BY <1>3, <2>2, <2>3, NewPark
  <2> HIDE DEF f
  <2>6. Hosting(e) => Hosting(f)
    BY <2>2, <2>5, Constants DEF Hosting
  <2> QED
    BY <2>4, <2>5, <2>6 DEF Commanded
<1> QED
  BY <1>1, <1>2, <1>3

\* The effect of Engage.
LEMMA EngageIs ==
  ASSUME NEW e \in Engines, NEW d \in Decks, NEW s \in Slots, NEW to \in Decks \cup {None}
  PROVE  Commanded(e, Engage(e, d, s, to), {})
<1>1. CASE e.samp[s] = None
  BY <1>1 DEF Engage, Commanded, Gains
<1>2. CASE e.samp[s] # None
  <2> DEFINE t == e.samp[s]
             a == Park(e, d, to)
             y == SetPosition(SwapSource(a.deck[d], t))
             f == Sweep([a EXCEPT !.deck[d] = y], d)
  <2>1. Engage(e, d, s, to) = f
    BY <1>2 DEF Engage
  <2>2. Commanded(e, a, {}) /\ a \in Engines
    BY ParkIs DEF Commanded, Gains
  <2> HIDE DEF a
  <2>3. t \in Held /\ a.deck[d] \in DeckStates
    BY <2>2 DEF Engines
  <2>4. Turns(a.deck[d], y, {t})
    BY <2>3, LandsIs
  <2>5. \A u \in Tracks : u = t => Holds(e, u)
    BY DEF Holds
  <2> HIDE DEF y, t
  <2>6. Gains(a, f, {t}) /\ f.park = a.park
    BY <2>2, <2>4, PutAndSweep
  <2> HIDE DEF f
  <2>7. Gains(e, f, {})
    BY <2>2, <2>5, <2>6 DEF Gains, Commanded
  <2> QED
    BY <2>1, <2>2, <2>6, <2>7 DEF Commanded, Hosting
<1> QED
  BY <1>1, <1>2

\* The host of a doubled tune gets its mode and its record back.
LEMMA RevertIs ==
  ASSUME NEW e \in Engines, NEW to \in Decks, NEW host \in Hosts
  PROVE  Gains(e, Revert(e, to, host), {host.track}) /\ Revert(e, to, host).park = e.park
<1> DEFINE w == [e EXCEPT !.mode[to] = e.prior[to]]
           a == IF e.prior[to] = None THEN e ELSE [w EXCEPT !.prior[to] = None]
<1>1. Revert(e, to, host) = GiveBack(a, to, host)
  BY DEF Revert
<1>2. Gains(e, a, {}) /\ a.park = e.park
  <2>1. CASE e.prior[to] = None
    BY <2>1 DEF Gains
  <2>2. CASE e.prior[to] # None
    <3>1. e.prior[to] \in Modes
      BY <2>2 DEF Engines
    <3>2. w \in Engines /\ w.deck = e.deck /\ w.park = e.park /\ w.samp = e.samp /\ w.out = e.out
      BY <3>1, PutMode
    <3> DEFINE z == [w EXCEPT !.prior[to] = None]
    <3>3. a = z
      BY <2>2
    <3> HIDE DEF w, a
    <3>4. None \in (Modes \ {"Internal"}) \cup {None}
      OBVIOUS
    <3>5. z \in Engines /\ z.deck = w.deck /\ z.park = w.park /\ z.samp = w.samp /\ z.out = w.out
      BY <3>2, <3>4, PutPrior
    <3> HIDE DEF z
    <3> QED
      BY <3>2, <3>3, <3>5 DEF Gains, Holds, RampsOver
  <2> QED
    BY <2>1, <2>2
<1> HIDE DEF a
<1>3. a \in Engines /\ host.playing \in BOOLEAN /\ host.track \in Held
  BY <1>2 DEF Gains, Hosts
<1>4. Gains(a, GiveBack(a, to, host), {host.track}) /\ GiveBack(a, to, host).park = a.park
  BY <1>3, GiveBackIs
<1>5. Gains(e, GiveBack(a, to, host), {host.track})
  BY <1>2, <1>4, GainsTrans
<1> QED
  BY <1>1, <1>2, <1>4, <1>5

\* The effect of Release.
LEMMA ReleaseIs ==
  ASSUME NEW e \in Engines, NEW d \in Decks
  PROVE  Commanded(e, Release(e, d), {})
<1>1. CASE e.park[d] = None
  BY <1>1 DEF Release, Commanded, Gains
<1>2. CASE e.park[d] # None
  <2> DEFINE p == e.park[d]
             live == StillDoubled(e, d)
             a == [e EXCEPT !.park[d] = None]
             b == CASE p.host = None -> a
                    [] p.host # None /\ live -> Revert(a, p.doubled, p.host)
                    [] p.host # None /\ ~live -> Trash(a, p.host.track)
             on == IF live THEN e.deck[p.doubled].playing ELSE p.playing
             tune == [track |-> p.track, playing |-> on]
             f == GiveBack(b, d, tune)
  <2>1. Release(e, d) = f
    BY <1>2 DEF Release
  <2>2. /\ p \in Parks /\ p.track \in Held /\ p.playing \in BOOLEAN
        /\ p.host # None => p.host \in Hosts /\ p.host.track \in Held
        /\ live => p.doubled \in Decks
    BY <1>2 DEF Engines, Parks, Hosts, StillDoubled
  <2>3. on \in BOOLEAN
    BY <2>2 DEF Engines, DeckStates
  <2>4. tune.track = p.track /\ tune.playing \in BOOLEAN
    BY <2>3
  <2>5. None \in Parks \cup {None}
    OBVIOUS
  <2>6. /\ a \in Engines /\ a.park[d] = None /\ \A c \in Decks \ {d} : a.park[c] = e.park[c]
        /\ a.deck = e.deck /\ a.samp = e.samp /\ a.out = e.out
    BY <2>5, PutPark
  <2> HIDE DEF a, live
  <2>7. \A t \in Tracks : Holds(e, t) <=> Holds(a, t) \/ ParkHolds(p, t)
    BY <1>2, <2>6 DEF Holds, ParkHolds
  <2>8. RampsOver(e) => RampsOver(a)
    BY <2>6 DEF RampsOver
  <2>9. /\ b \in Engines /\ b.park = a.park /\ (RampsOver(a) => RampsOver(b))
        /\ \A t \in Tracks : Holds(b, t) <=> Holds(a, t) \/ (p.host # None /\ t = p.host.track)
    <3>1. CASE p.host = None
      BY <2>6, <3>1
    <3>2. CASE p.host # None /\ live
      <4>1. b = Revert(a, p.doubled, p.host)
        BY <3>2
      <4> HIDE DEF b, p
      <4> QED
        BY <2>2, <2>6, <3>2, <4>1, RevertIs DEF Gains
    <3>3. CASE p.host # None /\ ~live
      <4>1. b = Trash(a, p.host.track)
        BY <3>3
      <4> HIDE DEF b, p
      <4> QED
        BY <2>2, <2>6, <3>3, <4>1, TrashIs DEF Gains, Same
    <3> QED
      BY <3>1, <3>2, <3>3
  <2> HIDE DEF b, tune
  <2>10. Gains(b, f, {tune.track}) /\ f.park = b.park
    BY <2>2, <2>4, <2>9, GiveBackIs
  <2> HIDE DEF f
  <2>11. \A t \in Tracks : Holds(f, t) <=> Holds(e, t)
    BY <1>2, <2>4, <2>7, <2>9, <2>10 DEF Gains, ParkHolds
  <2>12. Gains(e, f, {}) /\ Shrinks(e, f)
    BY <2>6, <2>8, <2>9, <2>10, <2>11 DEF Gains, Shrinks
  <2> QED
    BY <2>1, <2>12, ShrinkingCommand
<1> QED
  BY <1>1, <1>2

\* The track that a command carries.
Cargo(c) == IF "track" \in DOMAIN c THEN {c.track} ELSE {}

\* apply_command: the engine holds what it held and the cargo.
LEMMA AppliedIs ==
  ASSUME NEW e \in Engines, NEW c \in Commands
  PROVE  Commanded(e, Applied(e, c), Cargo(c))
<1>1. CASE c \in [op : {"load"}, deck : Decks, track : Tracks]
  <2>1. c.op = "load" /\ c.deck \in Decks /\ c.track \in Tracks /\ Cargo(c) = {c.track}
    BY <1>1 DEF Cargo
  <2>2. Applied(e, c) = Load(e, c.deck, c.track)
    BY <2>1 DEF Applied
  <2> QED
    BY <2>1, <2>2, LoadIs
<1>2. CASE c \in [op : {"sample"}, slot : Slots, track : Tracks]
  <2>1. c.op = "sample" /\ c.slot \in Slots /\ c.track \in Held /\ Cargo(c) = {c.track}
    BY <1>2 DEF Cargo, Held
  <2>2. Applied(e, c) = [Trash(e, e.samp[c.slot]) EXCEPT !.samp[c.slot] = c.track]
    BY <2>1 DEF Applied, SamplerLoad
  <2> QED
    BY <2>1, <2>2, SampleIs
<1>3. CASE c \in [op : {"clear"}, slot : Slots]
  <2>1. c.op = "clear" /\ c.slot \in Slots /\ None \in Held /\ Cargo(c) = {}
    BY <1>3 DEF Cargo, Held
  <2>2. Applied(e, c) = [Trash(e, e.samp[c.slot]) EXCEPT !.samp[c.slot] = None]
    BY <2>1 DEF Applied, SamplerClear
  <2>3. Commanded(e, Applied(e, c), {None})
    BY <2>1, <2>2, SampleIs
  <2> QED
    BY <2>1, <2>3, Constants DEF Commanded, Gains
<1>4. CASE c \in [op : {"play", "pause", "seek", "release"}, deck : Decks]
  <2>1. c.op \in {"play", "pause", "seek", "release"} /\ c.deck \in Decks /\ Cargo(c) = {}
    BY <1>4 DEF Cargo
  <2>2. Applied(e, c) \in {Play(e, c.deck), Pause(e, c.deck), Seek(e, c.deck), Release(e, c.deck)}
    BY <2>1 DEF Applied
  <2>3. \A f \in {Play(e, c.deck), Pause(e, c.deck), Seek(e, c.deck), Release(e, c.deck)} :
          Commanded(e, f, {})
    BY <2>1, TransportIs, ReleaseIs
  <2> QED
    BY <2>1, <2>2, <2>3
<1>5. CASE c \in [op : {"mode"}, deck : Decks, mode : Modes]
  <2>1. c.op = "mode" /\ c.deck \in Decks /\ c.mode \in Modes /\ Cargo(c) = {}
    BY <1>5 DEF Cargo
  <2>2. Applied(e, c) = SetControlMode(e, c.deck, c.mode)
    BY <2>1 DEF Applied
  <2> QED
    BY <2>1, <2>2, ModeIs, ShrinkingCommand
<1>6. CASE c \in [op : {"engage"}, deck : Decks, slot : Slots, to : Decks \cup {None}]
  <2>1. c.op = "engage" /\ c.deck \in Decks /\ c.slot \in Slots /\ c.to \in Decks \cup {None}
        /\ Cargo(c) = {}
    BY <1>6 DEF Cargo
  <2>2. Applied(e, c) = Engage(e, c.deck, c.slot, c.to)
    BY <2>1 DEF Applied
  <2> QED
    BY <2>1, <2>2, EngageIs
<1>7. CASE c \in [op : {"double"}, deck : Decks, to : Decks]
  <2>1. c.op = "double" /\ c.deck \in Decks /\ c.to \in Decks /\ Cargo(c) = {}
    BY <1>7 DEF Cargo
  <2>2. Applied(e, c) = InstantDouble(e, c.deck, c.to)
    BY <2>1 DEF Applied
  <2> QED
    BY <2>1, <2>2, DoubleIs
<1> QED
  BY <1>1, <1>2, <1>3, <1>4, <1>5, <1>6, <1>7 DEF Commands

-----------------------------------------------------------------------------
(* The block *)

\* One block of a ramp loses nothing.
LEMMA FadeIs ==
  ASSUME NEW x \in DeckStates
  PROVE  /\ FadeBlock(x) \in DeckStates
         /\ \A t \in Tracks : DeckHolds(FadeBlock(x), t) <=> DeckHolds(x, t)
<1> DEFINE n == IF x.fade = 0 THEN 0 ELSE x.fade - 1
           y == [x EXCEPT !.fade = n]
<1>1. n \in 0..FadeBlocks
  BY Constants DEF DeckStates
<1>2. FadeBlock(x) = y
  BY DEF FadeBlock
<1> HIDE DEF n
<1>3. y \in DeckStates
  BY <1>1, StateWith
<1>4. y.src = x.src /\ y.prev = x.prev /\ y.pending = x.pending /\ y.dropped = x.dropped
  BY DEF DeckStates
<1> HIDE DEF y
<1> QED
  BY <1>2, <1>3, <1>4 DEF DeckHolds

\* The platter, the ramps and the sweep of a block.
LEMMA RenderIs ==
  ASSUME eng \in Engines, NEW turned
  PROVE  LET f == SweepAll([eng EXCEPT !.deck = Rendered(Driven(turned))]) IN
           /\ f \in Engines /\ f.park = eng.park /\ RampsOver(f)
           /\ \A t \in Tracks : Holds(f, t) <=> Holds(eng, t)
<1> DEFINE x == Driven(turned)
           y == Rendered(x)
           a == [eng EXCEPT !.deck = y]
           b == Sweep(a, DeckA)
           f == Sweep(b, DeckB)
<1>1. \A d \in Decks : /\ x[d] \in DeckStates
                       /\ \A t \in Tracks : DeckHolds(x[d], t) <=> DeckHolds(eng.deck[d], t)
  <2> TAKE d \in Decks
  <2>1. eng.deck[d] \in DeckStates /\ (~eng.deck[d].playing) \in BOOLEAN
    BY DEF Engines
  <2>2. Turns(eng.deck[d], SetPlaying(eng.deck[d], ~eng.deck[d].playing), {})
    BY <2>1, PlayingIs
  <2>3. x[d] = IF d \in turned THEN SetPlaying(eng.deck[d], ~eng.deck[d].playing)
               ELSE eng.deck[d]
    BY DEF Driven
  <2> HIDE DEF x
  <2> QED
    BY <2>1, <2>2, <2>3 DEF Turns
<1> HIDE DEF x
<1>2. /\ \A d \in Decks : /\ y[d] \in DeckStates
                          /\ \A t \in Tracks : DeckHolds(y[d], t) <=> DeckHolds(x[d], t)
      /\ y \in [Decks -> DeckStates]
  <2>1. \A d \in Decks : y[d] = x[d] \/ y[d] = FadeBlock(x[d])
    BY DEF Rendered
  <2>2. \A d \in Decks : y[d] \in DeckStates
    BY <1>1, <2>1, FadeIs
  <2>3. y \in [Decks -> DeckStates]
    BY <2>2 DEF Rendered
  <2> HIDE DEF y
  <2> QED
    BY <1>1, <2>1, <2>2, <2>3, FadeIs
<1> HIDE DEF y
<1>3. /\ a \in Engines /\ a.deck = y /\ a.park = eng.park /\ a.samp = eng.samp /\ a.out = eng.out
  BY <1>2 DEF Engines
<1> HIDE DEF a
<1>4. \A t \in Tracks : Holds(a, t) <=> Holds(eng, t)
  BY <1>1, <1>2, <1>3 DEF Holds
<1>5. DeckA \in Decks /\ DeckB \in Decks /\ \A d \in Decks : d = DeckA \/ d = DeckB
  BY Constants
<1>6. /\ b \in Engines /\ RampOver(b.deck[DeckA]) /\ b.park = a.park
      /\ \A t \in Tracks : Holds(b, t) <=> Holds(a, t)
  BY <1>3, <1>5, SweepIs
<1> HIDE DEF b
<1>7. /\ f \in Engines /\ RampOver(f.deck[DeckB]) /\ f.park = b.park
      /\ \A c \in Decks \ {DeckB} : f.deck[c] = b.deck[c]
      /\ \A t \in Tracks : Holds(f, t) <=> Holds(b, t)
  BY <1>5, <1>6, SweepIs
<1>8. SweepAll([eng EXCEPT !.deck = Rendered(Driven(turned))]) = f
  BY DEF SweepAll, b, a, y, x
<1> HIDE DEF f
<1>9. RampsOver(f)
  BY <1>5, <1>6, <1>7, Constants DEF RampsOver
<1> QED
  BY <1>3, <1>4, <1>6, <1>7, <1>8, <1>9

-----------------------------------------------------------------------------
(* The rings *)

\* The part of r that fits goes behind q.
LEMMA Concatenated ==
  ASSUME NEW S, NEW q \in Seq(S), NEW r \in Seq(S), NEW n \in 0..Len(r)
  PROVE  LET z == q \o SubSeq(r, 1, n) IN
           /\ z \in Seq(S) /\ Len(z) = Len(q) + n
           /\ \A t : Outgoing(z, t) <=> Outgoing(q, t) \/ \E i \in 1..n : r[i] = t
<1> DEFINE u == SubSeq(r, 1, n)
           z == q \o u
<1>1. u \in Seq(S) /\ Len(u) = n /\ \A i \in 1..n : u[i] = r[i]
  OBVIOUS
<1> HIDE DEF u
<1>2. z \in Seq(S) /\ Len(z) = Len(q) + n /\ DOMAIN z = 1..(Len(q) + n) /\ DOMAIN q = 1..Len(q)
      /\ Len(q) \in Nat
  BY <1>1
<1>3. /\ \A i \in 1..Len(q) : z[i] = q[i]
      /\ \A i \in 1..n : z[Len(q) + i] = r[i]
  BY <1>1
<1> HIDE DEF z
<1>4. \A t : Outgoing(z, t) => Outgoing(q, t) \/ \E i \in 1..n : r[i] = t
  <2> SUFFICES ASSUME NEW t, NEW j \in DOMAIN z, z[j] = t
               PROVE  Outgoing(q, t) \/ \E i \in 1..n : r[i] = t
    BY DEF Outgoing
  <2>1. CASE j \in 1..Len(q)
    BY <1>2, <1>3, <2>1 DEF Outgoing
  <2>2. CASE j \notin 1..Len(q)
    <3>1. j - Len(q) \in 1..n /\ j = Len(q) + (j - Len(q))
      BY <1>2, <2>2
    <3> QED
      BY <1>3, <3>1
  <2> QED
    BY <2>1, <2>2
<1>5. \A t : Outgoing(q, t) => Outgoing(z, t)
  BY <1>2, <1>3 DEF Outgoing
<1>6. \A t : (\E i \in 1..n : r[i] = t) => Outgoing(z, t)
  <2> SUFFICES ASSUME NEW i \in 1..n PROVE Outgoing(z, r[i])
    OBVIOUS
  <2>1. Len(q) + i \in DOMAIN z
    BY <1>2
  <2> QED
    BY <1>3, <2>1 DEF Outgoing
<1> QED
  BY <1>2, <1>4, <1>5, <1>6 DEF z, u

\* send_to_trash: what leaves the engine is in the trash, or forgotten.
LEMMA DisposeIs ==
  ASSUME TypeOK, NEW e \in Engines, Dispose(e)
  PROVE  /\ eng' \in Engines /\ eng'.out = <<>> /\ \A d \in Decks : eng'.deck[d].dropped = {}
         /\ eng'.park = e.park /\ (RampsOver(e) => RampsOver(eng'))
         /\ trash' \in Seq(Tracks) /\ Len(trash') \in 0..TrashCap
         /\ overflowed' \subseteq Tracks /\ leaked' \subseteq Tracks
         /\ overflowed \subseteq overflowed' /\ leaked \subseteq leaked'
         /\ \A t \in Tracks :
              /\ Holds(eng', t) => Holds(e, t)
              /\ Holds(e, t) => Holds(eng', t) \/ Outgoing(trash', t) \/ t \in overflowed' \cup leaked'
              /\ Outgoing(trash, t) => Outgoing(trash', t)
              /\ Outgoing(trash', t) => Outgoing(trash, t) \/ Holds(e, t)
              /\ t \in overflowed' \cup leaked' => t \in overflowed \cup leaked \/ Holds(e, t)
<1> DEFINE q == e.out
           room == TrashCap - Len(trash)
           fits == IF Len(q) < room THEN Len(q) ELSE room
           y == [d \in Decks |-> [e.deck[d] EXCEPT !.dropped = {}]]
           w == [e EXCEPT !.out = <<>>]
           lost == {q[i] : i \in (fits + 1)..Len(q)}
           gone == UNION {e.deck[d].dropped : d \in Decks}
<1>1. /\ trash' = trash \o SubSeq(q, 1, fits)
      /\ overflowed' = overflowed \cup lost
      /\ leaked' = leaked \cup gone
      /\ eng' = [w EXCEPT !.deck = y]
  BY DEF Dispose
<1>2. q \in Seq(Tracks) /\ Len(q) \in Nat /\ DOMAIN q = 1..Len(q)
  BY DEF Engines
<1>3. trash \in Seq(Tracks) /\ Len(trash) \in 0..TrashCap /\ overflowed \subseteq Tracks
      /\ leaked \subseteq Tracks
  BY DEF TypeOK
<1>4. room \in Nat /\ fits \in 0..Len(q) /\ fits <= room
  BY <1>2, <1>3, Constants
<1>5. /\ trash' \in Seq(Tracks) /\ Len(trash') = Len(trash) + fits
      /\ \A t : Outgoing(trash', t) <=> Outgoing(trash, t) \/ \E i \in 1..fits : q[i] = t
  <2> HIDE DEF q, fits
  <2> QED  BY <1>1, <1>2, <1>3, <1>4, Concatenated
<1>6. Len(trash') \in 0..TrashCap
  BY <1>3, <1>4, <1>5, Constants
<1>7. \A t : Outgoing(q, t) <=> t \in lost \/ \E i \in 1..fits : q[i] = t
  <2>1. \A i \in DOMAIN q : i \in 1..fits \/ i \in (fits + 1)..Len(q)
    BY <1>2, <1>4
  <2>2. \A i \in 1..fits : i \in DOMAIN q
    BY <1>2, <1>4
  <2>3. \A i \in (fits + 1)..Len(q) : i \in DOMAIN q
    BY <1>2, <1>4
  <2> HIDE DEF q, fits
  <2> QED  BY <2>1, <2>2, <2>3 DEF Outgoing
<1>8. \A d \in Decks : /\ e.deck[d] \in DeckStates
                       /\ y[d] \in DeckStates /\ y[d].dropped = {} /\ y[d].src = e.deck[d].src
                       /\ y[d].prev = e.deck[d].prev /\ y[d].pending = e.deck[d].pending
                       /\ y[d].fade = e.deck[d].fade
  <2> TAKE d \in Decks
  <2>1. e.deck[d] \in DeckStates
    BY DEF Engines
  <2>2. [e.deck[d] EXCEPT !.dropped = {}] \in DeckStates
    BY <2>1, StateWith
  <2> QED
    BY <2>1, <2>2 DEF DeckStates
<1>9. y \in [Decks -> DeckStates]
  BY <1>8
<1>10. gone \subseteq Tracks
  BY <1>8 DEF DeckStates
<1>11. lost \subseteq Tracks
  BY <1>2, <1>4
<1>12. \A t : t \in gone <=> \E d \in Decks : t \in e.deck[d].dropped
  OBVIOUS
<1> HIDE DEF y, lost, gone
<1>13. w \in Engines /\ w.park = e.park /\ w.samp = e.samp /\ w.out = <<>>
  <2>1. <<>> \in Seq(Tracks)
    OBVIOUS
  <2> QED
    BY <2>1 DEF Engines
<1> HIDE DEF w
<1>14. /\ eng' \in Engines /\ eng'.deck = y /\ eng'.park = e.park /\ eng'.samp = e.samp
       /\ eng'.out = <<>>
  BY <1>1, <1>9, <1>13 DEF Engines
<1>15. \A t \in Tracks : ~Outgoing(eng'.out, t)
  BY <1>14 DEF Outgoing
<1>16. \A t \in Tracks : Holds(e, t) <=> Holds(eng', t) \/ t \in gone \/ Outgoing(q, t)
  <2>1. \A t \in Tracks, d \in Decks :
          DeckHolds(e.deck[d], t) <=> DeckHolds(y[d], t) \/ t \in e.deck[d].dropped
    BY <1>8 DEF DeckHolds
  <2> QED
    BY <1>12, <1>14, <1>15, <2>1 DEF Holds
<1>17. RampsOver(e) => RampsOver(eng')
  BY <1>8, <1>14 DEF RampsOver, RampOver
<1> HIDE DEF q, fits
<1>18. \A t \in Tracks :
         /\ Holds(eng', t) => Holds(e, t)
         /\ Holds(e, t) => Holds(eng', t) \/ Outgoing(trash', t) \/ t \in overflowed' \cup leaked'
         /\ Outgoing(trash, t) => Outgoing(trash', t)
         /\ Outgoing(trash', t) => Outgoing(trash, t) \/ Holds(e, t)
         /\ t \in overflowed' \cup leaked' => t \in overflowed \cup leaked \/ Holds(e, t)
  BY <1>1, <1>5, <1>7, <1>16
<1> QED
  BY <1>1, <1>3, <1>5, <1>6, <1>8, <1>10, <1>11, <1>14, <1>17, <1>18

\* Between two steps an engine holds what its decks, parks and slots hold.
LEMMA HeldIs ==
  ASSUME NEW e \in Engines, e.out = <<>>, \A d \in Decks : e.deck[d].dropped = {}
  PROVE  \A t \in Tracks : OnDeck(e, t) \/ InPark(e, t) \/ InSampler(e, t) <=> Holds(e, t)
<1>1. \A t \in Tracks : ~Outgoing(e.out, t)
  BY DEF Outgoing
<1>2. \A t \in Tracks : InPark(e, t) <=> \E d \in Decks : ParkHolds(e.park[d], t)
  BY DEF InPark, ParkHolds
<1>3. \A t \in Tracks : OnDeck(e, t) <=> \E d \in Decks : DeckHolds(e.deck[d], t)
  BY DEF OnDeck, DeckHolds
<1> QED
  BY <1>1, <1>2, <1>3 DEF Holds, InSampler

\* A track is carried by a queue if a command of it carries it.
LEMMA CarriedIs ==
  ASSUME NEW q \in Seq(Commands), NEW t
  PROVE  Carried(q, t) <=> \E i \in 1..Len(q) : t \in Cargo(q[i])
BY DEF Carried, Cargo

\* What a queue carries with one command more.
LEMMA AppendIs ==
  ASSUME NEW q \in Seq(Commands), NEW c \in Commands, NEW t
  PROVE  Carried(Append(q, c), t) <=> Carried(q, t) \/ t \in Cargo(c)
<1> DEFINE r == Append(q, c)
<1>1. r \in Seq(Commands) /\ Len(r) = Len(q) + 1 /\ Len(q) \in Nat
  OBVIOUS
<1>2. r[Len(q) + 1] = c /\ \A i \in 1..Len(q) : r[i] = q[i]
  OBVIOUS
<1>3. 1..Len(r) = 1..Len(q) \cup {Len(q) + 1}
  BY <1>1
<1> HIDE DEF r
<1>4. Carried(r, t) <=> \E i \in 1..Len(r) : t \in Cargo(r[i])
  BY <1>1, CarriedIs
<1>5. Carried(q, t) <=> \E i \in 1..Len(q) : t \in Cargo(q[i])
  BY CarriedIs
<1>6. Carried(r, t) <=> Carried(q, t) \/ t \in Cargo(c)
  BY <1>2, <1>3, <1>4, <1>5
<1> QED
  BY <1>6 DEF r

\* What a queue carries with its first command taken.
LEMMA HeadIs ==
  ASSUME NEW q \in Seq(Commands), q # <<>>, NEW t
  PROVE  Carried(q, t) <=> t \in Cargo(Head(q)) \/ Carried(Tail(q), t)
<1> DEFINE r == Tail(q)
<1>1. r \in Seq(Commands) /\ Len(r) = Len(q) - 1 /\ Len(q) \in Nat /\ Len(q) >= 1 /\ Head(q) = q[1]
  OBVIOUS
<1>2. \A i \in 1..Len(r) : r[i] = q[i + 1] /\ i + 1 \in 1..Len(q)
  BY <1>1
<1>3. \A i \in 1..Len(q) : i = 1 \/ (i - 1 \in 1..Len(r) /\ q[i] = r[i - 1])
  BY <1>1
<1>4. 1 \in 1..Len(q)
  BY <1>1
<1> HIDE DEF r
<1>5. Carried(r, t) <=> \E i \in 1..Len(r) : t \in Cargo(r[i])
  BY <1>1, CarriedIs
<1>6. Carried(q, t) <=> \E i \in 1..Len(q) : t \in Cargo(q[i])
  BY CarriedIs
<1>7. Carried(q, t) => t \in Cargo(q[1]) \/ Carried(r, t)
  BY <1>3, <1>5, <1>6
<1>8. t \in Cargo(q[1]) \/ Carried(r, t) => Carried(q, t)
  BY <1>2, <1>4, <1>5, <1>6
<1> QED
  BY <1>1, <1>7, <1>8 DEF r

-----------------------------------------------------------------------------
(* The invariant *)

IInv == TypeOK /\ RampsOver(eng) /\ Hosting(eng)

\* What a call of the main thread does to the rings.
Called ==
  /\ ring' \in Seq(Commands) /\ Len(ring') \in 0..RingCap
  /\ \A t \in Tracks : /\ Carried(ring, t) => Carried(ring', t)
                       /\ Carried(ring', t) => Carried(ring, t) \/ t \in Fresh
  /\ trash' = trash \/ trash' = <<>>
  /\ calls' \in 0..Budget
  /\ UNCHANGED <<eng, overflowed, leaked, drained>>

\* A command sent carries only tracks that were fresh.
LEMMA SendIs ==
  ASSUME TypeOK, NEW c \in Commands, Send(c), \A t \in Cargo(c) : t \in Fresh
  PROVE  /\ ring' \in Seq(Commands) /\ Len(ring') \in 0..RingCap
         /\ \A t \in Tracks : /\ Carried(ring, t) => Carried(ring', t)
                              /\ Carried(ring', t) => Carried(ring, t) \/ t \in Fresh
<1>1. ring \in Seq(Commands) /\ Len(ring) \in 0..RingCap
  BY DEF TypeOK
<1>2. CASE Len(ring) < RingCap
  <2>1. ring' = Append(ring, c)
    BY <1>2 DEF Send
  <2>2. ring' \in Seq(Commands) /\ Len(ring') = Len(ring) + 1
    BY <1>1, <2>1
  <2>3. \A t : Carried(ring', t) <=> Carried(ring, t) \/ t \in Cargo(c)
    BY <1>1, <2>1, AppendIs
  <2> QED
    BY <1>1, <1>2, <2>2, <2>3, Constants
<1>3. CASE ~(Len(ring) < RingCap)
  BY <1>1, <1>3 DEF Send
<1> QED
  BY <1>2, <1>3

\* A call of the main thread reaches the engine by the ring alone.
LEMMA CallIs == TypeOK /\ MainCall => Called
<1> SUFFICES ASSUME TypeOK, MainCall PROVE Called
  OBVIOUS
<1>1. Fresh # {} => Decoded \in Fresh /\ Decoded \in Tracks
  BY DEF Decoded, Fresh
<1>2. calls \in 0..Budget
  BY DEF TypeOK
<1> HIDE DEF Fresh
<1>3. \A kind : Call(kind) => calls' \in 0..Budget /\ UNCHANGED <<eng, overflowed, leaked, drained>>
  BY <1>2, Constants DEF Call
<1>4. \A c \in Commands : Send(c) /\ (\A t \in Cargo(c) : t \in Fresh) =>
        /\ ring' \in Seq(Commands) /\ Len(ring') \in 0..RingCap
        /\ \A t \in Tracks : /\ Carried(ring, t) => Carried(ring', t)
                             /\ Carried(ring', t) => Carried(ring, t) \/ t \in Fresh
  BY SendIs
<1>5. CASE CallLoad
  <2>1. PICK d \in Decks : Send([op |-> "load", deck |-> d, track |-> Decoded])
    BY <1>5 DEF CallLoad
  <2> DEFINE c == [op |-> "load", deck |-> d, track |-> Decoded]
  <2>2. c \in Commands /\ Cargo(c) = {Decoded} /\ Decoded \in Fresh
    BY <1>1, <1>5 DEF CallLoad, Commands, Cargo
  <2> QED
    BY <1>3, <1>4, <1>5, <2>1, <2>2 DEF CallLoad, Called
<1>6. CASE CallSampler
  <2>1. PICK s \in Slots : \/ Fresh # {} /\ Send([op |-> "sample", slot |-> s, track |-> Decoded])
                           \/ Send([op |-> "clear", slot |-> s])
    BY <1>6 DEF CallSampler
  <2>2. CASE Fresh # {} /\ Send([op |-> "sample", slot |-> s, track |-> Decoded])
    <3> DEFINE c == [op |-> "sample", slot |-> s, track |-> Decoded]
    <3>1. c \in Commands /\ Cargo(c) = {Decoded} /\ Decoded \in Fresh
      BY <1>1, <2>2 DEF Commands, Cargo
    <3> QED
      BY <1>3, <1>4, <1>6, <2>2, <3>1 DEF CallSampler, Called
  <2>3. CASE Send([op |-> "clear", slot |-> s])
    <3> DEFINE c == [op |-> "clear", slot |-> s]
    <3>1. c \in Commands /\ Cargo(c) = {}
      BY DEF Commands, Cargo
    <3> QED
      BY <1>3, <1>4, <1>6, <2>3, <3>1 DEF CallSampler, Called
  <2> QED
    BY <2>1, <2>2, <2>3
<1>7. CASE CallTransport
  <2>1. PICK d \in Decks, op \in {"play", "pause", "seek"} : Call(op) /\ Send([op |-> op, deck |-> d])
    BY <1>7 DEF CallTransport
  <2> DEFINE c == [op |-> op, deck |-> d]
  <2>2. c \in Commands /\ Cargo(c) = {}
    BY DEF Commands, Cargo
  <2> QED
    BY <1>3, <1>4, <1>7, <2>1, <2>2 DEF CallTransport, Called
<1>8. CASE CallMode
  <2>1. PICK d \in Decks, m \in Modes : Send([op |-> "mode", deck |-> d, mode |-> m])
    BY <1>8 DEF CallMode
  <2> DEFINE c == [op |-> "mode", deck |-> d, mode |-> m]
  <2>2. c \in Commands /\ Cargo(c) = {}
    BY DEF Commands, Cargo
  <2> QED
    BY <1>3, <1>4, <1>8, <2>1, <2>2 DEF CallMode, Called
<1>9. CASE CallScratch
  <2>1. PICK d \in Decks :
          \/ \E s \in Slots, to \in (Decks \ {d}) \cup {None} :
               Send([op |-> "engage", deck |-> d, slot |-> s, to |-> to])
          \/ Send([op |-> "release", deck |-> d])
    BY <1>9 DEF CallScratch
  <2>2. \E c \in Commands : Send(c) /\ Cargo(c) = {}
    <3>1. CASE Send([op |-> "release", deck |-> d])
      <4>1. [op |-> "release", deck |-> d] \in Commands /\ Cargo([op |-> "release", deck |-> d]) = {}
        BY DEF Commands, Cargo
      <4> QED  BY <3>1, <4>1
    <3>2. ASSUME NEW s \in Slots, NEW to \in (Decks \ {d}) \cup {None},
                 Send([op |-> "engage", deck |-> d, slot |-> s, to |-> to])
          PROVE  \E c \in Commands : Send(c) /\ Cargo(c) = {}
      <4> DEFINE c == [op |-> "engage", deck |-> d, slot |-> s, to |-> to]
      <4>1. c \in Commands /\ Cargo(c) = {}
        BY DEF Commands, Cargo
      <4> QED  BY <3>2, <4>1
    <3> QED
      BY <2>1, <3>1, <3>2
  <2> QED
    BY <1>3, <1>4, <1>9, <2>2 DEF CallScratch, Called
<1>10. CASE CallDouble
  <2>1. PICK from \in Decks, to \in Decks : Send([op |-> "double", deck |-> from, to |-> to])
    BY <1>10 DEF CallDouble
  <2> DEFINE c == [op |-> "double", deck |-> from, to |-> to]
  <2>2. c \in Commands /\ Cargo(c) = {}
    BY DEF Commands, Cargo
  <2> QED
    BY <1>3, <1>4, <1>10, <2>1, <2>2 DEF CallDouble, Called
<1> QED
  BY <1>5, <1>6, <1>7, <1>8, <1>9, <1>10 DEF MainCall

\* What a step of the audio thread does to the tracks.
Disposed ==
  \A t \in Tracks :
    LET held == Holds(eng, t) \/ Carried(ring, t)
        held2 == Holds(eng', t) \/ Carried(ring', t)
    IN /\ held2 => held
       /\ held => held2 \/ Outgoing(trash', t) \/ t \in overflowed' \cup leaked'
       /\ Outgoing(trash, t) => Outgoing(trash', t)
       /\ Outgoing(trash', t) => Outgoing(trash, t) \/ held
       /\ t \in overflowed' \cup leaked' => t \in overflowed \cup leaked \/ held
       /\ t \in overflowed \cup leaked => t \in overflowed' \cup leaked'

\* A command applied keeps the invariant and disposes of what it gives up.
LEMMA ApplyIs == IInv /\ Apply => IInv' /\ Disposed
<1> SUFFICES ASSUME IInv, Apply PROVE IInv' /\ Disposed
  OBVIOUS
<1> DEFINE c == Head(ring)
           e == Applied(eng, c)
<1>1. TypeOK /\ eng \in Engines /\ ring \in Seq(Commands) /\ Len(ring) \in 0..RingCap /\ ring # <<>>
      /\ drained \in BOOLEAN /\ calls \in 0..Budget
  BY DEF IInv, TypeOK, Apply
<1>2. c \in Commands /\ Tail(ring) \in Seq(Commands) /\ Len(Tail(ring)) \in 0..RingCap
  <2>1. \A q \in Seq(Commands) : q # <<>> =>
          Head(q) \in Commands /\ Tail(q) \in Seq(Commands) /\ Len(Tail(q)) = Len(q) - 1
            /\ Len(q) - 1 \in Nat
    OBVIOUS
  <2>2. RingCap \in Nat
    BY Constants
  <2> QED
    BY <1>1, <2>1, <2>2
<1>3. Dispose(e) /\ ring' = Tail(ring) /\ UNCHANGED <<drained, calls>>
  BY DEF Apply
<1>4. \A t : Carried(ring, t) <=> t \in Cargo(c) \/ Carried(ring', t)
  BY <1>1, <1>3, HeadIs
<1>5. Commanded(eng, e, Cargo(c)) /\ e \in Engines
  <2> HIDE DEF c
  <2> QED  BY <1>1, <1>2, AppliedIs DEF Commanded, Gains
<1> HIDE DEF c, e
<1>6. /\ eng' \in Engines /\ eng'.out = <<>> /\ \A d \in Decks : eng'.deck[d].dropped = {}
      /\ eng'.park = e.park /\ (RampsOver(e) => RampsOver(eng'))
      /\ trash' \in Seq(Tracks) /\ Len(trash') \in 0..TrashCap
      /\ overflowed' \subseteq Tracks /\ leaked' \subseteq Tracks
      /\ overflowed \subseteq overflowed' /\ leaked \subseteq leaked'
      /\ \A t \in Tracks :
           /\ Holds(eng', t) => Holds(e, t)
           /\ Holds(e, t) => Holds(eng', t) \/ Outgoing(trash', t) \/ t \in overflowed' \cup leaked'
           /\ Outgoing(trash, t) => Outgoing(trash', t)
           /\ Outgoing(trash', t) => Outgoing(trash, t) \/ Holds(e, t)
           /\ t \in overflowed' \cup leaked' => t \in overflowed \cup leaked \/ Holds(e, t)
  BY <1>1, <1>3, <1>5, DisposeIs
<1>7. TypeOK'
  BY <1>1, <1>2, <1>3, <1>6 DEF TypeOK
<1>8. RampsOver(eng') /\ Hosting(eng')
  BY <1>5, <1>6 DEF IInv, Commanded, Gains, Hosting
<1>9. \A t \in Tracks : Holds(e, t) <=> Holds(eng, t) \/ t \in Cargo(c)
  BY <1>5 DEF Commanded, Gains
<1>10. Disposed
  BY <1>4, <1>6, <1>9 DEF Disposed
<1> QED
  BY <1>7, <1>8, <1>10 DEF IInv

\* So does a block.
LEMMA RenderStep == IInv /\ Render => IInv' /\ Disposed
<1> SUFFICES ASSUME IInv, NEW turned,
                    turned # {} => calls > 0,
                    calls' = IF turned = {} THEN calls ELSE calls - 1,
                    Dispose(SweepAll([eng EXCEPT !.deck = Rendered(Driven(turned))])),
                    drained' = FALSE, UNCHANGED ring
             PROVE  IInv' /\ Disposed
  BY DEF Render
<1> DEFINE e == SweepAll([eng EXCEPT !.deck = Rendered(Driven(turned))])
<1>1. TypeOK /\ eng \in Engines /\ ring \in Seq(Commands) /\ Len(ring) \in 0..RingCap
      /\ calls \in 0..Budget
  BY DEF IInv, TypeOK
<1>2. /\ e \in Engines /\ e.park = eng.park /\ RampsOver(e)
      /\ \A t \in Tracks : Holds(e, t) <=> Holds(eng, t)
  BY <1>1, RenderIs
<1>3. Dispose(e)
  OBVIOUS
<1> HIDE DEF e
<1>4. /\ eng' \in Engines /\ eng'.out = <<>> /\ \A d \in Decks : eng'.deck[d].dropped = {}
      /\ eng'.park = e.park /\ (RampsOver(e) => RampsOver(eng'))
      /\ trash' \in Seq(Tracks) /\ Len(trash') \in 0..TrashCap
      /\ overflowed' \subseteq Tracks /\ leaked' \subseteq Tracks
      /\ overflowed \subseteq overflowed' /\ leaked \subseteq leaked'
      /\ \A t \in Tracks :
           /\ Holds(eng', t) => Holds(e, t)
           /\ Holds(e, t) => Holds(eng', t) \/ Outgoing(trash', t) \/ t \in overflowed' \cup leaked'
           /\ Outgoing(trash, t) => Outgoing(trash', t)
           /\ Outgoing(trash', t) => Outgoing(trash, t) \/ Holds(e, t)
           /\ t \in overflowed' \cup leaked' => t \in overflowed \cup leaked \/ Holds(e, t)
  BY <1>1, <1>2, <1>3, DisposeIs
<1>5. calls' \in 0..Budget
  BY <1>1, Constants
<1>6. TypeOK'
  BY <1>1, <1>4, <1>5 DEF TypeOK
<1>7. RampsOver(eng') /\ Hosting(eng')
  BY <1>2, <1>4 DEF IInv, Hosting
<1>8. Disposed
  BY <1>2, <1>4 DEF Disposed
<1> QED
  BY <1>6, <1>7, <1>8 DEF IInv

\* Every step keeps the inductive invariant.
LEMMA StepKeeps == IInv /\ [Next]_vars => IInv'
<1>1. IInv /\ MainCall => IInv'
  <2> SUFFICES ASSUME IInv, MainCall PROVE IInv'
    OBVIOUS
  <2>1. TypeOK /\ Called
    BY CallIs DEF IInv
  <2>2. <<>> \in Seq(Tracks) /\ Len(<<>>) \in 0..TrashCap
    BY Constants
  <2>3. TypeOK'
    BY <2>1, <2>2 DEF TypeOK, Called
  <2> QED
    BY <2>1, <2>3 DEF IInv, Called, RampsOver, Hosting
<1>2. IInv /\ Reclaim => IInv'
  <2>1. <<>> \in Seq(Tracks) /\ Len(<<>>) \in 0..TrashCap
    BY Constants
  <2> QED
    BY <2>1 DEF IInv, Reclaim, TypeOK, RampsOver, Hosting
<1>3. IInv /\ Drained => IInv'
  BY DEF IInv, Drained, TypeOK, RampsOver, Hosting
<1>4. IInv /\ UNCHANGED vars => IInv'
  BY DEF IInv, vars, TypeOK, RampsOver, Hosting
<1> QED
  BY <1>1, <1>2, <1>3, <1>4, ApplyIs, RenderStep DEF Next, AudioStep

\* The inductive invariant holds at first.
LEMMA InitKeeps == Init => IInv
<1> SUFFICES ASSUME Init PROVE IInv
  OBVIOUS
<1> DEFINE f == CHOOSE f \in [1..3 -> Tracks] : Distinct(f)
           first == [EmptyDeck EXCEPT !.src = f[1]]
           a == [first EXCEPT !.playing = TRUE]
           b == [EmptyDeck EXCEPT !.src = f[2]]
<1>1. f[1] \in Tracks /\ f[2] \in Tracks /\ f[3] \in Tracks
  <2>1. f \in [1..3 -> Tracks]
    BY EnoughTracks
  <2> HIDE DEF f
  <2> QED  BY <2>1
<1> HIDE DEF f
<1>2. None \in Held /\ 0 \in 0..FadeBlocks /\ {} \in SUBSET Tracks /\ f[1] \in Held /\ f[2] \in Held
      /\ f[3] \in Held /\ <<>> \in Seq(Tracks)
  BY <1>1, Constants DEF Held
<1>3. EmptyDeck \in DeckStates /\ EmptyDeck.dropped = {} /\ EmptyDeck.prev = None
  BY <1>2 DEF EmptyDeck, DeckStates
<1>4. NewEngine \in Engines
  BY <1>2, <1>3 DEF NewEngine, Engines, Modes
<1>5. /\ NewEngine.out = <<>> /\ NewEngine.deck = [d \in Decks |-> EmptyDeck]
      /\ NewEngine.park = [d \in Decks |-> None]
  BY DEF NewEngine
<1>6. NewEngine.out = <<>> /\ RampsOver(NewEngine) /\ Hosting(NewEngine)
      /\ \A d \in Decks : NewEngine.deck[d].dropped = {}
  BY <1>3, <1>5 DEF RampsOver, RampOver, Hosting
<1>7. /\ UnderWay \in Engines /\ UnderWay.out = <<>> /\ RampsOver(UnderWay) /\ Hosting(UnderWay)
      /\ \A d \in Decks : UnderWay.deck[d].dropped = {}
  <2>1. first \in DeckStates /\ first.dropped = {} /\ first.prev = None
    BY <1>2, <1>3, StateWith DEF DeckStates
  <2>2. b \in DeckStates /\ b.dropped = {} /\ b.prev = None
    BY <1>2, <1>3, StateWith DEF DeckStates
  <2>3. a = [EmptyDeck EXCEPT !.src = f[1], !.playing = TRUE]
    OBVIOUS
  <2> HIDE DEF first, b
  <2>4. a \in DeckStates /\ a.dropped = {} /\ a.prev = None
    BY <2>1, StateWith DEF DeckStates
  <2> HIDE DEF a
  <2> DEFINE u == [NewEngine EXCEPT !.deck[DeckA] = a]
             v == [u EXCEPT !.deck[DeckB] = b]
             w == [v EXCEPT !.mode[DeckA] = "Internal"]
             z == [w EXCEPT !.samp = [s \in Slots |-> f[3]]]
  <2>5. UnderWay = z
    BY <2>3 DEF UnderWay, f, b
  <2>6. DeckA \in Decks /\ DeckB \in Decks /\ "Internal" \in Modes
        /\ \A d \in Decks : d = DeckA \/ d = DeckB
    BY Constants DEF Modes
  <2>7. /\ u \in Engines /\ u.deck[DeckA] = a /\ u.park = NewEngine.park /\ u.out = <<>>
    BY <1>4, <1>6, <2>4, <2>6, PutDeck
  <2> HIDE DEF u
  <2>8. /\ v \in Engines /\ v.deck[DeckA] = a /\ v.deck[DeckB] = b /\ v.park = NewEngine.park
        /\ v.out = <<>>
    <3>1. /\ v \in Engines /\ v.deck[DeckB] = b /\ v.park = u.park /\ v.out = u.out
          /\ \A c \in Decks \ {DeckB} : v.deck[c] = u.deck[c]
      BY <2>2, <2>6, <2>7, PutDeck
    <3> QED
      BY <2>6, <2>7, <3>1, Constants
  <2> HIDE DEF v
  <2>9. w \in Engines /\ w.deck = v.deck /\ w.park = NewEngine.park /\ w.out = <<>>
    BY <2>6, <2>8, PutMode
  <2> HIDE DEF w
  <2>10. z \in Engines /\ z.deck = v.deck /\ z.park = NewEngine.park /\ z.out = <<>>
    BY <1>2, <2>9 DEF Engines
  <2> HIDE DEF z
  <2> QED
    BY <1>5, <2>2, <2>4, <2>5, <2>6, <2>8, <2>10 DEF RampsOver, RampOver, Hosting
<1>8. /\ eng \in Engines /\ eng.out = <<>> /\ RampsOver(eng) /\ Hosting(eng)
      /\ \A d \in Decks : eng.deck[d].dropped = {}
  BY <1>4, <1>6, <1>7 DEF Init
<1>9. <<>> \in Seq(Commands) /\ Len(<<>>) \in 0..RingCap /\ Len(<<>>) \in 0..TrashCap
      /\ Budget \in 0..Budget
  BY Constants
<1> QED
  BY <1>2, <1>8, <1>9 DEF Init, IInv, TypeOK

-----------------------------------------------------------------------------
(* The theorems *)

\* The inductive invariant always holds.
THEOREM Invariant == Spec => []IInv
BY InitKeeps, StepKeeps, PTL DEF Spec

\* Every track is where the code may put one, and no ring is overfull.
THEOREM TypesHold == Spec => []TypeOK
<1>1. IInv => TypeOK
  BY DEF IInv
<1> QED
  BY <1>1, Invariant, PTL

\* After a block no ramp that is over keeps its track (sweep_deck_disposal).
THEOREM RampsEnd == Spec => []NothingStaysAfterTheRamp
<1>1. IInv => NothingStaysAfterTheRamp
  BY DEF IInv, NothingStaysAfterTheRamp, RampsOver, RampOver
<1> QED
  BY <1>1, Invariant, PTL

\* No two scratches host each other's tune (quick_scratch_engage).
THEOREM HostsAreApart == Spec => []NoMutualHosts
<1>1. IInv => NoMutualHosts
  BY DEF IInv, NoMutualHosts, Hosting
<1> QED
  BY <1>1, Invariant, PTL

\* The same with the tracks of the main thread in the picture.
LEMMA KeeperIs ==
  ASSUME TypeOK
  PROVE  \A t \in Tracks : HeldByAudio(t) <=> Holds(eng, t) \/ Carried(ring, t)
BY HeldIs DEF TypeOK, HeldByAudio

\* The hands a track is in, and how they change in a step of each thread.
Changes(t, from, to) == Keeper(t) = from => Keeper(t)' \in to

\* A step of the audio thread is one of the abstract audio thread.
LEMMA AudioKeeps ==
  ASSUME TypeOK, TypeOK', Disposed
  PROVE  \A t \in Tracks : /\ Changes(t, "audio", {"audio", "trash", "lost"})
                           /\ Changes(t, "trash", {"trash"})
                           /\ Changes(t, "main", {"main"})
                           /\ Changes(t, "lost", {"lost"})
<1> SUFFICES ASSUME NEW t \in Tracks
             PROVE  /\ Changes(t, "audio", {"audio", "trash", "lost"})
                    /\ Changes(t, "trash", {"trash"})
                    /\ Changes(t, "main", {"main"})
                    /\ Changes(t, "lost", {"lost"})
  OBVIOUS
<1>1. HeldByAudio(t) <=> Holds(eng, t) \/ Carried(ring, t)
  BY KeeperIs
<1>2. HeldByAudio(t)' <=> Holds(eng', t) \/ Carried(ring', t)
  BY HeldIs DEF TypeOK, HeldByAudio
<1>3. /\ InTrash(trash, t) <=> Outgoing(trash, t)
      /\ InTrash(trash', t) <=> Outgoing(trash', t)
  BY DEF InTrash, Outgoing
<1>4. /\ HeldByAudio(t)' => HeldByAudio(t)
      /\ HeldByAudio(t) => HeldByAudio(t)' \/ InTrash(trash', t) \/ t \in Forgotten'
      /\ InTrash(trash, t) => InTrash(trash', t)
      /\ InTrash(trash', t) => InTrash(trash, t) \/ HeldByAudio(t)
      /\ t \in Forgotten' => t \in Forgotten \/ HeldByAudio(t)
      /\ t \in Forgotten => t \in Forgotten'
  BY <1>1, <1>2, <1>3 DEF Disposed, Forgotten
<1> QED
  BY <1>4 DEF Changes, Keeper

\* A step of the main thread is one of the abstract main thread.
LEMMA MainKeeps ==
  ASSUME UNCHANGED <<eng, overflowed, leaked>>,
         trash' = trash \/ trash' = <<>>,
         \A t \in Tracks : /\ Carried(ring, t) => Carried(ring', t)
                           /\ Carried(ring', t) => Carried(ring, t) \/ t \in Fresh
  PROVE  \A t \in Tracks : /\ Changes(t, "main", {"main", "audio"})
                           /\ Changes(t, "trash", {"trash", "main"})
                           /\ Changes(t, "audio", {"audio"})
                           /\ Changes(t, "lost", {"lost"})
<1> SUFFICES ASSUME NEW t \in Tracks
             PROVE  /\ Changes(t, "main", {"main", "audio"})
                    /\ Changes(t, "trash", {"trash", "main"})
                    /\ Changes(t, "audio", {"audio"})
                    /\ Changes(t, "lost", {"lost"})
  OBVIOUS
<1>1. /\ HeldByAudio(t) => HeldByAudio(t)'
      /\ HeldByAudio(t)' => HeldByAudio(t) \/ t \in Fresh
      /\ InTrash(trash', t) => InTrash(trash, t)
      /\ t \in Forgotten' <=> t \in Forgotten
  BY DEF HeldByAudio, InTrash, Forgotten
<1>2. t \in Fresh => ~HeldByAudio(t) /\ ~InTrash(trash, t) /\ t \notin Forgotten
  BY DEF Fresh, Referenced, HeldByAudio
<1> QED
  BY <1>1, <1>2 DEF Changes, Keeper

\* A track has a keeper TrackCustody knows.
LEMMA KeeperType == \A t \in Tracks : Keeper(t) \in Custody!Keepers /\ Keeper(t)' \in Custody!Keepers
BY DEF Keeper, Custody!Keepers

\* Every step maps to a step of TrackCustody or a stutter.
LEMMA CustodyStep == IInv /\ [Next]_vars => [Custody!Next]_([t \in Tracks |-> Keeper(t)])
<1> DEFINE k == [t \in Tracks |-> Keeper(t)]
<1>1. k' \in [Tracks -> Custody!Keepers] /\ \A t \in Tracks : k[t] = Keeper(t) /\ k'[t] = Keeper(t)'
  BY KeeperType
<1>2. \A t \in Tracks : Keeper(t) \in {"main", "audio", "trash", "lost"}
  BY DEF Keeper
<1>3. IInv /\ (MainCall \/ Reclaim) => Custody!Next
  <2> SUFFICES ASSUME IInv, MainCall \/ Reclaim PROVE Custody!Next
    OBVIOUS
  <2>1. /\ UNCHANGED <<eng, overflowed, leaked>>
        /\ trash' = trash \/ trash' = <<>>
        /\ \A t \in Tracks : /\ Carried(ring, t) => Carried(ring', t)
                             /\ Carried(ring', t) => Carried(ring, t) \/ t \in Fresh
    <3>1. CASE MainCall
      BY <3>1, CallIs DEF IInv, Called
    <3>2. CASE Reclaim
      BY <3>2 DEF Reclaim
    <3> QED
      BY <3>1, <3>2
  <2>2. \A t \in Tracks : /\ Changes(t, "main", {"main", "audio"})
                          /\ Changes(t, "trash", {"trash", "main"})
                          /\ Changes(t, "audio", {"audio"})
                          /\ Changes(t, "lost", {"lost"})
    BY <2>1, MainKeeps
  <2>3. Custody!MainStep
    BY <1>1, <1>2, <2>2 DEF Custody!MainStep, Custody!Moves, Changes
  <2> QED
    BY <1>1, <2>3 DEF Custody!Next
<1>4. IInv /\ (Apply \/ Render) => Custody!Next
  <2> SUFFICES ASSUME IInv, Apply \/ Render PROVE Custody!Next
    OBVIOUS
  <2>1. TypeOK /\ TypeOK' /\ Disposed
    BY ApplyIs, RenderStep DEF IInv
  <2>2. \A t \in Tracks : /\ Changes(t, "audio", {"audio", "trash", "lost"})
                          /\ Changes(t, "trash", {"trash"})
                          /\ Changes(t, "main", {"main"})
                          /\ Changes(t, "lost", {"lost"})
    BY <2>1, AudioKeeps
  <2>3. Custody!AudioStep
    BY <1>1, <1>2, <2>2 DEF Custody!AudioStep, Custody!Moves, Changes
  <2> QED
    BY <1>1, <2>3 DEF Custody!Next
<1>5. Drained \/ UNCHANGED vars => k' = k
  BY DEF Drained, vars, Keeper, Forgotten, HeldByAudio, OnDeck, InPark, InSampler, Carried, InTrash
<1> QED
  BY <1>3, <1>4, <1>5 DEF Next, AudioStep

\* The initial state maps to an initial state of TrackCustody.
LEMMA CustodyInit == Init => Custody!Init
<1> SUFFICES ASSUME Init PROVE [t \in Tracks |-> Keeper(t)] \in [Tracks -> {"main", "audio"}]
  BY DEF Custody!Init
<1>1. \A t \in Tracks : Keeper(t) \in {"main", "audio"}
  BY DEF Init, Keeper, Forgotten, InTrash
<1> QED
  BY <1>1

\* The audio thread never frees a track: DeckTracks implements TrackCustody.
\* Whatever is in a deck, a ramp, a park, the record of a host, a sampler slot
\* or a command stays so, or goes to the trash, or is lost; and what is in the
\* trash stays there until the main thread takes it (lib.rs, deck.rs).
THEOREM Implements == Spec => AudioNeverFrees
BY Invariant, CustodyInit, CustodyStep, PTL DEF Spec, AudioNeverFrees, Custody!Spec

=============================================================================
