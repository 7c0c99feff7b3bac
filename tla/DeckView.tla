------------------------------ MODULE DeckView ------------------------------
(***************************************************************************)
(* The decks as the application shows them (dub-ffi, RunningState), beside *)
(* the decks of the engine.                                                *)
(*                                                                         *)
(* A call changes its copy as it sends the command, under one mutex; the   *)
(* engine applies the command later, and each side decides for itself what *)
(* a Quick Scratch does.  A load decodes with the mutex released, and its  *)
(* worker brings the waveform and then the beat grid of a track that may   *)
(* have left the deck by then.                                             *)
(*                                                                         *)
(* The engine's ramps and trash are left to DeckTracks.                    *)
(***************************************************************************)
EXTENDS DeckOps, FiniteSets

CONSTANTS RingCap,     \* commands in the ring (256 in the code)
          Budget,      \* bound: calls and turns of a platter
          Calls        \* the kinds of call that are made

ASSUME BoundsAssumption == RingCap \in Nat \ {0} /\ Budget \in Nat /\ FadeBlocks \in Nat

\* What is drawn, what a scratch parks, and what its host showed before: None
\* is not parked, and a slot is not a deck.
Drawings == [of : Tracks, grid : Held] \cup {None}
HostedScreens == [tune : Held, peaks : Drawings]
ParkedScreens == [tune : Held, peaks : Drawings, to : Decks \cup {None}]

ASSUME ScreensAssumption == None \notin ParkedScreens /\ Slots \cap Decks = {}

VARIABLES eng,      \* the engine
          ring,     \* the command ring
          running,  \* an audio session is up
          view,     \* per deck: the track shown, its waveform, and what is parked
          samples,  \* the track of every sampler slot
          loads,    \* loads that decode, by deck and track
          workers,  \* analyses under way, by deck, track and stage
          misled,   \* history: decks and slots the two sides took differently
          calls     \* calls still to come

vars == <<eng, ring, running, view, samples, loads, workers, misled, calls>>

\* A waveform and the grid on it, each with the track it was made from.
Peaks(t, g) == [of |-> t, grid |-> g]
Blank == [tune |-> None, peaks |-> None, parked |-> None, host |-> None]

\* The engine with its ramps over and its trash away.
Settled(e) == [e EXCEPT !.out = <<>>,
                        !.deck = [d \in Decks |-> [EmptyDeck EXCEPT
                                    !.src = e.deck[d].src, !.playing = e.deck[d].playing]]]

Stopped == /\ eng = NewEngine /\ ring = <<>>
           /\ view = [d \in Decks |-> Blank]
           /\ samples = [s \in Slots |-> None]

\* A record plays on one deck, another is cued, every slot has a sample.
UnderWay ==
  LET f == CHOOSE f \in [1..3 -> Tracks] : \A i, j \in 1..3 : f[i] = f[j] => i = j
      record(d) == IF d = DeckA THEN f[1] ELSE f[2]
  IN /\ eng = [NewEngine EXCEPT
                 !.deck = [d \in Decks |-> [EmptyDeck EXCEPT !.src = record(d), !.playing = (d = DeckA)]],
                 !.mode[DeckA] = "Internal",
                 !.samp = [s \in Slots |-> f[3]]]
     /\ ring = <<>>
     /\ view = [d \in Decks |-> [Blank EXCEPT !.tune = record(d), !.peaks = Peaks(record(d), record(d))]]
     /\ samples = [s \in Slots |-> f[3]]

Init ==
  /\ Stopped \/ UnderWay
  /\ running = (view # [d \in Decks |-> Blank])
  /\ loads = {} /\ workers = {} /\ misled = {}
  /\ calls = Budget

InEngine(t) ==
  \/ \E d \in Decks :
       \/ eng.deck[d].src = t
       \/ eng.park[d] # None /\ eng.park[d].track = t
       \/ eng.park[d] # None /\ eng.park[d].host # None /\ eng.park[d].host.track = t
  \/ \E s \in Slots : eng.samp[s] = t
  \/ \E i \in DOMAIN ring : "track" \in DOMAIN ring[i] /\ ring[i].track = t
Draws(x, t) == x.tune = t \/ (x.peaks # None /\ x.peaks.of = t)
InView(t) ==
  \/ \E d \in Decks : \/ Draws(view[d], t)
                      \/ view[d].parked # None /\ Draws(view[d].parked, t)
                      \/ view[d].host # None /\ Draws(view[d].host, t)
  \/ \E s \in Slots : samples[s] = t
Fresh == {t \in Tracks : /\ ~InEngine(t) /\ ~InView(t)
                         /\ \A l \in loads \cup workers : l.track # t}
Decoded == CHOOSE t \in Fresh : TRUE

(***************************************************************************)
(* The calls of the application; each holds the mutex throughout.          *)
(***************************************************************************)
Call(kind) == kind \in Calls /\ calls > 0 /\ calls' = calls - 1

\* handle.send: refused when the ring is full, and the call fails there.
Room == Len(ring) < RingCap
Send(cmd) == Room /\ ring' = Append(ring, cmd)

Start == /\ Call("session") /\ ~running /\ running' = TRUE
         /\ UNCHANGED <<eng, ring, view, samples, loads, workers, misled>>

\* The audio thread is torn down with the engine and the whole copy.
Stop == /\ Call("session") /\ running /\ running' = FALSE
        /\ eng' = NewEngine /\ ring' = <<>>
        /\ view' = [d \in Decks |-> Blank] /\ samples' = [s \in Slots |-> None]
        /\ misled' = {}
        /\ UNCHANGED <<loads, workers>>

\* load_track, phases 1 and 2: decode with the mutex released.
LoadBegin == /\ Call("load") /\ running /\ Fresh # {}
             /\ \E d \in Decks : loads' = loads \cup {[deck |-> d, track |-> Decoded]}
             /\ UNCHANGED <<eng, ring, running, view, samples, workers, misled>>

\* Phase 3: the session may be another one, or none, by now.
LoadInstall ==
  \E l \in loads :
    /\ loads' = loads \ {l}
    /\ \/ /\ running
          /\ Send([op |-> "load", deck |-> l.deck, track |-> l.track])
          /\ view' = [view EXCEPT ![l.deck] = [Blank EXCEPT !.tune = l.track]]
          /\ workers' = workers \cup {[deck |-> l.deck, track |-> l.track, stage |-> "peaks"]}
          /\ misled' = misled \ {l.deck}
       \/ /\ ~running \/ ~Room
          /\ UNCHANGED <<ring, view, workers, misled>>
    /\ UNCHANGED <<eng, running, samples, calls>>

\* Mutant of IsLive: whatever the deck shows by now.
IsLiveAnyTrack(w) == view[w.deck].tune # None

\* analysis_target: the deck if it shows the track, else its park.
IsLive(w) == view[w.deck].tune = w.track
IsParked(w) == view[w.deck].parked # None /\ view[w.deck].parked.tune = w.track

\* background_analyze_and_install: the waveform, then the grid on it.  An
\* analysis whose track has left the deck is dropped.
Drawn(x, w) == IF w.stage = "peaks" THEN [x EXCEPT !.peaks = Peaks(w.track, None)]
               ELSE IF x.peaks = None THEN x ELSE [x EXCEPT !.peaks.grid = w.track]
Analyse ==
  \E w \in workers :
    LET done == workers \ {w}
        next == IF w.stage = "peaks" THEN done \cup {[w EXCEPT !.stage = "grid"]} ELSE done
    IN /\ \/ /\ running /\ IsLive(w)
             /\ view' = [view EXCEPT ![w.deck] = Drawn(@, w)]
             /\ workers' = next
          \/ /\ running /\ ~IsLive(w) /\ IsParked(w)
             /\ view' = [view EXCEPT ![w.deck].parked = Drawn(@, w)]
             /\ workers' = next
          \/ /\ ~running \/ (~IsLive(w) /\ ~IsParked(w))
             /\ workers' = done
             /\ UNCHANGED view
       /\ UNCHANGED <<eng, ring, running, samples, loads, misled, calls>>

\* A sample and its gain are two commands: the second may be refused.
BindSample ==
  /\ Call("sampler") /\ running /\ Room
  /\ \E s \in Slots :
       \/ LET bind == Append(ring, [op |-> "sample", slot |-> s, track |-> Decoded])
          IN /\ Fresh # {}
             /\ IF Len(bind) < RingCap
                THEN /\ ring' = Append(bind, [op |-> "gain", slot |-> s])
                     /\ samples' = [samples EXCEPT ![s] = Decoded]
                     /\ misled' = misled \ {s}
                ELSE /\ ring' = bind
                     /\ misled' = misled \cup {s}
                     /\ UNCHANGED samples
       \/ /\ Send([op |-> "clear", slot |-> s])
          /\ samples' = [samples EXCEPT ![s] = None]
          /\ misled' = misled \ {s}
  /\ UNCHANGED <<eng, running, view, loads, workers>>

Transport ==
  /\ Call("transport") /\ running
  /\ \E d \in Decks, op \in {"play", "pause"} : Send([op |-> op, deck |-> d])
  /\ UNCHANGED <<eng, running, view, samples, loads, workers, misled>>

\* Mutant of SetMode: Thru leaves the track on the copy of the deck.
SetModeKeepsTrack ==
  /\ Call("mode") /\ running
  /\ \E d \in Decks, m \in Modes : Send([op |-> "mode", deck |-> d, mode |-> m])
  /\ UNCHANGED <<eng, running, view, samples, loads, workers, misled>>

\* Thru takes the track off the deck; its waveform stays behind.
SetMode ==
  /\ Call("mode") /\ running
  /\ \E d \in Decks, m \in Modes :
       /\ Send([op |-> "mode", deck |-> d, mode |-> m])
       /\ IF m = "Thru"
          THEN /\ view' = [view EXCEPT ![d] = [Blank EXCEPT !.peaks = view[d].peaks]]
               /\ misled' = misled \ {d}
          ELSE UNCHANGED <<view, misled>>
  /\ UNCHANGED <<eng, running, samples, loads, workers>>

(***************************************************************************)
(* Quick Scratch.  The copy parks what the deck shows and, for a doubled   *)
(* tune, what its host shows.                                              *)
(***************************************************************************)
\* The decision where the tune goes: from the live transport of both decks.
GoesTo(d) ==
  IF /\ view[d].parked = None /\ view[d].tune # None
     /\ eng.deck[d].playing /\ ~eng.deck[Other(d)].playing
  THEN Other(d) ELSE None

Before(d, to) == [tune |-> view[d].tune, peaks |-> view[d].peaks, to |-> to]

EngageScratch ==
  /\ Call("scratch") /\ running
  /\ \E d \in Decks, s \in Slots :
       LET to == GoesTo(d)
           o == Other(d)
           hosted == [view EXCEPT
             ![o] = [tune |-> view[d].tune, peaks |-> view[d].peaks, parked |-> None,
                     host |-> [tune |-> view[o].tune, peaks |-> view[o].peaks]]]
           base == IF to = None THEN view ELSE hosted
       IN /\ samples[s] # None
          /\ Send([op |-> "engage", deck |-> d, slot |-> s, to |-> to])
          /\ view' = [base EXCEPT
               ![d].parked = IF @ = None THEN Before(d, to) ELSE @,
               ![d].tune = samples[s],
               ![d].peaks = Peaks(samples[s], None)]
          /\ misled' = misled \cup (IF s \in misled THEN {d} ELSE {})
                             \cup (IF d \in misled /\ to # None THEN {to} ELSE {})
  /\ UNCHANGED <<eng, running, samples, loads, workers>>

\* The park is taken before the command is sent, and the tune counts as
\* doubled when the other deck shows the same track, however it got there.
ReleaseScratch ==
  /\ Call("scratch") /\ running
  /\ \E d \in Decks :
       LET p == view[d].parked
           o == Other(d)
           back == p.tune # None /\ view[o].tune = p.tune
           home == [view EXCEPT
             ![d] = [@ EXCEPT !.parked = None, !.tune = view[o].tune,
                              !.peaks = IF view[o].peaks = None THEN p.peaks ELSE view[o].peaks],
             ![o] = IF @.host = None THEN [@ EXCEPT !.tune = None, !.peaks = None]
                    ELSE [@ EXCEPT !.tune = view[o].host.tune, !.peaks = view[o].host.peaks,
                                   !.host = None]]
           alone == [view EXCEPT
             ![d] = [@ EXCEPT !.parked = None, !.tune = p.tune, !.peaks = p.peaks],
             ![o].host = None]
       IN /\ p # None
          /\ \/ /\ Send([op |-> "release", deck |-> d])
                /\ view' = IF back THEN home ELSE alone
                /\ misled' = IF \/ d \in misled
                                \/ back /\ (p.to # o \/ view[o].host = None)
                             THEN misled \cup {d, o} ELSE misled
             \/ /\ ~Room
                /\ view' = [view EXCEPT ![d].parked = None]
                /\ misled' = misled \cup {d, o}
                /\ UNCHANGED ring
  /\ UNCHANGED <<eng, running, samples, loads, workers>>

Double ==
  /\ Call("double") /\ running
  /\ \E d \in Decks :
       /\ view[d].tune # None
       /\ Send([op |-> "double", deck |-> d, to |-> Other(d)])
       /\ view' = [view EXCEPT ![Other(d)] = [Blank EXCEPT !.tune = view[d].tune,
                                                           !.peaks = view[d].peaks]]
       /\ misled' = IF d \in misled THEN misled \cup {Other(d)} ELSE misled \ {Other(d)}
  /\ UNCHANGED <<eng, running, samples, loads, workers>>

(***************************************************************************)
(* The audio thread.                                                       *)
(***************************************************************************)
Applied(e, c) ==
  CASE c.op = "load" -> Load(e, c.deck, c.track)
    [] c.op = "sample" -> SamplerLoad(e, c.slot, c.track)
    [] c.op = "gain" -> e
    [] c.op = "clear" -> SamplerClear(e, c.slot)
    [] c.op = "play" -> Play(e, c.deck)
    [] c.op = "pause" -> Pause(e, c.deck)
    [] c.op = "mode" -> SetControlMode(e, c.deck, c.mode)
    [] c.op = "engage" -> Engage(e, c.deck, c.slot, c.to)
    [] c.op = "release" -> Release(e, c.deck)
    [] c.op = "double" -> InstantDouble(e, c.deck, c.to)

Apply == /\ ring # <<>> /\ ring' = Tail(ring)
         /\ eng' = Settled(Applied(eng, Head(ring)))
         /\ UNCHANGED <<running, view, samples, loads, workers, misled, calls>>

\* The platter of a timecode deck starts or stops.
Platter == /\ Call("platter") /\ running
           /\ \E d \in {d \in Decks : eng.mode[d] = "Timecode"} :
                eng' = [eng EXCEPT !.deck[d].playing = ~@]
           /\ UNCHANGED <<ring, running, view, samples, loads, workers, misled>>

Press == Start \/ Stop \/ LoadBegin \/ BindSample \/ Transport \/ SetMode
           \/ EngageScratch \/ ReleaseScratch \/ Double
Next == Press \/ LoadInstall \/ Analyse \/ Apply \/ Platter

Spec == Init /\ [][Next]_vars

-----------------------------------------------------------------------------
\* Once the ring is drained, a deck shows the track it plays, is parked exactly
\* when it is scratched, with the tune that the release brings back, and a slot
\* shows its sample; unless a release was refused, or taken for a doubled one by
\* the copy alone, or the gain of a sample was refused: two programs that decide
\* apart, from states that are apart by whatever is in the ring (lib.rs of both
\* crates).
Shown(d) == /\ view[d].tune = eng.deck[d].src
            /\ (view[d].parked # None) = (eng.park[d] # None)
            /\ view[d].parked # None => view[d].parked.tune = eng.park[d].track
ViewMatches == ring = <<>> => /\ \A d \in Decks \ misled : Shown(d)
                             /\ \A s \in Slots \ misled : samples[s] = eng.samp[s]

\* No deck draws the waveform or the grid of another track than the one it
\* shows, whatever was loaded, parked, doubled or given back while the
\* analysis ran; the same for what is parked.
Belongs(x) == x.peaks # None =>
  /\ x.tune # None => x.peaks.of = x.tune
  /\ x.peaks.grid \in {None, x.peaks.of}
PeaksBelong ==
  \A d \in Decks : /\ Belongs(view[d])
                   /\ view[d].parked # None => Belongs(view[d].parked)
                   /\ view[d].host # None => Belongs(view[d].host)

=============================================================================
