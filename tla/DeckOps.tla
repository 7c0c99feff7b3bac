------------------------------ MODULE DeckOps ------------------------------
(***************************************************************************)
(* What one command does to the two decks of the engine (dub-engine):      *)
(* loads, transport, control modes, Quick Scratch and Instant Doubles.     *)
(*                                                                         *)
(* The operators are pure: an engine is a record, a command maps it to the *)
(* next one.  DeckTracks runs them against the rings that bring tracks to  *)
(* the audio thread and take them back; DeckView runs them against the     *)
(* copy of the decks that the application shows.                           *)
(*                                                                         *)
(* A track stands for the reference-counted buffer.  A deck's de-click     *)
(* ramp is FadeBlocks render blocks long and keeps the outgoing track in   *)
(* prev; a playhead, a rate and a gain are left out.                       *)
(***************************************************************************)
EXTENDS Naturals, Sequences

CONSTANTS Tracks,      \* identities of decoded tracks, samples included
          DeckA, DeckB,
          Slots,       \* the sampler slots
          None,        \* no track, no deck, no park
          FadeBlocks   \* render blocks a de-click ramp takes

ASSUME DecksAssumption == DeckA # DeckB

Decks == {DeckA, DeckB}
Other(d) == IF d = DeckA THEN DeckB ELSE DeckA

\* Thru stands for Fx too: neither renders the deck's file.
Modes == {"Internal", "Timecode", "Thru"}
Unrendered == {"Thru"}

EmptyDeck == [src |-> None, playing |-> FALSE,
              prev |-> None, fade |-> 0, pending |-> None, dropped |-> {}]

\* What an engine may be: None is neither a track nor a record.
Held == Tracks \cup {None}
DeckStates == [src : Held, playing : BOOLEAN, prev : Held, fade : 0..FadeBlocks,
               pending : Held, dropped : SUBSET Tracks]
Hosts == [track : Held, playing : BOOLEAN]
Parks == [track : Held, playing : BOOLEAN, doubled : Decks \cup {None}, host : Hosts \cup {None}]
Engines == [deck : [Decks -> DeckStates], park : [Decks -> Parks \cup {None}],
            mode : [Decks -> Modes], prior : [Decks -> (Modes \ {"Internal"}) \cup {None}],
            samp : [Slots -> Held], out : Seq(Tracks)]

ASSUME TracksAssumption == None \notin Tracks \cup Decks \cup Slots
ASSUME NoneAssumption == None \notin Modes /\ None \notin Hosts /\ None \notin Parks

NewEngine == [deck |-> [d \in Decks |-> EmptyDeck],
              park |-> [d \in Decks |-> None],
              mode |-> [d \in Decks |-> "Timecode"],
              prior |-> [d \in Decks |-> None],
              samp |-> [s \in Slots |-> None],
              out |-> <<>>]

(***************************************************************************)
(* The deck: every transport change starts a de-click ramp.                *)
(***************************************************************************)

\* The outgoing source moves into the ramp; what an unfinished ramp held
\* moves to the one pending slot, and is forgotten when that is taken.
StartDeclick(x) ==
  [x EXCEPT !.prev = x.src, !.fade = FadeBlocks,
            !.pending = IF x.pending = None THEN x.prev ELSE x.pending,
            !.dropped = IF x.pending = None THEN @ ELSE @ \cup ({x.prev} \ {None})]

SetPlaying(x, on) == [(IF x.playing = on THEN x ELSE StartDeclick(x)) EXCEPT !.playing = on]
SwapSource(x, t) == [StartDeclick(x) EXCEPT !.src = t]
ClearSource(x) == SwapSource(x, None)
SetPosition(x) == StartDeclick(x)

\* One block of the ramp.
FadeBlock(x) == [x EXCEPT !.fade = IF @ = 0 THEN 0 ELSE @ - 1]

(***************************************************************************)
(* The engine: tracks that leave go to the trash, in out.                  *)
(***************************************************************************)
Trash(e, t) == IF t = None THEN e ELSE [e EXCEPT !.out = Append(@, t)]

\* Mutants of Sweep: the pending track is dropped on the audio thread; a
\* finished ramp keeps its track.
SweepDropsPending(e, d) ==
  LET over == IF e.deck[d].fade = 0 THEN e.deck[d].prev ELSE None
  IN [Trash(e, over) EXCEPT !.deck[d].pending = None,
                            !.deck[d].prev = IF e.deck[d].fade = 0 THEN None ELSE @]
SweepKeepsRamp(e, d) == [Trash(e, e.deck[d].pending) EXCEPT !.deck[d].pending = None]

\* sweep_deck_disposal: the pending track, then the one of a finished ramp.
Sweep(e, d) ==
  LET x == e.deck[d]
      over == IF x.fade = 0 THEN x.prev ELSE None
  IN [Trash(Trash(e, x.pending), over) EXCEPT
        !.deck[d] = [x EXCEPT !.pending = None, !.prev = IF x.fade = 0 THEN None ELSE @]]

\* abandon_quick_scratch: the park goes, with the record of its host.
Abandon(e, d) ==
  IF e.park[d] = None THEN e
  ELSE LET p == e.park[d]
           a == Trash(e, p.track)
       IN [(IF p.host = None THEN a ELSE Trash(a, p.host.track)) EXCEPT !.park[d] = None]

SetControlMode(e, d, m) ==
  LET cleared == [e EXCEPT !.prior[d] = None]
      done == CASE m = "Internal" -> [cleared EXCEPT !.deck[d] = SetPlaying(@, TRUE)]
                [] m = "Timecode" -> cleared
                [] m = "Thru" -> [Abandon(cleared, d) EXCEPT !.deck[d] = ClearSource(@)]
  IN [done EXCEPT !.mode[d] = m]

Play(e, d) == [e EXCEPT !.deck[d] = SetPlaying(@, TRUE), !.mode[d] = "Internal"]
Pause(e, d) == [e EXCEPT !.deck[d] = SetPlaying(@, FALSE)]
Seek(e, d) == [e EXCEPT !.deck[d] = SetPosition(@)]

\* A load ends a scratch on the deck, gives a host its own mode back, and
\* swaps the track in.
Load(e, d, t) ==
  LET a == Abandon(e, d)
      b == IF a.prior[d] = None THEN a ELSE SetControlMode(a, d, a.prior[d])
  IN Sweep([b EXCEPT !.deck[d] = SwapSource(@, t)], d)

SamplerLoad(e, s, t) == [Trash(e, e.samp[s]) EXCEPT !.samp[s] = t]
SamplerClear(e, s) == [Trash(e, e.samp[s]) EXCEPT !.samp[s] = None]

\* The tune of x lands on deck d: transport, then track, then playhead.
Land(e, d, x) ==
  Sweep([e EXCEPT !.deck[d] = SetPosition(SwapSource(SetPlaying(@, x.playing), x.track))], d)

\* As Land, or the deck is left empty when there is no tune to give it.
GiveBack(e, d, x) ==
  IF x.track # None THEN Land(e, d, x)
  ELSE Sweep([e EXCEPT !.deck[d] = ClearSource(SetPlaying(@, x.playing))], d)

InstantDouble(e, from, to) ==
  LET a == Abandon(e, to)
      x == a.deck[from]
  IN IF from = to THEN e
     ELSE IF x.src = None THEN a
     ELSE Land(a, to, [track |-> x.src, playing |-> x.playing])

(***************************************************************************)
(* Quick Scratch: a sample takes the deck, its tune is parked and may go   *)
(* on playing on the other deck.                                           *)
(***************************************************************************)
Parked(x, to, host) == [track |-> x.src, playing |-> x.playing, doubled |-> to, host |-> host]

\* Mutants of DoubleOnto: the host's own scratch stays engaged; a deck on its
\* internal clock is to get that mode back.
DoubleOntoKeepsPark(e, d, to) ==
  LET host == [track |-> e.deck[to].src, playing |-> e.deck[to].playing]
  IN [Land([e EXCEPT !.mode[to] = "Internal"], to, [track |-> e.deck[d].src, playing |-> TRUE])
        EXCEPT !.park[d] = Parked(e.deck[d], to, host)]
DoubleOntoAnyMode(e, d, to) ==
  LET host == [track |-> e.deck[to].src, playing |-> e.deck[to].playing]
      b == [e EXCEPT !.prior[to] = e.mode[to], !.mode[to] = "Internal"]
  IN [Land(b, to, [track |-> e.deck[d].src, playing |-> TRUE])
        EXCEPT !.park[d] = Parked(e.deck[d], to, host)]

\* The other deck becomes the host of the tune, on its internal clock.
DoubleOnto(e, d, to) ==
  LET a == Abandon(e, to)
      host == [track |-> a.deck[to].src, playing |-> a.deck[to].playing]
      own == a.mode[to]
      b == IF own = "Internal" THEN a
           ELSE [a EXCEPT !.prior[to] = IF @ = None THEN own ELSE @, !.mode[to] = "Internal"]
      x == e.deck[d]
  IN [Land(b, to, [track |-> x.src, playing |-> x.playing])
        EXCEPT !.park[d] = Parked(x, to, host)]

\* A second press swaps the sample and keeps the park.
Park(e, d, to) ==
  IF e.park[d] # None THEN e
  ELSE IF to \in Decks \ {d} /\ e.deck[d].src # None THEN DoubleOnto(e, d, to)
  ELSE [e EXCEPT !.park[d] = Parked(e.deck[d], None, None)]

Engage(e, d, s, to) ==
  IF e.samp[s] = None THEN e
  ELSE Sweep([Park(e, d, to) EXCEPT !.deck[d] = SetPosition(SwapSource(@, e.samp[s]))], d)

\* The host still holds the tune that was parked here.
StillDoubled(e, d) ==
  LET p == e.park[d]
  IN p.track # None /\ p.doubled # None /\ e.deck[p.doubled].src = p.track

\* revert_double_host: the host gets its mode back, and what it played.
Revert(e, to, host) ==
  LET a == IF e.prior[to] = None THEN e ELSE [e EXCEPT !.mode[to] = e.prior[to], !.prior[to] = None]
  IN GiveBack(a, to, host)

\* The tune comes back, as it runs on the host if it does; a host that holds
\* another track by now loses the record kept for it.
Release(e, d) ==
  IF e.park[d] = None THEN e
  ELSE LET p == e.park[d]
           live == StillDoubled(e, d)
           a == [e EXCEPT !.park[d] = None]
           b == CASE p.host = None -> a
                  [] p.host # None /\ live -> Revert(a, p.doubled, p.host)
                  [] p.host # None /\ ~live -> Trash(a, p.host.track)
       IN GiveBack(b, d, [track |-> p.track,
                          playing |-> IF live THEN e.deck[p.doubled].playing ELSE p.playing])

=============================================================================
