----------------------------- MODULE DeckTracks -----------------------------
(***************************************************************************)
(* Who holds a track (dub-engine).                                         *)
(*                                                                         *)
(* The main thread sends commands, some with a track in them, through a    *)
(* bounded ring; the audio thread applies them at the start of a render    *)
(* block.  The audio thread must never free a track: what leaves a deck,   *)
(* a park or a sampler slot goes to a second bounded ring, the trash, which*)
(* the main thread empties.  A track the trash has no room for is forgotten*)
(* for good, and counted.                                                  *)
(***************************************************************************)
EXTENDS DeckOps, FiniteSets

CONSTANTS RingCap,     \* commands in the ring (256 in the code)
          TrashCap,    \* tracks in the trash (32 in the code)
          Budget,      \* bound: calls of the main thread and turns of a platter
          Calls,       \* the kinds of call it makes
          Polls        \* the main thread reclaims by itself (the command line does)

ASSUME BoundsAssumption ==
  /\ {RingCap, TrashCap, FadeBlocks} \subseteq Nat \ {0}
  /\ Budget \in Nat /\ Polls \in BOOLEAN

\* Three tracks for a set under way.
Distinct(f) == \A i, j \in DOMAIN f : f[i] = f[j] => i = j
ASSUME EnoughTracks == \E f \in [1..3 -> Tracks] : Distinct(f)

VARIABLES eng,         \* the engine's decks, parks, modes and samplers
          ring,        \* the command ring
          trash,       \* the trash ring
          overflowed,  \* tracks forgotten because the trash was full, and counted
          leaked,      \* tracks a deck forgot, uncounted
          drained,     \* the block has found the ring empty
          calls        \* calls still to come

vars == <<eng, ring, trash, overflowed, leaked, drained, calls>>

\* A set under way: a record plays on one deck, another is cued on the other,
\* a sample is bound to every slot, and no ramp is running.  Tracks are
\* interchangeable, so it does not matter which ones are taken.
UnderWay ==
  LET f == CHOOSE f \in [1..3 -> Tracks] : Distinct(f)
  IN [NewEngine EXCEPT !.deck[DeckA] = [EmptyDeck EXCEPT !.src = f[1], !.playing = TRUE],
                       !.deck[DeckB] = [EmptyDeck EXCEPT !.src = f[2]],
                       !.mode[DeckA] = "Internal",
                       !.samp = [s \in Slots |-> f[3]]]

Init ==
  /\ eng \in {NewEngine, UnderWay}
  /\ ring = <<>> /\ trash = <<>>
  /\ overflowed = {} /\ leaked = {}
  /\ drained = FALSE
  /\ calls = Budget

(***************************************************************************)
(* The references to a track.                                              *)
(***************************************************************************)
OnDeck(e, t) == \E d \in Decks : t \in {e.deck[d].src, e.deck[d].prev, e.deck[d].pending}
InPark(e, t) ==
  \E d \in Decks : /\ e.park[d] # None
                   /\ \/ e.park[d].track = t
                      \/ e.park[d].host # None /\ e.park[d].host.track = t
InSampler(e, t) == \E s \in Slots : e.samp[s] = t
Carried(cmds, t) == \E i \in DOMAIN cmds : "track" \in DOMAIN cmds[i] /\ cmds[i].track = t
InTrash(ts, t) == \E i \in DOMAIN ts : ts[i] = t

Referenced(t) ==
  OnDeck(eng, t) \/ InPark(eng, t) \/ InSampler(eng, t) \/ Carried(ring, t) \/ InTrash(trash, t)
Forgotten == overflowed \cup leaked
Fresh == {t \in Tracks \ Forgotten : ~Referenced(t)}
Decoded == CHOOSE t \in Fresh : TRUE

(***************************************************************************)
(* The main thread: a call sends one command, or is refused.               *)
(***************************************************************************)
Send(cmd) == ring' = IF Len(ring) < RingCap THEN Append(ring, cmd) ELSE ring

Call(kind) ==
  /\ kind \in Calls /\ calls > 0 /\ calls' = calls - 1
  /\ UNCHANGED <<eng, overflowed, leaked, drained>>

\* load() empties the trash before it sends.
CallLoad == /\ Call("load")
            /\ Fresh # {}
            /\ \E d \in Decks : Send([op |-> "load", deck |-> d, track |-> Decoded])
            /\ trash' = <<>>
CallSampler == /\ Call("sampler")
               /\ \E s \in Slots :
                    \/ Fresh # {} /\ Send([op |-> "sample", slot |-> s, track |-> Decoded])
                    \/ Send([op |-> "clear", slot |-> s])
               /\ UNCHANGED trash
CallTransport == /\ \E d \in Decks, op \in {"play", "pause", "seek"} :
                      Call(op) /\ Send([op |-> op, deck |-> d])
                 /\ UNCHANGED trash
CallMode == /\ Call("mode")
            /\ \E d \in Decks, m \in Modes : Send([op |-> "mode", deck |-> d, mode |-> m])
            /\ UNCHANGED trash
CallScratch == /\ Call("scratch")
               /\ \E d \in Decks :
                    \/ \E s \in Slots, to \in (Decks \ {d}) \cup {None} :
                         Send([op |-> "engage", deck |-> d, slot |-> s, to |-> to])
                    \/ Send([op |-> "release", deck |-> d])
               /\ UNCHANGED trash
CallDouble == /\ Call("double")
              /\ \E from, to \in Decks : from # to /\ Send([op |-> "double", deck |-> from, to |-> to])
              /\ UNCHANGED trash

MainCall == CallLoad \/ CallSampler \/ CallTransport \/ CallMode \/ CallScratch \/ CallDouble

Reclaim == /\ Polls /\ trash # <<>> /\ trash' = <<>>
           /\ UNCHANGED <<eng, ring, overflowed, leaked, drained, calls>>

(***************************************************************************)
(* The audio thread.                                                       *)
(***************************************************************************)
Applied(e, c) ==
  CASE c.op = "load" -> Load(e, c.deck, c.track)
    [] c.op = "sample" -> SamplerLoad(e, c.slot, c.track)
    [] c.op = "clear" -> SamplerClear(e, c.slot)
    [] c.op = "play" -> Play(e, c.deck)
    [] c.op = "pause" -> Pause(e, c.deck)
    [] c.op = "seek" -> Seek(e, c.deck)
    [] c.op = "mode" -> SetControlMode(e, c.deck, c.mode)
    [] c.op = "engage" -> Engage(e, c.deck, c.slot, c.to)
    [] c.op = "release" -> Release(e, c.deck)
    [] c.op = "double" -> InstantDouble(e, c.deck, c.to)

\* send_to_trash for every track the step let go of: what does not fit is
\* forgotten and counted.
Dispose(e) ==
  LET room == TrashCap - Len(trash)
      fits == IF Len(e.out) < room THEN Len(e.out) ELSE room
  IN /\ trash' = trash \o SubSeq(e.out, 1, fits)
     /\ overflowed' = overflowed \cup {e.out[i] : i \in (fits + 1)..Len(e.out)}
     /\ leaked' = leaked \cup UNION {e.deck[d].dropped : d \in Decks}
     /\ eng' = [e EXCEPT !.out = <<>>,
                         !.deck = [d \in Decks |-> [e.deck[d] EXCEPT !.dropped = {}]]]

Apply == /\ ~drained /\ ring # <<>>
         /\ ring' = Tail(ring)
         /\ Dispose(Applied(eng, Head(ring)))
         /\ UNCHANGED <<drained, calls>>

Drained == /\ ~drained /\ ring = <<>>
           /\ drained' = TRUE
           /\ UNCHANGED <<eng, ring, trash, overflowed, leaked, calls>>

\* The rest of the block: the platter of a timecode deck may have started or
\* stopped, the decks that play a file render, every deck is swept.
Driven(turned) ==
  [d \in Decks |-> IF d \in turned THEN SetPlaying(eng.deck[d], ~eng.deck[d].playing)
                   ELSE eng.deck[d]]
Rendered(decks) ==
  [d \in Decks |-> IF eng.mode[d] \in Unrendered THEN decks[d] ELSE FadeBlock(decks[d])]
SweepAll(e) == Sweep(Sweep(e, DeckA), DeckB)

\* Mutant of Render: the sweep comes before the block, not after it.
RenderSweepsFirst ==
  /\ drained /\ drained' = FALSE
  /\ LET e == SweepAll(eng) IN Dispose([e EXCEPT !.deck = Rendered(e.deck)])
  /\ UNCHANGED <<ring, calls>>

Render ==
  /\ drained
  /\ \E turned \in {{}} \cup {{d} : d \in {d \in Decks : eng.mode[d] = "Timecode"}} :
       /\ turned # {} => calls > 0
       /\ calls' = IF turned = {} THEN calls ELSE calls - 1
       /\ Dispose(SweepAll([eng EXCEPT !.deck = Rendered(Driven(turned))]))
  /\ drained' = FALSE
  /\ UNCHANGED ring

AudioStep == Apply \/ Drained \/ Render
Next == MainCall \/ Reclaim \/ AudioStep

Spec == Init /\ [][Next]_vars

\* A main thread that polls empties the trash now and then.
FairSpec == Spec /\ WF_vars(Reclaim)

-----------------------------------------------------------------------------

\* Every track is somewhere the code can put one, and the rings keep to
\* their capacity; between two steps nothing is on its way out.
Commands ==
  [op : {"load"}, deck : Decks, track : Tracks] \cup [op : {"sample"}, slot : Slots, track : Tracks]
    \cup [op : {"clear"}, slot : Slots] \cup [op : {"play", "pause", "seek", "release"}, deck : Decks]
    \cup [op : {"mode"}, deck : Decks, mode : Modes]
    \cup [op : {"engage"}, deck : Decks, slot : Slots, to : Decks \cup {None}]
    \cup [op : {"double"}, deck : Decks, to : Decks]
TypeOK ==
  /\ eng \in Engines /\ eng.out = <<>> /\ \A d \in Decks : eng.deck[d].dropped = {}
  /\ ring \in Seq(Commands) /\ Len(ring) \in 0..RingCap
  /\ trash \in Seq(Tracks) /\ Len(trash) \in 0..TrashCap
  /\ overflowed \subseteq Tracks /\ leaked \subseteq Tracks
  /\ drained \in BOOLEAN /\ calls \in 0..Budget

\* The audio thread never frees a track.  Whatever referenced it before a step
\* of the audio thread, something does after it: a deck, a ramp, a park or the
\* record of a host, a sampler slot, a command, the trash; or it is forgotten.
\* Every path that drops a track is in it (lib.rs, deck.rs).
HeldByAudio(t) == OnDeck(eng, t) \/ InPark(eng, t) \/ InSampler(eng, t) \/ Carried(ring, t)
Keeper(t) == CASE t \in Forgotten -> "lost"
               [] t \notin Forgotten /\ HeldByAudio(t) -> "audio"
               [] t \notin Forgotten /\ ~HeldByAudio(t) /\ InTrash(trash, t) -> "trash"
               [] OTHER -> "main"
Custody == INSTANCE TrackCustody WITH keeper <- [t \in Tracks |-> Keeper(t)]
AudioNeverFrees == Custody!Spec

\* No ramp is over while its outgoing track is still on the deck, once the
\* block is done: the sweep that follows the render takes every one of them.
NothingStaysAfterTheRamp ==
  ~drained /\ ring = <<>> =>
    \A d \in Decks : eng.deck[d].fade = 0 => eng.deck[d].prev = None

\* No two scratches host each other's tune: a release of one would find its
\* own parked record on the deck it is to give back to (lib.rs, Quick Scratch).
NoMutualHosts ==
  \A c, d \in Decks : c # d /\ eng.park[c] # None /\ eng.park[d] # None =>
    ~(eng.park[c].doubled = d /\ eng.park[d].doubled = c)

InUse(t) == \/ \E d \in Decks : eng.deck[d].src = t
            \/ InPark(eng, t) \/ InSampler(eng, t) \/ Carried(ring, t)
Silenced(t) == \E d \in Decks : eng.mode[d] \in Unrendered /\ t \in {eng.deck[d].prev, eng.deck[d].pending}

\* Once the calls stop, every track that nothing plays, parks or samples any
\* more is freed, if the device goes on asking for blocks (Rendering).  A deck
\* on Thru keeps its last ramp: it renders no block that would end it.
Rendering == []<>drained /\ []<>~drained
DisplacedIsFreed ==
  Rendering => <>[](\A t \in Tracks : Referenced(t) => InUse(t) \/ Silenced(t))

=============================================================================
