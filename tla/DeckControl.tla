---------------------------- MODULE DeckControl ----------------------------
(***************************************************************************)
(* Who moves the playhead of one deck (dub-engine, dub-timecode): its own  *)
(* clock, the platter of a control record, Panic Play, a loop, or the DJ.  *)
(*                                                                         *)
(* A block drains the commands, decodes the control record, lets the lift  *)
(* policy decide what the record asks of the deck, heals the drift of the  *)
(* playhead against the groove, and renders.  Positions are counted in     *)
(* small steps of groove; the deck's record runs forward.  A needle is set *)
(* down elsewhere only after a silence that the drift monitor counts as a  *)
(* lift.  The decoder's arithmetic is left out: a decoded block is one of  *)
(* six signals.                                                            *)
(***************************************************************************)
EXTENDS Integers, FiniteSets

CONSTANTS None,
          MaxRate,      \* bound: steps of groove a block may cover
          MaxGroove,    \* bound: steps of the record and of the track
          Budget,       \* bound: commands
          Faults,       \* bound: blocks that bring something else than a clean fix
          Spots,        \* where a command may put the playhead
          Sticky,       \* blocks below the floor before the policy lets go (4)
          Relock,       \* PANIC_RELOCK_BLOCKS_TO_HANDBACK (6)
          Confirm,      \* blocks before the classifier believes in timecode (8)
          CalBlocks,    \* blocks of a whitening capture (about a second)
          SettleBlocks, \* blocks until the wobble fit has settled (four seconds)
          LiftBlocks,   \* silent blocks that count as a lift (1.5 seconds)
          Relocation,   \* RELOCATION_SECS, in steps
          Travel,       \* TRAVEL_GESTURE_SECS
          Skid,         \* SKID_JUMP_SECS
          Fallback,     \* FALLBACK_REMAP_SECS
          Slew          \* steps a block may heal (1 % of a block)

ASSUME BoundsAssumption ==
  /\ {MaxRate, MaxGroove, Sticky, Relock, Confirm, CalBlocks, SettleBlocks, LiftBlocks}
       \subseteq Nat \ {0}
  /\ Spots \subseteq 0..MaxGroove
  /\ {Budget, Faults, Relocation, Travel, Skid, Fallback, Slew} \subseteq Nat
ASSUME NoneAssumption == None \notin Int \cup {"Internal", "Timecode", "Thru"}

VARIABLES deck,    \* its mode, source, transport, rate, loop and playhead
          panic,   \* Panic Play: engaged, and the blocks of lock seen since
          policy,  \* the lift policy
          drift,   \* the drift monitor
          needle,  \* the classifier, the calibration and the wobble fit
          record,  \* the groove position decoded so far, and what is not yet
          hist,    \* history: what the properties compare with
          budget,  \* commands still to come
          faults   \* and faults

vars == <<deck, panic, policy, drift, needle, record, hist, budget, faults>>

Modes == {"Internal", "Timecode", "Thru"}
Rates == 0..MaxRate
Track == 0..MaxGroove

\* A fresh deck in a session that starts, or one that follows its record.
Fresh ==
  /\ deck = [mode |-> "Timecode", prior |-> None, src |-> "none", playing |-> FALSE,
             rate |-> 1, loop |-> None, pos |-> 0]
  /\ policy = [engaged |-> FALSE, below |-> 0, prev |-> None, rate |-> 0]
  /\ drift = [anchor |-> None, last |-> None, pending |-> FALSE, silent |-> 0, lift |-> FALSE]
  /\ needle = [streak |-> 0, capture |-> 0, calibrated |-> FALSE, settle |-> 0]
  /\ record = [groove |-> 0, late |-> 0]
Following ==
  /\ deck = [mode |-> "Timecode", prior |-> None, src |-> "own", playing |-> TRUE,
             rate |-> 1, loop |-> None, pos |-> 1]
  /\ policy = [engaged |-> TRUE, below |-> 0, prev |-> 1, rate |-> 1]
  /\ drift = [anchor |-> 1, last |-> 1, pending |-> FALSE, silent |-> 0, lift |-> FALSE]
  /\ needle = [streak |-> Confirm, capture |-> 0, calibrated |-> TRUE, settle |-> SettleBlocks]
  /\ record = [groove |-> 1, late |-> 0]

Init ==
  /\ Fresh \/ Following
  /\ panic = [on |-> FALSE, relock |-> 0]
  /\ hist = [locks |-> 0, gone |-> 0, moved |-> FALSE, lost |-> 0, chased |-> {}]
  /\ budget = Budget /\ faults = Faults

(***************************************************************************)
(* The deck.                                                               *)
(***************************************************************************)
\* wrap_into: a position outside the loop is moved by whole lengths of it.
Wrap(p, loop) == loop.from + ((p - loop.from) % loop.len)

Swapped(x, s) == [x EXCEPT !.src = s, !.pos = 0, !.loop = None]
Looped(x, loop) == [x EXCEPT !.loop = loop, !.pos = Wrap(@, loop)]

(***************************************************************************)
(* Panic Play and the control modes.                                       *)
(***************************************************************************)
Panicking == [on |-> TRUE, relock |-> 0]
Calm == [on |-> FALSE, relock |-> 0]

\* note_remap: the next observation anchors anew.
Remapped(m) == [m EXCEPT !.pending = TRUE]

\* set_deck_control_mode, on the deck x; Panic Play outlives a switch to INT.
Switched(x, m) ==
  LET y == [x EXCEPT !.mode = m, !.prior = None]
  IN CASE m = "Internal" -> [y EXCEPT !.playing = TRUE,
                                      !.rate = IF x.mode = "Thru" THEN 1 ELSE @]
       [] m = "Timecode" -> y
       [] m = "Thru" -> Swapped(y, "none")
EndsPanic(m) == m # "Internal"

(***************************************************************************)
(* The commands.  Each is applied at the start of a block.                 *)
(***************************************************************************)
Moved(x) == x.pos # deck.pos \/ x.src # deck.src
Command(x) ==
  /\ budget > 0 /\ budget' = budget - 1
  /\ deck' = x
  /\ hist' = [hist EXCEPT !.gone = 0, !.chased = {}, !.moved = @ \/ Moved(x)]
  /\ UNCHANGED <<record, faults>>

\* A command that moves the playhead tells the drift monitor.
NoteRemap == drift' = Remapped(drift)

Play == /\ Command([deck EXCEPT !.playing = TRUE, !.mode = "Internal"])
        /\ NoteRemap
        /\ UNCHANGED <<panic, policy, needle>>

Pause == /\ Command([deck EXCEPT !.playing = FALSE])
         /\ UNCHANGED <<panic, policy, drift, needle>>

\* Mutant of Seek: the drift monitor is not told.
SeekUntold == /\ \E p \in Spots : Command([deck EXCEPT !.pos = p])
              /\ UNCHANGED <<panic, policy, drift, needle>>

Seek == /\ \E p \in Spots : Command([deck EXCEPT !.pos = p])
        /\ NoteRemap
        /\ UNCHANGED <<panic, policy, needle>>

SetRate == /\ \E r \in {0, MaxRate} : Command([deck EXCEPT !.rate = r])
           /\ UNCHANGED <<panic, policy, drift, needle>>

\* The rate the platter last had, forced forward; the policy must lock afresh.
PanicPlay == /\ Command([deck EXCEPT !.playing = TRUE, !.rate = IF policy.rate = 0 THEN 1 ELSE policy.rate])
             /\ panic' = Panicking
             /\ policy' = [policy EXCEPT !.engaged = FALSE, !.below = 0, !.prev = None]
             /\ UNCHANGED <<drift, needle>>

CancelPanic == /\ Command(deck)
               /\ panic' = Calm
               /\ drift' = IF panic.on THEN Remapped(drift) ELSE drift
               /\ UNCHANGED <<policy, needle>>

SetLoop == /\ \E f \in Spots, l \in 1..2 :
                f + l <= MaxGroove /\ Command(Looped(deck, [from |-> f, len |-> l]))
           /\ NoteRemap
           /\ UNCHANGED <<panic, policy, needle>>

ClearLoop == /\ Command([deck EXCEPT !.loop = None])
             /\ NoteRemap
             /\ UNCHANGED <<panic, policy, needle>>

SetControlMode ==
  /\ \E m \in Modes : /\ Command(Switched(deck, m))
                      /\ panic' = IF EndsPanic(m) THEN Calm ELSE panic
  /\ NoteRemap
  /\ UNCHANGED <<policy, needle>>

\* A load gives a host deck its own mode back.
Load ==
  /\ LET x == IF deck.prior = None THEN deck ELSE Switched(deck, deck.prior)
     IN Command(Swapped(x, "own"))
  /\ panic' = IF deck.prior = None THEN panic ELSE Calm
  /\ NoteRemap
  /\ UNCHANGED <<policy, needle>>

\* A tune is doubled onto this deck, at the playhead it has elsewhere, and at
\* the rate of a steady platter.
Host ==
  /\ \E on \in BOOLEAN, p \in Spots :
       Command([Swapped(deck, "tune") EXCEPT
                  !.prior = IF deck.mode # "Internal" /\ @ = None THEN deck.mode ELSE @,
                  !.mode = "Internal", !.playing = on, !.pos = p, !.rate = 1])
  /\ panic' = IF deck.mode = "Internal" THEN panic ELSE Calm
  /\ NoteRemap
  /\ UNCHANGED <<policy, needle>>

\* revert_double_host: what the deck had, or nothing, and its own mode.
Revert ==
  /\ deck.src = "tune"
  /\ \E s \in {"own", "none"}, on \in BOOLEAN, p \in Spots \cup {0} :
       /\ s = "none" => p = 0
       /\ Command([Swapped(deck, s) EXCEPT
                     !.mode = IF deck.prior = None THEN @ ELSE deck.prior, !.prior = None,
                     !.playing = on, !.pos = p, !.rate = 1])
  /\ panic' = IF deck.prior = None THEN panic ELSE Calm
  /\ NoteRemap
  /\ UNCHANGED <<policy, needle>>

Calibrate == /\ Command(deck)
             /\ needle' = [needle EXCEPT !.capture = CalBlocks, !.calibrated = FALSE]
             /\ UNCHANGED <<panic, policy, drift>>

Commands == Play \/ Pause \/ Seek \/ SetRate \/ PanicPlay \/ CancelPanic \/ SetLoop \/ ClearLoop
              \/ SetControlMode \/ Load \/ Host \/ Revert \/ Calibrate

(***************************************************************************)
(* The lift policy: one decoded block, the groove position at its end and  *)
(* the rate it reads, or holds.                                            *)
(***************************************************************************)
Clean == {"fix", "lock"}
Below == {"low", "dead"}
Signals == Clean \cup Below \cup {"warm", "none"}

\* locked_with_absolute: two fixes in a row give the exact distance.
Locked(sig, g, r) ==
  [policy |-> [engaged |-> TRUE, below |-> 0, prev |-> IF sig = "fix" THEN g ELSE None, rate |-> r],
   kind |-> IF sig = "fix" /\ policy.prev # None THEN "exact" ELSE "locked",
   rate |-> r,
   far |-> IF sig = "fix" /\ policy.prev # None THEN g - policy.prev ELSE 0]

\* Mutant of Held: the window never closes.
HeldForever(r) ==
  [policy |-> [policy EXCEPT !.below = IF @ + 1 < Sticky THEN @ + 1 ELSE 1, !.prev = None, !.rate = r],
   kind |-> "locked", rate |-> r, far |-> 0]
\* Below the floor while engaged: the rate is held for a few blocks.
Held(r) ==
  LET out == policy.below + 1 >= Sticky
  IN [policy |-> [engaged |-> ~out, below |-> policy.below + 1, prev |-> None, rate |-> r],
      kind |-> IF out THEN "dropout" ELSE "locked", rate |-> r, far |-> 0]

Intent(sig, g, r) ==
  CASE sig = "none" -> [policy |-> policy, kind |-> "none", rate |-> deck.rate, far |-> 0]
    [] sig \in Clean -> Locked(sig, g, r)
    [] sig = "warm" /\ policy.engaged ->
         [policy |-> [policy EXCEPT !.below = 0, !.prev = None, !.rate = r],
          kind |-> "locked", rate |-> r, far |-> 0]
    [] sig \in Below /\ policy.engaged -> Held(r)
    [] OTHER -> [policy |-> [policy EXCEPT !.prev = None],
                 kind |-> "dropout", rate |-> policy.rate, far |-> 0]

(***************************************************************************)
(* The needle: is it a control record, is it calibrated, has it settled?   *)
(***************************************************************************)
Least(a, b) == IF a < b THEN a ELSE b

\* A block that brings nothing repeats the last one to the classifier.
Classified(sig, r) ==
  CASE sig = "none" -> IF needle.streak = 0 THEN 0 ELSE Least(needle.streak + 1, Confirm)
    [] sig \in Clean /\ r > 0 -> Least(needle.streak + 1, Confirm)
    [] OTHER -> 0

Measured(sig, r, pol) ==
  LET ends == sig # "none" /\ needle.capture = 1
      left == IF sig # "none" /\ needle.capture > 0 THEN needle.capture - 1 ELSE needle.capture
      known == needle.calibrated \/ ends
      streak == Classified(sig, r)
      begins == streak = Confirm /\ ~known /\ left = 0
  IN [streak |-> streak,
      capture |-> IF begins THEN CalBlocks ELSE left,
      calibrated |-> known,
      settle |-> IF sig # "none" /\ pol.engaged /\ pol.below = 0
                 THEN Least(needle.settle + 1, SettleBlocks) ELSE needle.settle]

Ready(n) == n.calibrated /\ n.settle = SettleBlocks

(***************************************************************************)
(* The drift monitor.                                                      *)
(***************************************************************************)
Listened(sig) ==
  CASE sig = "none" -> drift
    [] sig = "dead" -> [drift EXCEPT !.silent = Least(@ + 1, LiftBlocks),
                                     !.lift = @ \/ drift.silent + 1 >= LiftBlocks]
    [] OTHER -> [drift EXCEPT !.silent = 0]

Far(a, b, d) == a - b > d \/ b - a > d

\* observe: anchors, or measures what the playhead owes the groove.
Anchors(m, g, p) ==
  \/ m.anchor = None \/ m.pending
  \/ m.lift /\ Far(g, m.last, Relocation)
  \/ Far(g, m.last, Travel) /\ Far(g - p, m.anchor, Skid)
  \/ Far(g - p, m.anchor, Fallback)
Observed(m, g, p) ==
  [anchor |-> IF Anchors(m, g, p) THEN g - p ELSE m.anchor, last |-> g,
   pending |-> FALSE, silent |-> 0, lift |-> FALSE]
Owed(m, g, p) == IF Anchors(m, g, p) THEN 0 ELSE g - p - m.anchor
Clamped(x) == IF x > Slew THEN Slew ELSE IF x < -Slew THEN -Slew ELSE x

(***************************************************************************)
(* What the block makes of the intent, by who drives the deck.             *)
(***************************************************************************)
Effect(x, p, m) ==
  [deck |-> x, panic |-> p, drift |-> m, far |-> None, owed |-> None, anew |-> FALSE]

\* Panic Play ignores the platter until it has been locked for a while.
\* Mutant of InPanic: a dropout does not restart the count.
InPanicCountsOn(it, m) ==
  LET n == panic.relock + 1
      back == [deck EXCEPT !.rate = it.rate, !.playing = TRUE]
  IN CASE it.kind = "dropout" -> Effect(deck, panic, m)
       [] it.kind # "dropout" /\ n < Relock -> Effect(deck, [panic EXCEPT !.relock = n], m)
       [] it.kind # "dropout" /\ n >= Relock -> Effect(back, Calm, Remapped(m))
InPanic(it, m) ==
  LET n == panic.relock + 1
      back == [deck EXCEPT !.rate = it.rate, !.playing = TRUE]
  IN CASE it.kind = "dropout" -> Effect(deck, Panicking, m)
       [] it.kind # "dropout" /\ n < Relock -> Effect(deck, [panic EXCEPT !.relock = n], m)
       [] it.kind # "dropout" /\ n >= Relock -> Effect(back, Calm, Remapped(m))

\* The platter starts the deck, unless the needle is still being measured.
Starts(n) == ~deck.playing /\ deck.src # "none" /\ Ready(n)

Exact(it, m, n, g) ==
  LET x == [deck EXCEPT !.rate = it.rate, !.playing = @ \/ Starts(n)]
      t == IF Starts(n) THEN Remapped(m) ELSE m
      e == Effect(x, panic, t)
  IN IF ~x.playing \/ x.loop # None \/ x.src = "none" THEN e
     ELSE LET owed == Owed(t, g, x.pos)
          IN [e EXCEPT !.drift = Observed(t, g, x.pos), !.owed = owed,
                       !.anew = Anchors(t, g, x.pos), !.far = it.far + Clamped(owed)]

Followed(it, m, n, g) ==
  CASE it.kind = "dropout" -> Effect([deck EXCEPT !.rate = it.rate, !.playing = FALSE], panic, m)
    [] it.kind = "locked" ->
         Effect([deck EXCEPT !.rate = it.rate, !.playing = @ \/ Starts(n)], panic, m)
    [] it.kind = "exact" -> Exact(it, m, n, g)

Driven(it, m, n, g) ==
  IF deck.mode # "Timecode" \/ it.kind = "none" THEN Effect(deck, panic, m)
  ELSE IF panic.on THEN InPanic(it, m) ELSE Followed(it, m, n, g)

\* render_into: the rate moves the playhead, an exact distance re-pins it, and
\* a loop wins over both.
\* Mutant of Rendered: only the jump into a loop wraps.
RenderedUnwrapped(x, far) ==
  IF x.mode = "Thru" \/ ~x.playing \/ x.src = "none" THEN x.pos
  ELSE x.pos + (IF far # None THEN far ELSE x.rate)
Rendered(x, far) ==
  IF x.mode = "Thru" \/ ~x.playing \/ x.src = "none" THEN x.pos
  ELSE IF x.loop # None THEN Wrap(x.pos + x.rate, x.loop)
  ELSE IF far # None THEN x.pos + far
  ELSE x.pos + x.rate

(***************************************************************************)
(* A block.  The record turns by d; a starved one decodes nothing yet.     *)
(***************************************************************************)
\* What the decoder may hear, as far as the record moved.
Heard(sig, d) ==
  CASE sig \in Clean -> d > 0
    [] sig = "dead" -> d = 0
    [] OTHER -> TRUE

\* A clean block reads the rate, a lukewarm one blends it with the last; below
\* the floor the last one is held for a block and then decays.
Reads(sig, d, r) ==
  CASE sig \in Clean -> r = d
    [] sig = "warm" -> r \in {policy.rate, d}
    [] sig \in Below /\ policy.below > 0 -> r \in {0, policy.rate}
    [] OTHER -> r = policy.rate

\* The needle is set down anywhere after a lift.
Landings(sig) == IF sig = "dead" /\ drift.silent + 1 >= LiftBlocks THEN Track ELSE {record.groove}

Render(sig, d, r, land) ==
  LET g == IF sig = "none" THEN record.groove ELSE land + record.late + d
      it == Intent(sig, g, r)
      n == Measured(sig, r, it.policy)
      e == Driven(it, Listened(sig), n, g)
      p == Rendered(e.deck, e.far)
      free == deck.mode # "Timecode" \/ panic.on \/ e.deck.loop # None
      slips == p # deck.pos \/ g # record.groove
  IN /\ g \in Track /\ p \in Track
     /\ record' = [groove |-> g, late |-> IF sig = "none" THEN record.late + d ELSE 0]
     /\ policy' = it.policy
     /\ needle' = n
     /\ drift' = e.drift
     /\ panic' = e.panic
     /\ deck' = [e.deck EXCEPT !.pos = p]
     /\ hist' = [locks |-> IF it.kind = "dropout" THEN 0
                           ELSE IF it.kind = "none" THEN hist.locks
                           ELSE Least(hist.locks + 1, Relock),
                 gone |-> IF sig \in Below THEN Least(hist.gone + 1, Sticky)
                          ELSE IF sig = "none" THEN hist.gone ELSE 0,
                 moved |-> e.owed = None /\ (hist.moved \/ (free /\ slips)),
                 lost |-> IF e.anew THEN 0
                          ELSE hist.lost + (g - record.groove) - (p - deck.pos),
                 chased |-> IF e.owed = None \/ e.owed = 0 THEN {}
                            ELSE (IF hist.moved THEN {"move"} ELSE {})
                                   \cup (IF e.owed # hist.lost THEN {"speed"} ELSE {})]

Block ==
  \E sig \in Signals, d \in Rates, r \in Rates :
    \E land \in Landings(sig) :
      /\ Heard(sig, d) /\ Reads(sig, d, r)
      /\ sig = "none" => record.late + d <= MaxRate
      /\ sig # "fix" => faults > 0
      /\ faults' = IF sig = "fix" THEN faults ELSE faults - 1
      /\ Render(sig, d, r, land)
      /\ UNCHANGED budget

Next == Commands \/ Block
Spec == Init /\ [][Next]_vars

-----------------------------------------------------------------------------
Loops == [from : Track, len : 1..2]
DeckStates == [mode : Modes, prior : (Modes \ {"Internal"}) \cup {None},
               src : {"none", "own", "tune"}, playing : BOOLEAN, rate : Rates,
               loop : Loops \cup {None}, pos : Track]
Policies == [engaged : BOOLEAN, below : 0..Sticky, prev : Track \cup {None}, rate : Rates]
Monitors == [anchor : Int \cup {None}, last : Track \cup {None}, pending : BOOLEAN,
             silent : 0..LiftBlocks, lift : BOOLEAN]
Needles == [streak : 0..Confirm, capture : 0..CalBlocks, calibrated : BOOLEAN,
            settle : 0..SettleBlocks]

\* The counters of the policy and of Panic Play stop where the code stops them.
TypeOK ==
  /\ deck \in DeckStates
  /\ panic \in [on : BOOLEAN, relock : 0..(Relock - 1)]
  /\ policy \in Policies
  /\ policy.engaged => policy.below < Sticky
  /\ drift \in Monitors
  /\ needle \in Needles
  /\ record \in [groove : Track, late : Rates]
  /\ hist \in [locks : 0..Relock, gone : 0..Sticky, moved : BOOLEAN, lost : Int,
               chased : SUBSET {"move", "speed"}]
  /\ budget \in 0..Budget /\ faults \in 0..Faults

\* A deck in Panic Play is handed back to the platter only after a record has
\* been locked for Relock blocks on end, however often the DJ pressed Play,
\* cancelled, switched the mode or loaded meanwhile (drive_timecode_inputs).
ByABlock == budget' = budget
HandBackIsEarned == [][ByABlock /\ panic.on /\ ~panic'.on => hist'.locks = Relock]_vars

\* A needle that is gone for the sticky window stops a deck that follows it,
\* whatever it did before: the policy lets go, and nothing but a lock or the
\* DJ starts the deck again (step_for, and the dropout arm).
LiftStops == deck.mode = "Timecode" /\ ~panic.on /\ hist.gone >= Sticky => ~deck.playing

\* A playhead that was moved on purpose is never slid back to where the groove
\* had it: a cue, a load, a loop, a double, internal play or Panic Play, in any
\* order, with the record turning underneath (note_remap and observe).
MovesAreNotHealed == "move" \notin hist.chased

\* A block leaves the playhead of a loop inside it, under timecode as well, and
\* after a seek out of it (render_into, the LockedAbsolute arm).
LoopHolds ==
  [][ByABlock /\ deck'.loop # None /\ deck'.playing /\ deck'.src # "none" /\ deck'.mode # "Thru"
       => deck'.pos \in deck'.loop.from..(deck'.loop.from + deck'.loop.len - 1)]_vars

=============================================================================
