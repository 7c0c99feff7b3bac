------------------------- MODULE DeckControlProofs -------------------------
(***************************************************************************)
(* Proofs about DeckControl, for every value of its constants: the types,  *)
(* that a lifted needle stops the deck (LiftStops), that Panic Play is     *)
(* handed back only after a sustained lock (HandBackIsEarned), that no     *)
(* deliberate move is healed away (MovesAreNotHealed) and that a loop      *)
(* keeps its playhead (LoopHolds).                                         *)
(***************************************************************************)
EXTENDS DeckControl, TLAPS

-----------------------------------------------------------------------------
(* The inductive invariant *)

\* The policy counts at least the blocks for which the needle is known to be
\* gone, so it lets go in time.
LiftInv == policy.engaged => policy.below >= hist.gone

\* Panic Play of a deck on timecode counts no more than the unbroken lock.
PanicInv == panic.on /\ deck.mode = "Timecode" => panic.relock <= hist.locks

\* Whenever something else than the platter moves the playhead, the monitor
\* has been told, or will be when Panic Play ends.
RemapInv ==
  /\ deck.mode # "Timecode" \/ deck.loop # None => drift.pending
  /\ hist.moved => drift.pending \/ panic.on

IInv == TypeOK /\ LiftInv /\ LiftStops /\ PanicInv /\ RemapInv /\ MovesAreNotHealed

-----------------------------------------------------------------------------
(* The lift policy *)

Kinds == {"none", "locked", "exact", "dropout"}
Intents == [policy : Policies, kind : Kinds, rate : Rates, far : Int]

\* What the assumptions say of the thresholds.
LEMMA Constants ==
  /\ MaxRate \in Nat /\ MaxRate > 0 /\ MaxGroove \in Nat /\ MaxGroove > 0
  /\ Sticky \in Nat /\ Sticky > 0 /\ Relock \in Nat /\ Relock > 0
  /\ Confirm \in Nat /\ Confirm > 0 /\ CalBlocks \in Nat /\ CalBlocks > 0
  /\ SettleBlocks \in Nat /\ SettleBlocks > 0 /\ LiftBlocks \in Nat /\ LiftBlocks > 0
  /\ Budget \in Nat /\ Faults \in Nat /\ Slew \in Nat
  /\ Relocation \in Nat /\ Travel \in Nat /\ Skid \in Nat /\ Fallback \in Nat
  /\ Spots \subseteq Track /\ None \notin Int /\ None \notin Modes
BY BoundsAssumption, NoneAssumption DEF Track, Modes

\* step_for returns an intent, and stays engaged only inside the window.
LEMMA IntentIs ==
  ASSUME TypeOK, NEW sig \in Signals, NEW g \in Track, NEW r \in Rates
  PROVE  LET it == Intent(sig, g, r) IN
           /\ it \in Intents
           /\ it.policy.engaged => it.policy.below < Sticky
           /\ it.kind = "none" <=> sig = "none"
           /\ it.policy.engaged /\ sig \in Below =>
                policy.engaged /\ it.policy.below = policy.below + 1
           /\ sig = "none" => it.policy = policy
           /\ sig \in Below /\ it.kind # "dropout" => it.policy.engaged
<1> USE Constants
<1>0. /\ policy \in Policies /\ deck \in DeckStates /\ policy.engaged \in BOOLEAN
      /\ policy.below \in 0..Sticky /\ (policy.engaged => policy.below < Sticky)
      /\ deck.rate \in Rates /\ policy.rate \in Rates
  BY DEF TypeOK, Policies, DeckStates
<1>1. CASE sig = "none"
  <2>1. Intent(sig, g, r) = [policy |-> policy, kind |-> "none", rate |-> deck.rate, far |-> 0]
    BY <1>1 DEF Intent, Clean, Below
  <2> QED
    BY <1>0, <1>1, <2>1 DEF Intents, Kinds, Below
<1>2. CASE sig \in Clean
  BY <1>2 DEF TypeOK, Intent, Locked, Intents, Kinds, Below, Clean, Policies, Track
<1>3. CASE sig = "warm" /\ policy.engaged
  <2>1. Intent(sig, g, r) = [policy |-> [policy EXCEPT !.below = 0, !.prev = None, !.rate = r],
                             kind |-> "locked", rate |-> r, far |-> 0]
    BY <1>3 DEF Intent, Clean, Below
  <2> DEFINE low == [[policy EXCEPT !.below = 0] EXCEPT !.prev = None]
             pol == [policy EXCEPT !.below = 0, !.prev = None, !.rate = r]
  <2>2. low \in Policies
    <3> DEFINE a == [policy EXCEPT !.below = 0]
    <3>1. a \in Policies
      BY <1>0 DEF Policies
    <3>2. low = [a EXCEPT !.prev = None] /\ None \in Track \cup {None}
      OBVIOUS
    <3> HIDE DEF a, low
    <3> QED  BY <3>1, <3>2 DEF Policies
  <2>3. pol = [low EXCEPT !.rate = r]
    OBVIOUS
  <2>4. pol.below = 0
    BY <1>0 DEF Policies
  <2> HIDE DEF low
  <2>5. pol \in Policies
    <3> HIDE DEF pol
    <3> QED  BY <2>2, <2>3 DEF Policies
  <2>6. Intent(sig, g, r).policy = pol /\ Intent(sig, g, r).kind = "locked"
    BY <2>1
  <2>7. Intent(sig, g, r) \in Intents
    <3>1. Intent(sig, g, r) = [policy |-> pol, kind |-> "locked", rate |-> r, far |-> 0]
      BY <2>1
    <3> HIDE DEF pol
    <3> QED  BY <2>5, <3>1 DEF Intents, Kinds
  <2> HIDE DEF pol
  <2> QED
    BY <1>0, <1>3, <2>4, <2>5, <2>6, <2>7 DEF Below
<1>4. CASE sig \in Below /\ policy.engaged
  <2>1. Intent(sig, g, r) = Held(r)
    BY <1>4 DEF Intent, Clean, Below
  <2> DEFINE out == policy.below + 1 >= Sticky
             pol == [engaged |-> ~out, below |-> policy.below + 1, prev |-> None, rate |-> r]
  <2>2. Held(r) = [policy |-> pol, kind |-> IF out THEN "dropout" ELSE "locked",
                   rate |-> r, far |-> 0]
    BY DEF Held
  <2>3. pol \in Policies
    BY <1>0, <1>4 DEF Policies
  <2>4. /\ Held(r).policy = pol /\ Held(r) \in Intents
        /\ Held(r).kind = "dropout" <=> out
        /\ Held(r).kind # "none"
    BY <2>2, <2>3 DEF Intents, Kinds
  <2>5. /\ pol.below = policy.below + 1
        /\ ~out => policy.below + 1 < Sticky
    BY <1>0
  <2>6. pol.engaged <=> ~out
    BY Zenon
  <2> HIDE DEF pol, out
  <2> QED
    BY <1>0, <1>4, <2>1, <2>4, <2>5, <2>6 DEF Below
<1>5. CASE sig \in {"warm"} \cup Below /\ ~policy.engaged
  BY <1>5 DEF TypeOK, Intent, Intents, Kinds, Below, Clean, Policies
<1> QED
  BY <1>1, <1>2, <1>3, <1>4, <1>5 DEF Signals, Below, Clean

\* What the needle knows stays within its counters.
LEMMA NeedleIs ==
  ASSUME TypeOK, NEW sig \in Signals, NEW r \in Rates, NEW pol
  PROVE  Measured(sig, r, pol) \in Needles
<1> USE Constants
<1>1. Classified(sig, r) \in 0..Confirm
  BY DEF TypeOK, Classified, Least, Needles, Clean
<1>2. IF sig # "none" /\ needle.capture > 0 THEN needle.capture - 1 \in 0..CalBlocks
      ELSE needle.capture \in 0..CalBlocks
  BY DEF TypeOK, Needles
<1> QED
  BY <1>1, <1>2 DEF TypeOK, Measured, Least, Needles

-----------------------------------------------------------------------------
(* The drift monitor *)

\* Hearing a block changes neither the anchor nor what the monitor was told.
LEMMA ListenedIs ==
  ASSUME TypeOK, NEW sig \in Signals
  PROVE  Listened(sig) \in Monitors /\ Listened(sig).pending = drift.pending
<1> USE Constants
<1>1. drift \in Monitors /\ drift.silent \in 0..LiftBlocks /\ drift.lift \in BOOLEAN
  BY DEF TypeOK, Monitors
<1>2. CASE sig = "none"
  BY <1>1, <1>2 DEF Listened
<1>3. CASE sig = "dead"
  <2>1. Least(drift.silent + 1, LiftBlocks) \in 0..LiftBlocks
    BY <1>1 DEF Least
  <2> QED
    BY <1>1, <1>3, <2>1 DEF Listened, Monitors
<1>4. CASE sig \notin {"none", "dead"}
  BY <1>1, <1>4 DEF Listened, Monitors
<1> QED
  BY <1>2, <1>3, <1>4

\* observe anchors when it was told to, and then the playhead owes nothing.
LEMMA ObservedIs ==
  ASSUME NEW m \in Monitors, NEW g \in Track, NEW p \in Track
  PROVE  /\ Observed(m, g, p) \in Monitors
         /\ Owed(m, g, p) \in Int
         /\ m.pending => Owed(m, g, p) = 0
<1> USE Constants
<1>1. Anchors(m, g, p) \/ m.anchor \in Int
  BY DEF Anchors, Monitors
<1>2. g - p \in Int
  BY DEF Track
<1>3. m.pending => Anchors(m, g, p)
  BY DEF Anchors
<1> QED
  BY <1>1, <1>2, <1>3 DEF Observed, Owed, Monitors, Track

-----------------------------------------------------------------------------
(* The deck *)

\* The fields of a deck change one at a time.
LEMMA DeckWith ==
  ASSUME NEW x \in DeckStates
  PROVE  /\ \A v \in Modes : [x EXCEPT !.mode = v] \in DeckStates
         /\ \A v \in (Modes \ {"Internal"}) \cup {None} : [x EXCEPT !.prior = v] \in DeckStates
         /\ \A v \in {"none", "own", "tune"} : [x EXCEPT !.src = v] \in DeckStates
         /\ \A v \in BOOLEAN : [x EXCEPT !.playing = v] \in DeckStates
         /\ \A v \in Rates : [x EXCEPT !.rate = v] \in DeckStates
         /\ \A v \in Loops \cup {None} : [x EXCEPT !.loop = v] \in DeckStates
         /\ \A v \in Track : [x EXCEPT !.pos = v] \in DeckStates
BY DEF DeckStates

\* wrap_into lands inside the loop.
LEMMA WrapIs ==
  ASSUME NEW p \in Int, NEW loop \in Loops
  PROVE  Wrap(p, loop) \in loop.from..(loop.from + loop.len - 1)
<1>1. loop.from \in Int /\ loop.len \in Int /\ loop.len > 0
  BY Constants DEF Loops, Track
<1>2. (p - loop.from) % loop.len \in 0..(loop.len - 1)
  BY <1>1
<1> QED
  BY <1>1, <1>2 DEF Wrap

\* A new source starts a deck at its beginning, without a loop.
LEMMA SwappedIs ==
  ASSUME NEW x \in DeckStates, NEW s \in {"none", "own", "tune"}
  PROVE  LET y == Swapped(x, s) IN
           /\ y \in DeckStates
           /\ y.src = s /\ y.pos = 0 /\ y.loop = None
           /\ y.mode = x.mode /\ y.prior = x.prior /\ y.playing = x.playing /\ y.rate = x.rate
<1> DEFINE a == [x EXCEPT !.src = s]
           b == [a EXCEPT !.pos = 0]
<1>1. a \in DeckStates
  BY DeckWith
<1>2. a.src = s /\ a.mode = x.mode /\ a.prior = x.prior /\ a.playing = x.playing /\ a.rate = x.rate
  BY DEF DeckStates
<1>3. Swapped(x, s) = [b EXCEPT !.loop = None]
  BY DEF Swapped
<1> HIDE DEF a
<1>4. b \in DeckStates
  <2>1. 0 \in Track
    BY Constants DEF Track
  <2> QED
    BY <1>1, <2>1, DeckWith
<1>5. b.src = s /\ b.pos = 0 /\ b.mode = a.mode /\ b.prior = a.prior /\ b.playing = a.playing
      /\ b.rate = a.rate
  BY <1>1, <1>2 DEF DeckStates
<1> HIDE DEF b
<1> QED
  BY <1>2, <1>3, <1>4, <1>5, DeckWith DEF DeckStates

\* A loop that is set holds the playhead.
LEMMA LoopedIs ==
  ASSUME NEW x \in DeckStates, NEW loop \in Loops, loop.from + loop.len <= MaxGroove
  PROVE  LET y == Looped(x, loop) IN
           /\ y \in DeckStates
           /\ y.loop = loop
           /\ y.mode = x.mode /\ y.playing = x.playing
<1> DEFINE a == [x EXCEPT !.loop = loop]
<1>1. a \in DeckStates
  BY DeckWith
<1>2. a.loop = loop /\ a.mode = x.mode /\ a.playing = x.playing /\ a.pos = x.pos
  BY DEF DeckStates
<1>3. Looped(x, loop) = [a EXCEPT !.pos = Wrap(a.pos, loop)]
  BY <1>2 DEF Looped
<1>4. Wrap(a.pos, loop) \in Track
  <2>1. x.pos \in Int
    BY DEF DeckStates, Track
  <2>2. Wrap(x.pos, loop) \in loop.from..(loop.from + loop.len - 1)
    BY <2>1, WrapIs
  <2>3. loop.from \in Nat /\ loop.len \in Nat
    BY DEF Loops, Track
  <2> QED
    BY <1>2, <2>2, <2>3, Constants DEF Track
<1> HIDE DEF a
<1> QED
  BY <1>1, <1>2, <1>3, <1>4, DeckWith DEF DeckStates

\* set_deck_control_mode keeps the loop, or unloads the deck for a Thru.
LEMMA SwitchedIs ==
  ASSUME NEW x \in DeckStates, NEW m \in Modes
  PROVE  LET y == Switched(x, m) IN
           /\ y \in DeckStates
           /\ y.mode = m
           /\ m # "Thru" => y.loop = x.loop
<1> DEFINE a == [x EXCEPT !.mode = m]
           y == [x EXCEPT !.mode = m, !.prior = None]
           b == [y EXCEPT !.playing = TRUE]
           r == IF x.mode = "Thru" THEN 1 ELSE y.rate
<1>1. a \in DeckStates /\ a.mode = m /\ a.loop = x.loop /\ a.rate = x.rate /\ a.playing = x.playing
  BY DeckWith DEF DeckStates
<1>2. y = [a EXCEPT !.prior = None]
  OBVIOUS
<1>3. y \in DeckStates /\ y.mode = m /\ y.loop = x.loop /\ y.rate = x.rate
  <2> HIDE DEF a, y
  <2> QED  BY <1>1, <1>2, DeckWith DEF DeckStates
<1>4. Switched(x, m) = CASE m = "Internal" -> [b EXCEPT !.rate = r]
                         [] m = "Timecode" -> y
                         [] m = "Thru" -> Swapped(y, "none")
  BY DEF Switched
<1> HIDE DEF y
<1>5. b \in DeckStates /\ b.mode = m /\ b.loop = x.loop
  BY <1>3, DeckWith DEF DeckStates
<1>6. r \in Rates
  BY <1>3, Constants DEF DeckStates, Rates
<1> HIDE DEF b, r
<1>7. CASE m = "Internal"
  BY <1>4, <1>5, <1>6, <1>7, DeckWith DEF DeckStates
<1>8. CASE m = "Timecode"
  BY <1>3, <1>4, <1>8
<1>9. CASE m = "Thru"
  BY <1>3, <1>4, <1>9, SwappedIs
<1> QED
  BY <1>7, <1>8, <1>9 DEF Modes

-----------------------------------------------------------------------------
(* The commands *)

\* What a command has to see to: the types of what it writes, and that the
\* monitor is told of whatever the platter did not do.
LEMMA CommandKeeps ==
  ASSUME IInv, NEW x \in DeckStates, Command(x),
         panic' \in {panic, Calm, Panicking},
         policy' \in Policies, policy'.engaged => policy'.below < Sticky,
         drift' \in Monitors, needle' \in Needles,
         panic'.on /\ x.mode = "Timecode" => panic' = Panicking \/ deck.mode = "Timecode",
         x.mode # "Timecode" \/ x.loop # None \/ Moved(x) => drift'.pending \/ (panic.on /\ panic' = panic),
         x.mode # "Timecode" \/ x.loop # None => drift'.pending,
         drift.pending => drift'.pending,
         panic.on => panic'.on \/ drift'.pending
  PROVE  IInv'
<1> USE Constants
<1>1. TypeOK /\ hist' = [hist EXCEPT !.gone = 0, !.chased = {}, !.moved = @ \/ Moved(x)]
      /\ deck' = x /\ budget > 0 /\ budget' = budget - 1 /\ UNCHANGED <<record, faults>>
  BY DEF Command, IInv
<1>2. hist \in [locks : 0..Relock, gone : 0..Sticky, moved : BOOLEAN, lost : Int,
                chased : SUBSET {"move", "speed"}]
  BY <1>1 DEF TypeOK
<1>3. /\ hist'.gone = 0 /\ hist'.chased = {} /\ hist'.locks = hist.locks
      /\ hist'.lost = hist.lost /\ (hist'.moved <=> hist.moved \/ Moved(x))
  BY <1>1, <1>2
<1>4. hist' \in [locks : 0..Relock, gone : 0..Sticky, moved : BOOLEAN, lost : Int,
                 chased : SUBSET {"move", "speed"}]
  <2> DEFINE a == [hist EXCEPT !.gone = 0]
             b == [a EXCEPT !.chased = {}]
  <2>1. a \in [locks : 0..Relock, gone : 0..Sticky, moved : BOOLEAN, lost : Int,
               chased : SUBSET {"move", "speed"}] /\ a.moved = hist.moved
    BY <1>2
  <2>2. hist' = [b EXCEPT !.moved = a.moved \/ Moved(x)]
    BY <1>1, <2>1
  <2> HIDE DEF a
  <2>3. b \in [locks : 0..Relock, gone : 0..Sticky, moved : BOOLEAN, lost : Int,
               chased : SUBSET {"move", "speed"}]
    BY <2>1
  <2>4. (a.moved \/ Moved(x)) \in BOOLEAN
    BY DEF Moved
  <2> HIDE DEF b
  <2> QED  BY <2>2, <2>3, <2>4
<1>5. panic' \in [on : BOOLEAN, relock : 0..(Relock - 1)]
  <2>1. panic \in [on : BOOLEAN, relock : 0..(Relock - 1)] /\ 0 \in 0..(Relock - 1)
    BY <1>1 DEF TypeOK
  <2>2. Calm \in [on : BOOLEAN, relock : 0..(Relock - 1)]
    BY <2>1 DEF Calm
  <2>3. Panicking \in [on : BOOLEAN, relock : 0..(Relock - 1)]
    BY <2>1 DEF Panicking
  <2> QED
    BY <2>1, <2>2, <2>3
<1>6. TypeOK'
  BY <1>1, <1>4, <1>5 DEF TypeOK
<1>7. LiftInv' /\ LiftStops' /\ MovesAreNotHealed'
  BY <1>3, <1>6 DEF LiftInv, LiftStops, MovesAreNotHealed, TypeOK, Policies
<1>8. PanicInv'
  BY <1>1, <1>2, <1>3 DEF IInv, PanicInv, Calm, Panicking
<1>9. RemapInv'
  BY <1>1, <1>3 DEF IInv, RemapInv
<1> QED
  BY <1>6, <1>7, <1>8, <1>9 DEF IInv

\* A monitor that is told of a move waits to measure again.
LEMMA RemappedIs ==
  ASSUME NEW m \in Monitors
  PROVE  Remapped(m) \in Monitors /\ Remapped(m).pending
BY DEF Remapped, Monitors

\* What the invariant says of the pieces the commands read.
LEMMA Parts ==
  ASSUME IInv
  PROVE  /\ deck \in DeckStates /\ policy \in Policies /\ drift \in Monitors /\ needle \in Needles
         /\ policy.engaged => policy.below < Sticky
         /\ deck.mode # "Timecode" \/ deck.loop # None => drift.pending
         /\ Remapped(drift) \in Monitors /\ Remapped(drift).pending
BY RemappedIs DEF IInv, TypeOK, RemapInv

\* Play keeps the inductive invariant.
LEMMA PlayKeeps == IInv /\ Play => IInv'
<1> SUFFICES ASSUME IInv, Play PROVE IInv'
  OBVIOUS
<1> DEFINE a == [deck EXCEPT !.playing = TRUE]
           x == [deck EXCEPT !.playing = TRUE, !.mode = "Internal"]
<1>1. a \in DeckStates
  BY Parts, DeckWith
<1>2. x = [a EXCEPT !.mode = "Internal"]
  OBVIOUS
<1>3. x.mode = "Internal"
  BY Parts DEF DeckStates
<1>4. Command(x) /\ NoteRemap /\ UNCHANGED <<panic, policy, needle>>
  BY DEF Play
<1> HIDE DEF a, x
<1>5. x \in DeckStates
  BY <1>1, <1>2, DeckWith DEF Modes
<1> QED
  BY <1>3, <1>4, <1>5, Parts, CommandKeeps DEF NoteRemap

\* Pause keeps the inductive invariant.
LEMMA PauseKeeps == IInv /\ Pause => IInv'
<1> SUFFICES ASSUME IInv, Pause PROVE IInv'
  OBVIOUS
<1> DEFINE x == [deck EXCEPT !.playing = FALSE]
<1>0. x \in DeckStates
  BY Parts, DeckWith
<1>1. x \in DeckStates /\ x.mode = deck.mode /\ x.loop = deck.loop /\ ~Moved(x)
  BY <1>0, Parts DEF DeckStates, Moved
<1>2. Command(x) /\ UNCHANGED <<panic, policy, drift, needle>>
  BY DEF Pause
<1> HIDE DEF x
<1> QED
  BY <1>1, <1>2, Parts, CommandKeeps

\* Seek keeps the inductive invariant.
LEMMA SeekKeeps == IInv /\ Seek => IInv'
<1> SUFFICES ASSUME IInv, NEW p \in Spots, Command([deck EXCEPT !.pos = p]),
                    NoteRemap, UNCHANGED <<panic, policy, needle>>
             PROVE  IInv'
  BY DEF Seek
<1> DEFINE x == [deck EXCEPT !.pos = p]
<1>1. x \in DeckStates /\ x.mode = deck.mode /\ x.loop = deck.loop
  BY Parts, DeckWith, Constants DEF DeckStates
<1>2. Command(x)
  OBVIOUS
<1> HIDE DEF x
<1> QED
  BY <1>1, <1>2, Parts, CommandKeeps DEF NoteRemap

\* SetRate keeps the inductive invariant.
LEMMA SetRateKeeps == IInv /\ SetRate => IInv'
<1> SUFFICES ASSUME IInv, NEW r \in {0, MaxRate}, Command([deck EXCEPT !.rate = r]),
                    UNCHANGED <<panic, policy, drift, needle>>
             PROVE  IInv'
  BY DEF SetRate
<1> DEFINE x == [deck EXCEPT !.rate = r]
<1>1. r \in Rates
  BY Constants DEF Rates
<1>2. x \in DeckStates /\ x.mode = deck.mode /\ x.loop = deck.loop /\ ~Moved(x)
  BY <1>1, Parts, DeckWith DEF DeckStates, Moved
<1>3. Command(x)
  OBVIOUS
<1> HIDE DEF x
<1> QED
  BY <1>2, <1>3, Parts, CommandKeeps

\* PanicPlay keeps the inductive invariant.
LEMMA PanicPlayKeeps == IInv /\ PanicPlay => IInv'
<1> SUFFICES ASSUME IInv, PanicPlay PROVE IInv'
  OBVIOUS
<1> DEFINE a == [deck EXCEPT !.playing = TRUE]
           r == IF policy.rate = 0 THEN 1 ELSE policy.rate
           x == [deck EXCEPT !.playing = TRUE, !.rate = r]
           p == [policy EXCEPT !.engaged = FALSE]
           q == [p EXCEPT !.below = 0]
<1>1. a \in DeckStates /\ r \in Rates
  <2>1. a \in DeckStates
    BY Parts, DeckWith
  <2>2. policy.rate \in Rates /\ 1 \in Rates
    BY Parts, Constants DEF Policies, Rates
  <2> QED
    BY <2>1, <2>2
<1>2. x = [a EXCEPT !.rate = r]
  OBVIOUS
<1>3. x.mode = deck.mode /\ x.loop = deck.loop /\ ~Moved(x)
  BY Parts DEF DeckStates, Moved
<1>4. Command(x) /\ panic' = Panicking /\ UNCHANGED <<drift, needle>>
  BY DEF PanicPlay
<1>5. policy' = [q EXCEPT !.prev = None]
  BY DEF PanicPlay
<1>6. p \in Policies /\ ~p.engaged
  BY Parts DEF Policies
<1> HIDE DEF a, x, r, p
<1>7. x \in DeckStates
  BY <1>1, <1>2, DeckWith
<1>8. q \in Policies /\ ~q.engaged
  <2>1. 0 \in 0..Sticky
    BY Constants
  <2> QED
    BY <1>6, <2>1 DEF Policies
<1> HIDE DEF q
<1>9. policy' \in Policies /\ ~policy'.engaged
  BY <1>5, <1>8 DEF Policies
<1> QED
  BY <1>3, <1>4, <1>7, <1>9, Parts, CommandKeeps DEF Panicking

\* CancelPanic keeps the inductive invariant.
LEMMA CancelPanicKeeps == IInv /\ CancelPanic => IInv'
<1> SUFFICES ASSUME IInv, CancelPanic PROVE IInv'
  OBVIOUS
<1>1. ~Moved(deck)
  BY DEF Moved
<1>2. CASE panic.on
  BY <1>1, <1>2, Parts, CommandKeeps DEF CancelPanic, Calm
<1>3. CASE ~panic.on
  BY <1>1, <1>3, Parts, CommandKeeps DEF CancelPanic, Calm
<1> QED
  BY <1>2, <1>3

\* SetLoop keeps the inductive invariant.
LEMMA SetLoopKeeps == IInv /\ SetLoop => IInv'
<1> SUFFICES ASSUME IInv, NEW f \in Spots, NEW l \in 1..2, f + l <= MaxGroove,
                    Command(Looped(deck, [from |-> f, len |-> l])),
                    NoteRemap, UNCHANGED <<panic, policy, needle>>
             PROVE  IInv'
  BY DEF SetLoop
<1> DEFINE loop == [from |-> f, len |-> l]
<1>1. loop \in Loops /\ loop.from + loop.len <= MaxGroove
  BY Constants DEF Loops
<1>2. Command(Looped(deck, loop))
  OBVIOUS
<1> HIDE DEF loop
<1>3. Looped(deck, loop) \in DeckStates /\ Looped(deck, loop).mode = deck.mode
  BY <1>1, Parts, LoopedIs
<1> QED
  BY <1>2, <1>3, Parts, CommandKeeps DEF NoteRemap

\* ClearLoop keeps the inductive invariant.
LEMMA ClearLoopKeeps == IInv /\ ClearLoop => IInv'
<1> SUFFICES ASSUME IInv, ClearLoop PROVE IInv'
  OBVIOUS
<1> DEFINE x == [deck EXCEPT !.loop = None]
<1>1. x \in DeckStates /\ x.mode = deck.mode
  BY Parts, DeckWith DEF DeckStates
<1>2. Command(x) /\ NoteRemap /\ UNCHANGED <<panic, policy, needle>>
  BY DEF ClearLoop
<1> HIDE DEF x
<1> QED
  BY <1>1, <1>2, Parts, CommandKeeps DEF NoteRemap

\* SetControlMode keeps the inductive invariant.
LEMMA SetControlModeKeeps == IInv /\ SetControlMode => IInv'
<1> SUFFICES ASSUME IInv, NEW m \in Modes, Command(Switched(deck, m)),
                    panic' = IF EndsPanic(m) THEN Calm ELSE panic,
                    NoteRemap, UNCHANGED <<policy, needle>>
             PROVE  IInv'
  BY DEF SetControlMode
<1>1. Switched(deck, m) \in DeckStates /\ Switched(deck, m).mode = m
  BY Parts, SwitchedIs
<1> QED
  BY <1>1, Parts, CommandKeeps DEF NoteRemap, EndsPanic, Calm

\* Load keeps the inductive invariant.
LEMMA LoadKeeps == IInv /\ Load => IInv'
<1> SUFFICES ASSUME IInv, Load PROVE IInv'
  OBVIOUS
<1> DEFINE x == IF deck.prior = None THEN deck ELSE Switched(deck, deck.prior)
<1>1. Command(Swapped(x, "own")) /\ NoteRemap /\ UNCHANGED <<policy, needle>>
      /\ panic' = IF deck.prior = None THEN panic ELSE Calm
  BY DEF Load
<1>2. x \in DeckStates /\ (deck.prior = None => x.mode = deck.mode)
  BY Parts, SwitchedIs DEF DeckStates
<1> HIDE DEF x
<1>3. Swapped(x, "own") \in DeckStates /\ Swapped(x, "own").mode = x.mode
  BY <1>2, SwappedIs
<1> QED
  BY <1>1, <1>2, <1>3, Parts, CommandKeeps DEF NoteRemap, Calm

\* Host keeps the inductive invariant.
LEMMA HostKeeps == IInv /\ Host => IInv'
<1> SUFFICES ASSUME IInv, NEW on \in BOOLEAN, NEW p \in Spots,
                    Command([Swapped(deck, "tune") EXCEPT
                               !.prior = IF deck.mode # "Internal" /\ @ = None
                                         THEN deck.mode ELSE @,
                               !.mode = "Internal", !.playing = on, !.pos = p, !.rate = 1]),
                    panic' = IF deck.mode = "Internal" THEN panic ELSE Calm,
                    NoteRemap, UNCHANGED <<policy, needle>>
             PROVE  IInv'
  BY DEF Host
<1> DEFINE s == Swapped(deck, "tune")
           pr == IF deck.mode # "Internal" /\ s.prior = None THEN deck.mode ELSE s.prior
           a == [s EXCEPT !.prior = pr]
           b == [a EXCEPT !.mode = "Internal"]
           c == [b EXCEPT !.playing = on]
           d == [c EXCEPT !.pos = p]
           x == [d EXCEPT !.rate = 1]
<1>1. s \in DeckStates
  BY Parts, SwappedIs
<1>2. Command(x)
  OBVIOUS
<1> HIDE DEF s
<1>3. pr \in (Modes \ {"Internal"}) \cup {None}
  BY <1>1, Parts DEF DeckStates
<1> HIDE DEF pr
<1>4. a \in DeckStates
  BY <1>1, <1>3, DeckWith
<1> HIDE DEF a
<1>5. b \in DeckStates /\ b.mode = "Internal"
  BY <1>4, DeckWith DEF DeckStates, Modes
<1> HIDE DEF b
<1>6. c \in DeckStates /\ c.mode = "Internal"
  BY <1>5, DeckWith DEF DeckStates
<1> HIDE DEF c
<1>7. d \in DeckStates /\ d.mode = "Internal"
  BY <1>6, DeckWith, Constants DEF DeckStates
<1> HIDE DEF d
<1>8. 1 \in Rates
  BY Constants DEF Rates
<1>9. x \in DeckStates /\ x.mode = "Internal"
  BY <1>7, <1>8, DeckWith DEF DeckStates
<1> HIDE DEF x
<1> QED
  BY <1>2, <1>9, Parts, CommandKeeps DEF NoteRemap, Calm

\* Revert keeps the inductive invariant.
LEMMA RevertKeeps == IInv /\ Revert => IInv'
<1> SUFFICES ASSUME IInv, NEW s \in {"own", "none"}, NEW on \in BOOLEAN,
                    NEW p \in Spots \cup {0},
                    Command([Swapped(deck, s) EXCEPT
                               !.mode = IF deck.prior = None THEN @ ELSE deck.prior,
                               !.prior = None, !.playing = on, !.pos = p, !.rate = 1]),
                    panic' = IF deck.prior = None THEN panic ELSE Calm,
                    NoteRemap, UNCHANGED <<policy, needle>>
             PROVE  IInv'
  BY DEF Revert
<1> DEFINE y == Swapped(deck, s)
           m == IF deck.prior = None THEN y.mode ELSE deck.prior
           a == [y EXCEPT !.mode = m]
           b == [a EXCEPT !.prior = None]
           c == [b EXCEPT !.playing = on]
           d == [c EXCEPT !.pos = p]
           x == [d EXCEPT !.rate = 1]
<1>1. y \in DeckStates /\ y.mode = deck.mode
  BY Parts, SwappedIs
<1>2. Command(x)
  OBVIOUS
<1> HIDE DEF y
<1>3. m \in Modes /\ (deck.prior = None => m = deck.mode)
  BY <1>1, Parts DEF DeckStates
<1> HIDE DEF m
<1>4. a \in DeckStates /\ a.mode = m
  BY <1>1, <1>3, DeckWith DEF DeckStates
<1> HIDE DEF a
<1>5. b \in DeckStates /\ b.mode = m
  BY <1>4, DeckWith DEF DeckStates
<1> HIDE DEF b
<1>6. c \in DeckStates /\ c.mode = m
  BY <1>5, DeckWith DEF DeckStates
<1> HIDE DEF c
<1>7. p \in Track
  BY Constants DEF Track
<1>8. d \in DeckStates /\ d.mode = m
  BY <1>6, <1>7, DeckWith DEF DeckStates
<1> HIDE DEF d
<1>9. 1 \in Rates
  BY Constants DEF Rates
<1>10. x \in DeckStates /\ x.mode = m
  BY <1>8, <1>9, DeckWith DEF DeckStates
<1> HIDE DEF x
<1> QED
  BY <1>2, <1>3, <1>10, Parts, CommandKeeps DEF NoteRemap, Calm

\* Calibrate keeps the inductive invariant.
LEMMA CalibrateKeeps == IInv /\ Calibrate => IInv'
<1> SUFFICES ASSUME IInv, Calibrate PROVE IInv'
  OBVIOUS
<1> DEFINE a == [needle EXCEPT !.capture = CalBlocks]
<1>1. ~Moved(deck)
  BY DEF Moved
<1>2. a \in Needles
  BY Parts, Constants DEF Needles
<1>3. needle' = [a EXCEPT !.calibrated = FALSE]
  BY DEF Calibrate
<1> HIDE DEF a
<1>4. needle' \in Needles
  BY <1>2, <1>3 DEF Needles
<1> QED
  BY <1>1, <1>4, Parts, CommandKeeps DEF Calibrate

\* No command breaks the invariant.
LEMMA CommandsKeep == IInv /\ Commands => IInv'
BY PlayKeeps, PauseKeeps, SeekKeeps, SetRateKeeps, PanicPlayKeeps, CancelPanicKeeps, SetLoopKeeps,
   ClearLoopKeeps, SetControlModeKeeps, LoadKeeps, HostKeeps, RevertKeeps, CalibrateKeeps
   DEF Commands

-----------------------------------------------------------------------------
(* The blocks *)

Panics == [on : BOOLEAN, relock : 0..(Relock - 1)]

\* What a block may make of the intent `it`, by who drives the deck.
Effects(it, m, e) ==
  /\ e.deck \in DeckStates /\ e.panic \in Panics /\ e.drift \in Monitors
  /\ e.far \in Int \cup {None} /\ e.owed \in Int \cup {None} /\ e.anew \in BOOLEAN
  /\ e.deck.mode = deck.mode /\ e.deck.loop = deck.loop /\ e.deck.pos = deck.pos
  /\ e.owed = None /\ m.pending => e.drift.pending
  /\ e.owed # None => /\ deck.mode = "Timecode" /\ deck.loop = None /\ ~panic.on
                      /\ m.pending => e.owed = 0
  /\ it.kind = "none" => e.panic = panic /\ e.deck = deck
  /\ it.kind = "dropout" /\ deck.mode = "Timecode" /\ ~panic.on => ~e.deck.playing
  /\ ~panic.on => ~e.panic.on
  /\ panic.on /\ e.panic.on => \/ e.panic = panic /\ (it.kind = "none" \/ deck.mode # "Timecode")
                               \/ e.panic.relock = 0
                               \/ it.kind # "dropout" /\ e.panic.relock = panic.relock + 1
  /\ panic.on /\ ~e.panic.on => /\ deck.mode = "Timecode" /\ it.kind \notin {"dropout", "none"}
                                /\ panic.relock + 1 >= Relock
                                /\ e.drift.pending

\* A block that measures no drift.
LEMMA EffectIs ==
  ASSUME NEW it \in Intents, NEW m, NEW x \in DeckStates, NEW p \in Panics, NEW k \in Monitors,
         x.mode = deck.mode, x.loop = deck.loop, x.pos = deck.pos,
         m.pending => k.pending,
         it.kind = "none" => p = panic /\ x = deck,
         it.kind = "dropout" /\ deck.mode = "Timecode" /\ ~panic.on => ~x.playing,
         ~panic.on => ~p.on,
         panic.on /\ p.on => \/ p = panic /\ (it.kind = "none" \/ deck.mode # "Timecode")
                             \/ p.relock = 0
                             \/ it.kind # "dropout" /\ p.relock = panic.relock + 1,
         panic.on /\ ~p.on => /\ deck.mode = "Timecode" /\ it.kind \notin {"dropout", "none"}
                              /\ panic.relock + 1 >= Relock
                              /\ k.pending
  PROVE  Effects(it, m, Effect(x, p, k))
<1> DEFINE e == Effect(x, p, k)
<1>1. /\ e.deck = x /\ e.panic = p /\ e.drift = k
      /\ e.far = None /\ e.owed = None /\ e.anew = FALSE
  BY DEF Effect
<1> HIDE DEF e
<1>2. Effects(it, m, e)
  BY <1>1 DEF Effects
<1> QED
  BY <1>2 DEF e

\* The platter sets the rate, and starts or stops the deck.
LEMMA GoesIs ==
  \A x \in DeckStates, r \in Rates, on \in BOOLEAN :
    LET y == [x EXCEPT !.rate = r, !.playing = on] IN
      /\ y \in DeckStates /\ y.playing = on
      /\ y.mode = x.mode /\ y.loop = x.loop /\ y.pos = x.pos /\ y.src = x.src
<1> TAKE x \in DeckStates, r \in Rates, on \in BOOLEAN
<1> DEFINE a == [x EXCEPT !.rate = r]
           y == [x EXCEPT !.rate = r, !.playing = on]
<1>1. a \in DeckStates
  BY DeckWith
<1>2. y = [a EXCEPT !.playing = on]
  OBVIOUS
<1>3. y.playing = on /\ y.mode = x.mode /\ y.loop = x.loop /\ y.pos = x.pos /\ y.src = x.src
  BY DEF DeckStates
<1> HIDE DEF a, y
<1>4. y \in DeckStates
  BY <1>1, <1>2, DeckWith
<1> QED
  BY <1>3, <1>4 DEF y

\* A block under Panic Play has the effects a block may have.
LEMMA InPanicIs ==
  ASSUME IInv, NEW it \in Intents, it.kind # "none", panic.on, deck.mode = "Timecode",
         NEW m \in Monitors
  PROVE  Effects(it, m, InPanic(it, m))
<1> DEFINE n == panic.relock + 1
           on == [panic EXCEPT !.relock = n]
           back == [deck EXCEPT !.rate = it.rate, !.playing = TRUE]
<1>1. panic \in Panics /\ 0 \in 0..(Relock - 1) /\ panic.relock \in 0..(Relock - 1)
  BY Constants DEF IInv, TypeOK, Panics
<1>2. it.rate \in Rates
  BY DEF Intents
<1>3. CASE it.kind = "dropout"
  <2>1. InPanic(it, m) = Effect(deck, Panicking, m)
    BY <1>3 DEF InPanic
  <2>2. Panicking \in Panics /\ Panicking.on /\ Panicking.relock = 0
    BY <1>1 DEF Panicking, Panics
  <2> QED
    BY <1>3, <2>1, <2>2, EffectIs, Parts DEF Effects
<1>4. CASE it.kind # "dropout" /\ n < Relock
  <2>1. InPanic(it, m) = Effect(deck, on, m)
    BY <1>1, <1>4, Constants DEF InPanic
  <2>2. on \in Panics /\ on.on /\ on.relock = panic.relock + 1
    BY <1>1, <1>4, Constants DEF Panics
  <2> HIDE DEF on
  <2> QED
    BY <1>4, <2>1, <2>2, EffectIs, Parts DEF Effects
<1>5. CASE it.kind # "dropout" /\ n >= Relock
  <2>1. InPanic(it, m) = Effect(back, Calm, Remapped(m))
    BY <1>1, <1>5, Constants DEF InPanic
  <2>2. Calm \in Panics /\ ~Calm.on
    BY <1>1 DEF Calm, Panics
  <2>3. back \in DeckStates /\ back.mode = deck.mode /\ back.loop = deck.loop /\ back.pos = deck.pos
    BY <1>2, GoesIs, Parts
  <2> HIDE DEF back
  <2>4. Remapped(m) \in Monitors /\ Remapped(m).pending
    BY RemappedIs
  <2> QED
    BY <1>5, <2>1, <2>2, <2>3, <2>4, EffectIs DEF Effects
<1> QED
  BY <1>1, <1>3, <1>4, <1>5, Constants

\* So has a block in which the deck follows the needle.
LEMMA FollowedIs ==
  ASSUME IInv, NEW it \in Intents, it.kind # "none", ~panic.on, deck.mode = "Timecode",
         NEW m \in Monitors, NEW n \in Needles, NEW g \in Track
  PROVE  Effects(it, m, Followed(it, m, n, g))
<1>1. panic \in Panics /\ deck \in DeckStates /\ deck.playing \in BOOLEAN /\ deck.pos \in Track
  BY Parts DEF IInv, TypeOK, Panics, DeckStates
<1>2. it.rate \in Rates /\ it.far \in Int
  BY DEF Intents
<1>3. CASE it.kind = "dropout"
  <2> DEFINE x == [deck EXCEPT !.rate = it.rate, !.playing = FALSE]
  <2>1. Followed(it, m, n, g) = Effect(x, panic, m)
    BY <1>3 DEF Followed
  <2>2. x \in DeckStates /\ ~x.playing /\ x.mode = deck.mode /\ x.loop = deck.loop /\ x.pos = deck.pos
    BY <1>1, <1>2, GoesIs
  <2> HIDE DEF x
  <2> QED
    BY <1>1, <1>3, <2>1, <2>2, EffectIs DEF Effects
<1>4. CASE it.kind = "locked"
  <2> DEFINE on == deck.playing \/ Starts(n)
             x == [deck EXCEPT !.rate = it.rate, !.playing = on]
  <2>1. Followed(it, m, n, g) = Effect(x, panic, m)
    BY <1>4 DEF Followed
  <2>2. on \in BOOLEAN
    BY <1>1
  <2> HIDE DEF on
  <2>3. x \in DeckStates /\ x.mode = deck.mode /\ x.loop = deck.loop /\ x.pos = deck.pos
    <3> DEFINE y == [deck EXCEPT !.rate = it.rate, !.playing = TRUE]
               z == [deck EXCEPT !.rate = it.rate, !.playing = FALSE]
    <3>1. y \in DeckStates /\ y.mode = deck.mode /\ y.loop = deck.loop /\ y.pos = deck.pos
      BY <1>1, <1>2, GoesIs
    <3>2. z \in DeckStates /\ z.mode = deck.mode /\ z.loop = deck.loop /\ z.pos = deck.pos
      BY <1>1, <1>2, GoesIs
    <3>3. x = y \/ x = z
      BY <2>2
    <3> HIDE DEF x, y, z
    <3> QED
      BY <3>1, <3>2, <3>3
  <2> HIDE DEF x
  <2> QED
    BY <1>1, <1>4, <2>1, <2>3, EffectIs DEF Effects
<1>5. CASE it.kind = "exact"
  <2> DEFINE on == deck.playing \/ Starts(n)
             x == [deck EXCEPT !.rate = it.rate, !.playing = on]
             t == IF Starts(n) THEN Remapped(m) ELSE m
             owed == Owed(t, g, x.pos)
             e == Effect(x, panic, t)
             f == [e EXCEPT !.drift = Observed(t, g, x.pos), !.owed = owed,
                            !.anew = Anchors(t, g, x.pos), !.far = it.far + Clamped(owed)]
  <2>1. Followed(it, m, n, g) = IF ~x.playing \/ x.loop # None \/ x.src = "none" THEN e ELSE f
    BY <1>5 DEF Followed, Exact
  <2>2. on \in BOOLEAN
    BY <1>1
  <2>3. t \in Monitors /\ (m.pending => t.pending)
    BY RemappedIs
  <2> HIDE DEF on, t
  <2>4. x \in DeckStates /\ x.mode = deck.mode /\ x.loop = deck.loop /\ x.pos = deck.pos
    <3> DEFINE y == [deck EXCEPT !.rate = it.rate, !.playing = TRUE]
               z == [deck EXCEPT !.rate = it.rate, !.playing = FALSE]
    <3>1. y \in DeckStates /\ y.mode = deck.mode /\ y.loop = deck.loop /\ y.pos = deck.pos
      BY <1>1, <1>2, GoesIs
    <3>2. z \in DeckStates /\ z.mode = deck.mode /\ z.loop = deck.loop /\ z.pos = deck.pos
      BY <1>1, <1>2, GoesIs
    <3>3. x = y \/ x = z
      BY <2>2
    <3> HIDE DEF x, y, z
    <3> QED
      BY <3>1, <3>2, <3>3
  <2> HIDE DEF x
  <2>5. owed \in Int /\ (t.pending => owed = 0) /\ Observed(t, g, x.pos) \in Monitors
    BY <1>1, <2>3, <2>4, ObservedIs
  <2>6. Clamped(owed) \in Int
    BY <2>5, Constants DEF Clamped
  <2>7. Anchors(t, g, x.pos) \in BOOLEAN
    BY DEF Anchors
  <2>8. /\ f.deck = x /\ f.panic = panic /\ f.drift = Observed(t, g, x.pos) /\ f.owed = owed
        /\ f.anew = Anchors(t, g, x.pos) /\ f.far = it.far + Clamped(owed)
    BY DEF Effect
  <2>9. it.far + Clamped(owed) \in Int /\ owed # None
    BY <1>2, <2>5, <2>6, Constants
  <2> HIDE DEF owed, f
  <2>10. CASE ~x.playing \/ x.loop # None \/ x.src = "none"
    <3>1. Followed(it, m, n, g) = Effect(x, panic, t)
      BY <2>1, <2>10
    <3> QED
      BY <1>1, <1>5, <2>3, <2>4, <3>1, EffectIs DEF Effects
  <2>11. CASE ~(~x.playing \/ x.loop # None \/ x.src = "none")
    <3>1. Followed(it, m, n, g) = f
      BY <2>1, <2>11
    <3> QED
      BY <1>1, <1>5, <2>3, <2>4, <2>5, <2>7, <2>8, <2>9, <2>11, <3>1 DEF Effects
  <2> QED
    BY <2>10, <2>11
<1> QED
  BY <1>3, <1>4, <1>5 DEF Intents, Kinds

\* So has every block.
LEMMA DrivenIs ==
  ASSUME IInv, NEW it \in Intents, NEW m \in Monitors, NEW n \in Needles, NEW g \in Track
  PROVE  Effects(it, m, Driven(it, m, n, g))
<1>1. CASE deck.mode # "Timecode" \/ it.kind = "none"
  <2>1. Driven(it, m, n, g) = Effect(deck, panic, m)
    BY <1>1 DEF Driven
  <2>2. panic \in Panics /\ panic.on \in BOOLEAN
    BY DEF IInv, TypeOK, Panics
  <2> QED
    BY <1>1, <2>1, <2>2, EffectIs, Parts DEF Effects
<1>2. CASE ~(deck.mode # "Timecode" \/ it.kind = "none") /\ panic.on
  BY <1>2, InPanicIs DEF Driven
<1>3. CASE ~(deck.mode # "Timecode" \/ it.kind = "none") /\ ~panic.on
  BY <1>3, FollowedIs DEF Driven
<1> QED
  BY <1>1, <1>2, <1>3

HandsBack == panic.on /\ ~panic'.on => hist'.locks = Relock
StaysInLoop == deck'.loop # None /\ deck'.playing /\ deck'.src # "none" /\ deck'.mode # "Thru"
            => deck'.pos \in deck'.loop.from..(deck'.loop.from + deck'.loop.len - 1)

\* A block keeps the invariant, hands back only what was earned, and keeps the
\* playhead in its loop.
LEMMA BlockKeeps == IInv /\ Block => IInv' /\ HandsBack /\ StaysInLoop
<1> SUFFICES ASSUME IInv,
                    NEW sig \in Signals, NEW d \in Rates, NEW r \in Rates, NEW land \in Landings(sig),
                    sig = "none" => record.late + d <= MaxRate,
                    sig # "fix" => faults > 0,
                    faults' = IF sig = "fix" THEN faults ELSE faults - 1,
                    Render(sig, d, r, land),
                    UNCHANGED budget
             PROVE  IInv' /\ HandsBack /\ StaysInLoop
  BY DEF Block
<1> DEFINE g == IF sig = "none" THEN record.groove ELSE land + record.late + d
           it == Intent(sig, g, r)
           n == Measured(sig, r, it.policy)
           m == Listened(sig)
           e == Driven(it, m, n, g)
           p == Rendered(e.deck, e.far)
           free == deck.mode # "Timecode" \/ panic.on \/ e.deck.loop # None
           slips == p # deck.pos \/ g # record.groove
<1>1. /\ g \in Track /\ p \in Track
      /\ record' = [groove |-> g, late |-> IF sig = "none" THEN record.late + d ELSE 0]
      /\ policy' = it.policy
      /\ needle' = n
      /\ drift' = e.drift
      /\ panic' = e.panic
      /\ deck' = [e.deck EXCEPT !.pos = p]
  BY DEF Render
<1>2. hist' = [locks |-> IF it.kind = "dropout" THEN 0
                         ELSE IF it.kind = "none" THEN hist.locks
                         ELSE Least(hist.locks + 1, Relock),
               gone |-> IF sig \in Below THEN Least(hist.gone + 1, Sticky)
                        ELSE IF sig = "none" THEN hist.gone ELSE 0,
               moved |-> e.owed = None /\ (hist.moved \/ (free /\ slips)),
               lost |-> IF e.anew THEN 0
                        ELSE hist.lost + (g - record.groove) - (p - deck.pos),
               chased |-> IF e.owed = None \/ e.owed = 0 THEN {}
                          ELSE (IF hist.moved THEN {"move"} ELSE {})
                                 \cup (IF e.owed # hist.lost THEN {"speed"} ELSE {})]
  BY DEF Render
<1>3. TypeOK
  BY DEF IInv
<1>4. /\ it \in Intents
      /\ it.policy.engaged => it.policy.below < Sticky
      /\ it.kind = "none" <=> sig = "none"
      /\ it.policy.engaged /\ sig \in Below => policy.engaged /\ it.policy.below = policy.below + 1
      /\ sig = "none" => it.policy = policy
      /\ sig \in Below /\ it.kind # "dropout" => it.policy.engaged
  <2> HIDE DEF g
  <2> QED  BY <1>1, <1>3, IntentIs
<1>5. n \in Needles
  <2> HIDE DEF it
  <2> QED  BY <1>3, NeedleIs
<1>6. m \in Monitors /\ m.pending = drift.pending
  BY <1>3, ListenedIs
<1>7. Effects(it, m, e)
  <2> HIDE DEF g, it, n, m
  <2> QED  BY <1>1, <1>4, <1>5, <1>6, DrivenIs
<1> HIDE DEF g, it, n, m, e, p
<1>8. /\ deck' \in DeckStates /\ deck'.mode = deck.mode /\ deck'.loop = deck.loop
      /\ deck'.playing = e.deck.playing /\ deck'.src = e.deck.src /\ deck'.pos = p
  <2>1. e.deck \in DeckStates /\ e.deck.mode = deck.mode /\ e.deck.loop = deck.loop
    BY <1>7 DEF Effects
  <2>2. deck' \in DeckStates
    BY <1>1, <2>1, DeckWith
  <2> QED
    BY <1>1, <2>1, <2>2 DEF DeckStates
<1>9. hist \in [locks : 0..Relock, gone : 0..Sticky, moved : BOOLEAN, lost : Int,
                chased : SUBSET {"move", "speed"}]
  BY <1>3 DEF TypeOK
<1>10. /\ hist'.locks = IF it.kind = "dropout" THEN 0
                        ELSE IF it.kind = "none" THEN hist.locks
                        ELSE Least(hist.locks + 1, Relock)
       /\ hist'.gone = IF sig \in Below THEN Least(hist.gone + 1, Sticky)
                       ELSE IF sig = "none" THEN hist.gone ELSE 0
       /\ "move" \in hist'.chased => hist.moved /\ e.owed # None /\ e.owed # 0
  BY <1>2
<1>11. hist'.moved => e.owed = None /\ (hist.moved \/ free)
  BY <1>2
<1>12. hist'.locks \in 0..Relock /\ hist'.gone \in 0..Sticky
  BY <1>9, <1>10, Constants DEF Least
<1>13. record \in [groove : Track, late : Rates] /\ budget \in 0..Budget /\ faults \in 0..Faults
       /\ deck \in DeckStates /\ panic \in Panics
  BY <1>3 DEF TypeOK, Panics
<1>14. TypeOK'
  <2>1. record' \in [groove : Track, late : Rates]
    BY <1>1, <1>13, Constants DEF Rates
  <2>2. hist' \in [locks : 0..Relock, gone : 0..Sticky, moved : BOOLEAN, lost : Int,
                   chased : SUBSET {"move", "speed"}]
    <3>1. hist'.lost \in Int
      BY <1>1, <1>2, <1>9, <1>13 DEF Track, DeckStates
    <3>2. hist'.chased \in SUBSET {"move", "speed"}
      BY <1>2
    <3>3. hist'.moved \in BOOLEAN
      BY <1>2
    <3>4. hist' = [locks |-> hist'.locks, gone |-> hist'.gone, moved |-> hist'.moved,
                   lost |-> hist'.lost, chased |-> hist'.chased]
      BY <1>2
    <3> QED
      BY <1>12, <3>1, <3>2, <3>3, <3>4
  <2>3. policy' \in Policies /\ (policy'.engaged => policy'.below < Sticky)
    BY <1>1, <1>4 DEF Intents
  <2>4. drift' \in Monitors /\ panic' \in Panics
    BY <1>1, <1>7 DEF Effects
  <2>5. faults' \in 0..Faults /\ budget' \in 0..Budget
    BY <1>13, Constants
  <2> QED
    BY <1>1, <1>5, <1>8, <2>1, <2>2, <2>3, <2>4, <2>5 DEF TypeOK, Panics
<1>15. LiftInv'
  <2>1. policy \in Policies /\ it.policy \in Policies
    BY <1>3, <1>4 DEF TypeOK, Intents
  <2>2. policy.engaged => policy.below >= hist.gone
    BY DEF IInv, LiftInv
  <2> QED
    BY <1>1, <1>4, <1>9, <1>10, <2>1, <2>2, Constants DEF LiftInv, Policies, Least, Below
<1>16. LiftStops'
  <2> SUFFICES ASSUME deck.mode = "Timecode", ~panic'.on, hist'.gone >= Sticky
               PROVE  ~deck'.playing
    BY <1>8 DEF LiftStops
  <2>1. ~panic.on \/ ~(it.kind \in {"dropout", "none"})
    BY <1>1, <1>7 DEF Effects
  <2>2. CASE sig = "none"
    BY <1>1, <1>4, <1>7, <1>8, <1>10, <2>1, <2>2 DEF Effects, IInv, LiftStops, Below
  <2>3. CASE sig \in Below
    <3>1. hist.gone + 1 >= Sticky
      BY <1>9, <1>10, <2>3, Constants DEF Least
    <3>2. policy.engaged => policy.below >= hist.gone
      BY DEF IInv, LiftInv
    <3>3. policy \in Policies
      BY <1>3 DEF TypeOK
    <3>4. ~it.policy.engaged
      BY <1>4, <1>9, <2>3, <3>1, <3>2, <3>3, Constants DEF Policies
    <3>5. it.kind = "dropout"
      BY <1>4, <2>3, <3>4
    <3> QED
      BY <1>7, <1>8, <2>1, <3>5 DEF Effects
  <2>4. CASE sig # "none" /\ sig \notin Below
    BY <1>10, <2>4, Constants
  <2> QED
    BY <2>2, <2>3, <2>4
<1>17. PanicInv'
  <2> SUFFICES ASSUME panic'.on, deck.mode = "Timecode" PROVE panic'.relock <= hist'.locks
    BY <1>8 DEF PanicInv
  <2>1. panic.on /\ panic.relock <= hist.locks
    BY <1>1, <1>7 DEF Effects, IInv, PanicInv
  <2>2. panic' \in Panics
    BY <1>1, <1>7 DEF Effects
  <2>3. \/ panic' = panic /\ it.kind = "none"
        \/ panic'.relock = 0
        \/ it.kind \notin {"dropout", "none"} /\ panic'.relock = panic.relock + 1
    <3>1. it.kind = "none" => panic' = panic
      BY <1>1, <1>7 DEF Effects
    <3> QED
      BY <1>1, <1>7, <2>1, <3>1 DEF Effects
  <2>4. panic.relock \in Nat /\ hist.locks \in Nat
    BY <1>9, <1>13, Constants DEF Panics
  <2>5. CASE panic' = panic /\ it.kind = "none"
    BY <1>10, <2>1, <2>5
  <2>6. CASE panic'.relock = 0
    BY <1>12, <2>6, Constants
  <2>7. CASE it.kind \notin {"dropout", "none"} /\ panic'.relock = panic.relock + 1
    <3>1. panic'.relock <= Relock - 1
      BY <2>2, Constants DEF Panics
    <3>2. hist'.locks = Least(hist.locks + 1, Relock)
      BY <1>10, <2>7
    <3> QED
      BY <2>1, <2>4, <2>7, <3>1, <3>2, Constants DEF Least
  <2> QED
    BY <2>3, <2>5, <2>6, <2>7
<1>18. RemapInv'
  <2>1. /\ e.owed = None /\ drift.pending => drift'.pending
        /\ e.owed # None => deck.mode = "Timecode" /\ deck.loop = None /\ ~panic.on
        /\ panic.on => panic'.on \/ drift'.pending
        /\ e.deck.loop = deck.loop
    BY <1>1, <1>6, <1>7 DEF Effects
  <2>2. /\ deck.mode # "Timecode" \/ deck.loop # None => drift.pending
        /\ hist.moved => drift.pending \/ panic.on
    BY DEF IInv, RemapInv
  <2> QED
    BY <1>8, <1>11, <2>1, <2>2 DEF RemapInv
<1>19. MovesAreNotHealed'
  <2>1. e.owed # None => ~panic.on /\ (drift.pending => e.owed = 0)
    BY <1>6, <1>7 DEF Effects
  <2> QED
    BY <1>10, <2>1 DEF MovesAreNotHealed, IInv, RemapInv
<1>20. HandsBack
  <2> SUFFICES ASSUME panic.on, ~panic'.on PROVE hist'.locks = Relock
    BY DEF HandsBack
  <2>1. /\ deck.mode = "Timecode" /\ it.kind \notin {"dropout", "none"}
        /\ panic.relock + 1 >= Relock
    BY <1>1, <1>7 DEF Effects
  <2>2. panic.relock <= hist.locks
    BY <2>1 DEF IInv, PanicInv
  <2> QED
    BY <1>9, <1>10, <1>13, <2>1, <2>2, Constants DEF Panics, Least
<1>21. StaysInLoop
  <2> SUFFICES ASSUME deck'.loop # None, deck'.playing, deck'.src # "none", deck'.mode # "Thru"
               PROVE  deck'.pos \in deck'.loop.from..(deck'.loop.from + deck'.loop.len - 1)
    BY DEF StaysInLoop
  <2>1. e.deck \in DeckStates /\ e.deck.mode = deck.mode /\ e.deck.loop = deck.loop
    BY <1>7 DEF Effects
  <2>2. e.deck.loop \in Loops /\ e.deck.pos + e.deck.rate \in Int
    BY <1>8, <2>1 DEF DeckStates, Track, Rates
  <2>3. p = Wrap(e.deck.pos + e.deck.rate, e.deck.loop)
    BY <1>8, <2>1 DEF p, Rendered
  <2> QED
    BY <1>8, <2>1, <2>2, <2>3, WrapIs
<1> QED
  BY <1>14, <1>15, <1>16, <1>17, <1>18, <1>19, <1>20, <1>21 DEF IInv

-----------------------------------------------------------------------------
(* The theorems *)

\* The inductive invariant holds at first.
LEMMA InitKeeps == Init => IInv
<1> SUFFICES ASSUME Init PROVE IInv
  OBVIOUS
<1> USE Constants
<1>1. /\ panic \in Panics /\ ~panic.on
      /\ hist \in [locks : 0..Relock, gone : 0..Sticky, moved : BOOLEAN, lost : Int,
                   chased : SUBSET {"move", "speed"}]
      /\ hist.gone = 0 /\ ~hist.moved /\ hist.chased = {}
      /\ budget \in 0..Budget /\ faults \in 0..Faults
  BY DEF Init, Panics
<1>2. CASE Fresh
  BY <1>1, <1>2 DEF Fresh, IInv, TypeOK, LiftInv, LiftStops, PanicInv, RemapInv, MovesAreNotHealed,
     DeckStates, Policies, Monitors, Needles, Loops, Modes, Rates, Track, Panics
<1>3. CASE Following
  BY <1>1, <1>3 DEF Following, IInv, TypeOK, LiftInv, LiftStops, PanicInv, RemapInv,
     MovesAreNotHealed, DeckStates, Policies, Monitors, Needles, Loops, Modes, Rates, Track, Panics
<1> QED
  BY <1>2, <1>3 DEF Init

\* Every step keeps the inductive invariant.
LEMMA StepKeeps == IInv /\ [Next]_vars => IInv'
<1>1. IInv /\ UNCHANGED vars => IInv'
  BY DEF vars, IInv, TypeOK, LiftInv, LiftStops, PanicInv, RemapInv, MovesAreNotHealed
<1> QED
  BY <1>1, CommandsKeep, BlockKeeps DEF Next

\* The invariant that the theorems below rest on: it relates the counters of
\* the lift policy, of Panic Play and of the drift monitor to what the record
\* and the playhead really did.
THEOREM Invariant == Spec => []IInv
BY InitKeeps, StepKeeps, PTL DEF Spec

\* The policy and Panic Play stop counting where step_for and
\* drive_timecode_inputs let go, and every position stays on the track.
THEOREM TypesHold == Spec => []TypeOK
<1>1. IInv => TypeOK
  BY DEF IInv
<1> QED
  BY <1>1, Invariant, PTL

\* A needle that is gone for the sticky window stops the deck (step_for, the
\* dropout arm): no command and no order of commands keeps it running.
THEOREM LiftStopsAlways == Spec => []LiftStops
<1>1. IInv => LiftStops
  BY DEF IInv
<1> QED
  BY <1>1, Invariant, PTL

\* No deliberate move of the playhead is healed away (note_remap, observe).
THEOREM MovesStay == Spec => []MovesAreNotHealed
<1>1. IInv => MovesAreNotHealed
  BY DEF IInv
<1> QED
  BY <1>1, Invariant, PTL

\* A command is not a block.
LEMMA CommandsCount == IInv /\ Commands => ~ByABlock
<1> SUFFICES ASSUME IInv, Commands PROVE ~ByABlock
  OBVIOUS
<1>1. budget' = budget - 1
  BY DEF Commands, Command, Play, Pause, Seek, SetRate, PanicPlay, CancelPanic, SetLoop, ClearLoop,
     SetControlMode, Load, Host, Revert, Calibrate
<1>2. budget \in Nat
  BY Constants DEF IInv, TypeOK
<1> QED
  BY <1>1, <1>2 DEF ByABlock

\* Panic Play gives the deck back to the platter only after Relock blocks of
\* lock on end (drive_timecode_inputs).
THEOREM HandBackHolds == Spec => HandBackIsEarned
<1>1. IInv /\ [Next]_vars => [ByABlock /\ panic.on /\ ~panic'.on => hist'.locks = Relock]_vars
  BY BlockKeeps, CommandsCount DEF Next, HandsBack
<1> QED
  BY <1>1, Invariant, PTL DEF Spec, HandBackIsEarned

\* A block leaves the playhead of a playing loop inside the loop (render_into).
THEOREM LoopHoldsAlways == Spec => LoopHolds
<1>1. IInv /\ [Next]_vars
        => [ByABlock /\ deck'.loop # None /\ deck'.playing /\ deck'.src # "none" /\ deck'.mode # "Thru"
              => deck'.pos \in deck'.loop.from..(deck'.loop.from + deck'.loop.len - 1)]_vars
  BY BlockKeeps, CommandsCount DEF Next, StaysInLoop
<1> QED
  BY <1>1, Invariant, PTL DEF Spec, LoopHolds
=============================================================================
