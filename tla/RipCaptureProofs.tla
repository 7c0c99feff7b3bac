-------------------------- MODULE RipCaptureProofs --------------------------
(***************************************************************************)
(* The safety of RipCapture, for every size of the ring, the blocks, the   *)
(* pre-roll and the cap, and every way a take may begin and end.           *)
(*                                                                         *)
(* The theorems are about one arm() of a session: a second keeps the       *)
(* counters of the first.  The worker may run ahead of arm()'s store of    *)
(* Armed, and what that store may overwrite is `overtaken`.                *)
(***************************************************************************)
EXTENDS RipCapture, TLAPS

OneTake == MaxArms \in {0, 1}

-----------------------------------------------------------------------------
(* The invariant *)

Looping == {"command", "start", "load", "pop", "held", "trigger", "append", "preroll"}
Holding == {"trigger", "append", "preroll"}
Capturing == {"create", "ready", "drain", "tail"} \cup Looping
Closing == {"finalize", "reason", "stopped"}
Live == Capturing \cup Closing

Gates == [music : BOOLEAN, quiet : Nat, loud : Nat]
Workers == [pc : Live \cup {"none", "done"}, recording : BOOLEAN, block : Seq(Nat),
            preRoll : Seq(Nat), gate : Gates, reason : Reasons]

TypeInv ==
  /\ state \in States /\ command \in {"None", "Start", "Stop"}
  /\ recordedFrames \in Nat /\ stopReason \in Reasons
  /\ ring \in Seq(Nat) /\ held \in BOOLEAN /\ level \in Seq(Levels)
  /\ w \in Workers
  /\ wav \in Seq(Nat) /\ finalized \in BOOLEAN
  /\ op \in {"none", "arm", "Start", "Stop", "join", "drop", "dropped"}
  /\ worker \in BOOLEAN /\ manifestFrames \in Nat /\ savedFrames \in Nat /\ arms \in Nat
  /\ started \in {"none", "manual", "auto"} /\ startFrame \in Nat /\ endOfInput \in Nat
  /\ overtaken \in {"none", "take", "end"} /\ synced \in BOOLEAN

\* What the worker has read of the state, of a take that arm() did not overtake.
TakeInv ==
  overtaken # "take" =>
    /\ w.pc \in {"append", "tail"} => state = "Recording"
    /\ w.pc \in {"pop", "held"} \cup Holding => w.recording = (state = "Recording")
    /\ w.pc \in Live => ((started = "none") <=> (state # "Recording"))

\* Where the worker is, and what it may find in the state.
PhaseInv ==
  /\ (arms = 0) <=> (w.pc = "none")
  /\ w.pc = "none" => state = "Idle" /\ started = "none" /\ op # "arm" /\ overtaken = "none"
  /\ op = "arm" => overtaken = "none" /\ ~worker
  /\ w.pc \in {"create", "ready"} => overtaken = "none" /\ state # "Recording"
  /\ w.pc \in Live => state \notin Terminal
  /\ state = "Idle" => w.pc \in {"none", "create", "ready"}
  /\ w.pc = "done" => state \in Terminal \/ overtaken = "end"
  /\ overtaken = "end" => w.pc = "done" /\ state = "Armed"
  /\ w.pc \in {"pop", "held"} \cup Holding => (state = "Recording" => w.recording)
  /\ w.pc \in {"trigger", "preroll"} => state = "Armed"
  /\ w.pc = "trigger" => AutoStart /\ w.block # <<>>
  /\ TakeInv

\* The session's handle, the length in its manifest, and the length it has saved.
SessionInv ==
  /\ w.pc \in Live /\ op # "arm" => worker
  /\ op = "join" => state \in Terminal
  /\ ~worker /\ op \notin {"arm", "dropped"} /\ state = "Stopped" =>
       manifestFrames = recordedFrames /\ (synced => savedFrames = recordedFrames)

\* s holds the frames from a on.
Run(s, a) == \A i \in 1..Len(s) : s[i] = a + i - 1

\* The first frame still in the ring, and the first that is neither in the
\* file nor in the pre-roll.
NextFrame == Len(level) - Len(ring) + 1
Turn == NextFrame - Len(w.block)

RingInv ==
  /\ Len(ring) <= Len(level) /\ Run(ring, NextFrame)
  /\ endOfInput <= Len(level)
  /\ w.pc = "none" => NextFrame = 1
  /\ w.pc \in Live \ Holding => w.block = <<>>
  /\ w.pc \in Capturing => 1 <= Turn /\ Run(w.block, Turn)

\* The pre-roll of an armed session ends where the worker is.
PreRollInv ==
  overtaken # "take" /\ w.pc \in Capturing /\ state # "Recording" =>
    /\ Len(w.preRoll) < Turn /\ Run(w.preRoll, Turn - Len(w.preRoll))
    /\ ~AutoStart => w.preRoll = <<>>
    /\ AutoStart => Len(w.preRoll) = IF Turn > PreRollCap THEN PreRollCap ELSE Turn - 1

\* Where the file begins, by what began it.
Drop == IF started = "auto" THEN (IF startFrame > PreRollCap THEN startFrame - PreRollCap ELSE 1)
        ELSE startFrame

FileInv ==
  /\ overtaken # "take" => Run(wav, Drop)
  /\ state # "Failed" /\ overtaken # "end" => recordedFrames = Len(wav)
  /\ overtaken # "take" /\ w.pc \in Live \cup {"none"} /\ state # "Recording" => wav = <<>>
  /\ overtaken # "take" /\ w.pc \in Capturing /\ state = "Recording" =>
       Drop + Len(wav) = Turn /\ Drop <= startFrame

\* What holds of a take that ends well, once the loop is left.
EndInv ==
  /\ w.pc \in {"drain", "tail"} \cup Closing => w.reason # "None"
  /\ w.pc = "stopped" \/ state = "Stopped" => stopReason # "None"
  /\ w.pc \in {"reason", "stopped"} \/ state = "Stopped" => finalized
  /\ overtaken # "take" /\ (w.pc \in Closing \/ state = "Stopped") =>
       (started # "none" /\ recordedFrames < MaxFrames /\ endOfInput >= startFrame
         => wav # <<>> /\ Last(wav) >= endOfInput)

IInv == TypeInv /\ PhaseInv /\ SessionInv /\ RingInv /\ PreRollInv /\ FileInv /\ EndInv

-----------------------------------------------------------------------------
(* Runs of frames *)

\* A stretch of a run is a run.
LEMMA RunPart ==
  ASSUME NEW s \in Seq(Nat), NEW a \in Nat, Run(s, a),
         NEW m \in 1..(Len(s) + 1), NEW n \in 0..Len(s), m <= n + 1
  PROVE  /\ SubSeq(s, m, n) \in Seq(Nat) /\ Len(SubSeq(s, m, n)) = n - m + 1
         /\ Run(SubSeq(s, m, n), a + m - 1)
BY DEF Run

\* Two runs that meet are one.
LEMMA RunJoin ==
  ASSUME NEW s \in Seq(Nat), NEW t \in Seq(Nat), NEW a \in Nat, Run(s, a), Run(t, a + Len(s))
  PROVE  s \o t \in Seq(Nat) /\ Len(s \o t) = Len(s) + Len(t) /\ Run(s \o t, a)
<1>1. s \o t \in Seq(Nat) /\ Len(s \o t) = Len(s) + Len(t)
  OBVIOUS
<1>2. ASSUME NEW i \in 1..Len(s \o t) PROVE (s \o t)[i] = a + i - 1
  <2>1. CASE i <= Len(s)
    BY <1>1, <1>2, <2>1 DEF Run
  <2>2. CASE i > Len(s)
    <3>1. (s \o t)[i] = t[i - Len(s)] /\ i - Len(s) \in 1..Len(t)
      BY <1>1, <1>2, <2>2
    <3> QED
      BY <1>1, <1>2, <3>1 DEF Run
  <2> QED
    BY <2>1, <2>2, <1>1
<1> QED
  BY <1>1, <1>2 DEF Run

\* What a failed write leaves in the file goes on from what was there.
LEMMA PartWritten ==
  ASSUME NEW s \in Seq(Nat), NEW t \in Seq(Nat), NEW a \in Nat, Run(s, a), Run(t, a + Len(s)),
         NEW n \in 0..(Len(t) - 1)
  PROVE  s \o SubSeq(t, 1, n) \in Seq(Nat) /\ Run(s \o SubSeq(t, 1, n), a)
<1>1. PICK m \in 1..(Len(t) + 1), k \in 0..Len(t), b \in Nat : m = 1 /\ k = n /\ b = a + Len(s)
  <2>1. 1 \in 1..(Len(t) + 1) /\ n \in 0..Len(t) /\ a + Len(s) \in Nat
    OBVIOUS
  <2> QED
    BY <2>1
<1>2. m <= k + 1 /\ Run(t, b)
  BY <1>1
<1>3. SubSeq(t, m, k) \in Seq(Nat) /\ Run(SubSeq(t, m, k), b + m - 1)
  BY <1>2, RunPart
<1>4. PICK u \in Seq(Nat) : u = SubSeq(t, 1, n) /\ Run(u, a + Len(s))
  <2>1. b + m - 1 = a + Len(s)
    BY <1>1
  <2> QED
    BY <1>1, <1>3, <2>1
<1> QED
  BY <1>4, RunJoin

\* What goes into the file is frames, whether or not they are a run.
LEMMA Written ==
  ASSUME NEW s \in Seq(Nat), NEW t \in Seq(Nat)
  PROVE  /\ s \o t \in Seq(Nat) /\ Len(s \o t) = Len(s) + Len(t)
         /\ \A n \in 0..(Len(t) - 1) : s \o SubSeq(t, 1, n) \in Seq(Nat)
OBVIOUS

\* No frame at all is a run from anywhere.
LEMMA RunEmpty == \A a : Run(<<>>, a)
BY DEF Run

\* A pop takes a run off the front of the ring, and something if it can.
LEMMA PoppedIs ==
  ASSUME ring \in Seq(Nat), NEW a \in Nat, Run(ring, a)
  PROVE  /\ Popped \in Seq(Nat) /\ Rest \in Seq(Nat)
         /\ Len(ring) = Len(Popped) + Len(Rest)
         /\ Run(Popped, a) /\ Run(Rest, a + Len(Popped))
<1>1. PICK k \in 0..Len(ring) : Popped = SubSeq(ring, 1, k)
  BY SizesAssumption DEF Popped
<1>2. Popped \in Seq(Nat) /\ Len(Popped) = k /\ Run(Popped, a)
  <2>1. Popped \in Seq(Nat) /\ Len(Popped) = k - 1 + 1 /\ Run(Popped, a + 1 - 1)
    BY <1>1, RunPart
  <2> QED
    BY <2>1
<1>3. /\ Rest \in Seq(Nat) /\ Len(Rest) = Len(ring) - (k + 1) + 1
      /\ Run(Rest, a + (k + 1) - 1)
  <2>1. Rest = SubSeq(ring, k + 1, Len(ring))
    BY <1>2 DEF Rest
  <2>2. k + 1 \in 1..(Len(ring) + 1) /\ Len(ring) \in 0..Len(ring)
    BY <1>1
  <2>3. PICK m \in 1..(Len(ring) + 1), n \in 0..Len(ring) : m = k + 1 /\ n = Len(ring)
    BY <2>2
  <2>4. m <= n + 1
    BY <2>3
  <2>5. /\ SubSeq(ring, m, n) \in Seq(Nat) /\ Len(SubSeq(ring, m, n)) = n - m + 1
        /\ Run(SubSeq(ring, m, n), a + m - 1)
    BY <2>4, RunPart
  <2> QED
    BY <2>1, <2>3, <2>5
<1> QED
  BY <1>2, <1>3

\* What the pre-roll keeps is frames.
LEMMA NewestOf == ASSUME NEW s \in Seq(Nat) PROVE KeepNewest(s) \in Seq(Nat)
BY SizesAssumption DEF KeepNewest

\* The pre-roll keeps the end of a run.
LEMMA NewestIs ==
  ASSUME NEW s \in Seq(Nat), NEW a \in Nat, Run(s, a)
  PROVE  /\ KeepNewest(s) \in Seq(Nat)
         /\ Len(KeepNewest(s)) = IF Len(s) <= PreRollCap THEN Len(s) ELSE PreRollCap
         /\ Run(KeepNewest(s), a + Len(s) - Len(KeepNewest(s)))
<1>1. CASE Len(s) <= PreRollCap
  BY <1>1 DEF KeepNewest
<1>2. CASE Len(s) > PreRollCap
  <2>1. Len(s) - PreRollCap + 1 \in 1..(Len(s) + 1) /\ Len(s) \in 0..Len(s)
    BY <1>2, SizesAssumption
  <2>2. PICK m \in 1..(Len(s) + 1), n \in 0..Len(s) : m = Len(s) - PreRollCap + 1 /\ n = Len(s)
    BY <2>1
  <2>3. m <= n + 1 /\ KeepNewest(s) = SubSeq(s, m, n) /\ PreRollCap \in Nat
    BY <1>2, <2>2, SizesAssumption DEF KeepNewest
  <2>4. /\ SubSeq(s, m, n) \in Seq(Nat) /\ Len(SubSeq(s, m, n)) = n - m + 1
        /\ Run(SubSeq(s, m, n), a + m - 1)
    BY <2>3, RunPart
  <2>5. n - m + 1 = PreRollCap /\ a + m - 1 = a + Len(s) - PreRollCap
    BY <2>2, <2>3
  <2>6. KeepNewest(s) \in Seq(Nat) /\ Len(KeepNewest(s)) = PreRollCap
    BY <2>3, <2>4, <2>5
  <2>7. Run(KeepNewest(s), a + Len(s) - PreRollCap)
    BY <2>3, <2>4, <2>5
  <2> QED
    BY <1>2, <2>3, <2>6, <2>7
<1> QED
  BY <1>1, <1>2, SizesAssumption

-----------------------------------------------------------------------------
(* The worker's locals *)

\* The worker goes to p with its locals as they are, ...
Moves(p) ==
  /\ w' \in Workers /\ w'.pc = p /\ w'.recording = w.recording /\ w'.block = w.block
  /\ w'.preRoll = w.preRoll /\ w'.reason = w.reason

\* ... or ends an iteration.
Cycles(p, preRoll, reason) ==
  /\ w' \in Workers /\ w'.pc = p /\ w'.block = <<>> /\ w'.preRoll = preRoll /\ w'.reason = reason

\* A worker that goes to another place keeps its locals.
LEMMA MovesTo ==
  ASSUME w \in Workers, NEW p \in Live \cup {"none", "done"}, w' = [w EXCEPT !.pc = p]
  PROVE  Moves(p)
BY DEF Workers, Moves

\* What the ends of a cycle leave of the worker's locals.
LEMMA CyclesTo ==
  ASSUME w \in Workers, NEW g \in Gates, NEW s \in Seq(Nat), NEW r \in Reasons
  PROVE  /\ w' = [NextCycle EXCEPT !.gate = g] => Cycles("command", w.preRoll, w.reason)
         /\ w' = [NextCycle EXCEPT !.preRoll = s] => Cycles("command", s, w.reason)
         /\ w' = NextCycle => Cycles("command", w.preRoll, w.reason)
         /\ w' = Leave(r) => Cycles("drain", w.preRoll, r)
         /\ w' = [Leave(r) EXCEPT !.gate = g] => Cycles("drain", w.preRoll, r)
<1>1. <<>> \in Seq(Nat) /\ "command" \in Live \cup {"none", "done"}
      /\ "drain" \in Live \cup {"none", "done"}
  BY DEF Live, Capturing, Looping
<1>2. w' = [NextCycle EXCEPT !.gate = g] => Cycles("command", w.preRoll, w.reason)
  BY <1>1 DEF Workers, Cycles, NextCycle
<1>3. w' = [NextCycle EXCEPT !.preRoll = s] => Cycles("command", s, w.reason)
  BY <1>1 DEF Workers, Cycles, NextCycle
<1>4. w' = NextCycle => Cycles("command", w.preRoll, w.reason)
  BY <1>1 DEF Workers, Cycles, NextCycle
<1>5. w' = Leave(r) => Cycles("drain", w.preRoll, r)
  BY <1>1 DEF Workers, Cycles, NextCycle, Leave
<1>6. w' = [Leave(r) EXCEPT !.gate = g] => Cycles("drain", w.preRoll, r)
  BY <1>1 DEF Workers, Cycles, NextCycle, Leave
<1> QED
  BY <1>2, <1>3, <1>4, <1>5, <1>6

\* The silence gate stays one.
LEMMA FeedIs ==
  ASSUME NEW g \in Gates, NEW b \in Seq(Nat)
  PROVE  Feed(g, b) \in Gates
<1>1. Loud(b) \in BOOLEAN /\ Len(b) \in Nat
  BY DEF Loud
<1>2. CASE g.music /\ ~Loud(b)
  <2>1. g.quiet + Len(b) \in Nat
    BY <1>1 DEF Gates
  <2>2. Feed(g, b) = [g EXCEPT !.quiet = g.quiet + Len(b), !.loud = 0]
    BY <1>2 DEF Feed
  <2>3. ASSUME NEW q \in Nat PROVE [g EXCEPT !.quiet = q, !.loud = 0] \in Gates
    BY DEF Gates
  <2> QED
    BY <2>1, <2>2, <2>3
<1>3. CASE ~(g.music /\ ~Loud(b))
  BY <1>1, <1>3, SizesAssumption DEF Feed, Gates
<1> QED
  BY <1>2, <1>3

\* A failure leaves the file as it is, whatever part of a block went into it.
LEMMA FailKeeps ==
  ASSUME OneTake, IInv, Fail, w.pc \notin {"none", "done"},
         UNCHANGED <<held, level, session, overtaken, synced>>,
         TypeInv', RingInv', overtaken # "take" => Run(wav, Drop)'
  PROVE  IInv'
<1> USE DEF IInv, Live, Capturing, Closing, Looping, Holding, Terminal
<1>1. Moves("done")
  BY MovesTo DEF Fail, TypeInv
<1>2. PhaseInv' /\ SessionInv'
  BY <1>1 DEF Fail, PhaseInv, TakeInv, SessionInv, Moves, session, TypeInv, States
<1>3. PreRollInv' /\ FileInv' /\ EndInv'
  BY <1>1 DEF Fail, PreRollInv, FileInv, EndInv, Moves
<1> QED
  BY <1>2, <1>3

-----------------------------------------------------------------------------
(* Every step keeps the invariant: the audio thread and the session, ... *)

\* The new frame is the next of the run in the ring.
LEMMA RenderKeeps ==
  ASSUME OneTake, IInv, Render
  PROVE  IInv'
<1> USE DEF IInv, Render, shared, spill, session, history
<1>1. PICK l \in Levels : level' = Append(level, l)
  OBVIOUS
<1>2. /\ level' \in Seq(Levels) /\ Len(level') = Len(level) + 1
      /\ ring' \in Seq(Nat) /\ Len(ring') = Len(ring) + 1
  BY <1>1 DEF TypeInv
<1>3. TypeInv'
  BY <1>2 DEF TypeInv
<1>4. PhaseInv' /\ SessionInv' /\ EndInv'
  BY DEF PhaseInv, TakeInv, SessionInv, EndInv
<1>5. NextFrame' = NextFrame /\ Turn' = Turn /\ Drop' = Drop
  BY <1>2 DEF NextFrame, Turn, Drop, TypeInv
<1>6. Run(ring', NextFrame')
  <2>1. ASSUME NEW i \in 1..Len(ring') PROVE ring'[i] = NextFrame' + i - 1
    <3>1. CASE i <= Len(ring)
      BY <1>2, <1>5, <2>1, <3>1 DEF Run, RingInv, TypeInv
    <3>2. CASE i = Len(ring) + 1
      BY <1>2, <1>5, <2>1, <3>2 DEF NextFrame, TypeInv
    <3> QED
      BY <1>2, <2>1, <3>1, <3>2 DEF TypeInv
  <2> QED
    BY <2>1 DEF Run
<1>7. RingInv'
  BY <1>2, <1>5, <1>6 DEF RingInv, TypeInv
<1>8. PreRollInv' /\ FileInv'
  BY <1>5 DEF PreRollInv, FileInv
<1> QED
  BY <1>3, <1>4, <1>7, <1>8

\* DropTap keeps the inductive invariant.
LEMMA DropTapKeeps ==
  ASSUME OneTake, IInv, DropTap
  PROVE  IInv'
<1> USE DEF IInv, DropTap, vars, shared, tap, spill, session, history
<1>1. TypeInv'
  BY DEF TypeInv
<1>2. PhaseInv' /\ SessionInv'
  BY DEF TypeInv, PhaseInv, TakeInv, SessionInv, Live, Capturing, Closing, Looping, Holding, Terminal
<1>3. NextFrame' = NextFrame /\ Turn' = Turn /\ Drop' = Drop
  BY DEF Turn, NextFrame, Drop
<1>4. RingInv' /\ PreRollInv' /\ FileInv' /\ EndInv'
  BY <1>3 DEF RingInv, PreRollInv, FileInv, EndInv
<1> QED
  BY <1>1, <1>2, <1>4

\* Nothing was taken from the ring before the one arm() of the take.
LEMMA ArmSpawnKeeps ==
  ASSUME OneTake, IInv, ArmSpawn
  PROVE  IInv'
<1> USE DEF IInv
<1>1. arms = 0 /\ arms' = 1 /\ w.pc = "none" /\ state = "Idle" /\ started = "none" /\ op = "none" /\ ~worker
      /\ overtaken = "none"
  BY OneTake, SizesAssumption DEF OneTake, ArmSpawn, PhaseInv, TypeInv
<1>2. /\ w' \in Workers /\ w'.pc = "create" /\ w'.block = <<>> /\ w'.preRoll = <<>>
      /\ w'.recording = FALSE
  <2>1. w' = NewWorker /\ <<>> \in Seq(Nat) /\ "None" \in Reasons /\ NewGate \in Gates
        /\ "create" \in Live \cup {"none", "done"}
    BY DEF ArmSpawn, Reasons, NewGate, Gates, Live, Capturing
  <2> QED
    BY <2>1 DEF NewWorker, Workers
<1>3. UNCHANGED <<state, command, recordedFrames, stopReason, tap, spill, worker, manifestFrames,
                  savedFrames, started, startFrame, endOfInput, synced>>
      /\ op' = "arm" /\ overtaken' = "none"
  BY <1>1 DEF ArmSpawn, shared, tap
<1>4. TypeInv'
  BY <1>1, <1>2, <1>3 DEF TypeInv, tap, spill
<1>5. PhaseInv' /\ SessionInv'
  BY <1>1, <1>2, <1>3 DEF PhaseInv, TakeInv, SessionInv, Live, Capturing, Closing, Looping,
     Holding, Terminal
<1>9. EndInv'
  BY <1>1, <1>2, <1>3 DEF EndInv, Closing
<1>6. NextFrame' = 1 /\ NextFrame = 1 /\ Turn' = 1 /\ Drop' = Drop
  BY <1>1, <1>2, <1>3 DEF NextFrame, Turn, Drop, RingInv, tap
<1>7. RingInv' /\ PreRollInv'
  BY <1>1, <1>2, <1>3, <1>6, RunEmpty, SizesAssumption DEF RingInv, PreRollInv, tap, TypeInv
<1>8. FileInv'
  BY <1>1, <1>2, <1>3, <1>6 DEF FileInv, spill, Live, Capturing, Closing, Looping
<1> QED
  BY <1>4, <1>5, <1>7, <1>8, <1>9

\* ArmReturn keeps the inductive invariant.
LEMMA ArmReturnKeeps ==
  ASSUME OneTake, IInv, ArmReturn
  PROVE  IInv'
<1> USE DEF IInv, ArmReturn, tap, spill, session
<1>1. /\ w.pc \in Live \cup {"done"} /\ overtaken = "none" /\ op = "arm"
      /\ w' = w /\ state' = "Armed" /\ worker' = TRUE /\ op' = "none"
  BY DEF PhaseInv, TypeInv, Workers
<1>2. TypeInv'
  BY DEF TypeInv, States
<1>3. PhaseInv' /\ SessionInv'
  BY <1>1 DEF PhaseInv, TakeInv, SessionInv, Live, Capturing, Closing, Looping, Holding, Terminal
<1>4. NextFrame' = NextFrame /\ Turn' = Turn /\ Drop' = Drop
  BY DEF NextFrame, Turn, Drop
<1>5. RingInv'
  BY <1>1, <1>4 DEF RingInv
<1>6. overtaken' # "take" /\ w.pc # "done" => state # "Recording"
  BY DEF ArmReturn
<1>7. PreRollInv' /\ EndInv'
  BY <1>1, <1>4, <1>6 DEF PreRollInv, EndInv, PhaseInv, Live, Capturing, Closing, Looping
<1>8. FileInv'
  <2>1. overtaken' # "end" => w.pc # "done"
    BY DEF ArmReturn
  <2>2. w.pc # "done" => state # "Failed"
    BY <1>1 DEF PhaseInv, Terminal
  <2> QED
    BY <1>1, <1>4, <1>6, <2>1, <2>2 DEF FileInv, Live, Capturing, Closing, Looping
<1> QED
  BY <1>2, <1>3, <1>5, <1>7, <1>8

\* RequestLoad keeps the inductive invariant.
LEMMA RequestLoadKeeps ==
  ASSUME OneTake, IInv, NEW r \in {"Start", "Stop"}, RequestLoad(r)
  PROVE  IInv'
<1> USE DEF IInv, RequestLoad, vars, shared, tap, spill, session, history
<1>1. TypeInv'
  BY DEF TypeInv
<1>2. PhaseInv' /\ SessionInv'
  BY DEF TypeInv, PhaseInv, TakeInv, SessionInv, Live, Capturing, Closing, Looping, Holding, Terminal
<1>3. NextFrame' = NextFrame /\ Turn' = Turn /\ Drop' = Drop
  BY DEF Turn, NextFrame, Drop
<1>4. RingInv' /\ PreRollInv' /\ FileInv' /\ EndInv'
  BY <1>3 DEF RingInv, PreRollInv, FileInv, EndInv
<1> QED
  BY <1>1, <1>2, <1>4

\* RequestStore keeps the inductive invariant.
LEMMA RequestStoreKeeps ==
  ASSUME OneTake, IInv, NEW r \in {"Start", "Stop"}, RequestStore(r)
  PROVE  IInv'
<1> USE DEF IInv, RequestStore, vars, shared, tap, spill, session, history
<1>1. TypeInv'
  BY DEF TypeInv
<1>2. PhaseInv' /\ SessionInv'
  BY DEF TypeInv, PhaseInv, TakeInv, SessionInv, Live, Capturing, Closing, Looping, Holding, Terminal
<1>3. NextFrame' = NextFrame /\ Turn' = Turn /\ Drop' = Drop
  BY DEF Turn, NextFrame, Drop
<1>4. RingInv' /\ PreRollInv' /\ FileInv' /\ EndInv'
  BY <1>3 DEF RingInv, PreRollInv, FileInv, EndInv
<1> QED
  BY <1>1, <1>2, <1>4

\* WaitSeesTerminal keeps the inductive invariant.
LEMMA WaitSeesTerminalKeeps ==
  ASSUME OneTake, IInv, WaitSeesTerminal
  PROVE  IInv'
<1> USE DEF IInv, WaitSeesTerminal, vars, shared, tap, spill, session, history
<1>1. TypeInv'
  BY DEF TypeInv
<1>2. PhaseInv' /\ SessionInv'
  BY DEF TypeInv, PhaseInv, TakeInv, SessionInv, Live, Capturing, Closing, Looping, Holding, Terminal
<1>3. NextFrame' = NextFrame /\ Turn' = Turn /\ Drop' = Drop
  BY DEF Turn, NextFrame, Drop
<1>4. RingInv' /\ PreRollInv' /\ FileInv' /\ EndInv'
  BY <1>3 DEF RingInv, PreRollInv, FileInv, EndInv
<1> QED
  BY <1>1, <1>2, <1>4

\* WaitJoined keeps the inductive invariant.
LEMMA WaitJoinedKeeps ==
  ASSUME OneTake, IInv, WaitJoined
  PROVE  IInv'
<1> USE DEF IInv, WaitJoined, vars, shared, tap, spill, session, history
<1>1. TypeInv'
  BY DEF TypeInv
<1>2. PhaseInv' /\ SessionInv'
  BY DEF TypeInv, PhaseInv, TakeInv, SessionInv, Live, Capturing, Closing, Looping, Holding, Terminal
<1>3. NextFrame' = NextFrame /\ Turn' = Turn /\ Drop' = Drop
  BY DEF Turn, NextFrame, Drop
<1>4. RingInv' /\ PreRollInv' /\ FileInv' /\ EndInv'
  BY <1>3 DEF RingInv, PreRollInv, FileInv, EndInv
<1> QED
  BY <1>1, <1>2, <1>4

\* DropSession keeps the inductive invariant.
LEMMA DropSessionKeeps ==
  ASSUME OneTake, IInv, DropSession
  PROVE  IInv'
<1> USE DEF IInv, DropSession, vars, shared, tap, spill, session, history
<1>1. TypeInv'
  BY DEF TypeInv
<1>2. PhaseInv' /\ SessionInv'
  BY DEF TypeInv, PhaseInv, TakeInv, SessionInv, Live, Capturing, Closing, Looping, Holding, Terminal
<1>3. NextFrame' = NextFrame /\ Turn' = Turn /\ Drop' = Drop
  BY DEF Turn, NextFrame, Drop
<1>4. RingInv' /\ PreRollInv' /\ FileInv' /\ EndInv'
  BY <1>3 DEF RingInv, PreRollInv, FileInv, EndInv
<1> QED
  BY <1>1, <1>2, <1>4

\* DropJoined keeps the inductive invariant.
LEMMA DropJoinedKeeps ==
  ASSUME OneTake, IInv, DropJoined
  PROVE  IInv'
<1> USE DEF IInv, DropJoined, vars, shared, tap, spill, session, history
<1>1. TypeInv'
  BY DEF TypeInv
<1>2. PhaseInv' /\ SessionInv'
  BY DEF TypeInv, PhaseInv, TakeInv, SessionInv, Live, Capturing, Closing, Looping, Holding, Terminal
<1>3. NextFrame' = NextFrame /\ Turn' = Turn /\ Drop' = Drop
  BY DEF Turn, NextFrame, Drop
<1>4. RingInv' /\ PreRollInv' /\ FileInv' /\ EndInv'
  BY <1>3 DEF RingInv, PreRollInv, FileInv, EndInv
<1> QED
  BY <1>1, <1>2, <1>4

-----------------------------------------------------------------------------
(* ... and the worker, in the order of its loop. *)

\* Create keeps the inductive invariant.
LEMMA CreateKeeps ==
  ASSUME OneTake, IInv, Create
  PROVE  IInv'
<1> USE DEF IInv
<1>1. /\ w \in Workers /\ w.pc = "create" /\ w.block = <<>>
      /\ UNCHANGED <<tap, session, history>>
  BY DEF Create, At, TypeInv, RingInv, Live, Capturing, Holding
<1>2. Drop' = Drop /\ NextFrame' = NextFrame /\ wav = <<>> /\ recordedFrames = 0
  BY <1>1 DEF Drop, NextFrame, FileInv, PhaseInv, TakeInv, Live, Capturing, Terminal, tap, history
<1>3. CASE wav' = <<>> /\ finalized' = FALSE /\ w' = [w EXCEPT !.pc = "ready"] /\ UNCHANGED shared
  <2>1. Moves("ready")
    BY <1>1, <1>3, MovesTo DEF Live, Capturing
  <2>2. Turn' = Turn
    BY <1>2, <2>1 DEF Turn, Moves
  <2>3. TypeInv'
    <3>1. wav' \in Seq(Nat)
      BY <1>3
    <3> QED
      BY <1>1, <1>3, <2>1, <3>1 DEF TypeInv, Moves, shared, tap, session, history
  <2>4. PhaseInv' /\ SessionInv'
    BY <1>1, <1>3, <2>1 DEF PhaseInv, TakeInv, SessionInv, Moves, shared, session, history, Live,
       Capturing, Closing,
                            Looping, Holding, Terminal
  <2>5. RingInv' /\ PreRollInv'
    BY <1>1, <1>2, <1>3, <2>1, <2>2 DEF RingInv, PreRollInv, Moves, shared, tap, history, Live,
       Capturing, Closing,
                                   Looping, Holding
  <2>6. FileInv' /\ EndInv'
    BY <1>1, <1>2, <1>3, <2>1, <2>2 DEF FileInv, EndInv, PhaseInv, TakeInv, Terminal, Moves, shared,
       history, Live, Capturing,
                                   Closing, Looping
  <2> QED
    BY <2>3, <2>4, <2>5, <2>6
<1>4. CASE Fail /\ UNCHANGED spill
  <2>1. Moves("done")
    BY <1>1, <1>4, MovesTo DEF Fail
  <2>2. TypeInv'
    BY <1>1, <1>4, <2>1 DEF TypeInv, Moves, Fail, tap, spill, session, history, States
  <2>3. RingInv' /\ (overtaken # "take" => Run(wav, Drop)')
    BY <1>1, <1>2, <1>4, <2>1 DEF RingInv, FileInv, Moves, tap, spill, history, Live, Capturing,
       Closing, Looping
  <2> QED
    BY <1>1, <1>4, <2>2, <2>3, FailKeeps DEF tap, history
<1> QED
  BY <1>3, <1>4 DEF Create

\* Ready keeps the inductive invariant.
LEMMA ReadyKeeps ==
  ASSUME OneTake, IInv, Ready
  PROVE  IInv'
<1> USE DEF IInv
<1>1. w \in Workers /\ w.pc = "ready" /\ w.block = <<>>
  BY DEF Ready, At, TypeInv, RingInv, Live, Capturing, Closing, Looping, Holding
<1>2. Moves("command")
  BY <1>1, MovesTo DEF Ready, Live, Capturing, Closing, Looping, Holding
<1>3. NextFrame' = NextFrame /\ Turn' = Turn /\ Drop' = Drop
  BY <1>1, <1>2 DEF Ready, NextFrame, Turn, Drop, Moves, tap, history
<1>4. TypeInv'
  BY <1>1, <1>2 DEF Ready, TypeInv, States, Reasons, Moves, shared, tap, spill, session, history
<1>5. PhaseInv' /\ SessionInv'
  BY <1>1, <1>2 DEF Ready, PhaseInv, TakeInv, SessionInv, TypeInv, Moves, shared, session, history, Live,
     Capturing, Closing, Looping, Holding, Terminal
<1>6. RingInv' /\ PreRollInv'
  BY <1>1, <1>2, <1>3 DEF Ready, RingInv, PreRollInv, PhaseInv, TakeInv, TypeInv, Moves, shared, tap,
     history, Live, Capturing, Closing, Looping, Holding, Terminal
<1>7. FileInv'
  BY <1>1, <1>2, <1>3 DEF Ready, FileInv, PhaseInv, TakeInv, Moves, shared, spill, history, Live,
     Capturing, Closing, Looping, Holding, Terminal
<1>8. EndInv'
  BY <1>1, <1>2, <1>3 DEF Ready, EndInv, PhaseInv, TakeInv, Moves, shared, spill, history, Live, Capturing,
     Closing, Looping, Holding, Terminal
<1> QED
  BY <1>4, <1>5, <1>6, <1>7, <1>8

\* TakeCommand keeps the inductive invariant.
LEMMA TakeCommandKeeps ==
  ASSUME OneTake, IInv, TakeCommand
  PROVE  IInv'
<1> USE DEF IInv
<1>1. w \in Workers /\ w.pc = "command" /\ w.block = <<>>
  BY DEF TakeCommand, At, TypeInv, RingInv, Live, Capturing, Closing, Looping,
     Holding
<1>2. \/ Cycles("drain", w.preRoll, "Manual")
      \/ Moves("start") /\ endOfInput' = endOfInput
      \/ Moves("load") /\ endOfInput' = endOfInput
  <2>1. CASE command = "Stop"
    <3>1. w' = Leave("Manual") /\ "Manual" \in Reasons /\ w.gate \in Gates /\ w.preRoll \in Seq(Nat)
      BY <1>1, <2>1 DEF TakeCommand, Reasons, Workers
    <3> QED
      BY <1>1, <3>1, CyclesTo
  <2>2. CASE command = "Start"
    BY <1>1, <2>2, MovesTo DEF TakeCommand, Live, Capturing, Looping
  <2>3. CASE command \notin {"Stop", "Start"}
    BY <1>1, <2>3, MovesTo DEF TakeCommand, Live, Capturing, Looping
  <2> QED
    BY <2>1, <2>2, <2>3
<1>3. NextFrame' = NextFrame /\ Turn' = Turn /\ Drop' = Drop
  BY <1>1, <1>2 DEF TakeCommand, NextFrame, Turn, Drop, Moves, Cycles, tap, history
<1>4. TypeInv'
  BY <1>1, <1>2 DEF TakeCommand, TypeInv, States, Reasons, Moves, Cycles, shared, tap, spill,
     session, history
<1>5. PhaseInv' /\ SessionInv'
  BY <1>1, <1>2 DEF TakeCommand, PhaseInv, TakeInv, SessionInv, TypeInv, Moves, Cycles, shared, session,
     history, Live, Capturing, Closing, Looping, Holding, Terminal
<1>6. RingInv' /\ PreRollInv'
  BY <1>1, <1>2, <1>3 DEF TakeCommand, RingInv, PreRollInv, PhaseInv, TakeInv, TypeInv, Moves, Cycles,
     shared, tap, history, Live, Capturing, Closing, Looping, Holding, Terminal
<1>7. FileInv'
  BY <1>1, <1>2, <1>3 DEF TakeCommand, FileInv, PhaseInv, TakeInv, Moves, Cycles, shared, spill, history,
     Live, Capturing, Closing, Looping, Holding, Terminal
<1>8. EndInv'
  BY <1>1, <1>2, <1>3 DEF TakeCommand, EndInv, PhaseInv, TakeInv, Moves, Cycles, shared, spill, history,
     Live, Capturing, Closing, Looping, Holding, Terminal
<1> QED
  BY <1>4, <1>5, <1>6, <1>7, <1>8

\* The file will begin where the worker is.
LEMMA StartRecordingKeeps ==
  ASSUME OneTake, IInv, StartRecording
  PROVE  IInv'
<1> USE DEF IInv
<1>1. w \in Workers /\ w.pc = "start" /\ w.block = <<>>
  BY DEF StartRecording, At, TypeInv, RingInv, Live, Capturing, Closing, Looping,
     Holding
<1>2. Moves("load")
  BY <1>1, MovesTo DEF StartRecording, Live, Capturing, Closing, Looping, Holding
<1>3. NextFrame' = NextFrame /\ Turn' = Turn
  BY <1>1, <1>2 DEF StartRecording, NextFrame, Turn, Moves, tap
<1>4. TypeInv'
  <2>1. Len(level) - Len(ring) + 1 \in Nat
    BY DEF TypeInv, RingInv
  <2> QED
    BY <1>2, <2>1 DEF StartRecording, TypeInv, States, Moves, tap, spill, session, history
<1>5. PhaseInv' /\ SessionInv'
  BY <1>1, <1>2 DEF StartRecording, PhaseInv, TakeInv, SessionInv, TypeInv, Moves, shared, session,
     history, Live, Capturing, Closing, Looping, Holding, Terminal
<1>6. RingInv' /\ PreRollInv'
  BY <1>1, <1>2, <1>3 DEF StartRecording, RingInv, PreRollInv, PhaseInv, TakeInv, TypeInv, Moves, shared,
     tap, history, Live, Capturing, Closing, Looping, Holding, Terminal
<1>7. FileInv'
  <2>1. CASE state = "Armed"
    <3>1. /\ overtaken # "take" => wav = <<>>
          /\ wav' = wav /\ recordedFrames = Len(wav) /\ recordedFrames' = recordedFrames
          /\ overtaken' = overtaken
      <4>1. overtaken # "end"
        BY <1>1 DEF PhaseInv
      <4> QED
        BY <2>1, <1>1, <4>1 DEF FileInv, StartRecording, spill, Live, Capturing, Looping
    <3>2. started' = "manual" /\ startFrame' = Turn
      BY <1>1, <2>1 DEF StartRecording, Turn, NextFrame, TypeInv
    <3>3. Drop' = Turn /\ Drop' <= startFrame'
      BY <3>2, <1>4 DEF Drop, TypeInv
    <3>4. overtaken # "take" => Run(wav', Drop')
      BY <3>1, RunEmpty
    <3> QED
      BY <3>1, <3>2, <3>3, <3>4, <2>1, <1>2, <1>3, <1>4 DEF FileInv, StartRecording, Moves, TypeInv
  <2>2. CASE state # "Armed"
    <3>1. state' = state /\ wav' = wav /\ recordedFrames' = recordedFrames /\ started' = started
          /\ startFrame' = startFrame
      BY <2>2 DEF StartRecording, spill
    <3>2. Drop' = Drop
      BY <3>1 DEF Drop
    <3> QED
      BY <3>1, <3>2, <1>1, <1>2, <1>3 DEF FileInv, StartRecording, At, Moves, Live, Capturing,
         Closing, Looping, Holding
  <2> QED
    BY <2>1, <2>2
<1>8. EndInv'
  BY <1>1, <1>2, <1>3 DEF StartRecording, EndInv, PhaseInv, TakeInv, Moves, shared, spill, history, Live,
     Capturing, Closing, Looping, Holding, Terminal
<1> QED
  BY <1>4, <1>5, <1>6, <1>7, <1>8

\* LoadState keeps the inductive invariant.
LEMMA LoadStateKeeps ==
  ASSUME OneTake, IInv, LoadState
  PROVE  IInv'
<1> USE DEF IInv
<1>1. w \in Workers /\ w.pc = "load" /\ w.block = <<>>
  BY DEF LoadState, At, TypeInv, RingInv, Live, Capturing, Closing, Looping,
     Holding
<1>2. w' \in Workers /\ w'.pc = "pop" /\ w'.recording = (state = "Recording") /\ w'.block = w.block
      /\ w'.preRoll = w.preRoll /\ w'.reason = w.reason
  <2>1. ASSUME NEW p \in Live \cup {"none", "done"}, NEW b \in BOOLEAN, w' = [w EXCEPT !.pc = p, !.recording = b]
        PROVE  /\ w' \in Workers /\ w'.pc = p /\ w'.recording = b /\ w'.block = w.block
               /\ w'.preRoll = w.preRoll /\ w'.reason = w.reason
    BY <1>1, <2>1 DEF Workers
  <2>2. "pop" \in Live \cup {"none", "done"}
    BY DEF Live, Capturing, Looping
  <2> QED
    BY <2>1, <2>2 DEF LoadState
<1>3. NextFrame' = NextFrame /\ Turn' = Turn /\ Drop' = Drop
  BY <1>1, <1>2 DEF LoadState, NextFrame, Turn, Drop, tap, history
<1>4. TypeInv'
  BY <1>1, <1>2 DEF LoadState, TypeInv, States, Reasons, shared, tap, spill, session, history
<1>5. PhaseInv' /\ SessionInv'
  BY <1>1, <1>2 DEF LoadState, PhaseInv, TakeInv, SessionInv, TypeInv, shared, session, history, Live,
     Capturing, Closing, Looping, Holding, Terminal
<1>6. RingInv' /\ PreRollInv'
  BY <1>1, <1>2, <1>3 DEF LoadState, RingInv, PreRollInv, PhaseInv, TakeInv, TypeInv, shared, tap, history,
     Live, Capturing, Closing, Looping, Holding, Terminal
<1>7. FileInv'
  BY <1>1, <1>2, <1>3 DEF LoadState, FileInv, PhaseInv, TakeInv, shared, spill, history, Live, Capturing,
     Closing, Looping, Holding, Terminal
<1>8. EndInv'
  BY <1>1, <1>2, <1>3 DEF LoadState, EndInv, PhaseInv, TakeInv, shared, spill, history, Live, Capturing,
     Closing, Looping, Holding, Terminal
<1> QED
  BY <1>4, <1>5, <1>6, <1>7, <1>8

\* Frames move from the ring to the block: nobody's turn changes.
LEMMA PopKeeps ==
  ASSUME OneTake, IInv, Pop
  PROVE  IInv'
<1> USE DEF IInv
<1>1. /\ w \in Workers /\ w.pc = "pop" /\ w.block = <<>> /\ ring \in Seq(Nat)
      /\ state = "Recording" => w.recording
      /\ overtaken # "take" => w.recording = (state = "Recording")
      /\ state \in {"Armed", "Recording"}
  BY DEF Pop, At, TypeInv, States, Terminal, PhaseInv, TakeInv, RingInv, Live, Capturing, Looping, Holding
<1>2. NextFrame \in Nat /\ Turn = NextFrame /\ Run(ring, NextFrame) /\ Len(ring) <= Len(level)
  BY <1>1 DEF NextFrame, Turn, RingInv, TypeInv
<1>3. /\ Popped \in Seq(Nat) /\ Rest \in Seq(Nat) /\ Len(ring) = Len(Popped) + Len(Rest)
      /\ Run(Popped, NextFrame) /\ Run(Rest, NextFrame + Len(Popped))
  BY <1>1, <1>2, PoppedIs
<1>4. /\ w' \in Workers /\ w'.block = Popped /\ w'.preRoll = w.preRoll /\ w'.reason = w.reason
      /\ w'.recording = w.recording
      /\ \/ w'.pc = "held" /\ Popped = <<>>
         \/ w'.pc = "append" /\ w.recording
         \/ w'.pc = "trigger" /\ ~w.recording /\ AutoStart /\ Popped # <<>>
         \/ w'.pc = "preroll" /\ ~w.recording
  <2>1. PICK p \in Live \cup {"none", "done"} :
          /\ w' = [w EXCEPT !.block = Popped, !.pc = p]
          /\ \/ p = "held" /\ Popped = <<>>
             \/ p = "append" /\ w.recording
             \/ p = "trigger" /\ ~w.recording /\ AutoStart /\ Popped # <<>>
             \/ p = "preroll" /\ ~w.recording
    BY DEF Pop, Live, Capturing, Looping
  <2> QED
    BY <1>1, <1>3, <2>1 DEF Workers
<1>5. ring' = Rest /\ UNCHANGED <<held, level, shared, spill, session, history>>
  BY DEF Pop
<1>6. NextFrame' = NextFrame + Len(Popped) /\ Turn' = Turn /\ Drop' = Drop
  <2>1. ring' = Rest /\ level' = level /\ started' = started /\ startFrame' = startFrame
    BY <1>5 DEF history
  <2>2. Len(level) \in Nat /\ Len(Rest) \in Nat /\ Len(Popped) \in Nat /\ w'.block = Popped
    BY <1>3, <1>4 DEF TypeInv
  <2>3. NextFrame' = NextFrame + Len(Popped)
    BY <1>3, <2>1, <2>2 DEF NextFrame
  <2>4. Turn' = NextFrame
    BY <1>2, <2>2, <2>3 DEF Turn
  <2> QED
    BY <1>2, <2>1, <2>3, <2>4 DEF Drop
<1>7. TypeInv'
  BY <1>3, <1>4, <1>5 DEF TypeInv, shared, spill, session, history
<1>8. PhaseInv' /\ SessionInv'
  BY <1>1, <1>4, <1>5 DEF PhaseInv, TakeInv, SessionInv, TypeInv, shared, spill, session, history, Live,
     Capturing, Closing,
                          Looping, Holding, Terminal
<1>9. RingInv'
  <2>1. Len(ring') <= Len(level') /\ Run(ring', NextFrame')
    BY <1>2, <1>3, <1>5, <1>6 DEF TypeInv
  <2>2. w'.pc \in Holding \/ w'.block = <<>>
    BY <1>4 DEF Holding
  <2>3. 1 <= Turn' /\ Run(w'.block, Turn')
    BY <1>1, <1>2, <1>3, <1>4, <1>6 DEF RingInv, Capturing, Looping
  <2>4. endOfInput' <= Len(level')
    BY <1>5 DEF RingInv, history
  <2>5. w'.pc # "none"
    BY <1>4
  <2> QED
    BY <2>1, <2>2, <2>3, <2>4, <2>5 DEF RingInv
<1>10. PreRollInv' /\ FileInv' /\ EndInv'
  BY <1>1, <1>4, <1>5, <1>6 DEF PreRollInv, FileInv, EndInv, shared, spill, history, Live,
     Capturing, Closing, Looping
<1> QED
  BY <1>7, <1>8, <1>9, <1>10

\* The pre-roll becomes the file: it starts at the drop and ends at the block.
LEMMA TriggerKeeps ==
  ASSUME OneTake, IInv, Trigger
  PROVE  IInv'
<1> USE DEF IInv
<1>1. /\ w \in Workers /\ w.pc = "trigger" /\ state = "Armed" /\ AutoStart
      /\ w.block \in Seq(Nat) /\ w.block # <<>> /\ w.preRoll \in Seq(Nat)
      /\ wav \in Seq(Nat) /\ recordedFrames = Len(wav) /\ overtaken # "end"
      /\ overtaken # "take" => wav = <<>>
  BY DEF Trigger, At, TypeInv, PhaseInv, TakeInv, FileInv, Workers, Live, Capturing, Looping
<1>2. Turn \in Int /\ 1 <= Turn /\ Run(w.block, Turn)
  <2>1. Turn \in Int
    BY <1>1 DEF Turn, NextFrame, TypeInv
  <2> QED
    BY <1>1, <2>1 DEF RingInv, Capturing, Looping
<1>3. started' = "auto" /\ startFrame' = Turn
  <2>1. Head(w.block) = w.block[1] /\ 1 \in 1..Len(w.block)
    BY <1>1
  <2>2. w.block[1] = Turn
    BY <1>2, <2>1 DEF Run
  <2> QED
    BY <2>1, <2>2 DEF Trigger
<1>4. ASSUME overtaken # "take"
      PROVE  /\ Drop' = Turn - Len(w.preRoll) /\ Drop' \in Nat /\ Drop' <= startFrame'
             /\ Run(wav, Drop') /\ Run(w.preRoll, Drop' + Len(wav))
  <2>1. /\ Len(w.preRoll) < Turn /\ Run(w.preRoll, Turn - Len(w.preRoll))
        /\ Len(w.preRoll) = IF Turn > PreRollCap THEN PreRollCap ELSE Turn - 1
    BY <1>1, <1>4 DEF PreRollInv, Capturing, Looping
  <2>2. Drop' = Turn - Len(w.preRoll) /\ Drop' \in Nat /\ Drop' <= startFrame'
    BY <1>1, <1>2, <1>3, <2>1, SizesAssumption DEF Drop
  <2> QED
    BY <1>1, <1>4, <2>1, <2>2, RunEmpty
<1>5. UNCHANGED <<ring, held, level, session, endOfInput, lastRequest, overtaken, synced>>
      /\ NextFrame' = NextFrame
  BY DEF Trigger, tap, NextFrame
<1>6. CASE /\ state' = "Recording" /\ wav' = wav \o w.preRoll
           /\ recordedFrames' = recordedFrames + Len(w.preRoll)
           /\ w' = [w EXCEPT !.pc = "append", !.recording = TRUE, !.preRoll = <<>>]
           /\ UNCHANGED <<command, stopReason, finalized>>
  <2>1. wav' \in Seq(Nat) /\ recordedFrames' = Len(wav')
    BY <1>1, <1>6, Written
  <2>2. /\ w' \in Workers /\ w'.pc = "append" /\ w'.recording = TRUE /\ w'.block = w.block
        /\ w'.reason = w.reason
    <3>1. <<>> \in Seq(Nat) /\ "append" \in Live \cup {"none", "done"}
      BY DEF Live, Capturing, Looping
    <3> QED
      BY <1>1, <1>6, <3>1 DEF Workers
  <2>3. Turn' = Turn
    BY <1>5, <2>2 DEF Turn
  <2>4. TypeInv'
    BY <1>1, <1>2, <1>3, <1>5, <1>6, <2>1, <2>2 DEF TypeInv, session, States
  <2>5. PhaseInv' /\ SessionInv'
    BY <1>1, <1>3, <1>5, <1>6, <2>2 DEF PhaseInv, TakeInv, SessionInv, session, Live, Capturing,
       Closing, Looping, Holding, Terminal
  <2>6. RingInv' /\ PreRollInv'
    BY <1>1, <1>2, <1>5, <1>6, <2>2, <2>3 DEF RingInv, PreRollInv, Live, Capturing, Closing,
       Looping, Holding
  <2>7. EndInv'
    BY <1>6, <2>2 DEF EndInv, Closing
  <2>8. ASSUME overtaken # "take"
        PROVE  Run(wav', Drop') /\ Drop' + Len(wav') = Turn' /\ Drop' <= startFrame'
    <3>1. Len(wav') = Len(w.preRoll) /\ Len(w.preRoll) \in Nat
      BY <1>1, <1>6, <2>8
    <3>2. Run(wav', Drop')
      BY <1>1, <1>4, <1>6, <2>8, RunJoin
    <3> QED
      BY <1>2, <1>4, <2>3, <2>8, <3>1, <3>2
  <2>9. FileInv'
    BY <1>5, <1>6, <2>1, <2>2, <2>8 DEF FileInv
  <2> QED
    BY <2>4, <2>5, <2>6, <2>7, <2>9
<1>7. CASE /\ \E n \in 0..(Len(w.preRoll) - 1) : wav' = wav \o SubSeq(w.preRoll, 1, n)
           /\ finalized' \in BOOLEAN
           /\ Fail
  <2>1. wav' \in Seq(Nat)
    BY <1>1, <1>7, Written
  <2>2. overtaken # "take" => Run(wav', Drop')
    BY <1>1, <1>4, <1>7, PartWritten
  <2>3. startFrame' \in Nat
    BY <1>2, <1>3
  <2>4. Moves("done")
    BY <1>1, <1>7, MovesTo DEF Fail
  <2>5. TypeInv'
    BY <1>3, <1>5, <1>7, <2>1, <2>3, <2>4 DEF TypeInv, Moves, Fail, session, States
  <2>6. RingInv'
    BY <1>5, <2>4 DEF RingInv, Moves, Live, Capturing, Closing, Looping
  <2> QED
    BY <1>1, <1>5, <1>7, <2>2, <2>5, <2>6, FailKeeps
<1> QED
  BY <1>6, <1>7 DEF Trigger

\* The block goes on from the file.
LEMMA AppendBlockKeeps ==
  ASSUME OneTake, IInv, AppendBlock
  PROVE  IInv'
<1> USE DEF IInv
<1> DEFINE gate == Feed(w.gate, w.block)
           capped == recordedFrames + Len(w.block) >= MaxFrames
           over == ~capped /\ SideIsOver(gate)
           next == CASE capped -> Leave("MaxDuration")
                     [] over -> [Leave("Silence") EXCEPT !.gate = gate]
                     [] OTHER -> [NextCycle EXCEPT !.gate = gate]
<1>1. /\ w \in Workers /\ w.pc = "append" /\ overtaken # "end"
      /\ state \in {"Armed", "Recording"} /\ (overtaken # "take" => state = "Recording")
      /\ w.block \in Seq(Nat) /\ w.preRoll \in Seq(Nat) /\ w.gate \in Gates /\ w.reason \in Reasons
  BY DEF AppendBlock, At, TypeInv, States, Terminal, PhaseInv, TakeInv, Workers, Live, Capturing, Looping
<1>2. /\ Turn \in Int /\ 1 <= Turn /\ Run(w.block, Turn) /\ wav \in Seq(Nat) /\ Drop \in Nat
      /\ recordedFrames = Len(wav)
      /\ overtaken # "take" => Run(wav, Drop) /\ Drop + Len(wav) = Turn /\ Drop <= startFrame
  <2>1. Turn \in Int /\ Drop \in Nat
    BY <1>1, SizesAssumption DEF Turn, NextFrame, TypeInv, Drop
  <2>2. recordedFrames = Len(wav) /\ wav \in Seq(Nat)
    BY <1>1 DEF FileInv, TypeInv
  <2>3. 1 <= Turn /\ Run(w.block, Turn)
    BY <1>1 DEF RingInv, Capturing, Looping
  <2> QED
    BY <1>1, <2>1, <2>2, <2>3 DEF FileInv, Capturing, Looping
<1>3. /\ AppendFrames(w.block, next)
      /\ endOfInput' = IF capped \/ over THEN Len(level) ELSE endOfInput
      /\ UNCHANGED <<tap, session, started, startFrame, lastRequest, overtaken, synced>>
  BY DEF AppendBlock
<1>4. Drop' = Drop /\ NextFrame' = NextFrame /\ UNCHANGED <<ring, held, level>>
  BY <1>3 DEF Drop, NextFrame, tap
<1>5. endOfInput' \in Nat /\ endOfInput' <= Len(level')
  BY <1>3, <1>4 DEF TypeInv, RingInv
<1>6. CASE /\ wav' = wav \o w.block /\ recordedFrames' = recordedFrames + Len(w.block) /\ w' = next
           /\ UNCHANGED <<state, command, stopReason, finalized>>
  <2>1. /\ wav' \in Seq(Nat) /\ Len(wav') = Len(wav) + Len(w.block)
        /\ overtaken # "take" => Run(wav', Drop)
    <3>1. wav' \in Seq(Nat) /\ Len(wav') = Len(wav) + Len(w.block)
      BY <1>1, <1>2, <1>6, Written
    <3> QED
      BY <1>1, <1>2, <1>6, <3>1, RunJoin
  <2>2. \/ Cycles("drain", w.preRoll, "MaxDuration")
        \/ Cycles("drain", w.preRoll, "Silence")
        \/ Cycles("command", w.preRoll, w.reason)
    <3>1. gate \in Gates /\ "MaxDuration" \in Reasons /\ "Silence" \in Reasons
      BY <1>1, FeedIs DEF Reasons
    <3>2. \/ w' = Leave("MaxDuration")
          \/ w' = [Leave("Silence") EXCEPT !.gate = gate]
          \/ w' = [NextCycle EXCEPT !.gate = gate]
      BY <1>6
    <3> HIDE DEF gate
    <3> QED
      BY <1>1, <3>1, <3>2, CyclesTo
  <2>3. /\ w' \in Workers /\ w'.pc \in {"drain", "command"} /\ w'.block = <<>>
        /\ w'.pc = "drain" => w'.reason # "None"
    BY <2>2 DEF Cycles
  <2>4. Turn' = Turn + Len(w.block) /\ Turn' \in Nat /\ 1 <= Turn'
    BY <1>1, <1>2, <1>4, <2>3 DEF Turn, NextFrame, TypeInv
  <2>5. TypeInv'
    BY <1>1, <1>3, <1>4, <1>5, <1>6, <2>1, <2>3 DEF TypeInv, session
  <2>6. PhaseInv' /\ SessionInv'
    BY <1>1, <1>3, <1>6, <2>3 DEF PhaseInv, TakeInv, SessionInv, session, Live, Capturing, Closing,
       Looping, Holding,
                                  Terminal
  <2>7. RingInv' /\ PreRollInv'
    BY <1>1, <1>3, <1>4, <1>5, <1>6, <2>3, <2>4, RunEmpty DEF RingInv, PreRollInv
  <2>8. FileInv'
    BY <1>1, <1>2, <1>3, <1>4, <1>6, <2>1, <2>3, <2>4 DEF FileInv
  <2>9. EndInv'
    BY <1>1, <1>6, <2>3 DEF EndInv, Closing
  <2> QED
    BY <2>5, <2>6, <2>7, <2>8, <2>9
<1>7. CASE /\ \E n \in 0..(Len(w.block) - 1) : wav' = wav \o SubSeq(w.block, 1, n)
           /\ finalized' \in BOOLEAN
           /\ Fail
  <2>1. wav' \in Seq(Nat)
    BY <1>1, <1>2, <1>7, Written
  <2>2. overtaken # "take" => Run(wav', Drop')
    BY <1>1, <1>2, <1>4, <1>7, PartWritten
  <2>3. Moves("done")
    BY <1>1, <1>7, MovesTo DEF Fail
  <2>4. TypeInv'
    BY <1>3, <1>4, <1>5, <1>7, <2>1, <2>3 DEF TypeInv, Moves, Fail, session, States
  <2>5. RingInv'
    BY <1>4, <1>5, <2>3 DEF RingInv, Moves, Live, Capturing, Closing, Looping
  <2> QED
    BY <1>1, <1>3, <1>4, <1>7, <2>2, <2>4, <2>5, FailKeeps
<1> QED
  BY <1>3, <1>6, <1>7 DEF AppendFrames

\* The block goes to the pre-roll, which then ends at the new turn.
LEMMA PushPreRollKeeps ==
  ASSUME OneTake, IInv, PushPreRoll
  PROVE  IInv'
<1> USE DEF IInv
<1>1. /\ w \in Workers /\ w.pc = "preroll" /\ state = "Armed"
      /\ w.block \in Seq(Nat) /\ w.preRoll \in Seq(Nat) /\ w.gate \in Gates
  BY DEF PushPreRoll, At, TypeInv, PhaseInv, TakeInv, Workers, Live, Capturing, Looping
<1>2. /\ Turn \in Nat /\ 1 <= Turn /\ Run(w.block, Turn)
      /\ overtaken # "take" =>
           /\ Len(w.preRoll) < Turn /\ Run(w.preRoll, Turn - Len(w.preRoll))
           /\ ~AutoStart => w.preRoll = <<>>
           /\ AutoStart => Len(w.preRoll) = IF Turn > PreRollCap THEN PreRollCap ELSE Turn - 1
  <2>1. Turn \in Int
    BY <1>1 DEF Turn, NextFrame, TypeInv
  <2>2. 1 <= Turn /\ Run(w.block, Turn)
    BY <1>1 DEF RingInv, Capturing, Looping
  <2>3. overtaken # "take" =>
          /\ Len(w.preRoll) < Turn /\ Run(w.preRoll, Turn - Len(w.preRoll))
          /\ ~AutoStart => w.preRoll = <<>>
          /\ AutoStart => Len(w.preRoll) = IF Turn > PreRollCap THEN PreRollCap ELSE Turn - 1
    BY <1>1 DEF PreRollInv, Capturing, Looping
  <2> QED
    BY <2>1, <2>2, <2>3
<1> DEFINE s == w.preRoll \o w.block
           kept == IF AutoStart THEN KeepNewest(s) ELSE w.preRoll
           a == Turn - Len(w.preRoll)
<1>3. /\ s \in Seq(Nat) /\ Len(s) = Len(w.preRoll) + Len(w.block)
      /\ overtaken # "take" => Run(s, a) /\ a \in Nat
  <2>1. overtaken # "take" => a \in Nat /\ a + Len(w.preRoll) = Turn
    BY <1>1, <1>2
  <2>2. s \in Seq(Nat) /\ Len(s) = Len(w.preRoll) + Len(w.block)
    BY <1>1, Written
  <2>3. CASE overtaken # "take"
    BY <1>1, <1>2, <2>1, <2>3, RunJoin
  <2> QED
    BY <2>1, <2>2, <2>3
<1>4. /\ KeepNewest(s) \in Seq(Nat)
      /\ overtaken # "take" =>
           /\ Len(KeepNewest(s)) = IF Len(s) <= PreRollCap THEN Len(s) ELSE PreRollCap
           /\ Run(KeepNewest(s), a + Len(s) - Len(KeepNewest(s)))
  <2> HIDE DEF s, a
  <2>1. KeepNewest(s) \in Seq(Nat)
    BY <1>3, NewestOf
  <2>2. CASE overtaken # "take"
    BY <1>3, <2>2, NewestIs
  <2> QED
    BY <2>1, <2>2
<1>5. Cycles("command", kept, w.reason) /\ kept \in Seq(Nat)
  <2>1. kept \in Seq(Nat) /\ w' = [NextCycle EXCEPT !.preRoll = kept]
    BY <1>1, <1>4 DEF PushPreRoll, NextCycle, Workers
  <2>2. w.reason \in Reasons
    BY <1>1 DEF Workers
  <2> HIDE DEF kept
  <2> QED
    BY <1>1, <2>1, <2>2, CyclesTo
<1>6. UNCHANGED <<shared, tap, spill, session, history>>
  BY DEF PushPreRoll
<1>7. NextFrame' = NextFrame /\ Turn' = Turn + Len(w.block) /\ Drop' = Drop /\ Len(w.block) \in Nat
  BY <1>1, <1>5, <1>6 DEF NextFrame, Turn, Drop, Cycles, tap, history, TypeInv
<1>8. TypeInv'
  BY <1>5, <1>6 DEF TypeInv, Cycles, shared, tap, spill, session, history
<1>9. PhaseInv' /\ SessionInv'
  BY <1>1, <1>5, <1>6 DEF PhaseInv, TakeInv, SessionInv, Cycles, shared, spill, session, history, Live,
     Capturing, Closing,
                          Looping, Holding, Terminal
<1>10. RingInv'
  BY <1>2, <1>5, <1>6, <1>7, RunEmpty DEF RingInv, Cycles, tap, history
<1>11. PreRollInv'
  <2>1. CASE overtaken # "take" /\ AutoStart
    <3> DEFINE p == Len(w.preRoll)
               b == Len(w.block)
               k == Len(kept)
    <3>1. /\ p \in Nat /\ b \in Nat /\ k \in Nat /\ PreRollCap \in Nat
          /\ Len(s) = p + b /\ a = Turn - p /\ Turn' = Turn + b
          /\ p = IF Turn > PreRollCap THEN PreRollCap ELSE Turn - 1
      BY <1>1, <1>2, <1>3, <1>4, <1>5, <1>7, <2>1, SizesAssumption
    <3>2. k = IF Len(s) <= PreRollCap THEN Len(s) ELSE PreRollCap
      BY <1>4, <2>1
    <3>3. Run(kept, a + Len(s) - k)
      BY <1>4, <2>1
    <3> HIDE DEF kept, s, a, p, b, k
    <3>4. a + Len(s) - k = Turn' - k
      BY <1>2, <3>1
    <3>5. k < Turn' /\ k = IF Turn' > PreRollCap THEN PreRollCap ELSE Turn' - 1
      BY <1>2, <3>1, <3>2
    <3> USE DEF k
    <3> QED
      BY <1>5, <2>1, <3>3, <3>4, <3>5 DEF PreRollInv, Cycles
  <2>2. CASE overtaken # "take" /\ ~AutoStart
    <3>1. w'.preRoll = <<>> /\ Turn' \in Nat /\ 1 <= Turn'
      BY <1>2, <1>5, <1>7, <2>2 DEF Cycles
    <3> QED
      BY <2>2, <3>1, RunEmpty DEF PreRollInv
  <2>3. CASE overtaken = "take"
    BY <1>6, <2>3 DEF PreRollInv, history
  <2> QED
    BY <2>1, <2>2, <2>3
<1>12. FileInv' /\ EndInv'
  BY <1>1, <1>5, <1>6, <1>7 DEF FileInv, EndInv, Cycles, shared, spill, history, Live, Capturing,
     Closing, Looping
<1> QED
  BY <1>8, <1>9, <1>10, <1>11, <1>12

\* CheckHeld keeps the inductive invariant.
LEMMA CheckHeldKeeps ==
  ASSUME OneTake, IInv, CheckHeld
  PROVE  IInv'
<1> USE DEF IInv
<1>1. w \in Workers /\ w.pc = "held" /\ w.block = <<>>
  BY DEF CheckHeld, At, TypeInv, RingInv, Live, Capturing, Closing, Looping,
     Holding
<1>2. \/ Cycles("command", w.preRoll, w.reason) /\ endOfInput' = endOfInput
      \/ Cycles("drain", w.preRoll, "InputLost")
  <2>1. w.gate \in Gates /\ w.preRoll \in Seq(Nat) /\ "InputLost" \in Reasons
    BY <1>1 DEF Workers, Reasons
  <2>2. CASE held
    BY <1>1, <2>1, <2>2, CyclesTo DEF CheckHeld
  <2>3. CASE ~held
    BY <1>1, <2>1, <2>3, CyclesTo DEF CheckHeld
  <2> QED
    BY <2>2, <2>3
<1>3. NextFrame' = NextFrame /\ Turn' = Turn /\ Drop' = Drop
  BY <1>1, <1>2 DEF CheckHeld, NextFrame, Turn, Drop, Cycles, tap, history
<1>4. TypeInv'
  BY <1>1, <1>2 DEF CheckHeld, TypeInv, States, Reasons, Cycles, shared, tap, spill, session,
     history
<1>5. PhaseInv' /\ SessionInv'
  BY <1>1, <1>2 DEF CheckHeld, PhaseInv, TakeInv, SessionInv, TypeInv, Cycles, shared, session, history,
     Live, Capturing, Closing, Looping, Holding, Terminal
<1>6. RingInv' /\ PreRollInv'
  BY <1>1, <1>2, <1>3 DEF CheckHeld, RingInv, PreRollInv, PhaseInv, TakeInv, TypeInv, Cycles, shared, tap,
     history, Live, Capturing, Closing, Looping, Holding, Terminal
<1>7. FileInv'
  BY <1>1, <1>2, <1>3 DEF CheckHeld, FileInv, PhaseInv, TakeInv, Cycles, shared, spill, history, Live,
     Capturing, Closing, Looping, Holding, Terminal
<1>8. EndInv'
  BY <1>1, <1>2, <1>3 DEF CheckHeld, EndInv, PhaseInv, TakeInv, Cycles, shared, spill, history, Live,
     Capturing, Closing, Looping, Holding, Terminal
<1> QED
  BY <1>4, <1>5, <1>6, <1>7, <1>8

\* LeaveLoop keeps the inductive invariant.
LEMMA LeaveLoopKeeps ==
  ASSUME OneTake, IInv, LeaveLoop
  PROVE  IInv'
<1> USE DEF IInv
<1>1. w \in Workers /\ w.pc = "drain" /\ w.block = <<>>
  BY DEF LeaveLoop, At, TypeInv, RingInv, Live, Capturing, Closing, Looping,
     Holding
<1>2. \/ Moves("tail") /\ state = "Recording"
      \/ Moves("finalize") /\ state # "Recording"
  BY <1>1, MovesTo DEF LeaveLoop, Live, Capturing, Closing, Looping, Holding
<1>3. NextFrame' = NextFrame /\ Turn' = Turn /\ Drop' = Drop
  BY <1>1, <1>2 DEF LeaveLoop, NextFrame, Turn, Drop, Moves, tap, history
<1>4. TypeInv'
  BY <1>1, <1>2 DEF LeaveLoop, TypeInv, States, Reasons, Moves, shared, tap, spill, session, history
<1>5. PhaseInv' /\ SessionInv'
  BY <1>1, <1>2 DEF LeaveLoop, PhaseInv, TakeInv, SessionInv, TypeInv, Moves, shared, session, history,
     Live, Capturing, Closing, Looping, Holding, Terminal
<1>6. RingInv' /\ PreRollInv'
  BY <1>1, <1>2, <1>3 DEF LeaveLoop, RingInv, PreRollInv, PhaseInv, TakeInv, TypeInv, Moves, shared, tap,
     history, Live, Capturing, Closing, Looping, Holding, Terminal
<1>7. FileInv'
  BY <1>1, <1>2, <1>3 DEF LeaveLoop, FileInv, PhaseInv, TakeInv, Moves, shared, spill, history, Live,
     Capturing, Closing, Looping, Holding, Terminal
<1>8. EndInv'
  BY <1>1, <1>2, <1>3 DEF LeaveLoop, EndInv, PhaseInv, TakeInv, Moves, shared, spill, history, Live,
     Capturing, Closing, Looping, Holding, Terminal
<1> QED
  BY <1>4, <1>5, <1>6, <1>7, <1>8

\* As above, straight from the ring.
LEMMA DrainTailKeeps ==
  ASSUME OneTake, IInv, DrainTail
  PROVE  IInv'
<1> USE DEF IInv
<1>1. /\ w \in Workers /\ w.pc = "tail" /\ w.block = <<>> /\ overtaken # "end"
      /\ state \in {"Armed", "Recording"} /\ (overtaken # "take" => state = "Recording")
      /\ ring \in Seq(Nat) /\ wav \in Seq(Nat)
  BY DEF DrainTail, At, TypeInv, States, Terminal, PhaseInv, TakeInv, RingInv, Live, Capturing, Holding
<1>2. /\ NextFrame \in Nat /\ Turn = NextFrame /\ Run(ring, NextFrame) /\ Len(ring) <= Len(level)
      /\ Drop \in Nat /\ recordedFrames = Len(wav)
      /\ overtaken # "take" => Run(wav, Drop) /\ Drop + Len(wav) = Turn /\ Drop <= startFrame
  <2>1. NextFrame \in Nat /\ Turn = NextFrame /\ Drop \in Nat
    BY <1>1, SizesAssumption DEF Turn, NextFrame, TypeInv, RingInv, Drop
  <2>2. recordedFrames = Len(wav)
    BY <1>1 DEF FileInv
  <2>3. Run(ring, NextFrame) /\ Len(ring) <= Len(level)
    BY DEF RingInv
  <2> QED
    BY <1>1, <2>1, <2>2, <2>3 DEF FileInv, Capturing
<1>3. /\ Popped \in Seq(Nat) /\ Rest \in Seq(Nat) /\ Len(ring) = Len(Popped) + Len(Rest)
      /\ Run(Popped, NextFrame) /\ Run(Rest, NextFrame + Len(Popped))
  BY <1>1, <1>2, PoppedIs
<1>4. ring' = Rest /\ AppendFrames(Popped, w) /\ UNCHANGED <<held, level, session, history>>
  BY DEF DrainTail
<1>5. NextFrame' = NextFrame + Len(Popped) /\ Drop' = Drop
  <2>1. Len(level) \in Nat /\ Len(Rest) \in Nat /\ Len(Popped) \in Nat
    BY <1>3 DEF TypeInv
  <2> QED
    BY <1>3, <1>4, <2>1 DEF NextFrame, Drop, history
<1>6. /\ Len(ring') <= Len(level') /\ Run(ring', NextFrame') /\ endOfInput' <= Len(level')
  BY <1>2, <1>3, <1>4, <1>5 DEF RingInv, TypeInv, history
<1>7. CASE /\ wav' = wav \o Popped /\ recordedFrames' = recordedFrames + Len(Popped) /\ w' = w
           /\ UNCHANGED <<state, command, stopReason, finalized>>
  <2>1. /\ wav' \in Seq(Nat) /\ Len(wav') = Len(wav) + Len(Popped)
        /\ overtaken # "take" => Run(wav', Drop)
    <3>1. wav' \in Seq(Nat) /\ Len(wav') = Len(wav) + Len(Popped)
      BY <1>1, <1>3, <1>7, Written
    <3> QED
      BY <1>1, <1>2, <1>3, <1>7, <3>1, RunJoin
  <2>2. Turn' = NextFrame + Len(Popped) /\ Len(Popped) \in Nat
    <3>1. w'.block = <<>> /\ Len(<<>>) = 0 /\ Len(Popped) \in Nat
      BY <1>1, <1>3, <1>7
    <3> QED
      BY <1>2, <1>5, <3>1 DEF Turn
  <2>3. TypeInv'
    BY <1>1, <1>3, <1>4, <1>7, <2>1 DEF TypeInv, session, history
  <2>4. PhaseInv' /\ SessionInv'
    BY <1>1, <1>4, <1>7 DEF PhaseInv, TakeInv, SessionInv, Terminal, session, history
  <2>5. RingInv' /\ PreRollInv'
    <3>1. overtaken' # "take" => state' = "Recording"
      BY <1>1, <1>4, <1>7 DEF history
    <3>2. RingInv'
      BY <1>1, <1>2, <1>6, <1>7, <2>2, RunEmpty DEF RingInv
    <3> QED
      BY <3>1, <3>2 DEF PreRollInv
  <2>6. FileInv'
    <3> HIDE DEF IInv
    <3>1. /\ overtaken' = overtaken /\ startFrame' = startFrame /\ state' = state
          /\ w' = w /\ recordedFrames' = Len(wav')
      BY <1>1, <1>2, <1>3, <1>4, <1>7, <2>1 DEF history
    <3>2. overtaken # "take" => Drop' + Len(wav') = Turn' /\ Drop' <= startFrame'
      BY <1>1, <1>2, <1>5, <2>1, <2>2, <3>1
    <3>3. overtaken # "take" => Run(wav', Drop')
      BY <1>5, <2>1
    <3>4. overtaken # "take" => state' = "Recording"
      BY <1>1, <3>1
    <3> QED
      BY <3>1, <3>2, <3>3, <3>4 DEF FileInv
  <2>7. EndInv'
    BY <1>1, <1>7 DEF EndInv, Closing
  <2> QED
    BY <2>3, <2>4, <2>5, <2>6, <2>7
<1>8. CASE /\ \E n \in 0..(Len(Popped) - 1) : wav' = wav \o SubSeq(Popped, 1, n)
           /\ finalized' \in BOOLEAN
           /\ Fail
  <2> HIDE DEF IInv
  <2>1. wav' \in Seq(Nat)
    BY <1>1, <1>3, <1>8, Written
  <2>2. overtaken # "take" => Run(wav', Drop')
    BY <1>1, <1>2, <1>3, <1>5, <1>8, PartWritten
  <2>3. Moves("done")
    BY <1>1, <1>8, MovesTo DEF Fail
  <2>4. TypeInv'
    BY <1>3, <1>4, <1>8, <2>1, <2>3 DEF IInv, TypeInv, Moves, Fail, session, history, States
  <2>5. RingInv'
    BY <1>6, <2>3 DEF RingInv, Moves, Live, Capturing, Closing, Looping
  <2> QED
    BY <1>1, <1>4, <1>8, <2>2, <2>4, <2>5, FailKeeps DEF history
<1> QED
  BY <1>4, <1>7, <1>8 DEF AppendFrames

\* On an empty ring the file ends with the last frame the tap took.
LEMMA DrainDoneKeeps ==
  ASSUME OneTake, IInv, DrainDone
  PROVE  IInv'
<1> USE DEF IInv
<1>1. w \in Workers /\ w.pc = "tail" /\ w.block = <<>>
  BY DEF DrainDone, At, TypeInv, RingInv, Live, Capturing, Closing, Looping,
     Holding
<1>2. Moves("finalize")
  BY <1>1, MovesTo DEF DrainDone, Live, Capturing, Closing, Looping, Holding
<1>3. NextFrame' = NextFrame /\ Turn' = Turn /\ Drop' = Drop
  BY <1>1, <1>2 DEF DrainDone, NextFrame, Turn, Drop, Moves, tap, history
<1>4. TypeInv'
  BY <1>1, <1>2 DEF DrainDone, TypeInv, States, Reasons, Moves, shared, tap, spill, session, history
<1>5. PhaseInv' /\ SessionInv'
  BY <1>1, <1>2 DEF DrainDone, PhaseInv, TakeInv, SessionInv, TypeInv, Moves, shared, session, history,
     Live, Capturing, Closing, Looping, Holding, Terminal
<1>6. RingInv' /\ PreRollInv'
  BY <1>1, <1>2, <1>3 DEF DrainDone, RingInv, PreRollInv, PhaseInv, TakeInv, TypeInv, Moves, shared, tap,
     history, Live, Capturing, Closing, Looping, Holding, Terminal
<1>7. FileInv'
  BY <1>1, <1>2, <1>3 DEF DrainDone, FileInv, PhaseInv, TakeInv, Moves, shared, spill, history, Live,
     Capturing, Closing, Looping, Holding, Terminal
<1>8. EndInv'
  <2>1. /\ overtaken # "take" => state = "Recording"
        /\ overtaken' = overtaken /\ state' = state /\ recordedFrames' = recordedFrames
        /\ state \notin Terminal
        /\ wav' = wav /\ started' = started /\ startFrame' = startFrame /\ endOfInput' = endOfInput
    BY DEF DrainDone, At, PhaseInv, TakeInv, Live, Capturing, shared, spill, history
  <2>2. ASSUME overtaken # "take", recordedFrames < MaxFrames, endOfInput >= startFrame
        PROVE  wav # <<>> /\ Last(wav) >= endOfInput
    <3>1. ring = <<>>
      BY <2>2, SizesAssumption DEF DrainDone, TypeInv
    <3>2. Turn = Len(level) + 1
      BY <3>1, <1>1 DEF Turn, NextFrame, TypeInv
    <3>3. /\ Drop + Len(wav) = Turn /\ Drop <= startFrame /\ Drop \in Nat
          /\ Run(wav, Drop) /\ endOfInput <= Len(level)
      BY <2>1, <2>2, SizesAssumption DEF FileInv, DrainDone, At, Capturing, RingInv, Drop, TypeInv
    <3>4. Len(wav) \in 1..Len(wav) /\ Len(level) = Drop + Len(wav) - 1
      BY <2>2, <3>2, <3>3 DEF TypeInv
    <3>5. Last(wav) = Drop + Len(wav) - 1
      BY <3>3, <3>4 DEF Last, Run
    <3> QED
      BY <3>3, <3>4, <3>5 DEF TypeInv
  <2>3. w'.reason # "None" /\ stopReason' = stopReason /\ w'.pc = "finalize"
    BY <1>2 DEF DrainDone, At, EndInv, Moves, shared
  <2> QED
    BY <2>1, <2>2, <2>3 DEF EndInv, Terminal
<1> QED
  BY <1>4, <1>5, <1>6, <1>7, <1>8

\* Finalize keeps the inductive invariant.
LEMMA FinalizeKeeps ==
  ASSUME OneTake, IInv, Finalize
  PROVE  IInv'
<1> USE DEF IInv
<1>1. /\ w \in Workers /\ w.pc = "finalize"
      /\ UNCHANGED <<wav, tap, session, history>>
  BY DEF Finalize, At, TypeInv
<1>2. Drop' = Drop /\ NextFrame' = NextFrame
  BY <1>1 DEF Drop, NextFrame, tap, history
<1>3. CASE finalized' = TRUE /\ w' = [w EXCEPT !.pc = "reason"] /\ UNCHANGED shared
  <2>1. Moves("reason")
    BY <1>1, <1>3, MovesTo DEF Live, Closing
  <2>2. TypeInv'
    BY <1>1, <1>3, <2>1 DEF TypeInv, Moves, shared, tap, session, history
  <2>3. PhaseInv' /\ SessionInv'
    BY <1>1, <1>3, <2>1 DEF PhaseInv, TakeInv, SessionInv, Moves, shared, session, history, Live,
       Capturing, Closing,
                            Looping, Holding, Terminal
  <2>4. RingInv' /\ PreRollInv'
    BY <1>1, <1>2, <2>1 DEF RingInv, PreRollInv, Moves, tap, history, Live, Capturing, Closing,
       Looping, Holding
  <2>5. FileInv' /\ EndInv'
    BY <1>1, <1>2, <1>3, <2>1 DEF FileInv, EndInv, Moves, shared, history, Live, Capturing,
       Closing, Looping
  <2> QED
    BY <2>2, <2>3, <2>4, <2>5
<1>4. CASE Fail /\ finalized' \in BOOLEAN
  <2>1. Moves("done")
    BY <1>1, <1>4, MovesTo DEF Fail
  <2>2. TypeInv'
    BY <1>1, <1>4, <2>1 DEF TypeInv, Moves, Fail, tap, session, history, States
  <2>3. RingInv' /\ (overtaken # "take" => Run(wav, Drop)')
    BY <1>1, <1>2, <2>1 DEF RingInv, FileInv, Moves, tap, history, Live, Capturing, Closing, Looping
  <2> QED
    BY <1>1, <1>4, <2>2, <2>3, FailKeeps DEF tap, history
<1> QED
  BY <1>3, <1>4 DEF Finalize

\* StoreReason keeps the inductive invariant.
LEMMA StoreReasonKeeps ==
  ASSUME OneTake, IInv, StoreReason
  PROVE  IInv'
<1> USE DEF IInv
<1>1. w \in Workers /\ w.pc = "reason" /\ w.block = <<>>
  BY DEF StoreReason, At, TypeInv, RingInv, Live, Capturing, Closing, Looping,
     Holding
<1>2. Moves("stopped")
  BY <1>1, MovesTo DEF StoreReason, Live, Capturing, Closing, Looping, Holding
<1>3. NextFrame' = NextFrame /\ Turn' = Turn /\ Drop' = Drop
  BY <1>1, <1>2 DEF StoreReason, NextFrame, Turn, Drop, Moves, tap, history
<1>4. TypeInv'
  <2>1. w.reason \in Reasons
    BY <1>1 DEF Workers
  <2> QED
    BY <1>2, <2>1 DEF StoreReason, TypeInv, Moves, tap, spill, session, history
<1>5. PhaseInv' /\ SessionInv'
  BY <1>1, <1>2 DEF StoreReason, PhaseInv, TakeInv, SessionInv, TypeInv, Moves, shared, session, history,
     Live, Capturing, Closing, Looping, Holding, Terminal
<1>6. RingInv' /\ PreRollInv'
  BY <1>1, <1>2, <1>3 DEF StoreReason, RingInv, PreRollInv, PhaseInv, TakeInv, TypeInv, Moves, shared, tap,
     history, Live, Capturing, Closing, Looping, Holding, Terminal
<1>7. FileInv'
  BY <1>1, <1>2, <1>3 DEF StoreReason, FileInv, PhaseInv, TakeInv, Moves, shared, spill, history, Live,
     Capturing, Closing, Looping, Holding, Terminal
<1>8. EndInv'
  BY <1>1, <1>2, <1>3 DEF StoreReason, EndInv, PhaseInv, TakeInv, Moves, shared, spill, history, Live,
     Capturing, Closing, Looping, Holding, Terminal
<1> QED
  BY <1>4, <1>5, <1>6, <1>7, <1>8

\* StoreStopped keeps the inductive invariant.
LEMMA StoreStoppedKeeps ==
  ASSUME OneTake, IInv, StoreStopped
  PROVE  IInv'
<1> USE DEF IInv
<1>1. w \in Workers /\ w.pc = "stopped" /\ w.block = <<>>
  BY DEF StoreStopped, At, TypeInv, RingInv, Live, Capturing, Closing, Looping,
     Holding
<1>2. Moves("done")
  BY <1>1, MovesTo DEF StoreStopped, Live, Capturing, Closing, Looping, Holding
<1>3. NextFrame' = NextFrame /\ Turn' = Turn /\ Drop' = Drop
  BY <1>1, <1>2 DEF StoreStopped, NextFrame, Turn, Drop, Moves, tap, history
<1>4. TypeInv'
  BY <1>1, <1>2 DEF StoreStopped, TypeInv, States, Reasons, Moves, shared, tap, spill, session,
     history
<1>5. PhaseInv' /\ SessionInv'
  BY <1>1, <1>2 DEF StoreStopped, PhaseInv, TakeInv, SessionInv, TypeInv, Moves, shared, session, history,
     Live, Capturing, Closing, Looping, Holding, Terminal
<1>6. RingInv' /\ PreRollInv'
  BY <1>1, <1>2, <1>3 DEF StoreStopped, RingInv, PreRollInv, PhaseInv, TakeInv, TypeInv, Moves, shared,
     tap, history, Live, Capturing, Closing, Looping, Holding, Terminal
<1>7. FileInv'
  BY <1>1, <1>2, <1>3 DEF StoreStopped, FileInv, PhaseInv, TakeInv, Moves, shared, spill, history, Live,
     Capturing, Closing, Looping, Holding, Terminal
<1>8. EndInv'
  BY <1>1, <1>2, <1>3 DEF StoreStopped, EndInv, PhaseInv, TakeInv, Moves, shared, spill, history, Live,
     Capturing, Closing, Looping, Holding, Terminal
<1> QED
  BY <1>4, <1>5, <1>6, <1>7, <1>8

-----------------------------------------------------------------------------
(* The theorems *)

\* The inductive invariant holds at first.
LEMMA InvInit == Init => IInv
<1> SUFFICES ASSUME Init PROVE IInv
  OBVIOUS
<1> USE DEF Init
<1>1. /\ w \in Workers /\ w.pc = "none"
  <2>1. <<>> \in Seq(Nat) /\ "None" \in Reasons /\ NewGate \in Gates /\ "none" \in Live \cup {"none", "done"}
    BY DEF Reasons, NewGate, Gates
  <2> QED
    BY <2>1 DEF NewWorker, Workers
<1>2. TypeInv
  <2>1. <<>> \in Seq(Nat) /\ <<>> \in Seq(Levels)
    OBVIOUS
  <2> QED
    BY <1>1, <2>1 DEF TypeInv, States, Reasons
<1>3. PhaseInv /\ SessionInv
  BY <1>1 DEF PhaseInv, TakeInv, SessionInv, Live, Capturing, Closing, Looping, Holding, Terminal
<1>4. RingInv /\ PreRollInv /\ FileInv /\ EndInv
  BY <1>1, RunEmpty DEF RingInv, PreRollInv, FileInv, EndInv, NextFrame, Live, Capturing, Closing,
     Looping, Holding
<1> QED
  BY <1>2, <1>3, <1>4 DEF IInv

\* Every step keeps the inductive invariant.
LEMMA InvStep ==
  ASSUME OneTake, IInv, [Next]_vars
  PROVE  IInv'
<1>1. CASE UNCHANGED vars
  <2>1. TypeInv' /\ PhaseInv' /\ SessionInv' /\ EndInv'
    BY <1>1 DEF IInv, TypeInv, PhaseInv, TakeInv, SessionInv, EndInv, vars, shared, tap, spill, session,
       history
  <2>2. Drop' = Drop /\ NextFrame' = NextFrame /\ Turn' = Turn
    BY <1>1 DEF Drop, NextFrame, Turn, vars, tap, history
  <2>3. RingInv' /\ PreRollInv' /\ FileInv'
    BY <1>1, <2>2 DEF IInv, RingInv, PreRollInv, FileInv, vars, shared, tap, spill, history
  <2> QED
    BY <2>1, <2>3 DEF IInv
<1>2. CASE Render \/ DropTap
  BY <1>2, RenderKeeps, DropTapKeeps
<1>3. CASE \/ ArmSpawn \/ RequestLoad("Start") \/ RequestLoad("Stop")
           \/ WaitSeesTerminal \/ DropSession
  BY <1>3, ArmSpawnKeeps, RequestLoadKeeps, WaitSeesTerminalKeeps, DropSessionKeeps
<1>4. CASE CallStep
  BY <1>4, ArmReturnKeeps, RequestStoreKeeps, WaitJoinedKeeps, DropJoinedKeeps DEF CallStep
<1>5. CASE WorkerStep
  BY <1>5, CreateKeeps, ReadyKeeps, TakeCommandKeeps, StartRecordingKeeps, LoadStateKeeps, PopKeeps,
     TriggerKeeps, AppendBlockKeeps, PushPreRollKeeps, CheckHeldKeeps, LeaveLoopKeeps, DrainTailKeeps,
     DrainDoneKeeps, FinalizeKeeps, StoreReasonKeeps, StoreStoppedKeeps DEF WorkerStep
<1> QED
  BY <1>1, <1>2, <1>3, <1>4, <1>5 DEF Next

\* The inductive invariant always holds of one take.
THEOREM Invariant == ASSUME OneTake PROVE Spec => []IInv
<1>1. Init => IInv
  BY InvInit
<1>2. IInv /\ [Next]_vars => IInv'
  BY InvStep, OneTake
<1> QED
  BY <1>1, <1>2, PTL DEF Spec

\* Every step of the worker and the session keeps its types.
THEOREM TypesHold == ASSUME OneTake PROVE Spec => []TypeInv
<1>1. IInv => TypeInv
  BY DEF IInv
<1> QED
  BY <1>1, OneTake, Invariant, PTL

\* Whatever the sizes of ring, block, pre-roll and cap, no frame is lost,
\* repeated or reordered between the tap and the file (`run` and `append`),
\* of a take that arm() did not overtake.
THEOREM SpillIsUnbroken == ASSUME OneTake PROVE Spec => []SpillUnbroken
<1>1. ASSUME IInv, overtaken # "take" PROVE SpillUnbroken
  <2>1. wav \in Seq(Nat) /\ Run(wav, Drop) /\ Drop \in Nat
    BY <1>1, SizesAssumption DEF IInv, TypeInv, FileInv, Drop
  <2>2. ASSUME NEW i \in 1..(Len(wav) - 1) PROVE wav[i + 1] = wav[i] + 1
    <3>1. i \in 1..Len(wav) /\ i + 1 \in 1..Len(wav)
      BY <2>1
    <3>2. wav[i] = Drop + i - 1 /\ wav[i + 1] = Drop + (i + 1) - 1
      BY <2>1, <3>1 DEF Run
    <3> QED
      BY <2>1, <3>2
  <2> QED
    BY <2>2 DEF SpillUnbroken
<1>2. IInv => SpillUnbroken
  BY <1>1 DEF SpillUnbroken
<1> QED
  BY <1>2, OneTake, Invariant, PTL

\* A recording that was stopped under the cap holds every frame the tap took
\* before the loop was left: the final drain misses none.
THEOREM TailIsKept == ASSUME OneTake PROVE Spec => []StopKeepsTail
<1>1. IInv => StopKeepsTail
  BY DEF IInv, EndInv, StopKeepsTail
<1> QED
  BY <1>1, OneTake, Invariant, PTL

\* The file begins a full pre-roll before the needle drop, or with the first
\* frame the worker had not taken when the operator started it.
THEOREM DropIsHeld == ASSUME OneTake PROVE Spec => []BeginsAtTheDrop
<1>1. ASSUME IInv, overtaken # "take" PROVE BeginsAtTheDrop
  <2>1. ASSUME wav # <<>> PROVE wav[1] = Drop
    <3>1. wav \in Seq(Nat) /\ Run(wav, Drop) /\ Drop \in Nat
      BY <1>1, SizesAssumption DEF IInv, TypeInv, FileInv, Drop
    <3>2. 1 \in 1..Len(wav)
      BY <2>1, <3>1
    <3> QED
      BY <3>1, <3>2 DEF Run
  <2> QED
    BY <2>1 DEF Drop, BeginsAtTheDrop
<1>2. IInv => BeginsAtTheDrop
  BY <1>1 DEF BeginsAtTheDrop
<1> QED
  BY <1>2, OneTake, Invariant, PTL

\* Once the worker was joined, the file is closed and the manifest that the
\* edits of the plan are checked against has its length, even of a take that
\* arm() overtook, and so has rip.json unless wait_stopped reported an error.
THEOREM LengthIsFinal == ASSUME OneTake PROVE Spec => []EditsSeeFinalLength
<1>1. IInv => EditsSeeFinalLength
  BY DEF IInv, TypeInv, PhaseInv, SessionInv, FileInv, EndInv, EditsSeeFinalLength
<1> QED
  BY <1>1, OneTake, Invariant, PTL

-----------------------------------------------------------------------------
(* The cap *)

\* A block is one scratch buffer, the pre-roll is full at most, and a worker
\* that goes on is short of the cap, but for the pre-roll it has just written.
CapInv ==
  /\ Len(w.block) <= BlockMax /\ Len(w.preRoll) <= PreRollCap
  /\ w.pc \in Looping \ {"append"} => Len(wav) < MaxFrames
  /\ w.pc = "append" => \/ Len(wav) < MaxFrames
                        \/ Len(wav) <= PreRollCap
                        \/ overtaken = "take" /\ Len(wav) < MaxFrames + PreRollCap
  /\ FileIsCapped

\* A block of the ring is one scratch buffer at most.
LEMMA PoppedBounded == ASSUME ring \in Seq(Nat) PROVE Len(Popped) \in Nat /\ Len(Popped) <= BlockMax
<1>1. PICK k \in 0..Len(ring) : Popped = SubSeq(ring, 1, k) /\ k <= BlockMax
  BY SizesAssumption DEF Popped
<1>2. Len(SubSeq(ring, 1, k)) = k
  OBVIOUS
<1> QED
  BY <1>1, <1>2

\* Steps of the tap and the session touch neither the file nor the locals.
LEMMA CapSession ==
  ASSUME OneTake, IInv, CapInv, wav' = wav,
         \/ w' = w /\ (overtaken' = overtaken \/ overtaken = "none")
         \/ ArmSpawn
  PROVE  CapInv'
<1>1. CASE w' = w /\ (overtaken' = overtaken \/ overtaken = "none")
  BY <1>1 DEF CapInv, FileIsCapped
<1>2. CASE ArmSpawn
  <2>1. /\ w'.pc = "create" /\ w'.block = <<>> /\ w'.preRoll = <<>>
    BY <1>2 DEF ArmSpawn, NewWorker
  <2>2. overtaken = "none"
    BY <1>2, SizesAssumption DEF OneTake, ArmSpawn, IInv, PhaseInv, TypeInv
  <2> QED
    BY <2>1, <2>2, SizesAssumption DEF CapInv, FileIsCapped, Looping
<1> QED
  BY <1>1, <1>2

\* A frame count is short of the file's bound as soon as it is short of the cap
\* before its last block.
LEMMA CapWritten ==
  ASSUME IInv, CapInv, w.pc \in Looping \cup {"drain", "tail"},
         w.pc = "tail" => Len(wav) < MaxFrames,
         NEW t \in Seq(Nat), Len(t) <= BlockMax, w.pc \in {"append", "tail"},
         overtaken' = overtaken,
         \/ wav' = wav \o t
         \/ \E n \in 0..(Len(t) - 1) : wav' = wav \o SubSeq(t, 1, n)
  PROVE  FileIsCapped' /\ wav' \in Seq(Nat)
<1>1. wav \in Seq(Nat) /\ Len(t) \in Nat /\ BlockMax \in Nat
  BY SizesAssumption DEF IInv, TypeInv
<1>2. wav' \in Seq(Nat) /\ Len(wav') \in Nat /\ Len(wav') <= Len(wav) + Len(t)
  <2>1. CASE wav' = wav \o t
    BY <1>1, <2>1
  <2>2. CASE \E n \in 0..(Len(t) - 1) : wav' = wav \o SubSeq(t, 1, n)
    BY <1>1, <2>2
  <2> QED
    BY <2>1, <2>2
<1>3. \/ Len(wav) < MaxFrames
      \/ Len(wav) <= PreRollCap
      \/ overtaken = "take" /\ Len(wav) < MaxFrames + PreRollCap
  BY DEF CapInv
<1> QED
  BY <1>1, <1>2, <1>3, SizesAssumption DEF FileIsCapped

\* The needle drop puts a pre-roll into a file that is empty, or short of the
\* cap when the take was sent back to Armed.
LEMMA CapTrigger ==
  ASSUME OneTake, IInv, CapInv, Trigger
  PROVE  CapInv'
<1>1. /\ w \in Workers /\ w.pc = "trigger" /\ w.preRoll \in Seq(Nat) /\ wav \in Seq(Nat)
      /\ overtaken # "take" => wav = <<>>
      /\ Len(wav) < MaxFrames /\ Len(w.preRoll) \in Nat /\ Len(w.preRoll) <= PreRollCap
      /\ Len(w.block) <= BlockMax /\ overtaken' = overtaken
  BY DEF Trigger, At, IInv, TypeInv, FileInv, Workers, Live, Capturing, Looping, CapInv
<1>2. /\ MaxFrames \in Nat /\ BlockMax \in Nat \ {0} /\ PreRollCap \in Nat /\ Len(wav) \in Nat
  BY <1>1, SizesAssumption
<1>3. Len(wav') \in Nat /\ Len(wav') <= Len(wav) + Len(w.preRoll)
  <2>1. CASE wav' = wav \o w.preRoll
    BY <1>1, <2>1
  <2>2. CASE \E n \in 0..(Len(w.preRoll) - 1) : wav' = wav \o SubSeq(w.preRoll, 1, n)
    BY <1>1, <2>2
  <2> QED
    BY <2>1, <2>2 DEF Trigger
<1>4. \/ Len(wav') <= PreRollCap
      \/ overtaken = "take" /\ Len(wav') < MaxFrames + PreRollCap
  BY <1>1, <1>2, <1>3
<1>5. FileIsCapped'
  BY <1>1, <1>2, <1>3, <1>4 DEF FileIsCapped
<1>6. /\ w'.pc \in {"append", "done"} /\ w'.block = w.block
      /\ w'.preRoll = w.preRoll \/ w'.preRoll = <<>>
  BY <1>1 DEF Trigger, Fail, Workers
<1> QED
  BY <1>1, <1>2, <1>4, <1>5, <1>6 DEF CapInv, Looping

\* A block ends the loop at the cap.
LEMMA CapAppend ==
  ASSUME OneTake, IInv, CapInv, AppendBlock
  PROVE  CapInv'
<1> DEFINE gate == Feed(w.gate, w.block)
           capped == recordedFrames + Len(w.block) >= MaxFrames
           over == ~capped /\ SideIsOver(gate)
           next == CASE capped -> Leave("MaxDuration")
                     [] over -> [Leave("Silence") EXCEPT !.gate = gate]
                     [] OTHER -> [NextCycle EXCEPT !.gate = gate]
<1>1. /\ w \in Workers /\ w.pc = "append" /\ w.block \in Seq(Nat) /\ w.gate \in Gates
      /\ recordedFrames = Len(wav) /\ Len(w.block) <= BlockMax /\ Len(w.preRoll) <= PreRollCap
      /\ w.preRoll \in Seq(Nat) /\ w.reason \in Reasons /\ wav \in Seq(Nat)
  BY DEF AppendBlock, At, IInv, TypeInv, PhaseInv, TakeInv, FileInv, Workers, Live, Capturing,
     Looping, Terminal, CapInv
<1>2. AppendFrames(w.block, next) /\ overtaken' = overtaken
  BY DEF AppendBlock
<1>3. \/ wav' = wav \o w.block
      \/ \E n \in 0..(Len(w.block) - 1) : wav' = wav \o SubSeq(w.block, 1, n)
  BY <1>2 DEF AppendFrames
<1>4. FileIsCapped'
  BY <1>1, <1>2, <1>3, CapWritten DEF Looping
<1>5. CASE wav' = wav \o w.block /\ w' = next
  <2>1. Len(wav') = Len(wav) + Len(w.block)
    BY <1>1, <1>5
  <2>2. /\ w'.block = <<>> /\ w'.preRoll = w.preRoll
        /\ w'.pc = "drain" \/ (w'.pc = "command" /\ ~capped)
    <3>1. gate \in Gates /\ "MaxDuration" \in Reasons /\ "Silence" \in Reasons
      BY <1>1, FeedIs DEF Reasons
    <3>2. \/ w' = Leave("MaxDuration")
          \/ w' = [Leave("Silence") EXCEPT !.gate = gate]
          \/ w' = [NextCycle EXCEPT !.gate = gate] /\ ~capped
      BY <1>5
    <3> HIDE DEF gate, capped
    <3>3. \/ Cycles("drain", w.preRoll, "MaxDuration")
          \/ Cycles("drain", w.preRoll, "Silence")
          \/ Cycles("command", w.preRoll, w.reason) /\ ~capped
      BY <1>1, <3>1, <3>2, CyclesTo
    <3> QED
      BY <3>3 DEF Cycles
  <2>3. w'.pc = "command" => Len(wav') < MaxFrames
    BY <1>1, <2>1, <2>2, SizesAssumption
  <2>4. Len(<<>>) = 0 /\ 0 <= BlockMax
    BY SizesAssumption
  <2> QED
    BY <1>1, <1>4, <2>2, <2>3, <2>4 DEF CapInv, Looping
<1>6. CASE Fail
  <2>1. Moves("done")
    BY <1>1, <1>6, MovesTo DEF Fail
  <2> QED
    BY <1>1, <1>4, <2>1 DEF CapInv, Looping, Moves
<1> QED
  BY <1>2, <1>5, <1>6 DEF AppendFrames

\* The final drain looks at the cap before every block.
LEMMA CapDrain ==
  ASSUME OneTake, IInv, CapInv, DrainTail
  PROVE  CapInv'
<1>1. /\ w \in Workers /\ w.pc = "tail" /\ ring \in Seq(Nat) /\ recordedFrames = Len(wav)
      /\ recordedFrames < MaxFrames /\ overtaken' = overtaken /\ AppendFrames(Popped, w)
      /\ Popped \in Seq(Nat)
  <2>1. /\ w \in Workers /\ w.pc = "tail" /\ ring \in Seq(Nat) /\ recordedFrames = Len(wav)
        /\ recordedFrames < MaxFrames /\ overtaken' = overtaken /\ AppendFrames(Popped, w)
    BY DEF DrainTail, At, IInv, TypeInv, PhaseInv, FileInv, Live, Capturing, Terminal, history
  <2>2. Popped \in Seq(Nat)
    BY <2>1, SizesAssumption DEF Popped
  <2> QED
    BY <2>1, <2>2
<1>2. FileIsCapped'
  <2>1. \/ wav' = wav \o Popped
        \/ \E n \in 0..(Len(Popped) - 1) : wav' = wav \o SubSeq(Popped, 1, n)
    BY <1>1 DEF AppendFrames
  <2> QED
    BY <1>1, <2>1, PoppedBounded, CapWritten
<1>3. w' = w \/ Moves("done")
  BY <1>1, MovesTo DEF AppendFrames, Fail
<1> QED
  BY <1>1, <1>2, <1>3 DEF CapInv, Looping, Moves

\* The other steps of the worker leave the file, or begin it.
LEMMA CapWorker ==
  ASSUME OneTake, IInv, IInv', CapInv,
         \/ Create \/ Ready \/ TakeCommand \/ StartRecording \/ LoadState \/ Pop
         \/ PushPreRoll \/ CheckHeld \/ LeaveLoop \/ DrainDone \/ Finalize
         \/ StoreReason \/ StoreStopped
  PROVE  CapInv'
<1> USE SizesAssumption
<1>1. w \in Workers /\ wav \in Seq(Nat) /\ ring \in Seq(Nat) /\ Len(<<>>) = 0
  BY DEF IInv, TypeInv
<1>2. overtaken' = overtaken
  BY DEF Create, Ready, TakeCommand, StartRecording, LoadState, Pop, PushPreRoll, CheckHeld,
     LeaveLoop, DrainDone, Finalize, StoreReason, StoreStopped, history
<1>3. CASE Create
  <2>1. w'.block = w.block /\ w'.preRoll = w.preRoll /\ w'.pc \in {"ready", "done"}
        /\ (wav' = wav \/ wav' = <<>>)
    BY <1>1, <1>3 DEF Create, Fail, Workers, spill
  <2> QED
    BY <1>1, <1>2, <2>1 DEF CapInv, FileIsCapped, Looping
<1>4. CASE Ready
  <2>1. w'.block = w.block /\ w'.preRoll = w.preRoll /\ wav' = wav
    BY <1>1, <1>4 DEF Ready, Workers, spill
  <2>2. wav = <<>> /\ w'.pc = "command"
    BY <1>1, <1>4 DEF Ready, At, Workers, IInv, PhaseInv, FileInv, Live, Capturing
  <2> QED
    BY <1>1, <1>2, <2>1, <2>2 DEF CapInv, FileIsCapped, Looping
<1>5. CASE TakeCommand
  <2>1. /\ w'.block \in {w.block, <<>>} /\ w'.preRoll = w.preRoll /\ wav' = wav
        /\ w'.pc \in {"drain", "start", "load"} /\ w.pc = "command"
    <3>1. \/ w' = Leave("Manual") \/ w' = [w EXCEPT !.pc = "start"] \/ w' = [w EXCEPT !.pc = "load"]
      BY <1>5 DEF TakeCommand
    <3> QED
      BY <1>1, <1>5, <3>1 DEF TakeCommand, At, Workers, spill, Leave, NextCycle
  <2> QED
    BY <1>1, <1>2, <2>1 DEF CapInv, FileIsCapped, Looping
<1>6. CASE StartRecording \/ LoadState
  <2>1. /\ w'.block = w.block /\ w'.preRoll = w.preRoll /\ wav' = wav
        /\ w'.pc \in {"load", "pop"} /\ w.pc \in {"start", "load"}
    BY <1>1, <1>6 DEF StartRecording, LoadState, At, Workers, spill
  <2> QED
    BY <1>1, <1>2, <2>1 DEF CapInv, FileIsCapped, Looping
<1>7. CASE Pop
  <2>1. /\ w'.block = Popped /\ w'.preRoll = w.preRoll /\ wav' = wav
        /\ w'.pc \in {"held", "append", "trigger", "preroll"} /\ w.pc = "pop"
    BY <1>1, <1>7 DEF Pop, At, Workers, spill
  <2> QED
    BY <1>1, <1>2, <2>1, PoppedBounded DEF CapInv, FileIsCapped, Looping
<1>8. CASE PushPreRoll
  <2>1. /\ w'.block = <<>> /\ wav' = wav /\ w'.pc = "command" /\ w.pc = "preroll"
        /\ w'.preRoll = w.preRoll \/ w'.preRoll = KeepNewest(w.preRoll \o w.block)
    BY <1>1, <1>8 DEF PushPreRoll, At, Workers, spill, NextCycle
  <2>2. Len(KeepNewest(w.preRoll \o w.block)) <= PreRollCap
    <3>1. ASSUME NEW s \in Seq(Nat) PROVE Len(KeepNewest(s)) <= PreRollCap
      BY <3>1 DEF KeepNewest
    <3> QED
      BY <1>1, <3>1, Written DEF Workers
  <2> QED
    BY <1>1, <1>2, <2>1, <2>2 DEF CapInv, FileIsCapped, Looping
<1>9. CASE CheckHeld
  <2>1. /\ w'.block = <<>> /\ w'.preRoll = w.preRoll /\ wav' = wav
        /\ w'.pc \in {"command", "drain"} /\ w.pc = "held"
    <3>1. w' = NextCycle \/ w' = Leave("InputLost")
      BY <1>9 DEF CheckHeld
    <3> QED
      BY <1>1, <1>9, <3>1 DEF CheckHeld, At, Workers, spill, Leave, NextCycle
  <2> QED
    BY <1>1, <1>2, <2>1 DEF CapInv, FileIsCapped, Looping
<1>10. CASE LeaveLoop \/ DrainDone \/ Finalize \/ StoreReason \/ StoreStopped
  <2>1. /\ w'.block = w.block /\ w'.preRoll = w.preRoll /\ wav' = wav
        /\ w'.pc \in {"tail", "finalize", "reason", "stopped", "done"}
    BY <1>1, <1>10 DEF LeaveLoop, DrainDone, Finalize, StoreReason, StoreStopped, Fail, Workers, spill
  <2> QED
    BY <1>1, <1>2, <2>1 DEF CapInv, FileIsCapped, Looping
<1> QED
  BY <1>3, <1>4, <1>5, <1>6, <1>7, <1>8, <1>9, <1>10

\* No take is longer than the cap and one block, unless it opens with a pre-roll
\* that is: the tap may push on for ever (`run` in capture.rs).
THEOREM CapIsKept == ASSUME OneTake PROVE Spec => []FileIsCapped
<1>1. Init => CapInv
  <2> SUFFICES ASSUME Init PROVE CapInv
    OBVIOUS
  <2>1. w.block = <<>> /\ w.preRoll = <<>> /\ w.pc = "none" /\ wav = <<>> /\ Len(<<>>) = 0
    BY DEF Init, NewWorker
  <2> QED
    BY <2>1, SizesAssumption DEF CapInv, FileIsCapped, Looping
<1>2. ASSUME OneTake, IInv, IInv', CapInv, [Next]_vars PROVE CapInv'
  <2>1. CASE UNCHANGED vars
    BY <1>2, <2>1, CapSession DEF vars, spill, history
  <2>2. CASE \/ Render \/ DropTap \/ ArmSpawn \/ RequestLoad("Start") \/ RequestLoad("Stop")
             \/ WaitSeesTerminal \/ DropSession \/ CallStep
    <3>1. wav' = wav /\ (w' = w \/ ArmSpawn)
      BY <2>2 DEF Render, DropTap, ArmSpawn, RequestLoad, WaitSeesTerminal, DropSession, CallStep,
         ArmReturn, RequestStore, WaitJoined, DropJoined, spill
    <3>2. overtaken' = overtaken \/ ArmSpawn \/ ArmReturn
      BY <2>2 DEF Render, DropTap, RequestLoad, WaitSeesTerminal, DropSession, CallStep,
         RequestStore, WaitJoined, DropJoined, history
    <3>3. ArmReturn => overtaken = "none"
      BY <1>2 DEF ArmReturn, IInv, PhaseInv
    <3> QED
      BY <1>2, <3>1, <3>2, <3>3, CapSession
  <2>3. CASE WorkerStep
    BY <1>2, <2>3, CapTrigger, CapAppend, CapDrain, CapWorker DEF WorkerStep
  <2> QED
    BY <1>2, <2>1, <2>2, <2>3 DEF Next
<1>3. CapInv => FileIsCapped
  BY DEF CapInv
<1> QED
  BY <1>1, <1>2, <1>3, OneTake, Invariant, PTL DEF Spec

\* Nothing takes the session out of Stopped or Failed: the worker is done by
\* then, and there is no second arm() in one take.
THEOREM TerminalStays == ASSUME OneTake PROVE Spec => TerminalIsFinal
<1> DEFINE Stays == (state \in Terminal /\ op # "arm") => state' = state
<1>1. ASSUME OneTake, IInv, [Next]_vars PROVE [Stays]_vars
  <2>1. CASE UNCHANGED vars
    BY <2>1
  <2>2. CASE state \in Terminal /\ Next
    <3>1. w.pc \in {"none", "done"} \cup Live /\ w.pc \notin Live
      BY <1>1, <2>2 DEF IInv, TypeInv, Workers, PhaseInv, Terminal
    <3>2. ~WorkerStep
      BY <3>1 DEF WorkerStep, Create, Ready, TakeCommand, StartRecording, LoadState, Pop,
         Trigger, AppendBlock,
                  PushPreRoll, CheckHeld, LeaveLoop, DrainTail, DrainDone, Finalize, StoreReason, StoreStopped,
                  At, Live, Capturing, Closing, Looping
    <3> QED
      BY <2>2, <3>2 DEF Next, CallStep, Render, DropTap, ArmSpawn, RequestLoad,
         WaitSeesTerminal, DropSession,
                        ArmReturn, RequestStore, WaitJoined, DropJoined, shared
  <2> QED
    BY <1>1, <2>1, <2>2
<1> QED
  BY <1>1, OneTake, Invariant, PTL DEF Spec, TerminalIsFinal
=============================================================================
