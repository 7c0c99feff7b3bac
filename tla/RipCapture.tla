------------------------------ MODULE RipCapture ------------------------------
(***************************************************************************)
(* Recording one side of a record: the RipSession that owns the capture    *)
(* (dub-rip/src/session.rs), the capture worker thread                     *)
(* (dub-rip/src/capture.rs) and the record tap of the audio thread         *)
(* (dub-engine/src/thru.rs), which share a ring of audio frames and three  *)
(* atomics: the lifecycle state, a one-slot command and the frame count.   *)
(*                                                                         *)
(* A frame is its position in `level`, the audio the tap has accepted so   *)
(* far, so what reached the file is a sequence of positions.  The worker   *)
(* takes one step per access to shared state.  The session takes a step    *)
(* for the load and a step for the store of start() and stop(), and two    *)
(* for arm(), whose store of Armed follows the spawn.                      *)
(***************************************************************************)
EXTENDS Integers, SequencesExt

CONSTANTS
  RingCap,      \* frames the record ring holds (RECORD_TAP_RING_CAPACITY_SECS)
  BlockMax,     \* frames popped per cycle (SCRATCH_SAMPLES / 2)
  PreRollCap,   \* frames of pre-roll (pre_roll_secs)
  MaxFrames,    \* the hard recording cap (max_duration_secs)
  AutoStart,    \* whether start_threshold is set
  SilenceStop,  \* frames of quiet that end a side; 0: silence_stop_secs unset
  Tolerate,     \* loud frames that end a quiet run
  MaxInput,     \* bound: frames the tap accepts in a behaviour
  MaxArms       \* bound: calls of arm()

ASSUME SizesAssumption ==
  /\ RingCap \in Nat \ {0} /\ BlockMax \in Nat \ {0} /\ MaxFrames \in Nat \ {0}
  /\ PreRollCap \in Nat /\ SilenceStop \in Nat /\ Tolerate \in Nat
  /\ MaxInput \in Nat /\ MaxArms \in Nat
  /\ AutoStart \in BOOLEAN

VARIABLES
  state,          \* shared.state
  command,        \* shared.command, a single slot
  recordedFrames, \* shared.recorded_frames
  stopReason,     \* shared.stop_reason
  ring, held,     \* the record ring and whether its producer is alive
  level,          \* loudness of every frame accepted by the tap
  w,              \* the worker's locals: pc, recording, block, preRoll, gate
  wav, finalized, \* the spill: frames in it, and its header written
  op, worker,     \* the session call in progress; whether worker is Some
  manifestFrames, \* recorded_frames of the manifest the session holds
  savedFrames,    \* ... and of the one on disk
  arms,           \* calls of arm() so far
  \* history, read by properties only
  started,        \* which start began the file: "none", "manual", "auto"
  startFrame,     \* first frame the worker had not taken when it started
  endOfInput,     \* frames accepted when the capture loop was left
  lastRequest,    \* the last of start() and stop() accepted since arm()
  overtaken,      \* what arm()'s store of Armed overwrote: "none", the "take"
                  \* its worker had begun, or the "end" it had come to
  synced          \* whether the last wait_stopped of a stopped session was Ok

shared == <<state, command, recordedFrames, stopReason>>
tap == <<ring, held, level>>
spill == <<wav, finalized>>
session == <<op, worker, manifestFrames, savedFrames, arms>>
history == <<started, startFrame, endOfInput, lastRequest, overtaken, synced>>
vars == <<shared, tap, w, spill, session, history>>

States == {"Idle", "Armed", "Recording", "Stopped", "Failed"}
Terminal == {"Stopped", "Failed"}
Reasons == {"None", "Manual", "MaxDuration", "InputLost", "Silence"}
Levels == {"quiet", "loud"}

-----------------------------------------------------------------------------
(* The data: what blocks and the pre-roll hold. *)

\* Mutant of KeepNewest: the oldest frames are kept.
KeepOldest(s) == IF Len(s) <= PreRollCap THEN s ELSE SubSeq(s, 1, PreRollCap)

\* PreRoll::push keeps the newest PreRollCap frames.
KeepNewest(s) ==
  IF Len(s) <= PreRollCap THEN s ELSE SubSeq(s, Len(s) - PreRollCap + 1, Len(s))

\* block_peak over the start threshold, and block_rms at the music's level.
Loud(block) == \E i \in DOMAIN block : level[block[i]] = "loud"

\* pop_slice: what is there, at most one scratch buffer of it.
Popped == SubSeq(ring, 1, IF Len(ring) < BlockMax THEN Len(ring) ELSE BlockMax)
Rest == SubSeq(ring, Len(Popped) + 1, Len(ring))

\* SilenceGate: the music's level is a peak hold, so a block is quiet only
\* once something loud was fed; only Tolerate loud frames end a quiet run.
NewGate == [music |-> FALSE, quiet |-> 0, loud |-> 0]
Feed(gate, block) ==
  LET loud == gate.loud + Len(block)
  IN IF gate.music /\ ~Loud(block)
     THEN [gate EXCEPT !.quiet = @ + Len(block), !.loud = 0]
     ELSE [music |-> gate.music \/ Loud(block),
           quiet |-> IF loud >= Tolerate THEN 0 ELSE gate.quiet,
           loud |-> loud]
SideIsOver(gate) == SilenceStop > 0 /\ gate.quiet >= SilenceStop

NewWorker == [pc |-> "create", recording |-> FALSE, block |-> <<>>,
              preRoll |-> <<>>, gate |-> NewGate, reason |-> "None"]

Init ==
  /\ state = "Idle" /\ command = "None"
  /\ recordedFrames = 0 /\ stopReason = "None"
  /\ ring = <<>> /\ held = TRUE /\ level = <<>>
  /\ w = [NewWorker EXCEPT !.pc = "none"]
  /\ wav = <<>> /\ finalized = FALSE
  /\ op = "none" /\ worker = FALSE /\ manifestFrames = 0 /\ savedFrames = 0
  /\ arms = 0
  /\ started = "none" /\ startFrame = 0 /\ endOfInput = 0
  /\ lastRequest = "none" /\ overtaken = "none" /\ synced = FALSE

-----------------------------------------------------------------------------
(* The audio thread. *)

\* ThruSource::render_into pushes what fits: with the ring full the frame is
\* dropped and nothing changes.
Render ==
  /\ held /\ Len(ring) < RingCap /\ Len(level) < MaxInput
  /\ \E l \in Levels : level' = Append(level, l)
  /\ ring' = Append(ring, Len(level) + 1)
  /\ UNCHANGED <<held, shared, w, spill, session, history>>

\* The engine detaches the source or the device stops.
DropTap ==
  /\ held
  /\ held' = FALSE
  /\ UNCHANGED <<ring, level, shared, w, spill, session, history>>

-----------------------------------------------------------------------------
(* The session's calls. *)

\* RipSession::arm, up to the spawn.  A second arm is given a new tap.
ArmSpawn ==
  /\ op = "none" /\ ~worker /\ arms < MaxArms
  /\ w.pc \in {"none", "done"}
  /\ w' = NewWorker
  /\ op' = "arm" /\ arms' = arms + 1
  /\ IF arms = 0 THEN UNCHANGED <<ring, held>> ELSE ring' = <<>> /\ held' = TRUE
  /\ lastRequest' = "none" /\ overtaken' = "none"
  /\ UNCHANGED <<level, shared, spill, worker, manifestFrames, savedFrames, started,
                 startFrame, endOfInput, synced>>

\* ... and its store of Armed after it, whatever the worker has stored by then.
ArmReturn ==
  /\ op = "arm"
  /\ state' = "Armed"
  /\ op' = "none" /\ worker' = TRUE
  /\ overtaken' = IF w.pc = "done" THEN "end"
                  ELSE IF state = "Recording" THEN "take" ELSE "none"
  /\ UNCHANGED <<command, recordedFrames, stopReason, tap, w, spill, manifestFrames,
                 savedFrames, arms, started, startFrame, endOfInput, lastRequest, synced>>

\* start() and stop() load the state, and store a command if it allows one.
RequestLoad(request) ==
  /\ op = "none"
  /\ state \in {"Armed", "Recording"}
  /\ op' = request
  /\ UNCHANGED <<shared, tap, w, spill, worker, manifestFrames, savedFrames, arms,
                 history>>

RequestStore(request) ==
  /\ op = request
  /\ command' = request
  /\ lastRequest' = request
  /\ op' = "none"
  /\ UNCHANGED <<state, recordedFrames, stopReason, tap, w, spill, worker,
                 manifestFrames, savedFrames, arms, started, startFrame, endOfInput,
                 overtaken, synced>>

\* wait_stopped: the poll that sees a terminal state (a poll that does not
\* changes nothing, and times out with nothing changed), ...
WaitSeesTerminal ==
  /\ op = "none" /\ state \in Terminal
  /\ op' = "join"
  /\ UNCHANGED <<shared, tap, w, spill, worker, manifestFrames, savedFrames, arms,
                 history>>

\* Mutant: the recorded length is not synced into the manifest.
WaitJoinedNoSync ==
  /\ op = "join" /\ (worker => w.pc = "done")
  /\ worker' = FALSE /\ op' = "none"
  /\ UNCHANGED <<shared, tap, w, spill, manifestFrames, savedFrames, arms, started,
                 startFrame, endOfInput, lastRequest, overtaken>>
  /\ synced' \in BOOLEAN

\* ... then the join and the sync of the recorded length: into the manifest the
\* session holds, and into rip.json unless the save fails.  A failed capture
\* returns before either.
WaitJoined ==
  /\ op = "join"
  /\ worker => w.pc = "done"
  /\ worker' = FALSE /\ op' = "none"
  /\ IF state = "Failed"
     THEN UNCHANGED <<manifestFrames, savedFrames, synced>>
     ELSE /\ manifestFrames' = recordedFrames
          /\ synced' \in BOOLEAN
          /\ savedFrames' = IF synced' THEN recordedFrames ELSE savedFrames
  /\ UNCHANGED <<shared, tap, w, spill, arms, started, startFrame, endOfInput,
                 lastRequest, overtaken>>

\* Mutant: joins without requesting the stop.
DropSessionNoStop ==
  /\ op = "none"
  /\ op' = IF worker THEN "drop" ELSE "dropped"
  /\ UNCHANGED <<shared, tap, w, spill, worker, manifestFrames, savedFrames, arms,
                 history>>

\* Drop for RipSession.
DropSession ==
  /\ op = "none"
  /\ op' = IF worker THEN "drop" ELSE "dropped"
  /\ command' = IF worker THEN "Stop" ELSE command
  /\ UNCHANGED <<state, recordedFrames, stopReason, tap, w, spill, worker,
                 manifestFrames, savedFrames, arms, history>>

DropJoined ==
  /\ op = "drop" /\ w.pc = "done"
  /\ op' = "dropped" /\ worker' = FALSE
  /\ UNCHANGED <<shared, tap, w, spill, manifestFrames, savedFrames, arms, history>>

-----------------------------------------------------------------------------
(* The capture worker, `run`. *)

At(pc) == w.pc = pc

\* Mutant: a failure breaks out of the loop instead of returning.
FailThenFinalize ==
  /\ state' = "Failed"
  /\ w' = [w EXCEPT !.pc = "finalize"]
  /\ UNCHANGED <<command, recordedFrames, stopReason>>

\* CaptureShared::fail, and the worker returns.
Fail ==
  /\ state' = "Failed"
  /\ w' = [w EXCEPT !.pc = "done"]
  /\ UNCHANGED <<command, recordedFrames, stopReason>>

\* append: a failed write leaves some prefix of the block in the file and
\* does not count it.
AppendFrames(block, next) ==
  \/ /\ wav' = wav \o block
     /\ recordedFrames' = recordedFrames + Len(block)
     /\ w' = next
     /\ UNCHANGED <<state, command, stopReason, finalized>>
  \/ /\ \E n \in 0..(Len(block) - 1) : wav' = wav \o SubSeq(block, 1, n)
     /\ finalized' \in BOOLEAN
     /\ Fail

Create ==
  /\ At("create")
  /\ UNCHANGED <<tap, session, history>>
  /\ \/ /\ wav' = <<>> /\ finalized' = FALSE
        /\ w' = [w EXCEPT !.pc = "ready"]
        /\ UNCHANGED shared
     \/ Fail /\ UNCHANGED spill

Ready ==
  /\ At("ready")
  /\ state' = "Armed"
  /\ w' = [w EXCEPT !.pc = "command"]
  /\ UNCHANGED <<command, recordedFrames, stopReason, tap, spill, session, history>>

\* The locals of one iteration end with it: on to the next, or out of the loop.
NextCycle == [w EXCEPT !.pc = "command", !.block = <<>>, !.recording = FALSE]
Leave(reason) == [NextCycle EXCEPT !.pc = "drain", !.reason = reason]

\* Mutant: a stop is honoured while recording only.
TakeCommandRecordingOnly ==
  /\ At("command")
  /\ command' = "None"
  /\ w' = CASE command = "Stop" /\ state = "Recording" -> Leave("Manual")
            [] command = "Start" -> [w EXCEPT !.pc = "start"]
            [] OTHER -> [w EXCEPT !.pc = "load"]
  /\ endOfInput' = IF command = "Stop" THEN Len(level) ELSE endOfInput
  /\ UNCHANGED <<state, recordedFrames, stopReason, tap, spill, session,
                 started, startFrame, lastRequest, overtaken, synced>>

TakeCommand ==
  /\ At("command")
  /\ command' = "None"
  /\ w' = CASE command = "Stop" -> Leave("Manual")
            [] command = "Start" -> [w EXCEPT !.pc = "start"]
            [] OTHER -> [w EXCEPT !.pc = "load"]
  /\ endOfInput' = IF command = "Stop" THEN Len(level) ELSE endOfInput
  /\ UNCHANGED <<state, recordedFrames, stopReason, tap, spill, session,
                 started, startFrame, lastRequest, overtaken, synced>>

StartRecording ==
  /\ At("start")
  /\ state' = IF state = "Armed" THEN "Recording" ELSE state
  /\ IF state = "Armed"
     THEN started' = "manual" /\ startFrame' = Len(level) - Len(ring) + 1
     ELSE UNCHANGED <<started, startFrame>>
  /\ w' = [w EXCEPT !.pc = "load"]
  /\ UNCHANGED <<command, recordedFrames, stopReason, tap, spill, session,
                 endOfInput, lastRequest, overtaken, synced>>

LoadState ==
  /\ At("load")
  /\ w' = [w EXCEPT !.pc = "pop", !.recording = (state = "Recording")]
  /\ UNCHANGED <<shared, tap, spill, session, history>>

Pop ==
  /\ At("pop")
  /\ ring' = Rest
  /\ w' = [w EXCEPT !.block = Popped,
             !.pc = IF Popped = <<>> THEN "held"
                    ELSE IF w.recording THEN "append"
                    ELSE IF AutoStart /\ Loud(Popped) THEN "trigger"
                    ELSE "preroll"]
  /\ UNCHANGED <<held, level, shared, spill, session, history>>

\* The needle drop: the pre-roll goes down ahead of the block.  Only the worker
\* leaves Armed, so its compare-exchange cannot fail here.
Trigger ==
  /\ At("trigger")
  /\ state = "Armed"
  /\ started' = "auto" /\ startFrame' = Head(w.block)
  /\ \/ /\ state' = "Recording"
        /\ wav' = wav \o w.preRoll
        /\ recordedFrames' = recordedFrames + Len(w.preRoll)
        /\ w' = [w EXCEPT !.pc = "append", !.recording = TRUE, !.preRoll = <<>>]
        /\ UNCHANGED <<command, stopReason, finalized>>
     \/ /\ \E n \in 0..(Len(w.preRoll) - 1) : wav' = wav \o SubSeq(w.preRoll, 1, n)
        /\ finalized' \in BOOLEAN
        /\ Fail
  /\ UNCHANGED <<tap, session, endOfInput, lastRequest, overtaken, synced>>

\* Recording: append, then the cap, then the silence gate.
AppendBlock ==
  /\ At("append")
  /\ LET gate == Feed(w.gate, w.block)
         capped == recordedFrames + Len(w.block) >= MaxFrames
         over == ~capped /\ SideIsOver(gate)
     IN /\ AppendFrames(w.block,
             CASE capped -> Leave("MaxDuration")
               [] over -> [Leave("Silence") EXCEPT !.gate = gate]
               [] OTHER -> [NextCycle EXCEPT !.gate = gate])
        /\ endOfInput' = IF capped \/ over THEN Len(level) ELSE endOfInput
  /\ UNCHANGED <<tap, session, started, startFrame, lastRequest, overtaken, synced>>

\* Mutant: the armed tail is discarded.
PushPreRollDiscards ==
  /\ At("preroll")
  /\ w' = NextCycle
  /\ UNCHANGED <<shared, tap, spill, session, history>>

PushPreRoll ==
  /\ At("preroll")
  /\ w' = [NextCycle EXCEPT
             !.preRoll = IF AutoStart THEN KeepNewest(@ \o w.block) ELSE @]
  /\ UNCHANGED <<shared, tap, spill, session, history>>

\* Mutant: a lost producer ends a recording only.
CheckHeldRecordingOnly ==
  /\ At("held")
  /\ w' = IF held \/ ~w.recording THEN NextCycle ELSE Leave("InputLost")
  /\ endOfInput' = IF held THEN endOfInput ELSE Len(level)
  /\ UNCHANGED <<shared, tap, spill, session, started, startFrame, lastRequest,
                 overtaken, synced>>

\* Nothing was popped: is the producer gone?
CheckHeld ==
  /\ At("held")
  /\ w' = IF held THEN NextCycle ELSE Leave("InputLost")
  /\ endOfInput' = IF held THEN endOfInput ELSE Len(level)
  /\ UNCHANGED <<shared, tap, spill, session, started, startFrame, lastRequest,
                 overtaken, synced>>

\* Mutant: no final drain.
LeaveLoopNoDrain ==
  /\ At("drain")
  /\ w' = [w EXCEPT !.pc = "finalize"]
  /\ UNCHANGED <<shared, tap, spill, session, history>>

\* The final drain belongs to a recording only, ...
LeaveLoop ==
  /\ At("drain")
  /\ w' = [w EXCEPT !.pc = IF state = "Recording" THEN "tail" ELSE "finalize"]
  /\ UNCHANGED <<shared, tap, spill, session, history>>

\* Mutant: the final drain goes on past the cap.
DrainTailUncapped ==
  /\ At("tail")
  /\ ring # <<>>
  /\ ring' = Rest
  /\ AppendFrames(Popped, w)
  /\ UNCHANGED <<held, level, session, history>>

\* ... takes one block a step, and ends at the cap or on an empty ring.
DrainTail ==
  /\ At("tail")
  /\ recordedFrames < MaxFrames /\ ring # <<>>
  /\ ring' = Rest
  /\ AppendFrames(Popped, w)
  /\ UNCHANGED <<held, level, session, history>>

DrainDone ==
  /\ At("tail")
  /\ recordedFrames >= MaxFrames \/ ring = <<>>
  /\ w' = [w EXCEPT !.pc = "finalize"]
  /\ UNCHANGED <<shared, tap, spill, session, history>>

Finalize ==
  /\ At("finalize")
  /\ UNCHANGED <<wav, tap, session, history>>
  /\ \/ /\ finalized' = TRUE
        /\ w' = [w EXCEPT !.pc = "reason"]
        /\ UNCHANGED shared
     \/ Fail /\ finalized' \in BOOLEAN

StoreReason ==
  /\ At("reason")
  /\ stopReason' = w.reason
  /\ w' = [w EXCEPT !.pc = "stopped"]
  /\ UNCHANGED <<state, command, recordedFrames, tap, spill, session, history>>

StoreStopped ==
  /\ At("stopped")
  /\ state' = "Stopped"
  /\ w' = [w EXCEPT !.pc = "done"]
  /\ UNCHANGED <<command, recordedFrames, stopReason, tap, spill, session, history>>

-----------------------------------------------------------------------------
WorkerStep ==
  \/ Create \/ Ready \/ TakeCommand \/ StartRecording \/ LoadState \/ Pop
  \/ Trigger \/ AppendBlock \/ PushPreRoll \/ CheckHeld
  \/ LeaveLoop \/ DrainTail \/ DrainDone \/ Finalize \/ StoreReason \/ StoreStopped

\* A call that was entered runs to its end.
CallStep ==
  \/ ArmReturn \/ RequestStore("Start") \/ RequestStore("Stop")
  \/ WaitJoined \/ DropJoined

Next ==
  \/ Render \/ DropTap
  \/ ArmSpawn \/ RequestLoad("Start") \/ RequestLoad("Stop")
  \/ WaitSeesTerminal \/ DropSession
  \/ CallStep \/ WorkerStep

\* The worker is a thread the scheduler runs, and a thread inside a call of
\* the session goes on.  Nothing is assumed of the audio thread or the user.
Spec == Init /\ [][Next]_vars /\ WF_vars(WorkerStep) /\ WF_vars(CallStep)

-----------------------------------------------------------------------------
(* Properties *)

\* The spill is one unbroken stretch of what the tap accepted: no frame of the
\* ring, the pre-roll or the final drain is skipped, repeated or reordered on
\* its way through the worker (`run` and `append` in capture.rs).  The three
\* properties of the file except the take arm() overtook: its worker is sent
\* back to Armed with frames already in the file.
SpillUnbroken ==
  overtaken # "take" => \A i \in 1..(Len(wav) - 1) : wav[i + 1] = wav[i] + 1

\* "Anything still in the ring at stop time belongs to the rip (up to the
\* max-duration cap)": a stopped recording under the cap holds every frame
\* accepted before the loop was left, the ones pushed between the empty pop
\* and the check of the producer included.
StopKeepsTail ==
  overtaken # "take" /\ state = "Stopped" /\ started # "none"
  /\ recordedFrames < MaxFrames /\ endOfInput >= startFrame
    => wav # <<>> /\ Last(wav) >= endOfInput

\* Where the file begins.  A rip started by the needle drop holds the drop: a
\* full pre-roll lies ahead of the triggering block, as far as the tap goes
\* back.  A rip the operator starts holds nothing of the backlog before it.
BeginsAtTheDrop ==
  overtaken # "take" /\ wav # <<>> /\ recordedFrames > 0 /\ arms = 1
    => wav[1] = IF started = "auto" /\ startFrame > PreRollCap THEN startFrame - PreRollCap
                ELSE IF started = "auto" THEN 1 ELSE startFrame

\* The hard cap bounds the file whatever the tap pushes meanwhile: a take ends
\* at most one block past the cap, and the final drain, which the tap keeps
\* refilling, adds no second one.  A take that opens with a pre-roll and a
\* block longer than the cap together is the only longer one, and a take sent
\* back to Armed may trigger once more short of the cap.
FileIsCapped ==
  \/ Len(wav) < MaxFrames + BlockMax
  \/ Len(wav) <= PreRollCap + BlockMax
  \/ overtaken = "take" /\ Len(wav) < MaxFrames + PreRollCap + BlockMax

\* `require_stopped` lets a plan be edited only once the worker was joined:
\* then the file is closed, the reason is published, and the manifest the
\* boundaries are validated against has the length of the file, and so has
\* rip.json if wait_stopped returned Ok.
EditsSeeFinalLength ==
  state = "Stopped" /\ ~worker /\ op = "none"
    => /\ finalized /\ stopReason # "None"
       /\ recordedFrames = Len(wav) /\ manifestFrames = Len(wav)
       /\ synced => savedFrames = Len(wav)

\* Stopped and Failed are final until the next arm(): no late store of the
\* worker takes the session out of them.
TerminalIsFinal == [][(state \in Terminal /\ op # "arm") => state' = state]_vars

\* "Request a stop. The worker drains the ring tail, finalizes the WAV, and
\* lands in Stopped": a stop that no later start() overrides lands, unless
\* arm() overwrote the end the worker had already come to.
StopLands ==
  lastRequest = "Stop"
    ~> (state \in Terminal \/ lastRequest = "Start" \/ overtaken = "end")

\* "Never leave a live capture thread behind": dropping the session returns,
\* however fast the tap refills the ring the final drain empties.
DropReturns == op = "drop" ~> op = "dropped"

\* Input loss is a fail-safe stop: once the producer is gone an armed session
\* ends by itself, recording or not.
InputLossStops == (~held /\ worker) ~> (state \in Terminal \/ held \/ overtaken = "end")
=============================================================================
