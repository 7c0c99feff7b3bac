-------------------------------- MODULE RipFfi --------------------------------
(***************************************************************************)
(* The rip session as the application sees it: DubRipSession               *)
(* (dub-ffi/src/rip.rs), an object any thread may call, and the three      *)
(* threads behind it: the capture worker, the commit worker and the        *)
(* recognition worker.  They share the session, the marker table and the   *)
(* job state, each under a mutex of its own, and the flags `synced` and    *)
(* `cancelled`.                                                            *)
(*                                                                         *)
(* A critical section that neither waits nor takes another lock is one     *)
(* step.  So a lock has a holder here only while it is held across steps:  *)
(* the session by the commit and by a wait for the capture to end, the     *)
(* marker table by an edit of the splits.  A call that is refused at its   *)
(* entry changes nothing and is not a step.                                *)
(***************************************************************************)
EXTENDS Naturals, FiniteSets

CONSTANTS
  Clients,    \* threads that call the object
  Positions   \* where a split may be

\* A lock names its holder, or one of these.
ASSUME ClientsAssumption == "free" \notin Clients /\ "commit" \notin Clients

VARIABLES
  capture,      \* "live" (armed or recording), "stopped", "failed"
  joined,       \* the capture worker was joined and the length synced
  session,      \* who holds the session mutex across steps: "free" if nobody
  splits,       \* who holds the marker table, likewise
  synced, cancelled,
  cuts,         \* the boundaries in the manifest
  hasEntries,   \* the manifest has track entries
  named,        \* the splits whose recognised names the entries carry
  imported,     \* the entries that carry a library_uuid, by index
  markers,      \* the frames of the marker table
  dir,          \* the session directory is there
  job,          \* CommitJob: running, finished, complete
  commit,       \* the commit worker: "none", "spawned", "running", "report"
  outcome,      \* whether its pass is complete
  rec,          \* RecognizeJob: running, finished, the splits it named
  recognizer,   \* its worker: "none", "spawned", "network"
  basis,        \* the splits that worker read
  pc, call,     \* where each client is, in which call
  arg,          \* the splits it is about to write
  \* history, read by properties only
  overlapped,   \* two clients have been in calls at once
  unsaved,      \* a save of the manifest has failed
  moved         \* the splits were edited since a recognition pass was begun

plan == <<cuts, hasEntries, named, imported>>
worker == <<commit, outcome>>
recognition == <<rec, recognizer, basis>>
flags == <<synced, cancelled>>
history == <<overlapped, unsaved, moved>>
clients == <<pc, call, arg>>
vars == <<capture, joined, session, splits, flags, plan, markers, dir, job, worker,
          recognition, clients, history>>

\* What a call of each client leaves alone unless it says otherwise.
OthersOfEdit == <<capture, dir, worker, recognition, overlapped>>
Others == <<OthersOfEdit, moved>>

Calls == {"status", "stop", "cancel", "split", "meta", "confirm", "recognize", "apply"}
None == {"none"}  \* no splits, as opposed to an empty set of them
Plans == SUBSET Positions
Entries(s) == 1..(Cardinality(s) + 1)  \* the track entries of these splits

Init ==
  /\ \/ capture = "live" /\ joined = FALSE /\ synced = FALSE
        /\ cuts = {} /\ hasEntries = FALSE /\ imported = {}
     \/ capture = "stopped" /\ joined = TRUE /\ synced = TRUE   \* `resumed`
        /\ cuts \in Plans /\ imported \in SUBSET Entries(cuts)
        /\ hasEntries \in (IF imported # {} \/ cuts # {} THEN {TRUE} ELSE BOOLEAN)
  /\ markers = cuts /\ named = None
  /\ session = "free" /\ splits = "free" /\ cancelled = FALSE /\ dir = TRUE
  /\ job = [running |-> FALSE, finished |-> FALSE, complete |-> FALSE]
  /\ commit = "none" /\ outcome = FALSE
  /\ rec = [running |-> FALSE, finished |-> FALSE, splits |-> None]
  /\ recognizer = "none" /\ basis = None
  /\ pc = [c \in Clients |-> "idle"] /\ call = [c \in Clients |-> "none"]
  /\ arg = [c \in Clients |-> None]
  /\ overlapped = FALSE /\ unsaved = FALSE /\ moved = FALSE

-----------------------------------------------------------------------------
(* Steps of a client *)

Goto(c, step) == pc' = [pc EXCEPT ![c] = step] /\ UNCHANGED <<call, arg>>
GotoWith(c, step, s) ==
  pc' = [pc EXCEPT ![c] = step] /\ arg' = [arg EXCEPT ![c] = s] /\ UNCHANGED call
Return(c) ==
  /\ pc' = [pc EXCEPT ![c] = "idle"] /\ call' = [call EXCEPT ![c] = "none"]
  /\ arg' = [arg EXCEPT ![c] = None]

Free(lock) == lock = "free"
Stopped == capture = "stopped"
Terminal == capture \in {"stopped", "failed"}

\* require_stopped: no worker, and Stopped.
Editable == joined /\ Stopped

FirstStep ==
  [status |-> "statusJob", stop |-> "stopRequest", cancel |-> "cancelJob",
   split |-> "guard", meta |-> "guard", confirm |-> "sync", recognize |-> "sync",
   apply |-> "applyStatus"]

\* A call begins; each but cancel starts with guard_not_cancelled.
Enter(c) ==
  /\ pc[c] = "idle"
  /\ \E k \in Calls :
       /\ k = "cancel" \/ ~cancelled
       /\ call' = [call EXCEPT ![c] = k]
       /\ pc' = [pc EXCEPT ![c] = FirstStep[k]]
  /\ overlapped' = (overlapped \/ \E d \in Clients \ {c} : pc[d] # "idle")
  /\ UNCHANGED <<capture, joined, session, splits, flags, plan, markers, dir, job,
                 worker, recognition, arg, unsaved, moved>>

\* Mutant: a running commit does not refuse the edit.
GuardMutableComplete(c) ==
  /\ pc[c] = "guard"
  /\ IF job.finished /\ job.complete THEN Return(c) ELSE Goto(c, "sync")
  /\ UNCHANGED <<joined, session, splits, flags, plan, markers, job, unsaved, Others>>

\* guard_mutable, the part under the job mutex.
GuardMutable(c) ==
  /\ pc[c] = "guard"
  /\ IF job.running \/ (job.finished /\ job.complete)
     THEN Return(c) ELSE Goto(c, "sync")
  /\ UNCHANGED <<joined, session, splits, flags, plan, markers, job, unsaved, Others>>

AfterSync ==
  [split |-> "lockSplits", meta |-> "meta", confirm |-> "confirmRead",
   recognize |-> "recognizeRead", status |-> "statusRead"]

\* sync_if_terminal: joins the worker once the capture has ended.
SyncIfTerminal(c) ==
  /\ pc[c] = "sync"
  /\ Goto(c, AfterSync[call[c]])
  /\ \/ /\ synced \/ (Free(session) /\ ~Terminal)
        /\ UNCHANGED <<joined, synced>>
     \/ /\ ~synced /\ Free(session) /\ Terminal
        /\ joined' = TRUE /\ synced' = TRUE
  /\ UNCHANGED <<session, splits, cancelled, plan, markers, job, unsaved, Others>>

\* status: the job first, and then the side's bounds from the session.
StatusJob(c) ==
  /\ pc[c] = "statusJob"
  /\ Goto(c, IF job.running \/ job.finished THEN "statusRead" ELSE "sync")
  /\ UNCHANGED <<joined, session, splits, flags, plan, markers, job, unsaved, Others>>

StatusRead(c) ==
  /\ pc[c] = "statusRead" /\ Free(session)
  /\ Return(c)
  /\ UNCHANGED <<joined, session, splits, flags, plan, markers, job, unsaved, Others>>

\* stop: the request under the session mutex, ...
StopRequest(c) ==
  /\ pc[c] = "stopRequest" /\ Free(session)
  /\ Goto(c, "stopSync")
  /\ UNCHANGED <<joined, session, splits, flags, plan, markers, job, unsaved, Others>>

\* ... then sync_stopped, which keeps it while it waits.
StopSync(c) ==
  /\ pc[c] = "stopSync"
  /\ IF synced THEN Return(c) /\ UNCHANGED session
     ELSE Free(session) /\ session' = c /\ Goto(c, "stopWait")
  /\ UNCHANGED <<joined, splits, flags, plan, markers, job, unsaved, Others>>

\* Mutant: no timeout.
StopWaitForever(c) ==
  /\ pc[c] = "stopWait" /\ Terminal
  /\ session' = "free" /\ Return(c)
  /\ joined' = TRUE /\ synced' = TRUE
  /\ UNCHANGED <<splits, cancelled, plan, markers, job, unsaved, Others>>

\* wait_stopped joins an ended capture or, on a live one, times out.  The length
\* of one that stopped is then saved, and unless that works stop fails.
StopWait(c) ==
  /\ pc[c] = "stopWait"
  /\ session' = "free" /\ Return(c)
  /\ joined' = (joined \/ Terminal)
  /\ synced' \in (IF ~Terminal THEN {synced} ELSE IF Stopped THEN {synced, synced \/ dir} ELSE {TRUE})
  /\ UNCHANGED <<splits, cancelled, plan, markers, job, unsaved, Others>>

-----------------------------------------------------------------------------
(* Edits of the plan *)

\* Mutant: the marker table is released before the session takes the plan.
LockSplitsBriefly(c) ==
  /\ pc[c] = "lockSplits" /\ Free(splits)
  /\ \E s \in Plans : GotoWith(c, "editPlan", s)
  /\ UNCHANGED <<joined, session, splits, flags, plan, markers, job, unsaved, Others>>

\* add_split, move_split, remove_split and auto_split hold the marker table ...
LockSplits(c) ==
  /\ pc[c] = "lockSplits" /\ Free(splits)
  /\ splits' = c
  /\ \E s \in Plans : GotoWith(c, "editPlan", s)
  /\ UNCHANGED <<joined, session, flags, plan, markers, job, unsaved, Others>>

\* ... while the session takes the new plan, or fails to save it when the one
\* in memory has changed, or refuses it: not stopped yet, or not a valid plan.
\* Entries stay with their index; those past the last split go, imported or not.
NewPlan(s) == cuts' = s /\ hasEntries' = TRUE /\ imported' = imported \cap Entries(s)
EditPlan(c) ==
  /\ pc[c] = "editPlan" /\ Free(session)
  /\ \/ /\ Editable /\ dir
        /\ NewPlan(arg[c])
        /\ Goto(c, "editMarkers") /\ UNCHANGED <<splits, unsaved>>
     \/ /\ Editable
        /\ NewPlan(arg[c])
        /\ splits' = "free" /\ Return(c) /\ unsaved' = TRUE
     \/ /\ splits' = "free" /\ Return(c) /\ UNCHANGED <<cuts, hasEntries, imported, unsaved>>
  /\ moved' = (moved \/ cuts' # cuts)
  /\ UNCHANGED <<joined, session, flags, named, markers, job, OthersOfEdit>>

\* ... and only then the marker table does.
EditMarkers(c) ==
  /\ pc[c] = "editMarkers"
  /\ markers' = arg[c]
  /\ splits' = "free" /\ Return(c)
  /\ UNCHANGED <<joined, session, flags, plan, job, unsaved, Others>>

\* set_segment_dropped and set_segment_metadata: a side without entries is
\* first given the one of the whole side.
EditMeta(c) ==
  /\ pc[c] = "meta" /\ Free(session)
  /\ IF Editable /\ ~hasEntries
     THEN NewPlan({})
     ELSE UNCHANGED <<cuts, hasEntries, imported>>
  /\ Return(c)
  /\ UNCHANGED <<joined, session, splits, flags, named, markers, job, unsaved, Others>>

-----------------------------------------------------------------------------
(* Recognition *)

RecognizeRead(c) ==
  /\ pc[c] = "recognizeRead" /\ Free(session)
  /\ IF Stopped THEN Goto(c, "recognizeJob") ELSE Return(c)
  /\ UNCHANGED <<joined, session, splits, flags, plan, markers, job, unsaved, Others>>

\* Mutant: a new pass keeps the result of the one before.
RecognizeJobKeeps(c) ==
  /\ pc[c] = "recognizeJob"
  /\ IF rec.running THEN Return(c) /\ UNCHANGED <<rec, moved>>
     ELSE /\ rec' = [rec EXCEPT !.running = TRUE]
          /\ moved' = FALSE
          /\ Goto(c, "recognizeSpawn")
  /\ UNCHANGED <<capture, joined, session, splits, flags, plan, markers, dir, job,
                 worker, recognizer, basis, overlapped, unsaved>>

\* One pass at a time, which forgets the result of the one before.  The thread
\* is spawned, or is not and the flag goes back.
RecognizeJob(c) ==
  /\ pc[c] = "recognizeJob"
  /\ IF rec.running THEN Return(c) /\ UNCHANGED <<rec, moved>>
     ELSE /\ rec' = [running |-> TRUE, finished |-> FALSE, splits |-> None]
          /\ moved' = FALSE
          /\ Goto(c, "recognizeSpawn")
  /\ UNCHANGED <<capture, joined, session, splits, flags, plan, markers, dir, job,
                 worker, recognizer, basis, overlapped, unsaved>>

RecognizeSpawn(c) ==
  /\ pc[c] = "recognizeSpawn"
  /\ Return(c)
  /\ \/ recognizer' = "spawned" /\ UNCHANGED rec
     \/ rec' = [rec EXCEPT !.running = FALSE] /\ UNCHANGED recognizer
  /\ UNCHANGED <<capture, joined, session, splits, flags, plan, markers, dir, job,
                 worker, basis, history>>

\* recognize_side reads the plan under the session mutex, and then the spill
\* and the network without it.
ReadPlan ==
  /\ recognizer = "spawned" /\ Free(session)
  /\ basis' = cuts /\ recognizer' = "network"
  /\ UNCHANGED <<capture, joined, session, splits, flags, plan, markers, dir, job,
                 worker, rec, clients, history>>

Publish ==
  /\ recognizer = "network"
  /\ \E found \in (IF dir THEN {basis, None} ELSE {None}) :
       rec' = [running |-> FALSE, finished |-> TRUE, splits |-> found]
  /\ recognizer' = "none" /\ basis' = None
  /\ UNCHANGED <<capture, joined, session, splits, flags, plan, markers, dir, job,
                 worker, clients, history>>

\* apply_recognition: a snapshot of the result, and then the entries by index.
ApplyStatus(c) ==
  /\ pc[c] = "applyStatus"
  /\ IF rec.finished THEN GotoWith(c, "applyPlan", rec.splits) ELSE Return(c)
  /\ UNCHANGED <<joined, session, splits, flags, plan, markers, job, unsaved, Others>>

ApplyPlan(c) ==
  /\ pc[c] = "applyPlan" /\ Free(session)
  /\ named' = IF Editable /\ hasEntries /\ arg[c] # None THEN arg[c] ELSE named
  /\ Return(c)
  /\ UNCHANGED <<joined, session, splits, flags, cuts, hasEntries, imported, markers,
                 job, unsaved, Others>>

-----------------------------------------------------------------------------
(* Commit *)

\* confirm_encode_and_import: the capture must have stopped, ...
ConfirmRead(c) ==
  /\ pc[c] = "confirmRead" /\ Free(session)
  /\ IF Stopped THEN Goto(c, "confirmJob") ELSE Return(c)
  /\ UNCHANGED <<joined, session, splits, flags, plan, markers, job, unsaved, Others>>

Confirmed == [running |-> TRUE, finished |-> FALSE, complete |-> FALSE]

\* Mutant: a running commit does not refuse another.
ConfirmJobAgain(c) ==
  /\ pc[c] = "confirmJob"
  /\ job' = Confirmed /\ Goto(c, "spawn")
  /\ UNCHANGED <<joined, session, splits, flags, plan, markers, unsaved, Others>>

\* ... no commit may be running, and this one is from here on; ...
ConfirmJob(c) ==
  /\ pc[c] = "confirmJob"
  /\ IF job.running THEN Return(c) /\ UNCHANGED job
     ELSE job' = Confirmed /\ Goto(c, "spawn")
  /\ UNCHANGED <<joined, session, splits, flags, plan, markers, unsaved, Others>>

\* ... unless its thread cannot be spawned.
Spawn(c) ==
  /\ pc[c] = "spawn"
  /\ \/ commit' = "spawned" /\ Return(c)
     \/ Goto(c, "unspawn") /\ UNCHANGED commit
  /\ UNCHANGED <<capture, joined, session, splits, flags, plan, markers, dir, job,
                 outcome, recognition, history>>

Unspawn(c) ==
  /\ pc[c] = "unspawn"
  /\ job' = [job EXCEPT !.running = FALSE, !.finished = FALSE]
  /\ Return(c)
  /\ UNCHANGED <<joined, session, splits, flags, plan, markers, unsaved, Others>>

\* run_commit_job: without a library, or with a capture that was not joined,
\* the pass fails at once; else it keeps the session until it is done.
CommitLock ==
  /\ commit = "spawned"
  /\ \/ /\ Free(session) /\ Editable
        /\ session' = "commit" /\ commit' = "running" /\ hasEntries' = TRUE
        /\ UNCHANGED outcome
     \/ /\ commit' = "report" /\ outcome' = FALSE
        /\ UNCHANGED <<session, hasEntries>>
  /\ UNCHANGED <<capture, joined, splits, flags, cuts, named, imported, markers, dir,
                 job, recognition, clients, history>>

CommitImport ==
  /\ commit = "running" /\ dir
  /\ \E i \in Entries(cuts) : imported' = imported \cup {i}
  /\ UNCHANGED <<capture, joined, session, splits, flags, cuts, hasEntries, named,
                 markers, dir, job, worker, recognition, clients, history>>

CommitEnd ==
  /\ commit = "running"
  /\ outcome' \in (IF dir THEN BOOLEAN ELSE {FALSE})
  /\ session' = "free" /\ commit' = "report"
  /\ UNCHANGED <<capture, joined, splits, flags, plan, markers, dir, job, recognition,
                 clients, history>>

\* Mutant: an unfinished pass stays running.
CommitReportUnfinished ==
  /\ commit = "report"
  /\ job' = [running |-> ~outcome, finished |-> outcome, complete |-> outcome]
  /\ commit' = "none" /\ outcome' = FALSE
  /\ UNCHANGED <<capture, joined, session, splits, flags, plan, markers, dir,
                 recognition, clients, history>>

CommitReport ==
  /\ commit = "report"
  /\ job' = [running |-> FALSE, finished |-> TRUE, complete |-> outcome]
  /\ commit' = "none" /\ outcome' = FALSE
  /\ UNCHANGED <<capture, joined, session, splits, flags, plan, markers, dir,
                 recognition, clients, history>>

-----------------------------------------------------------------------------
(* Cancel *)

\* Mutant: a running commit does not refuse the cancel.
CancelJobAnyway(c) ==
  /\ pc[c] = "cancelJob"
  /\ Goto(c, "cancelPlan")
  /\ UNCHANGED <<joined, session, splits, flags, plan, markers, job, unsaved, Others>>

\* Refused while a commit runs, ...
CancelJob(c) ==
  /\ pc[c] = "cancelJob"
  /\ IF job.running THEN Return(c) ELSE Goto(c, "cancelPlan")
  /\ UNCHANGED <<joined, session, splits, flags, plan, markers, job, unsaved, Others>>

\* ... and with a track of the plan in the library.
CancelPlan(c) ==
  /\ pc[c] = "cancelPlan" /\ Free(session)
  /\ IF imported # {} THEN Return(c) ELSE Goto(c, "cancelSwap")
  /\ UNCHANGED <<joined, session, splits, flags, plan, markers, job, unsaved, Others>>

CancelSwap(c) ==
  /\ pc[c] = "cancelSwap"
  /\ IF cancelled THEN Return(c) ELSE Goto(c, "cancelStop")
  /\ cancelled' = TRUE
  /\ UNCHANGED <<joined, session, splits, synced, plan, markers, job, unsaved, Others>>

CancelStop(c) ==
  /\ pc[c] = "cancelStop" /\ Free(session)
  /\ IF Terminal
     THEN joined' = TRUE /\ Goto(c, "cancelRemove") /\ UNCHANGED session
     ELSE session' = c /\ Goto(c, "cancelWait") /\ UNCHANGED joined
  /\ UNCHANGED <<splits, flags, plan, markers, job, unsaved, Others>>

CancelWait(c) ==
  /\ pc[c] = "cancelWait"
  /\ joined' = (joined \/ Terminal)
  /\ session' = "free" /\ Goto(c, "cancelRemove")
  /\ UNCHANGED <<splits, flags, plan, markers, job, unsaved, Others>>

\* The directory goes, or its removal fails.
CancelRemove(c) ==
  /\ pc[c] = "cancelRemove"
  /\ synced' = TRUE
  /\ dir' \in {dir, FALSE}
  /\ Return(c)
  /\ UNCHANGED <<capture, joined, session, splits, cancelled, plan, markers, job,
                 worker, recognition, history>>

-----------------------------------------------------------------------------
\* The capture ends: a stop, the cap, silence, input loss, or a failure.
Land ==
  /\ capture = "live"
  /\ capture' \in {"stopped", "failed"}
  /\ UNCHANGED <<joined, session, splits, flags, plan, markers, dir, job, worker,
                 recognition, clients, history>>

ClientStep(c) ==
  \/ GuardMutable(c) \/ SyncIfTerminal(c) \/ StatusJob(c) \/ StatusRead(c)
  \/ StopRequest(c) \/ StopSync(c) \/ StopWait(c)
  \/ LockSplits(c) \/ EditPlan(c) \/ EditMarkers(c) \/ EditMeta(c)
  \/ RecognizeRead(c) \/ RecognizeJob(c) \/ RecognizeSpawn(c)
  \/ ApplyStatus(c) \/ ApplyPlan(c)
  \/ ConfirmRead(c) \/ ConfirmJob(c) \/ Spawn(c) \/ Unspawn(c)
  \/ CancelJob(c) \/ CancelPlan(c) \/ CancelSwap(c) \/ CancelStop(c)
  \/ CancelWait(c) \/ CancelRemove(c)

CommitStep == CommitLock \/ CommitEnd \/ CommitReport
RecognizerStep == ReadPlan \/ Publish

Next ==
  \/ \E c \in Clients : Enter(c) \/ ClientStep(c)
  \/ CommitStep \/ CommitImport \/ RecognizerStep \/ Land

Spec == Init /\ [][Next]_vars

\* Every thread inside a call goes on, and so do the two workers.
FairSpec ==
  /\ Spec /\ WF_vars(CommitStep) /\ WF_vars(RecognizerStep)
  /\ \A c \in Clients : WF_vars(ClientStep(c))

-----------------------------------------------------------------------------
(* Properties *)

Steps == {"idle", "guard", "sync", "statusJob", "statusRead", "stopRequest", "stopSync",
          "stopWait", "lockSplits", "editPlan", "editMarkers", "meta", "recognizeRead",
          "recognizeJob", "recognizeSpawn", "applyStatus", "applyPlan", "confirmRead",
          "confirmJob", "spawn", "unspawn", "cancelJob", "cancelPlan", "cancelSwap",
          "cancelStop", "cancelWait", "cancelRemove"}

SessionOK ==
  /\ capture \in {"live", "stopped", "failed"} /\ joined \in BOOLEAN
  /\ session \in Clients \cup {"free", "commit"} /\ splits \in Clients \cup {"free"}
  /\ synced \in BOOLEAN /\ cancelled \in BOOLEAN
  /\ cuts \in Plans /\ hasEntries \in BOOLEAN
  /\ imported \subseteq Entries(cuts)
  /\ named \in Plans \cup {None} /\ markers \in Plans /\ dir \in BOOLEAN
  /\ overlapped \in BOOLEAN /\ unsaved \in BOOLEAN /\ moved \in BOOLEAN
JobsOK ==
  /\ job \in [running : BOOLEAN, finished : BOOLEAN, complete : BOOLEAN]
  /\ commit \in {"none", "spawned", "running", "report"} /\ outcome \in BOOLEAN
  /\ rec \in [running : BOOLEAN, finished : BOOLEAN, splits : Plans \cup {None}]
  /\ recognizer \in {"none", "spawned", "network"} /\ basis \in Plans \cup {None}
CallersOK ==
  /\ pc \in [Clients -> Steps] /\ call \in [Clients -> Calls \cup {"none"}]
  /\ arg \in [Clients -> Plans \cup {None}]

\* Locks, flags, jobs and every caller keep their types.
TypeOK == SessionOK /\ JobsOK /\ CallersOK

\* The marker table the operator drags in and the plan the commit will cut are
\* the same whenever no edit is at work, however the calls of several threads
\* mix: "the caller mutates its id table only after this validates"
\* (apply_splits), under the one lock.
MarkersMatchPlan == Free(splits) /\ ~unsaved => markers = cuts

\* At most one commit is on its way, and `running`, on which every guard
\* relies, is set exactly as long as one is.
OneCommit ==
  LET confirming == {c \in Clients : pc[c] \in {"spawn", "unspawn"}}
  IN /\ Cardinality(confirming) <= (IF commit = "none" THEN 1 ELSE 0)
     /\ job.running <=> (confirming # {} \/ commit # "none")

\* "Imported segments live inside the session dir": for a caller that makes
\* one call at a time no cancel removes the directory while an entry of the plan
\* is imported, though it looks for them long before it removes anything.  An
\* import whose entry an edit of the splits took from the plan protects nothing.
ImportsSurvive == imported # {} /\ ~overlapped => dir

\* For such a caller the boundaries do not move under a commit or after one
\* that fully succeeded, though the guard is passed several steps before.
EditsGuarded ==
  [][cuts' # cuts /\ ~overlapped => ~job.running /\ ~(job.finished /\ job.complete)]_vars

\* No call waits for ever: not for a lock another call or a worker holds, and
\* not for a capture that does not end.
CallsReturn == \A c \in Clients : pc[c] # "idle" ~> pc[c] = "idle"

\* A commit that was confirmed is over in the end and may be tried again.
CommitLands == job.running ~> ~job.running

\* "A wrong match written into the library is worse than no match": recognised
\* names are written to the splits they were recognised for, if a caller that
\* makes one call at a time did not edit those since it asked for the names.
NamesFit == [][named' # named /\ ~overlapped /\ ~moved => named' = cuts]_vars
=============================================================================
