---------------------------- MODULE RipFfiProofs ----------------------------
(***************************************************************************)
(* The safety of RipFfi, for any number of calling threads and places of a *)
(* split.                                                                  *)
(***************************************************************************)
EXTENDS RipFfi, FiniteSetTheorems, TLAPS

-----------------------------------------------------------------------------
(* The invariant *)

\* What a step knows of the call it belongs to.
StepsFit ==
  \A c \in Clients :
    /\ pc[c] = "guard" => call[c] \in {"split", "meta"}
    /\ pc[c] = "statusJob" => call[c] = "status"
    /\ pc[c] = "sync" => call[c] \in DOMAIN AfterSync
    /\ pc[c] \in {"editPlan", "editMarkers"} => arg[c] \in Plans

\* One commit is on its way exactly while `running` is set: a caller that
\* starts it, or its worker.
Confirming(c) == pc[c] \in {"spawn", "unspawn"}
CommitInv ==
  /\ \A c, d \in Clients : Confirming(c) /\ Confirming(d) => c = d
  /\ \A c \in Clients : Confirming(c) => commit = "none"
  /\ job.running <=> (commit # "none" \/ \E c \in Clients : Confirming(c))

\* The marker table follows the plan, but for an edit between the two, which
\* holds the table; and a manifest without entries has no boundaries.
TableInv ==
  /\ \A c \in Clients : pc[c] \in {"editPlan", "editMarkers"} <=> splits = c
  /\ ~unsaved => \/ markers = cuts
                 \/ \E c \in Clients : splits = c /\ pc[c] = "editMarkers"
  /\ ~unsaved => \A c \in Clients : pc[c] = "editMarkers" => cuts = arg[c]
  /\ ~hasEntries => cuts = {}

\* A caller that makes one call at a time: what it has passed still holds.
PastGuard(c) == \/ pc[c] \in {"lockSplits", "editPlan", "editMarkers", "meta"}
                \/ pc[c] = "sync" /\ call[c] \in {"split", "meta"}
PastPlan(c) == pc[c] \in {"cancelSwap", "cancelStop", "cancelWait", "cancelRemove"}
AloneInv ==
  ~overlapped =>
    /\ \A c, d \in Clients : c # d => pc[c] = "idle" \/ pc[d] = "idle"
    /\ \A c \in Clients : PastGuard(c) => ~job.running /\ ~(job.finished /\ job.complete)
    /\ \A c \in Clients : PastPlan(c) \/ pc[c] = "cancelPlan" => ~job.running
    /\ \A c \in Clients : PastPlan(c) => imported = {}
    /\ imported # {} => dir

\* One recognition pass is on its way exactly while its flag is set.
PassInv ==
  /\ \A c, d \in Clients : pc[c] = "recognizeSpawn" /\ pc[d] = "recognizeSpawn" => c = d
  /\ \A c \in Clients : pc[c] = "recognizeSpawn" => rec.running /\ recognizer = "none"
  /\ recognizer # "none" => rec.running
  /\ recognizer # "network" => basis = None

\* What it has read, found, or gives to a caller is the plan, until an edit.
NamesInv ==
  ~moved => /\ basis \in {None, cuts}
            /\ rec.splits \in {None, cuts}
            /\ ~overlapped => \A c \in Clients : pc[c] = "applyPlan" => arg[c] \in {None, cuts}

IInv == TypeOK /\ StepsFit /\ CommitInv /\ TableInv /\ AloneInv /\ PassInv /\ NamesInv

-----------------------------------------------------------------------------
(* Every step keeps it *)

\* Every step keeps the types of the session.
LEMMA SessionKeep ==
  ASSUME SessionOK, StepsFit, CallersOK, [Next]_vars
  PROVE  SessionOK'
<1>1. ASSUME NEW c \in Clients, Enter(c) PROVE SessionOK'
  BY <1>1, ClientsAssumption DEF Enter, recognition, worker, flags, plan, FirstStep, Calls,
        SessionOK, Plans
<1>2. ASSUME NEW c \in Clients, GuardMutable(c) PROVE SessionOK'
  BY <1>2, ClientsAssumption DEF GuardMutable, Others, flags, plan, OthersOfEdit, recognition,
        worker, SessionOK, Plans
<1>3. ASSUME NEW c \in Clients, SyncIfTerminal(c) PROVE SessionOK'
  <2>1. UNCHANGED <<capture, session, splits, cancelled, cuts, hasEntries, imported, named, markers, dir, overlapped, unsaved, moved>>
    BY <1>3 DEF SyncIfTerminal, Others, OthersOfEdit, worker, flags, plan, recognition
  <2>2. joined' \in BOOLEAN /\ synced' \in BOOLEAN
    BY <1>3 DEF SyncIfTerminal, Others, OthersOfEdit, worker, flags, plan, recognition, SessionOK
  <2> QED
    BY <2>1, <2>2 DEF SessionOK
<1>4. ASSUME NEW c \in Clients, StatusJob(c) PROVE SessionOK'
  BY <1>4, ClientsAssumption DEF StatusJob, Others, flags, plan, OthersOfEdit, recognition,
        worker, SessionOK, Plans
<1>5. ASSUME NEW c \in Clients, StatusRead(c) PROVE SessionOK'
  BY <1>5, ClientsAssumption DEF StatusRead, Others, flags, plan, Free, OthersOfEdit, recognition,
        worker, SessionOK, Plans
<1>6. ASSUME NEW c \in Clients, StopRequest(c) PROVE SessionOK'
  BY <1>6, ClientsAssumption DEF StopRequest, Others, flags, plan, Free, OthersOfEdit,
        recognition, worker, SessionOK, Plans
<1>7. ASSUME NEW c \in Clients, StopSync(c) PROVE SessionOK'
  BY <1>7, ClientsAssumption DEF StopSync, Others, flags, plan, Free, OthersOfEdit, recognition,
        worker, SessionOK, Plans
<1>8. ASSUME NEW c \in Clients, StopWait(c) PROVE SessionOK'
  BY <1>8, ClientsAssumption DEF StopWait, Others, plan, Terminal, OthersOfEdit, recognition,
        worker, SessionOK, Plans
<1>9. ASSUME NEW c \in Clients, LockSplits(c) PROVE SessionOK'
  BY <1>9, ClientsAssumption DEF LockSplits, Others, flags, plan, Free, Plans, OthersOfEdit,
        recognition, worker, SessionOK
<1>10. ASSUME NEW c \in Clients, EditPlan(c) PROVE SessionOK'
  BY <1>10, ClientsAssumption DEF EditPlan, NewPlan, Goto, Return, OthersOfEdit, flags, Free, Editable,
        Stopped, recognition, worker, SessionOK, Plans, CallersOK, Steps, StepsFit, AfterSync
<1>11. ASSUME NEW c \in Clients, EditMarkers(c) PROVE SessionOK'
  BY <1>11, ClientsAssumption DEF EditMarkers, Return, Others, flags, plan, OthersOfEdit,
        recognition, worker, SessionOK, Plans, CallersOK, Steps, StepsFit, AfterSync
<1>12. ASSUME NEW c \in Clients, EditMeta(c) PROVE SessionOK'
  <2>1. UNCHANGED <<capture, joined, session, splits, synced, cancelled, named, markers, dir, overlapped, unsaved, moved>>
    BY <1>12 DEF EditMeta, NewPlan, Others, OthersOfEdit, worker, flags, plan, recognition, Plans
  <2>2. cuts' \in Plans /\ hasEntries' \in BOOLEAN /\ imported' \subseteq Entries(cuts')
    BY <1>12 DEF EditMeta, NewPlan, Others, OthersOfEdit, worker, flags, plan, recognition, Plans, SessionOK
  <2> QED
    BY <2>1, <2>2 DEF SessionOK
<1>13. ASSUME NEW c \in Clients, RecognizeRead(c) PROVE SessionOK'
  BY <1>13, ClientsAssumption DEF RecognizeRead, Others, flags, plan, Free, Stopped, OthersOfEdit,
        recognition, worker, SessionOK, Plans
<1>14. ASSUME NEW c \in Clients, RecognizeJob(c) PROVE SessionOK'
  <2>1. UNCHANGED <<capture, joined, session, splits, synced, cancelled, cuts, hasEntries, imported, named, markers, dir, overlapped, unsaved>>
    BY <1>14 DEF RecognizeJob, flags, plan, worker
  <2>2. moved' \in BOOLEAN
    BY <1>14 DEF RecognizeJob, flags, plan, worker, SessionOK
  <2> QED
    BY <2>1, <2>2 DEF SessionOK
<1>15. ASSUME NEW c \in Clients, RecognizeSpawn(c) PROVE SessionOK'
  BY <1>15, ClientsAssumption DEF RecognizeSpawn, history, worker, flags, plan, SessionOK, Plans
<1>16. ASSUME NEW c \in Clients, ApplyStatus(c) PROVE SessionOK'
  BY <1>16, ClientsAssumption DEF ApplyStatus, Others, flags, plan, OthersOfEdit, recognition,
        worker, SessionOK, Plans
<1>17. ASSUME NEW c \in Clients, ApplyPlan(c) PROVE SessionOK'
  <2>1. UNCHANGED <<capture, joined, session, splits, synced, cancelled, cuts, hasEntries, imported, markers, dir, overlapped, unsaved, moved>>
    BY <1>17 DEF ApplyPlan, Others, OthersOfEdit, worker, flags, plan, recognition, CallersOK
  <2>2. named' \in Plans \cup {None}
    BY <1>17 DEF ApplyPlan, Others, OthersOfEdit, worker, flags, plan, recognition, CallersOK, SessionOK
  <2> QED
    BY <2>1, <2>2 DEF SessionOK
<1>18. ASSUME NEW c \in Clients, ConfirmRead(c) PROVE SessionOK'
  BY <1>18, ClientsAssumption DEF ConfirmRead, Others, flags, plan, Free, Stopped, OthersOfEdit,
        recognition, worker, SessionOK, Plans
<1>19. ASSUME NEW c \in Clients, ConfirmJob(c) PROVE SessionOK'
  BY <1>19, ClientsAssumption DEF ConfirmJob, Others, flags, plan, Confirmed, OthersOfEdit,
        recognition, worker, SessionOK, Plans
<1>20. ASSUME NEW c \in Clients, Spawn(c) PROVE SessionOK'
  BY <1>20, ClientsAssumption DEF Spawn, history, recognition, flags, plan, SessionOK, Plans
<1>21. ASSUME NEW c \in Clients, Unspawn(c) PROVE SessionOK'
  BY <1>21, ClientsAssumption DEF Unspawn, Others, flags, plan, OthersOfEdit, recognition, worker,
        SessionOK, Plans
<1>22. ASSUME NEW c \in Clients, CancelJob(c) PROVE SessionOK'
  BY <1>22, ClientsAssumption DEF CancelJob, Others, flags, plan, OthersOfEdit, recognition,
        worker, SessionOK, Plans
<1>23. ASSUME NEW c \in Clients, CancelPlan(c) PROVE SessionOK'
  BY <1>23, ClientsAssumption DEF CancelPlan, Others, flags, plan, Free, OthersOfEdit,
        recognition, worker, SessionOK, Plans
<1>24. ASSUME NEW c \in Clients, CancelSwap(c) PROVE SessionOK'
  BY <1>24, ClientsAssumption DEF CancelSwap, Others, plan, OthersOfEdit, recognition, worker,
        SessionOK, Plans
<1>25. ASSUME NEW c \in Clients, CancelStop(c) PROVE SessionOK'
  BY <1>25, ClientsAssumption DEF CancelStop, Others, flags, plan, Free, Terminal, OthersOfEdit,
        recognition, worker, SessionOK, Plans
<1>26. ASSUME NEW c \in Clients, CancelWait(c) PROVE SessionOK'
  BY <1>26, ClientsAssumption DEF CancelWait, Others, flags, plan, Terminal, OthersOfEdit,
        recognition, worker, SessionOK, Plans
<1>27. ASSUME NEW c \in Clients, CancelRemove(c) PROVE SessionOK'
  <2>1. UNCHANGED <<capture, joined, session, splits, cancelled, cuts, hasEntries, imported, named, markers, overlapped, unsaved, moved>>
    BY <1>27 DEF CancelRemove, plan, history
  <2>2. synced' \in BOOLEAN /\ dir' \in BOOLEAN
    BY <1>27 DEF CancelRemove, plan, history, SessionOK
  <2> QED
    BY <2>1, <2>2 DEF SessionOK
<1>28. ASSUME CommitLock PROVE SessionOK'
  <2>1. UNCHANGED <<capture, joined, splits, synced, cancelled, cuts, imported, named, markers, dir, overlapped, unsaved, moved>>
    BY <1>28 DEF CommitLock, flags, history
  <2>2. session' \in Clients \cup {"free", "commit"} /\ hasEntries' \in BOOLEAN
    BY <1>28 DEF CommitLock, flags, history, SessionOK
  <2> QED
    BY <2>1, <2>2 DEF SessionOK
<1>29. ASSUME CommitImport PROVE SessionOK'
  BY <1>29, ClientsAssumption DEF CommitImport, history, clients, recognition, worker, flags,
        SessionOK, Plans
<1>30. ASSUME CommitEnd PROVE SessionOK'
  BY <1>30, ClientsAssumption DEF CommitEnd, history, clients, recognition, flags, plan,
        SessionOK, Plans
<1>31. ASSUME CommitReport PROVE SessionOK'
  BY <1>31, ClientsAssumption DEF CommitReport, history, clients, recognition, flags, plan,
        SessionOK, Plans
<1>32. ASSUME ReadPlan PROVE SessionOK'
  BY <1>32, ClientsAssumption DEF ReadPlan, history, clients, worker, flags, plan, Free,
        SessionOK, Plans
<1>33. ASSUME Publish PROVE SessionOK'
  BY <1>33, ClientsAssumption DEF Publish, history, clients, worker, flags, plan, SessionOK, Plans
<1>34. ASSUME Land PROVE SessionOK'
  BY <1>34, ClientsAssumption DEF Land, history, clients, recognition, worker, flags, plan,
        SessionOK, Plans
<1>35. CASE UNCHANGED vars
  BY <1>35 DEF vars, flags, plan, worker, recognition, clients, history, SessionOK, Plans
<1> QED
  BY <1>1, <1>2, <1>3, <1>4, <1>5, <1>6, <1>7, <1>8, <1>9, <1>10, <1>11, <1>12, <1>13, <1>14, <1>15, <1>16, <1>17,
     <1>18, <1>19, <1>20, <1>21, <1>22, <1>23, <1>24, <1>25, <1>26, <1>27, <1>28, <1>29, <1>30, <1>31, <1>32, <1>33, <1>34, <1>35
  DEF Next, ClientStep, CommitStep, RecognizerStep

\* Every step keeps the types of the threads the session spawns.
LEMMA JobsKeep ==
  ASSUME JobsOK, SessionOK, CallersOK, [Next]_vars
  PROVE  JobsOK'
<1>1. ASSUME NEW c \in Clients, Enter(c) PROVE JobsOK'
  BY <1>1 DEF Enter, recognition, worker, flags, plan, FirstStep, Calls, JobsOK
<1>2. ASSUME NEW c \in Clients, GuardMutable(c) PROVE JobsOK'
  BY <1>2 DEF GuardMutable, Others, flags, plan, OthersOfEdit, recognition, worker, JobsOK
<1>3. ASSUME NEW c \in Clients, SyncIfTerminal(c) PROVE JobsOK'
  BY <1>3 DEF SyncIfTerminal, Others, plan, Free, Terminal, AfterSync, OthersOfEdit, recognition,
        worker, JobsOK
<1>4. ASSUME NEW c \in Clients, StatusJob(c) PROVE JobsOK'
  BY <1>4 DEF StatusJob, Others, flags, plan, OthersOfEdit, recognition, worker, JobsOK
<1>5. ASSUME NEW c \in Clients, StatusRead(c) PROVE JobsOK'
  BY <1>5 DEF StatusRead, Others, flags, plan, Free, OthersOfEdit, recognition, worker, JobsOK
<1>6. ASSUME NEW c \in Clients, StopRequest(c) PROVE JobsOK'
  BY <1>6 DEF StopRequest, Others, flags, plan, Free, OthersOfEdit, recognition, worker, JobsOK
<1>7. ASSUME NEW c \in Clients, StopSync(c) PROVE JobsOK'
  BY <1>7 DEF StopSync, Others, flags, plan, Free, OthersOfEdit, recognition, worker, JobsOK
<1>8. ASSUME NEW c \in Clients, StopWait(c) PROVE JobsOK'
  BY <1>8 DEF StopWait, Others, plan, Terminal, OthersOfEdit, recognition, worker, JobsOK
<1>9. ASSUME NEW c \in Clients, LockSplits(c) PROVE JobsOK'
  BY <1>9 DEF LockSplits, Others, flags, plan, Free, OthersOfEdit, recognition, worker, JobsOK
<1>10. ASSUME NEW c \in Clients, EditPlan(c) PROVE JobsOK'
  BY <1>10 DEF EditPlan, NewPlan, OthersOfEdit, flags, Free, Editable, Stopped, recognition, worker, JobsOK
<1>11. ASSUME NEW c \in Clients, EditMarkers(c) PROVE JobsOK'
  BY <1>11 DEF EditMarkers, Others, flags, plan, OthersOfEdit, recognition, worker, JobsOK
<1>12. ASSUME NEW c \in Clients, EditMeta(c) PROVE JobsOK'
  BY <1>12 DEF EditMeta, NewPlan, Others, flags, Free, Editable, Stopped, OthersOfEdit, recognition,
        worker, JobsOK
<1>13. ASSUME NEW c \in Clients, RecognizeRead(c) PROVE JobsOK'
  BY <1>13 DEF RecognizeRead, Others, flags, plan, Free, Stopped, OthersOfEdit, recognition,
        worker, JobsOK
<1>14. ASSUME NEW c \in Clients, RecognizeJob(c) PROVE JobsOK'
  <2>1. rec' \in {rec, [running |-> TRUE, finished |-> FALSE, splits |-> None]}
    BY <1>14 DEF RecognizeJob
  <2>2. [running |-> TRUE, finished |-> FALSE, splits |-> None]
          \in [running : BOOLEAN, finished : BOOLEAN, splits : Plans \cup {None}]
    OBVIOUS
  <2>3. UNCHANGED <<job, commit, outcome, recognizer, basis>>
    BY <1>14 DEF RecognizeJob, worker
  <2> QED
    BY <2>1, <2>2, <2>3 DEF JobsOK
<1>15. ASSUME NEW c \in Clients, RecognizeSpawn(c) PROVE JobsOK'
  BY <1>15 DEF RecognizeSpawn, history, worker, flags, plan, JobsOK
<1>16. ASSUME NEW c \in Clients, ApplyStatus(c) PROVE JobsOK'
  BY <1>16 DEF ApplyStatus, Others, flags, plan, OthersOfEdit, recognition, worker, JobsOK
<1>17. ASSUME NEW c \in Clients, ApplyPlan(c) PROVE JobsOK'
  BY <1>17 DEF ApplyPlan, Others, flags, Free, Editable, Stopped, OthersOfEdit, recognition,
        worker, JobsOK
<1>18. ASSUME NEW c \in Clients, ConfirmRead(c) PROVE JobsOK'
  BY <1>18 DEF ConfirmRead, Others, flags, plan, Free, Stopped, OthersOfEdit, recognition, worker,
        JobsOK
<1>19. ASSUME NEW c \in Clients, ConfirmJob(c) PROVE JobsOK'
  <2>1. job' \in {job, Confirmed}
    BY <1>19 DEF ConfirmJob
  <2>2. Confirmed \in [running : BOOLEAN, finished : BOOLEAN, complete : BOOLEAN]
    BY DEF Confirmed
  <2>3. UNCHANGED <<commit, outcome, rec, recognizer, basis>>
    BY <1>19 DEF ConfirmJob, Others, OthersOfEdit, worker, recognition
  <2> QED
    BY <2>1, <2>2, <2>3 DEF JobsOK
<1>20. ASSUME NEW c \in Clients, Spawn(c) PROVE JobsOK'
  BY <1>20 DEF Spawn, history, recognition, flags, plan, JobsOK
<1>21. ASSUME NEW c \in Clients, Unspawn(c) PROVE JobsOK'
  BY <1>21 DEF Unspawn, Others, flags, plan, OthersOfEdit, recognition, worker, JobsOK
<1>22. ASSUME NEW c \in Clients, CancelJob(c) PROVE JobsOK'
  BY <1>22 DEF CancelJob, Others, flags, plan, OthersOfEdit, recognition, worker, JobsOK
<1>23. ASSUME NEW c \in Clients, CancelPlan(c) PROVE JobsOK'
  BY <1>23 DEF CancelPlan, Others, flags, plan, Free, OthersOfEdit, recognition, worker, JobsOK
<1>24. ASSUME NEW c \in Clients, CancelSwap(c) PROVE JobsOK'
  BY <1>24 DEF CancelSwap, Others, plan, OthersOfEdit, recognition, worker, JobsOK
<1>25. ASSUME NEW c \in Clients, CancelStop(c) PROVE JobsOK'
  BY <1>25 DEF CancelStop, Others, flags, plan, Free, Terminal, OthersOfEdit, recognition, worker,
        JobsOK
<1>26. ASSUME NEW c \in Clients, CancelWait(c) PROVE JobsOK'
  BY <1>26 DEF CancelWait, Others, flags, plan, Terminal, OthersOfEdit, recognition, worker, JobsOK
<1>27. ASSUME NEW c \in Clients, CancelRemove(c) PROVE JobsOK'
  BY <1>27 DEF CancelRemove, history, recognition, worker, plan, JobsOK
<1>28. ASSUME CommitLock PROVE JobsOK'
  BY <1>28 DEF CommitLock, history, clients, recognition, flags, Free, Editable, Stopped, JobsOK
<1>29. ASSUME CommitImport PROVE JobsOK'
  BY <1>29 DEF CommitImport, history, clients, recognition, worker, flags, JobsOK
<1>30. ASSUME CommitEnd PROVE JobsOK'
  BY <1>30 DEF CommitEnd, history, clients, recognition, flags, plan, JobsOK
<1>31. ASSUME CommitReport PROVE JobsOK'
  BY <1>31 DEF CommitReport, history, clients, recognition, flags, plan, JobsOK
<1>32. ASSUME ReadPlan PROVE JobsOK'
  BY <1>32 DEF ReadPlan, history, clients, worker, flags, plan, Free, JobsOK, SessionOK, Plans,
        CallersOK, Steps
<1>33. ASSUME Publish PROVE JobsOK'
  BY <1>33 DEF Publish, history, clients, worker, flags, plan, JobsOK
<1>34. ASSUME Land PROVE JobsOK'
  BY <1>34 DEF Land, history, clients, recognition, worker, flags, plan, JobsOK
<1>35. CASE UNCHANGED vars
  BY <1>35 DEF vars, flags, plan, worker, recognition, clients, history, JobsOK
<1> QED
  BY <1>1, <1>2, <1>3, <1>4, <1>5, <1>6, <1>7, <1>8, <1>9, <1>10, <1>11, <1>12, <1>13, <1>14, <1>15, <1>16, <1>17,
     <1>18, <1>19, <1>20, <1>21, <1>22, <1>23, <1>24, <1>25, <1>26, <1>27, <1>28, <1>29, <1>30, <1>31, <1>32, <1>33, <1>34, <1>35
  DEF Next, ClientStep, CommitStep, RecognizerStep

\* Every step keeps the types of the callers.
LEMMA CallersKeep ==
  ASSUME CallersOK, StepsFit, JobsOK, [Next]_vars
  PROVE  CallersOK'
<1>1. ASSUME NEW c \in Clients, Enter(c) PROVE CallersOK'
  BY <1>1 DEF Enter, recognition, worker, flags, plan, FirstStep, Calls, CallersOK, Steps
<1>2. ASSUME NEW c \in Clients, GuardMutable(c) PROVE CallersOK'
  BY <1>2 DEF GuardMutable, Goto, Return, Others, flags, plan, OthersOfEdit, recognition, worker,
        CallersOK, Steps
<1>3. ASSUME NEW c \in Clients, SyncIfTerminal(c) PROVE CallersOK'
  BY <1>3 DEF SyncIfTerminal, Goto, Others, plan, Free, Terminal, AfterSync, OthersOfEdit,
        recognition, worker, CallersOK, Steps, StepsFit
<1>4. ASSUME NEW c \in Clients, StatusJob(c) PROVE CallersOK'
  BY <1>4 DEF StatusJob, Goto, Others, flags, plan, OthersOfEdit, recognition, worker, CallersOK,
        Steps
<1>5. ASSUME NEW c \in Clients, StatusRead(c) PROVE CallersOK'
  BY <1>5 DEF StatusRead, Return, Others, flags, plan, Free, OthersOfEdit, recognition, worker,
        CallersOK, Steps
<1>6. ASSUME NEW c \in Clients, StopRequest(c) PROVE CallersOK'
  BY <1>6 DEF StopRequest, Goto, Others, flags, plan, Free, OthersOfEdit, recognition, worker,
        CallersOK, Steps
<1>7. ASSUME NEW c \in Clients, StopSync(c) PROVE CallersOK'
  BY <1>7 DEF StopSync, Goto, Return, Others, flags, plan, Free, OthersOfEdit, recognition,
        worker, CallersOK, Steps
<1>8. ASSUME NEW c \in Clients, StopWait(c) PROVE CallersOK'
  BY <1>8 DEF StopWait, Return, Others, plan, Terminal, OthersOfEdit, recognition, worker,
        CallersOK, Steps
<1>9. ASSUME NEW c \in Clients, LockSplits(c) PROVE CallersOK'
  BY <1>9 DEF LockSplits, GotoWith, Others, flags, plan, Free, OthersOfEdit, recognition, worker,
        CallersOK, Steps
<1>10. ASSUME NEW c \in Clients, EditPlan(c) PROVE CallersOK'
  BY <1>10 DEF EditPlan, NewPlan, Goto, Return, OthersOfEdit, flags, Free, Editable, Stopped, recognition,
        worker, CallersOK, Steps
<1>11. ASSUME NEW c \in Clients, EditMarkers(c) PROVE CallersOK'
  BY <1>11 DEF EditMarkers, Return, Others, flags, plan, OthersOfEdit, recognition, worker,
        CallersOK, Steps
<1>12. ASSUME NEW c \in Clients, EditMeta(c) PROVE CallersOK'
  BY <1>12 DEF EditMeta, NewPlan, Return, Others, flags, Free, Editable, Stopped, OthersOfEdit,
        recognition, worker, CallersOK, Steps
<1>13. ASSUME NEW c \in Clients, RecognizeRead(c) PROVE CallersOK'
  BY <1>13 DEF RecognizeRead, Goto, Return, Others, flags, plan, Free, Stopped, OthersOfEdit,
        recognition, worker, CallersOK, Steps
<1>14. ASSUME NEW c \in Clients, RecognizeJob(c) PROVE CallersOK'
  BY <1>14 DEF RecognizeJob, Goto, Return, worker, flags, plan, CallersOK, Steps
<1>15. ASSUME NEW c \in Clients, RecognizeSpawn(c) PROVE CallersOK'
  BY <1>15 DEF RecognizeSpawn, Return, history, worker, flags, plan, CallersOK, Steps
<1>16. ASSUME NEW c \in Clients, ApplyStatus(c) PROVE CallersOK'
  BY <1>16 DEF ApplyStatus, GotoWith, Return, Others, flags, plan, OthersOfEdit, recognition,
        worker, CallersOK, Steps, Plans, StepsFit, AfterSync, JobsOK
<1>17. ASSUME NEW c \in Clients, ApplyPlan(c) PROVE CallersOK'
  BY <1>17 DEF ApplyPlan, Return, Others, flags, Free, Editable, Stopped, OthersOfEdit,
        recognition, worker, CallersOK, Steps
<1>18. ASSUME NEW c \in Clients, ConfirmRead(c) PROVE CallersOK'
  BY <1>18 DEF ConfirmRead, Goto, Return, Others, flags, plan, Free, Stopped, OthersOfEdit,
        recognition, worker, CallersOK, Steps
<1>19. ASSUME NEW c \in Clients, ConfirmJob(c) PROVE CallersOK'
  BY <1>19 DEF ConfirmJob, Goto, Return, Others, flags, plan, Confirmed, OthersOfEdit,
        recognition, worker, CallersOK, Steps
<1>20. ASSUME NEW c \in Clients, Spawn(c) PROVE CallersOK'
  BY <1>20 DEF Spawn, Goto, Return, history, recognition, flags, plan, CallersOK, Steps
<1>21. ASSUME NEW c \in Clients, Unspawn(c) PROVE CallersOK'
  BY <1>21 DEF Unspawn, Return, Others, flags, plan, OthersOfEdit, recognition, worker, CallersOK,
        Steps
<1>22. ASSUME NEW c \in Clients, CancelJob(c) PROVE CallersOK'
  BY <1>22 DEF CancelJob, Goto, Return, Others, flags, plan, OthersOfEdit, recognition, worker,
        CallersOK, Steps
<1>23. ASSUME NEW c \in Clients, CancelPlan(c) PROVE CallersOK'
  BY <1>23 DEF CancelPlan, Goto, Return, Others, flags, plan, Free, OthersOfEdit, recognition,
        worker, CallersOK, Steps
<1>24. ASSUME NEW c \in Clients, CancelSwap(c) PROVE CallersOK'
  BY <1>24 DEF CancelSwap, Goto, Return, Others, plan, OthersOfEdit, recognition, worker,
        CallersOK, Steps
<1>25. ASSUME NEW c \in Clients, CancelStop(c) PROVE CallersOK'
  BY <1>25 DEF CancelStop, Goto, Others, flags, plan, Free, Terminal, OthersOfEdit, recognition,
        worker, CallersOK, Steps
<1>26. ASSUME NEW c \in Clients, CancelWait(c) PROVE CallersOK'
  BY <1>26 DEF CancelWait, Goto, Others, flags, plan, Terminal, OthersOfEdit, recognition, worker,
        CallersOK, Steps
<1>27. ASSUME NEW c \in Clients, CancelRemove(c) PROVE CallersOK'
  BY <1>27 DEF CancelRemove, Return, history, recognition, worker, plan, CallersOK, Steps
<1>28. ASSUME CommitLock PROVE CallersOK'
  BY <1>28 DEF CommitLock, history, clients, recognition, flags, Free, Editable, Stopped,
        CallersOK, Steps
<1>29. ASSUME CommitImport PROVE CallersOK'
  BY <1>29 DEF CommitImport, history, clients, recognition, worker, flags, CallersOK, Steps
<1>30. ASSUME CommitEnd PROVE CallersOK'
  BY <1>30 DEF CommitEnd, history, clients, recognition, flags, plan, CallersOK, Steps
<1>31. ASSUME CommitReport PROVE CallersOK'
  BY <1>31 DEF CommitReport, history, clients, recognition, flags, plan, CallersOK, Steps
<1>32. ASSUME ReadPlan PROVE CallersOK'
  BY <1>32 DEF ReadPlan, history, clients, worker, flags, plan, Free, CallersOK, Steps
<1>33. ASSUME Publish PROVE CallersOK'
  BY <1>33 DEF Publish, history, clients, worker, flags, plan, CallersOK, Steps
<1>34. ASSUME Land PROVE CallersOK'
  BY <1>34 DEF Land, history, clients, recognition, worker, flags, plan, CallersOK, Steps
<1>35. CASE UNCHANGED vars
  BY <1>35 DEF vars, flags, plan, worker, recognition, clients, history, CallersOK, Steps, Plans
<1> QED
  BY <1>1, <1>2, <1>3, <1>4, <1>5, <1>6, <1>7, <1>8, <1>9, <1>10, <1>11, <1>12, <1>13, <1>14, <1>15, <1>16, <1>17,
     <1>18, <1>19, <1>20, <1>21, <1>22, <1>23, <1>24, <1>25, <1>26, <1>27, <1>28, <1>29, <1>30, <1>31, <1>32, <1>33, <1>34, <1>35
  DEF Next, ClientStep, CommitStep, RecognizerStep

\* Every step keeps what a caller's step knows of its call.
LEMMA StepsKeep ==
  ASSUME StepsFit, CallersOK, [Next]_vars
  PROVE  StepsFit'
<1>1. ASSUME NEW c \in Clients, Enter(c) PROVE StepsFit'
  BY <1>1 DEF Enter, recognition, worker, flags, plan, FirstStep, Calls, StepsFit, AfterSync,
        CallersOK, Steps
<1>2. ASSUME NEW c \in Clients, GuardMutable(c) PROVE StepsFit'
  BY <1>2 DEF GuardMutable, Goto, Return, Others, flags, plan, OthersOfEdit, recognition, worker,
        StepsFit, AfterSync, CallersOK, Steps
<1>3. ASSUME NEW c \in Clients, SyncIfTerminal(c) PROVE StepsFit'
  BY <1>3 DEF SyncIfTerminal, Goto, Others, plan, Free, Terminal, AfterSync, OthersOfEdit,
        recognition, worker, StepsFit
<1>4. ASSUME NEW c \in Clients, StatusJob(c) PROVE StepsFit'
  BY <1>4 DEF StatusJob, Goto, Others, flags, plan, OthersOfEdit, recognition, worker, StepsFit,
        AfterSync
<1>5. ASSUME NEW c \in Clients, StatusRead(c) PROVE StepsFit'
  BY <1>5 DEF StatusRead, Return, Others, flags, plan, Free, OthersOfEdit, recognition, worker,
        StepsFit, AfterSync
<1>6. ASSUME NEW c \in Clients, StopRequest(c) PROVE StepsFit'
  BY <1>6 DEF StopRequest, Goto, Others, flags, plan, Free, OthersOfEdit, recognition, worker,
        StepsFit, AfterSync
<1>7. ASSUME NEW c \in Clients, StopSync(c) PROVE StepsFit'
  BY <1>7 DEF StopSync, Goto, Return, Others, flags, plan, Free, OthersOfEdit, recognition,
        worker, StepsFit, AfterSync, CallersOK, Steps
<1>8. ASSUME NEW c \in Clients, StopWait(c) PROVE StepsFit'
  BY <1>8 DEF StopWait, Return, Others, plan, Terminal, OthersOfEdit, recognition, worker,
        StepsFit, AfterSync
<1>9. ASSUME NEW c \in Clients, LockSplits(c) PROVE StepsFit'
  BY <1>9 DEF LockSplits, GotoWith, Others, flags, plan, Free, OthersOfEdit, recognition, worker,
        StepsFit, AfterSync, CallersOK, Steps
<1>10. ASSUME NEW c \in Clients, EditPlan(c) PROVE StepsFit'
  BY <1>10 DEF EditPlan, NewPlan, Goto, Return, OthersOfEdit, flags, Free, Editable, Stopped, recognition,
        worker, StepsFit, AfterSync, CallersOK, Steps
<1>11. ASSUME NEW c \in Clients, EditMarkers(c) PROVE StepsFit'
  BY <1>11 DEF EditMarkers, Return, Others, flags, plan, OthersOfEdit, recognition, worker,
        StepsFit, AfterSync, CallersOK, Steps
<1>12. ASSUME NEW c \in Clients, EditMeta(c) PROVE StepsFit'
  BY <1>12 DEF EditMeta, NewPlan, Return, Others, flags, Free, Editable, Stopped, OthersOfEdit,
        recognition, worker, StepsFit, AfterSync
<1>13. ASSUME NEW c \in Clients, RecognizeRead(c) PROVE StepsFit'
  BY <1>13 DEF RecognizeRead, Goto, Return, Others, flags, plan, Free, Stopped, OthersOfEdit,
        recognition, worker, StepsFit, AfterSync, CallersOK, Steps
<1>14. ASSUME NEW c \in Clients, RecognizeJob(c) PROVE StepsFit'
  BY <1>14 DEF RecognizeJob, Goto, Return, worker, flags, plan, StepsFit, AfterSync, CallersOK,
        Steps
<1>15. ASSUME NEW c \in Clients, RecognizeSpawn(c) PROVE StepsFit'
  BY <1>15 DEF RecognizeSpawn, Return, history, worker, flags, plan, StepsFit, AfterSync
<1>16. ASSUME NEW c \in Clients, ApplyStatus(c) PROVE StepsFit'
  BY <1>16 DEF ApplyStatus, GotoWith, Return, Others, flags, plan, OthersOfEdit, recognition,
        worker, StepsFit, AfterSync, CallersOK, Steps
<1>17. ASSUME NEW c \in Clients, ApplyPlan(c) PROVE StepsFit'
  BY <1>17 DEF ApplyPlan, Return, Others, flags, Free, Editable, Stopped, OthersOfEdit,
        recognition, worker, StepsFit, AfterSync
<1>18. ASSUME NEW c \in Clients, ConfirmRead(c) PROVE StepsFit'
  BY <1>18 DEF ConfirmRead, Goto, Return, Others, flags, plan, Free, Stopped, OthersOfEdit,
        recognition, worker, StepsFit, AfterSync, CallersOK, Steps
<1>19. ASSUME NEW c \in Clients, ConfirmJob(c) PROVE StepsFit'
  BY <1>19 DEF ConfirmJob, Goto, Return, Others, flags, plan, Confirmed, OthersOfEdit,
        recognition, worker, StepsFit, AfterSync, CallersOK, Steps
<1>20. ASSUME NEW c \in Clients, Spawn(c) PROVE StepsFit'
  BY <1>20 DEF Spawn, Goto, Return, history, recognition, flags, plan, StepsFit, AfterSync,
        CallersOK, Steps
<1>21. ASSUME NEW c \in Clients, Unspawn(c) PROVE StepsFit'
  BY <1>21 DEF Unspawn, Return, Others, flags, plan, OthersOfEdit, recognition, worker, StepsFit,
        AfterSync
<1>22. ASSUME NEW c \in Clients, CancelJob(c) PROVE StepsFit'
  BY <1>22 DEF CancelJob, Goto, Return, Others, flags, plan, OthersOfEdit, recognition, worker,
        StepsFit, AfterSync, CallersOK, Steps
<1>23. ASSUME NEW c \in Clients, CancelPlan(c) PROVE StepsFit'
  BY <1>23 DEF CancelPlan, Goto, Return, Others, flags, plan, Free, OthersOfEdit, recognition,
        worker, StepsFit, AfterSync, CallersOK, Steps
<1>24. ASSUME NEW c \in Clients, CancelSwap(c) PROVE StepsFit'
  BY <1>24 DEF CancelSwap, Goto, Return, Others, plan, OthersOfEdit, recognition, worker,
        StepsFit, AfterSync, CallersOK, Steps
<1>25. ASSUME NEW c \in Clients, CancelStop(c) PROVE StepsFit'
  BY <1>25 DEF CancelStop, Goto, Others, flags, plan, Free, Terminal, OthersOfEdit, recognition,
        worker, StepsFit, AfterSync, CallersOK, Steps
<1>26. ASSUME NEW c \in Clients, CancelWait(c) PROVE StepsFit'
  BY <1>26 DEF CancelWait, Goto, Others, flags, plan, Terminal, OthersOfEdit, recognition, worker,
        StepsFit, AfterSync
<1>27. ASSUME NEW c \in Clients, CancelRemove(c) PROVE StepsFit'
  BY <1>27 DEF CancelRemove, Return, history, recognition, worker, plan, StepsFit, AfterSync
<1>28. ASSUME CommitLock PROVE StepsFit'
  BY <1>28 DEF CommitLock, history, clients, recognition, flags, Free, Editable, Stopped,
        StepsFit, AfterSync
<1>29. ASSUME CommitImport PROVE StepsFit'
  BY <1>29 DEF CommitImport, history, clients, recognition, worker, flags, StepsFit, AfterSync
<1>30. ASSUME CommitEnd PROVE StepsFit'
  BY <1>30 DEF CommitEnd, history, clients, recognition, flags, plan, StepsFit, AfterSync
<1>31. ASSUME CommitReport PROVE StepsFit'
  BY <1>31 DEF CommitReport, history, clients, recognition, flags, plan, StepsFit, AfterSync
<1>32. ASSUME ReadPlan PROVE StepsFit'
  BY <1>32 DEF ReadPlan, history, clients, worker, flags, plan, Free, StepsFit, AfterSync
<1>33. ASSUME Publish PROVE StepsFit'
  BY <1>33 DEF Publish, history, clients, worker, flags, plan, StepsFit, AfterSync
<1>34. ASSUME Land PROVE StepsFit'
  BY <1>34 DEF Land, history, clients, recognition, worker, flags, plan, StepsFit, AfterSync
<1>35. CASE UNCHANGED vars
  BY <1>35 DEF vars, flags, plan, worker, recognition, clients, history, StepsFit, AfterSync
<1> QED
  BY <1>1, <1>2, <1>3, <1>4, <1>5, <1>6, <1>7, <1>8, <1>9, <1>10, <1>11, <1>12, <1>13, <1>14, <1>15, <1>16, <1>17,
     <1>18, <1>19, <1>20, <1>21, <1>22, <1>23, <1>24, <1>25, <1>26, <1>27, <1>28, <1>29, <1>30, <1>31, <1>32, <1>33, <1>34, <1>35
  DEF Next, ClientStep, CommitStep, RecognizerStep

\* Every step keeps one commit on its way at a time.
LEMMA CommitKeep ==
  ASSUME CommitInv, JobsOK, CallersOK, StepsFit, [Next]_vars
  PROVE  CommitInv'
<1>1. ASSUME NEW c \in Clients, Enter(c) PROVE CommitInv'
  BY <1>1 DEF Enter, recognition, worker, flags, plan, FirstStep, Calls, CommitInv, Confirming
<1>2. ASSUME NEW c \in Clients, GuardMutable(c) PROVE CommitInv'
  BY <1>2 DEF GuardMutable, Goto, Return, Others, flags, plan, OthersOfEdit, recognition, worker,
        CommitInv, Confirming, CallersOK, Steps
<1>3. ASSUME NEW c \in Clients, SyncIfTerminal(c) PROVE CommitInv'
  BY <1>3 DEF SyncIfTerminal, Goto, Others, plan, Free, Terminal, AfterSync, OthersOfEdit,
        recognition, worker, CommitInv, Confirming, CallersOK, Steps, StepsFit
<1>4. ASSUME NEW c \in Clients, StatusJob(c) PROVE CommitInv'
  BY <1>4 DEF StatusJob, Goto, Others, flags, plan, OthersOfEdit, recognition, worker, CommitInv,
        Confirming
<1>5. ASSUME NEW c \in Clients, StatusRead(c) PROVE CommitInv'
  BY <1>5 DEF StatusRead, Return, Others, flags, plan, Free, OthersOfEdit, recognition, worker,
        CommitInv, Confirming
<1>6. ASSUME NEW c \in Clients, StopRequest(c) PROVE CommitInv'
  BY <1>6 DEF StopRequest, Goto, Others, flags, plan, Free, OthersOfEdit, recognition, worker,
        CommitInv, Confirming
<1>7. ASSUME NEW c \in Clients, StopSync(c) PROVE CommitInv'
  BY <1>7 DEF StopSync, Goto, Return, Others, flags, plan, Free, OthersOfEdit, recognition,
        worker, CommitInv, Confirming, CallersOK, Steps
<1>8. ASSUME NEW c \in Clients, StopWait(c) PROVE CommitInv'
  BY <1>8 DEF StopWait, Return, Others, plan, Terminal, OthersOfEdit, recognition, worker,
        CommitInv, Confirming
<1>9. ASSUME NEW c \in Clients, LockSplits(c) PROVE CommitInv'
  BY <1>9 DEF LockSplits, GotoWith, Others, flags, plan, Free, OthersOfEdit, recognition, worker,
        CommitInv, Confirming
<1>10. ASSUME NEW c \in Clients, EditPlan(c) PROVE CommitInv'
  BY <1>10 DEF EditPlan, NewPlan, Goto, Return, OthersOfEdit, flags, Free, Editable, Stopped, recognition,
        worker, CommitInv, Confirming, CallersOK, Steps
<1>11. ASSUME NEW c \in Clients, EditMarkers(c) PROVE CommitInv'
  BY <1>11 DEF EditMarkers, Return, Others, flags, plan, OthersOfEdit, recognition, worker,
        CommitInv, Confirming
<1>12. ASSUME NEW c \in Clients, EditMeta(c) PROVE CommitInv'
  BY <1>12 DEF EditMeta, NewPlan, Return, Others, flags, Free, Editable, Stopped, OthersOfEdit,
        recognition, worker, CommitInv, Confirming
<1>13. ASSUME NEW c \in Clients, RecognizeRead(c) PROVE CommitInv'
  BY <1>13 DEF RecognizeRead, Goto, Return, Others, flags, plan, Free, Stopped, OthersOfEdit,
        recognition, worker, CommitInv, Confirming, CallersOK, Steps
<1>14. ASSUME NEW c \in Clients, RecognizeJob(c) PROVE CommitInv'
  BY <1>14 DEF RecognizeJob, Goto, Return, worker, flags, plan, CommitInv, Confirming, CallersOK,
        Steps
<1>15. ASSUME NEW c \in Clients, RecognizeSpawn(c) PROVE CommitInv'
  BY <1>15 DEF RecognizeSpawn, Return, history, worker, flags, plan, CommitInv, Confirming
<1>16. ASSUME NEW c \in Clients, ApplyStatus(c) PROVE CommitInv'
  BY <1>16 DEF ApplyStatus, GotoWith, Return, Others, flags, plan, OthersOfEdit, recognition,
        worker, CommitInv, Confirming, CallersOK, Steps
<1>17. ASSUME NEW c \in Clients, ApplyPlan(c) PROVE CommitInv'
  BY <1>17 DEF ApplyPlan, Return, Others, flags, Free, Editable, Stopped, OthersOfEdit,
        recognition, worker, CommitInv, Confirming
<1>18. ASSUME NEW c \in Clients, ConfirmRead(c) PROVE CommitInv'
  BY <1>18 DEF ConfirmRead, Goto, Return, Others, flags, plan, Free, Stopped, OthersOfEdit,
        recognition, worker, CommitInv, Confirming, CallersOK, Steps
<1>19. ASSUME NEW c \in Clients, ConfirmJob(c) PROVE CommitInv'
  BY <1>19 DEF ConfirmJob, Goto, Return, Others, flags, plan, Confirmed, OthersOfEdit,
        recognition, worker, CommitInv, Confirming, CallersOK, Steps
<1>20. ASSUME NEW c \in Clients, Spawn(c) PROVE CommitInv'
  BY <1>20 DEF Spawn, Goto, Return, history, recognition, flags, plan, CommitInv, Confirming,
        CallersOK, Steps
<1>21. ASSUME NEW c \in Clients, Unspawn(c) PROVE CommitInv'
  BY <1>21 DEF Unspawn, Return, Others, flags, plan, OthersOfEdit, recognition, worker, CommitInv,
        Confirming, CallersOK, Steps
<1>22. ASSUME NEW c \in Clients, CancelJob(c) PROVE CommitInv'
  BY <1>22 DEF CancelJob, Goto, Return, Others, flags, plan, OthersOfEdit, recognition, worker,
        CommitInv, Confirming, CallersOK, Steps
<1>23. ASSUME NEW c \in Clients, CancelPlan(c) PROVE CommitInv'
  BY <1>23 DEF CancelPlan, Goto, Return, Others, flags, plan, Free, OthersOfEdit, recognition,
        worker, CommitInv, Confirming, CallersOK, Steps
<1>24. ASSUME NEW c \in Clients, CancelSwap(c) PROVE CommitInv'
  BY <1>24 DEF CancelSwap, Goto, Return, Others, plan, OthersOfEdit, recognition, worker,
        CommitInv, Confirming, CallersOK, Steps
<1>25. ASSUME NEW c \in Clients, CancelStop(c) PROVE CommitInv'
  BY <1>25 DEF CancelStop, Goto, Others, flags, plan, Free, Terminal, OthersOfEdit, recognition,
        worker, CommitInv, Confirming, CallersOK, Steps
<1>26. ASSUME NEW c \in Clients, CancelWait(c) PROVE CommitInv'
  BY <1>26 DEF CancelWait, Goto, Others, flags, plan, Terminal, OthersOfEdit, recognition, worker,
        CommitInv, Confirming
<1>27. ASSUME NEW c \in Clients, CancelRemove(c) PROVE CommitInv'
  BY <1>27 DEF CancelRemove, Return, history, recognition, worker, plan, CommitInv, Confirming
<1>28. ASSUME CommitLock PROVE CommitInv'
  BY <1>28 DEF CommitLock, history, clients, recognition, flags, Free, Editable, Stopped,
        CommitInv, Confirming
<1>29. ASSUME CommitImport PROVE CommitInv'
  BY <1>29 DEF CommitImport, history, clients, recognition, worker, flags, CommitInv, Confirming
<1>30. ASSUME CommitEnd PROVE CommitInv'
  BY <1>30 DEF CommitEnd, history, clients, recognition, flags, plan, CommitInv, Confirming
<1>31. ASSUME CommitReport PROVE CommitInv'
  BY <1>31 DEF CommitReport, history, clients, recognition, flags, plan, CommitInv, Confirming
<1>32. ASSUME ReadPlan PROVE CommitInv'
  BY <1>32 DEF ReadPlan, history, clients, worker, flags, plan, Free, CommitInv, Confirming
<1>33. ASSUME Publish PROVE CommitInv'
  BY <1>33 DEF Publish, history, clients, worker, flags, plan, CommitInv, Confirming
<1>34. ASSUME Land PROVE CommitInv'
  BY <1>34 DEF Land, history, clients, recognition, worker, flags, plan, CommitInv, Confirming
<1>35. CASE UNCHANGED vars
  BY <1>35 DEF vars, flags, plan, worker, recognition, clients, history, CommitInv, Confirming
<1> QED
  BY <1>1, <1>2, <1>3, <1>4, <1>5, <1>6, <1>7, <1>8, <1>9, <1>10, <1>11, <1>12, <1>13, <1>14, <1>15, <1>16, <1>17,
     <1>18, <1>19, <1>20, <1>21, <1>22, <1>23, <1>24, <1>25, <1>26, <1>27, <1>28, <1>29, <1>30, <1>31, <1>32, <1>33, <1>34, <1>35
  DEF Next, ClientStep, CommitStep, RecognizerStep

\* Every step keeps the marker table in line with the plan.
LEMMA TableKeep ==
  ASSUME TableInv, SessionOK, JobsOK, CallersOK, StepsFit, [Next]_vars
  PROVE  TableInv'
<1>1. ASSUME NEW c \in Clients, Enter(c) PROVE TableInv'
  BY <1>1, ClientsAssumption DEF Enter, recognition, worker, flags, plan, FirstStep, Calls, TableInv
<1>2. ASSUME NEW c \in Clients, GuardMutable(c) PROVE TableInv'
  BY <1>2, ClientsAssumption DEF GuardMutable, Goto, Return, Others, flags, plan, OthersOfEdit,
        recognition, worker, TableInv, CallersOK, Steps
<1>3. ASSUME NEW c \in Clients, SyncIfTerminal(c) PROVE TableInv'
  BY <1>3, ClientsAssumption DEF SyncIfTerminal, Goto, Others, plan, Free, Terminal, AfterSync,
        OthersOfEdit, recognition, worker, TableInv, CallersOK, Steps, StepsFit
<1>4. ASSUME NEW c \in Clients, StatusJob(c) PROVE TableInv'
  BY <1>4, ClientsAssumption DEF StatusJob, Goto, Others, flags, plan, OthersOfEdit, recognition,
        worker, TableInv
<1>5. ASSUME NEW c \in Clients, StatusRead(c) PROVE TableInv'
  BY <1>5, ClientsAssumption DEF StatusRead, Return, Others, flags, plan, Free, OthersOfEdit,
        recognition, worker, TableInv
<1>6. ASSUME NEW c \in Clients, StopRequest(c) PROVE TableInv'
  BY <1>6, ClientsAssumption DEF StopRequest, Goto, Others, flags, plan, Free, OthersOfEdit,
        recognition, worker, TableInv
<1>7. ASSUME NEW c \in Clients, StopSync(c) PROVE TableInv'
  BY <1>7, ClientsAssumption DEF StopSync, Goto, Return, Others, flags, plan, Free, OthersOfEdit,
        recognition, worker, TableInv, CallersOK, Steps
<1>8. ASSUME NEW c \in Clients, StopWait(c) PROVE TableInv'
  BY <1>8, ClientsAssumption DEF StopWait, Return, Others, plan, Terminal, OthersOfEdit,
        recognition, worker, TableInv
<1>9. ASSUME NEW c \in Clients, LockSplits(c) PROVE TableInv'
  BY <1>9, ClientsAssumption DEF LockSplits, GotoWith, Others, flags, plan, Free, OthersOfEdit,
        recognition, worker, TableInv, CallersOK, Steps
<1>10. ASSUME NEW c \in Clients, EditPlan(c) PROVE TableInv'
  <2> DEFINE refused == pc' = [pc EXCEPT ![c] = "idle"] /\ splits' = "free"
             taken == Editable /\ cuts' = arg[c] /\ hasEntries' = TRUE
  <2>1. splits = c /\ arg[c] \in Plans /\ \A d \in Clients \ {c} : pc[d] \notin {"editPlan", "editMarkers"}
    BY <1>10 DEF EditPlan, NewPlan, TableInv, StepsFit
  <2>2. ~unsaved => markers = cuts
    BY <1>10, <2>1 DEF EditPlan, NewPlan, TableInv
  <2>3. CASE taken /\ pc' = [pc EXCEPT ![c] = "editMarkers"] /\ UNCHANGED <<splits, arg, unsaved>>
    BY <1>10, <2>1, <2>3 DEF EditPlan, NewPlan, OthersOfEdit, CallersOK, TableInv
  <2>4. CASE taken /\ refused /\ unsaved'
    BY <1>10, <2>1, <2>4, ClientsAssumption DEF CallersOK, TableInv
  <2>5. CASE refused /\ UNCHANGED <<cuts, hasEntries, markers, unsaved>>
    BY <1>10, <2>1, <2>2, <2>5, ClientsAssumption DEF CallersOK, TableInv
  <2> QED
    BY <1>10, <2>3, <2>4, <2>5 DEF EditPlan, NewPlan, Goto, Return
<1>11. ASSUME NEW c \in Clients, EditMarkers(c) PROVE TableInv'
  BY <1>11, ClientsAssumption DEF EditMarkers, Return, Others, flags, plan, OthersOfEdit,
        recognition, worker, TableInv, CallersOK, Steps
<1>12. ASSUME NEW c \in Clients, EditMeta(c) PROVE TableInv'
  BY <1>12, ClientsAssumption DEF EditMeta, NewPlan, Return, Others, flags, Free, Editable, Stopped,
        OthersOfEdit, recognition, worker, TableInv
<1>13. ASSUME NEW c \in Clients, RecognizeRead(c) PROVE TableInv'
  BY <1>13, ClientsAssumption DEF RecognizeRead, Goto, Return, Others, flags, plan, Free, Stopped,
        OthersOfEdit, recognition, worker, TableInv, CallersOK, Steps
<1>14. ASSUME NEW c \in Clients, RecognizeJob(c) PROVE TableInv'
  BY <1>14, ClientsAssumption DEF RecognizeJob, Goto, Return, worker, flags, plan, TableInv,
        CallersOK, Steps
<1>15. ASSUME NEW c \in Clients, RecognizeSpawn(c) PROVE TableInv'
  BY <1>15, ClientsAssumption DEF RecognizeSpawn, Return, history, worker, flags, plan, TableInv
<1>16. ASSUME NEW c \in Clients, ApplyStatus(c) PROVE TableInv'
  BY <1>16, ClientsAssumption DEF ApplyStatus, GotoWith, Return, Others, flags, plan,
        OthersOfEdit, recognition, worker, TableInv, CallersOK, Steps
<1>17. ASSUME NEW c \in Clients, ApplyPlan(c) PROVE TableInv'
  BY <1>17, ClientsAssumption DEF ApplyPlan, Return, Others, flags, Free, Editable, Stopped,
        OthersOfEdit, recognition, worker, TableInv
<1>18. ASSUME NEW c \in Clients, ConfirmRead(c) PROVE TableInv'
  BY <1>18, ClientsAssumption DEF ConfirmRead, Goto, Return, Others, flags, plan, Free, Stopped,
        OthersOfEdit, recognition, worker, TableInv, CallersOK, Steps
<1>19. ASSUME NEW c \in Clients, ConfirmJob(c) PROVE TableInv'
  BY <1>19, ClientsAssumption DEF ConfirmJob, Goto, Return, Others, flags, plan, Confirmed,
        OthersOfEdit, recognition, worker, TableInv, CallersOK, Steps
<1>20. ASSUME NEW c \in Clients, Spawn(c) PROVE TableInv'
  BY <1>20, ClientsAssumption DEF Spawn, Goto, Return, history, recognition, flags, plan,
        TableInv, CallersOK, Steps
<1>21. ASSUME NEW c \in Clients, Unspawn(c) PROVE TableInv'
  BY <1>21, ClientsAssumption DEF Unspawn, Return, Others, flags, plan, OthersOfEdit, recognition,
        worker, TableInv
<1>22. ASSUME NEW c \in Clients, CancelJob(c) PROVE TableInv'
  BY <1>22, ClientsAssumption DEF CancelJob, Goto, Return, Others, flags, plan, OthersOfEdit,
        recognition, worker, TableInv, CallersOK, Steps
<1>23. ASSUME NEW c \in Clients, CancelPlan(c) PROVE TableInv'
  BY <1>23, ClientsAssumption DEF CancelPlan, Goto, Return, Others, flags, plan, Free,
        OthersOfEdit, recognition, worker, TableInv, CallersOK, Steps
<1>24. ASSUME NEW c \in Clients, CancelSwap(c) PROVE TableInv'
  BY <1>24, ClientsAssumption DEF CancelSwap, Goto, Return, Others, plan, OthersOfEdit,
        recognition, worker, TableInv, CallersOK, Steps
<1>25. ASSUME NEW c \in Clients, CancelStop(c) PROVE TableInv'
  BY <1>25, ClientsAssumption DEF CancelStop, Goto, Others, flags, plan, Free, Terminal,
        OthersOfEdit, recognition, worker, TableInv, CallersOK, Steps
<1>26. ASSUME NEW c \in Clients, CancelWait(c) PROVE TableInv'
  BY <1>26, ClientsAssumption DEF CancelWait, Goto, Others, flags, plan, Terminal, OthersOfEdit,
        recognition, worker, TableInv
<1>27. ASSUME NEW c \in Clients, CancelRemove(c) PROVE TableInv'
  BY <1>27, ClientsAssumption DEF CancelRemove, Return, history, recognition, worker, plan, TableInv
<1>28. ASSUME CommitLock PROVE TableInv'
  BY <1>28, ClientsAssumption DEF CommitLock, history, clients, recognition, flags, Free,
        Editable, Stopped, TableInv
<1>29. ASSUME CommitImport PROVE TableInv'
  BY <1>29, ClientsAssumption DEF CommitImport, history, clients, recognition, worker, flags,
        TableInv
<1>30. ASSUME CommitEnd PROVE TableInv'
  BY <1>30, ClientsAssumption DEF CommitEnd, history, clients, recognition, flags, plan, TableInv
<1>31. ASSUME CommitReport PROVE TableInv'
  BY <1>31, ClientsAssumption DEF CommitReport, history, clients, recognition, flags, plan, TableInv
<1>32. ASSUME ReadPlan PROVE TableInv'
  BY <1>32, ClientsAssumption DEF ReadPlan, history, clients, worker, flags, plan, Free, TableInv
<1>33. ASSUME Publish PROVE TableInv'
  BY <1>33, ClientsAssumption DEF Publish, history, clients, worker, flags, plan, TableInv
<1>34. ASSUME Land PROVE TableInv'
  BY <1>34, ClientsAssumption DEF Land, history, clients, recognition, worker, flags, plan, TableInv
<1>35. CASE UNCHANGED vars
  BY <1>35 DEF vars, flags, plan, worker, recognition, clients, history, TableInv
<1> QED
  BY <1>1, <1>2, <1>3, <1>4, <1>5, <1>6, <1>7, <1>8, <1>9, <1>10, <1>11, <1>12, <1>13, <1>14, <1>15, <1>16, <1>17,
     <1>18, <1>19, <1>20, <1>21, <1>22, <1>23, <1>24, <1>25, <1>26, <1>27, <1>28, <1>29, <1>30, <1>31, <1>32, <1>33, <1>34, <1>35
  DEF Next, ClientStep, CommitStep, RecognizerStep

\* Every step keeps what a lone caller has tested.
LEMMA AloneKeep ==
  ASSUME AloneInv, SessionOK, JobsOK, CallersOK, StepsFit, CommitInv, TableInv, [Next]_vars
  PROVE  AloneInv'
<1>1. ASSUME NEW c \in Clients, Enter(c) PROVE AloneInv'
  <2>1. UNCHANGED <<job, imported, dir>> /\ pc[c] = "idle"
    BY <1>1 DEF Enter, plan
  <2>2. \A d \in Clients \ {c} : pc'[d] = pc[d] /\ call'[d] = call[d]
    BY <1>1 DEF Enter, CallersOK
  <2>3. ~overlapped' => ~overlapped /\ \A d \in Clients \ {c} : pc[d] = "idle"
    BY <1>1 DEF Enter
  <2>4. ~PastGuard(c)' /\ ~PastPlan(c)' /\ pc'[c] # "cancelPlan"
    <3>1. pc'[c] \in {"statusJob", "stopRequest", "cancelJob", "guard", "sync", "applyStatus"}
          /\ (pc'[c] = "sync" => call'[c] \in {"confirm", "recognize"})
      BY <1>1 DEF Enter, FirstStep, Calls, CallersOK
    <3> QED
      BY <3>1 DEF PastGuard, PastPlan
  <2> QED
    BY <2>1, <2>2, <2>3, <2>4 DEF AloneInv, PastGuard, PastPlan
<1>2. ASSUME NEW c \in Clients, GuardMutable(c) PROVE AloneInv'
  BY <1>2 DEF GuardMutable, Goto, Return, Others, flags, plan, OthersOfEdit, recognition, worker,
        AloneInv, PastGuard, PastPlan, CallersOK, Steps
<1>3. ASSUME NEW c \in Clients, SyncIfTerminal(c) PROVE AloneInv'
  BY <1>3 DEF SyncIfTerminal, Goto, Others, plan, Free, Terminal, AfterSync, OthersOfEdit,
        recognition, worker, AloneInv, PastGuard, PastPlan, CallersOK, Steps, StepsFit
<1>4. ASSUME NEW c \in Clients, StatusJob(c) PROVE AloneInv'
  BY <1>4 DEF StatusJob, Goto, Others, flags, plan, OthersOfEdit, recognition, worker, AloneInv,
        PastGuard, PastPlan
<1>5. ASSUME NEW c \in Clients, StatusRead(c) PROVE AloneInv'
  BY <1>5 DEF StatusRead, Return, Others, flags, plan, Free, OthersOfEdit, recognition, worker,
        AloneInv, PastGuard, PastPlan
<1>6. ASSUME NEW c \in Clients, StopRequest(c) PROVE AloneInv'
  BY <1>6 DEF StopRequest, Goto, Others, flags, plan, Free, OthersOfEdit, recognition, worker,
        AloneInv, PastGuard, PastPlan
<1>7. ASSUME NEW c \in Clients, StopSync(c) PROVE AloneInv'
  BY <1>7 DEF StopSync, Goto, Return, Others, flags, plan, Free, OthersOfEdit, recognition,
        worker, AloneInv, PastGuard, PastPlan, CallersOK, Steps
<1>8. ASSUME NEW c \in Clients, StopWait(c) PROVE AloneInv'
  BY <1>8 DEF StopWait, Return, Others, plan, Terminal, OthersOfEdit, recognition, worker,
        AloneInv, PastGuard, PastPlan
<1>9. ASSUME NEW c \in Clients, LockSplits(c) PROVE AloneInv'
  BY <1>9 DEF LockSplits, GotoWith, Others, flags, plan, Free, OthersOfEdit, recognition, worker,
        AloneInv, PastGuard, PastPlan
<1>10. ASSUME NEW c \in Clients, EditPlan(c) PROVE AloneInv'
  BY <1>10 DEF EditPlan, NewPlan, Goto, Return, OthersOfEdit, flags, Free, Editable, Stopped, recognition,
        worker, AloneInv, PastGuard, PastPlan, CallersOK, Steps
<1>11. ASSUME NEW c \in Clients, EditMarkers(c) PROVE AloneInv'
  BY <1>11 DEF EditMarkers, Return, Others, flags, plan, OthersOfEdit, recognition, worker,
        AloneInv, PastGuard, PastPlan
<1>12. ASSUME NEW c \in Clients, EditMeta(c) PROVE AloneInv'
  BY <1>12 DEF EditMeta, NewPlan, Return, Others, flags, Free, Editable, Stopped, OthersOfEdit,
        recognition, worker, AloneInv, PastGuard, PastPlan
<1>13. ASSUME NEW c \in Clients, RecognizeRead(c) PROVE AloneInv'
  BY <1>13 DEF RecognizeRead, Goto, Return, Others, flags, plan, Free, Stopped, OthersOfEdit,
        recognition, worker, AloneInv, PastGuard, PastPlan, CallersOK, Steps
<1>14. ASSUME NEW c \in Clients, RecognizeJob(c) PROVE AloneInv'
  BY <1>14 DEF RecognizeJob, Goto, Return, worker, flags, plan, AloneInv, PastGuard, PastPlan,
        CallersOK, Steps
<1>15. ASSUME NEW c \in Clients, RecognizeSpawn(c) PROVE AloneInv'
  BY <1>15 DEF RecognizeSpawn, Return, history, worker, flags, plan, AloneInv, PastGuard, PastPlan
<1>16. ASSUME NEW c \in Clients, ApplyStatus(c) PROVE AloneInv'
  BY <1>16 DEF ApplyStatus, GotoWith, Return, Others, flags, plan, OthersOfEdit, recognition,
        worker, AloneInv, PastGuard, PastPlan, CallersOK, Steps
<1>17. ASSUME NEW c \in Clients, ApplyPlan(c) PROVE AloneInv'
  BY <1>17 DEF ApplyPlan, Return, Others, flags, Free, Editable, Stopped, OthersOfEdit,
        recognition, worker, AloneInv, PastGuard, PastPlan
<1>18. ASSUME NEW c \in Clients, ConfirmRead(c) PROVE AloneInv'
  BY <1>18 DEF ConfirmRead, Goto, Return, Others, flags, plan, Free, Stopped, OthersOfEdit,
        recognition, worker, AloneInv, PastGuard, PastPlan, CallersOK, Steps
<1>19. ASSUME NEW c \in Clients, ConfirmJob(c) PROVE AloneInv'
  BY <1>19 DEF ConfirmJob, Goto, Return, Others, flags, plan, Confirmed, OthersOfEdit,
        recognition, worker, AloneInv, PastGuard, PastPlan, CallersOK, Steps
<1>20. ASSUME NEW c \in Clients, Spawn(c) PROVE AloneInv'
  BY <1>20 DEF Spawn, Goto, Return, history, recognition, flags, plan, AloneInv, PastGuard,
        PastPlan, CallersOK, Steps
<1>21. ASSUME NEW c \in Clients, Unspawn(c) PROVE AloneInv'
  BY <1>21 DEF Unspawn, Return, Others, flags, plan, OthersOfEdit, recognition, worker, AloneInv,
        PastGuard, PastPlan
<1>22. ASSUME NEW c \in Clients, CancelJob(c) PROVE AloneInv'
  BY <1>22 DEF CancelJob, Goto, Return, Others, flags, plan, OthersOfEdit, recognition, worker,
        AloneInv, PastGuard, PastPlan, CallersOK, Steps
<1>23. ASSUME NEW c \in Clients, CancelPlan(c) PROVE AloneInv'
  BY <1>23 DEF CancelPlan, Goto, Return, Others, flags, plan, Free, OthersOfEdit, recognition,
        worker, AloneInv, PastGuard, PastPlan, CallersOK, Steps
<1>24. ASSUME NEW c \in Clients, CancelSwap(c) PROVE AloneInv'
  BY <1>24 DEF CancelSwap, Goto, Return, Others, plan, OthersOfEdit, recognition, worker,
        AloneInv, PastGuard, PastPlan, CallersOK, Steps
<1>25. ASSUME NEW c \in Clients, CancelStop(c) PROVE AloneInv'
  BY <1>25 DEF CancelStop, Goto, Others, flags, plan, Free, Terminal, OthersOfEdit, recognition,
        worker, AloneInv, PastGuard, PastPlan, CallersOK, Steps
<1>26. ASSUME NEW c \in Clients, CancelWait(c) PROVE AloneInv'
  BY <1>26 DEF CancelWait, Goto, Others, flags, plan, Terminal, OthersOfEdit, recognition, worker,
        AloneInv, PastGuard, PastPlan
<1>27. ASSUME NEW c \in Clients, CancelRemove(c) PROVE AloneInv'
  BY <1>27 DEF CancelRemove, Return, history, recognition, worker, plan, AloneInv, PastGuard,
        PastPlan
<1>28. ASSUME CommitLock PROVE AloneInv'
  BY <1>28 DEF CommitLock, history, clients, recognition, flags, Free, Editable, Stopped,
        AloneInv, PastGuard, PastPlan
<1>29. ASSUME CommitImport PROVE AloneInv'
  BY <1>29 DEF CommitImport, history, clients, recognition, worker, flags, AloneInv, PastGuard,
        PastPlan, SessionOK, Plans, JobsOK, CallersOK, Steps, StepsFit, AfterSync, CommitInv,
        Confirming, TableInv
<1>30. ASSUME CommitEnd PROVE AloneInv'
  BY <1>30 DEF CommitEnd, history, clients, recognition, flags, plan, AloneInv, PastGuard, PastPlan
<1>31. ASSUME CommitReport PROVE AloneInv'
  BY <1>31 DEF CommitReport, history, clients, recognition, flags, plan, AloneInv, PastGuard,
        PastPlan, SessionOK, Plans, JobsOK, CallersOK, Steps, StepsFit, AfterSync, CommitInv,
        Confirming, TableInv
<1>32. ASSUME ReadPlan PROVE AloneInv'
  BY <1>32 DEF ReadPlan, history, clients, worker, flags, plan, Free, AloneInv, PastGuard, PastPlan
<1>33. ASSUME Publish PROVE AloneInv'
  BY <1>33 DEF Publish, history, clients, worker, flags, plan, AloneInv, PastGuard, PastPlan
<1>34. ASSUME Land PROVE AloneInv'
  BY <1>34 DEF Land, history, clients, recognition, worker, flags, plan, AloneInv, PastGuard,
        PastPlan
<1>35. CASE UNCHANGED vars
  BY <1>35 DEF vars, flags, plan, worker, recognition, clients, history, AloneInv, PastGuard, PastPlan
<1> QED
  BY <1>1, <1>2, <1>3, <1>4, <1>5, <1>6, <1>7, <1>8, <1>9, <1>10, <1>11, <1>12, <1>13, <1>14, <1>15, <1>16, <1>17,
     <1>18, <1>19, <1>20, <1>21, <1>22, <1>23, <1>24, <1>25, <1>26, <1>27, <1>28, <1>29, <1>30, <1>31, <1>32, <1>33, <1>34, <1>35
  DEF Next, ClientStep, CommitStep, RecognizerStep

\* Every step keeps one recognition pass while its flag is set.
LEMMA PassKeep ==
  ASSUME PassInv, SessionOK, JobsOK, CallersOK, StepsFit, [Next]_vars
  PROVE  PassInv'
<1>1. ASSUME NEW c \in Clients, Enter(c) PROVE PassInv'
  BY <1>1 DEF Enter, recognition, worker, flags, plan, FirstStep, Calls, PassInv
<1>2. ASSUME NEW c \in Clients, GuardMutable(c) PROVE PassInv'
  BY <1>2 DEF GuardMutable, Goto, Return, Others, flags, plan, OthersOfEdit, recognition, worker,
        PassInv, CallersOK, Steps
<1>3. ASSUME NEW c \in Clients, SyncIfTerminal(c) PROVE PassInv'
  BY <1>3 DEF SyncIfTerminal, Goto, Others, plan, Free, Terminal, AfterSync, OthersOfEdit,
        recognition, worker, PassInv, CallersOK, Steps, StepsFit
<1>4. ASSUME NEW c \in Clients, StatusJob(c) PROVE PassInv'
  BY <1>4 DEF StatusJob, Goto, Others, flags, plan, OthersOfEdit, recognition, worker, PassInv
<1>5. ASSUME NEW c \in Clients, StatusRead(c) PROVE PassInv'
  BY <1>5 DEF StatusRead, Return, Others, flags, plan, Free, OthersOfEdit, recognition, worker,
        PassInv
<1>6. ASSUME NEW c \in Clients, StopRequest(c) PROVE PassInv'
  BY <1>6 DEF StopRequest, Goto, Others, flags, plan, Free, OthersOfEdit, recognition, worker,
        PassInv
<1>7. ASSUME NEW c \in Clients, StopSync(c) PROVE PassInv'
  BY <1>7 DEF StopSync, Goto, Return, Others, flags, plan, Free, OthersOfEdit, recognition,
        worker, PassInv, CallersOK, Steps
<1>8. ASSUME NEW c \in Clients, StopWait(c) PROVE PassInv'
  BY <1>8 DEF StopWait, Return, Others, plan, Terminal, OthersOfEdit, recognition, worker, PassInv
<1>9. ASSUME NEW c \in Clients, LockSplits(c) PROVE PassInv'
  BY <1>9 DEF LockSplits, GotoWith, Others, flags, plan, Free, OthersOfEdit, recognition, worker,
        PassInv
<1>10. ASSUME NEW c \in Clients, EditPlan(c) PROVE PassInv'
  BY <1>10 DEF EditPlan, NewPlan, Goto, Return, OthersOfEdit, flags, Free, Editable, Stopped, recognition,
        worker, PassInv, CallersOK, Steps
<1>11. ASSUME NEW c \in Clients, EditMarkers(c) PROVE PassInv'
  BY <1>11 DEF EditMarkers, Return, Others, flags, plan, OthersOfEdit, recognition, worker, PassInv
<1>12. ASSUME NEW c \in Clients, EditMeta(c) PROVE PassInv'
  BY <1>12 DEF EditMeta, NewPlan, Return, Others, flags, Free, Editable, Stopped, OthersOfEdit,
        recognition, worker, PassInv
<1>13. ASSUME NEW c \in Clients, RecognizeRead(c) PROVE PassInv'
  BY <1>13 DEF RecognizeRead, Goto, Return, Others, flags, plan, Free, Stopped, OthersOfEdit,
        recognition, worker, PassInv, CallersOK, Steps
<1>14. ASSUME NEW c \in Clients, RecognizeJob(c) PROVE PassInv'
  BY <1>14 DEF RecognizeJob, Goto, Return, worker, flags, plan, PassInv, CallersOK, Steps
<1>15. ASSUME NEW c \in Clients, RecognizeSpawn(c) PROVE PassInv'
  BY <1>15 DEF RecognizeSpawn, Return, history, worker, flags, plan, PassInv, CallersOK, Steps
<1>16. ASSUME NEW c \in Clients, ApplyStatus(c) PROVE PassInv'
  BY <1>16 DEF ApplyStatus, GotoWith, Return, Others, flags, plan, OthersOfEdit, recognition,
        worker, PassInv, CallersOK, Steps
<1>17. ASSUME NEW c \in Clients, ApplyPlan(c) PROVE PassInv'
  BY <1>17 DEF ApplyPlan, Return, Others, flags, Free, Editable, Stopped, OthersOfEdit,
        recognition, worker, PassInv
<1>18. ASSUME NEW c \in Clients, ConfirmRead(c) PROVE PassInv'
  BY <1>18 DEF ConfirmRead, Goto, Return, Others, flags, plan, Free, Stopped, OthersOfEdit,
        recognition, worker, PassInv, CallersOK, Steps
<1>19. ASSUME NEW c \in Clients, ConfirmJob(c) PROVE PassInv'
  BY <1>19 DEF ConfirmJob, Goto, Return, Others, flags, plan, Confirmed, OthersOfEdit,
        recognition, worker, PassInv, CallersOK, Steps
<1>20. ASSUME NEW c \in Clients, Spawn(c) PROVE PassInv'
  BY <1>20 DEF Spawn, Goto, Return, history, recognition, flags, plan, PassInv, CallersOK, Steps
<1>21. ASSUME NEW c \in Clients, Unspawn(c) PROVE PassInv'
  BY <1>21 DEF Unspawn, Return, Others, flags, plan, OthersOfEdit, recognition, worker, PassInv
<1>22. ASSUME NEW c \in Clients, CancelJob(c) PROVE PassInv'
  BY <1>22 DEF CancelJob, Goto, Return, Others, flags, plan, OthersOfEdit, recognition, worker,
        PassInv, CallersOK, Steps
<1>23. ASSUME NEW c \in Clients, CancelPlan(c) PROVE PassInv'
  BY <1>23 DEF CancelPlan, Goto, Return, Others, flags, plan, Free, OthersOfEdit, recognition,
        worker, PassInv, CallersOK, Steps
<1>24. ASSUME NEW c \in Clients, CancelSwap(c) PROVE PassInv'
  BY <1>24 DEF CancelSwap, Goto, Return, Others, plan, OthersOfEdit, recognition, worker, PassInv,
        CallersOK, Steps
<1>25. ASSUME NEW c \in Clients, CancelStop(c) PROVE PassInv'
  BY <1>25 DEF CancelStop, Goto, Others, flags, plan, Free, Terminal, OthersOfEdit, recognition,
        worker, PassInv, CallersOK, Steps
<1>26. ASSUME NEW c \in Clients, CancelWait(c) PROVE PassInv'
  BY <1>26 DEF CancelWait, Goto, Others, flags, plan, Terminal, OthersOfEdit, recognition, worker,
        PassInv
<1>27. ASSUME NEW c \in Clients, CancelRemove(c) PROVE PassInv'
  BY <1>27 DEF CancelRemove, Return, history, recognition, worker, plan, PassInv
<1>28. ASSUME CommitLock PROVE PassInv'
  BY <1>28 DEF CommitLock, history, clients, recognition, flags, Free, Editable, Stopped, PassInv
<1>29. ASSUME CommitImport PROVE PassInv'
  BY <1>29 DEF CommitImport, history, clients, recognition, worker, flags, PassInv
<1>30. ASSUME CommitEnd PROVE PassInv'
  BY <1>30 DEF CommitEnd, history, clients, recognition, flags, plan, PassInv
<1>31. ASSUME CommitReport PROVE PassInv'
  BY <1>31 DEF CommitReport, history, clients, recognition, flags, plan, PassInv
<1>32. ASSUME ReadPlan PROVE PassInv'
  BY <1>32 DEF ReadPlan, history, clients, worker, flags, plan, Free, PassInv
<1>33. ASSUME Publish PROVE PassInv'
  BY <1>33 DEF Publish, history, clients, worker, flags, plan, PassInv
<1>34. ASSUME Land PROVE PassInv'
  BY <1>34 DEF Land, history, clients, recognition, worker, flags, plan, PassInv
<1>35. CASE UNCHANGED vars
  BY <1>35 DEF vars, flags, plan, worker, recognition, clients, history, PassInv
<1> QED
  BY <1>1, <1>2, <1>3, <1>4, <1>5, <1>6, <1>7, <1>8, <1>9, <1>10, <1>11, <1>12, <1>13, <1>14, <1>15, <1>16, <1>17,
     <1>18, <1>19, <1>20, <1>21, <1>22, <1>23, <1>24, <1>25, <1>26, <1>27, <1>28, <1>29, <1>30, <1>31, <1>32, <1>33, <1>34, <1>35
  DEF Next, ClientStep, CommitStep, RecognizerStep

\* Every step keeps the splits handed out in line with the plan.
LEMMA NamesKeep ==
  ASSUME NamesInv, SessionOK, JobsOK, CallersOK, StepsFit, TableInv, AloneInv, PassInv, [Next]_vars
  PROVE  NamesInv'
<1>1. ASSUME NEW c \in Clients, Enter(c) PROVE NamesInv'
  BY <1>1 DEF Enter, recognition, worker, flags, plan, FirstStep, Calls, NamesInv, SessionOK,
        Plans, JobsOK, CallersOK, Steps, StepsFit, AfterSync, TableInv, AloneInv, PastGuard,
        PastPlan, PassInv
<1>2. ASSUME NEW c \in Clients, GuardMutable(c) PROVE NamesInv'
  BY <1>2 DEF GuardMutable, Goto, Return, Others, flags, plan, OthersOfEdit, recognition, worker,
        NamesInv, CallersOK, Steps
<1>3. ASSUME NEW c \in Clients, SyncIfTerminal(c) PROVE NamesInv'
  BY <1>3 DEF SyncIfTerminal, Goto, Others, plan, Free, Terminal, AfterSync, OthersOfEdit,
        recognition, worker, NamesInv, CallersOK, Steps, StepsFit
<1>4. ASSUME NEW c \in Clients, StatusJob(c) PROVE NamesInv'
  BY <1>4 DEF StatusJob, Goto, Others, flags, plan, OthersOfEdit, recognition, worker, NamesInv
<1>5. ASSUME NEW c \in Clients, StatusRead(c) PROVE NamesInv'
  BY <1>5 DEF StatusRead, Return, Others, flags, plan, Free, OthersOfEdit, recognition, worker,
        NamesInv
<1>6. ASSUME NEW c \in Clients, StopRequest(c) PROVE NamesInv'
  BY <1>6 DEF StopRequest, Goto, Others, flags, plan, Free, OthersOfEdit, recognition, worker,
        NamesInv
<1>7. ASSUME NEW c \in Clients, StopSync(c) PROVE NamesInv'
  BY <1>7 DEF StopSync, Goto, Return, Others, flags, plan, Free, OthersOfEdit, recognition,
        worker, NamesInv, CallersOK, Steps
<1>8. ASSUME NEW c \in Clients, StopWait(c) PROVE NamesInv'
  BY <1>8 DEF StopWait, Return, Others, plan, Terminal, OthersOfEdit, recognition, worker, NamesInv
<1>9. ASSUME NEW c \in Clients, LockSplits(c) PROVE NamesInv'
  BY <1>9 DEF LockSplits, GotoWith, Others, flags, plan, Free, OthersOfEdit, recognition, worker,
        NamesInv
<1>10. ASSUME NEW c \in Clients, EditPlan(c) PROVE NamesInv'
  BY <1>10 DEF EditPlan, NewPlan, Goto, Return, OthersOfEdit, flags, Free, Editable, Stopped, recognition,
        worker, NamesInv, CallersOK, Steps
<1>11. ASSUME NEW c \in Clients, EditMarkers(c) PROVE NamesInv'
  BY <1>11 DEF EditMarkers, Return, Others, flags, plan, OthersOfEdit, recognition, worker, NamesInv
<1>12. ASSUME NEW c \in Clients, EditMeta(c) PROVE NamesInv'
  <2>1. cuts' = cuts
    BY <1>12 DEF EditMeta, NewPlan, flags, TableInv
  <2> QED
    BY <1>12, <2>1 DEF EditMeta, NewPlan, Return, Others, OthersOfEdit, recognition, CallersOK, NamesInv
<1>13. ASSUME NEW c \in Clients, RecognizeRead(c) PROVE NamesInv'
  BY <1>13 DEF RecognizeRead, Goto, Return, Others, flags, plan, Free, Stopped, OthersOfEdit,
        recognition, worker, NamesInv, CallersOK, Steps
<1>14. ASSUME NEW c \in Clients, RecognizeJob(c) PROVE NamesInv'
  BY <1>14 DEF RecognizeJob, Goto, Return, worker, flags, plan, NamesInv, SessionOK, Plans,
        JobsOK, CallersOK, Steps, StepsFit, AfterSync, TableInv, AloneInv, PastGuard, PastPlan,
        PassInv
<1>15. ASSUME NEW c \in Clients, RecognizeSpawn(c) PROVE NamesInv'
  BY <1>15 DEF RecognizeSpawn, Return, history, worker, flags, plan, NamesInv, SessionOK, Plans,
        JobsOK, CallersOK, Steps, StepsFit, AfterSync, TableInv, AloneInv, PastGuard, PastPlan,
        PassInv
<1>16. ASSUME NEW c \in Clients, ApplyStatus(c) PROVE NamesInv'
  BY <1>16 DEF ApplyStatus, GotoWith, Return, Others, flags, plan, OthersOfEdit, recognition,
        worker, NamesInv, CallersOK, Steps
<1>17. ASSUME NEW c \in Clients, ApplyPlan(c) PROVE NamesInv'
  BY <1>17 DEF ApplyPlan, Return, Others, flags, Free, Editable, Stopped, OthersOfEdit,
        recognition, worker, NamesInv
<1>18. ASSUME NEW c \in Clients, ConfirmRead(c) PROVE NamesInv'
  BY <1>18 DEF ConfirmRead, Goto, Return, Others, flags, plan, Free, Stopped, OthersOfEdit,
        recognition, worker, NamesInv, CallersOK, Steps
<1>19. ASSUME NEW c \in Clients, ConfirmJob(c) PROVE NamesInv'
  BY <1>19 DEF ConfirmJob, Goto, Return, Others, flags, plan, Confirmed, OthersOfEdit,
        recognition, worker, NamesInv, CallersOK, Steps
<1>20. ASSUME NEW c \in Clients, Spawn(c) PROVE NamesInv'
  BY <1>20 DEF Spawn, Goto, Return, history, recognition, flags, plan, NamesInv, CallersOK, Steps
<1>21. ASSUME NEW c \in Clients, Unspawn(c) PROVE NamesInv'
  BY <1>21 DEF Unspawn, Return, Others, flags, plan, OthersOfEdit, recognition, worker, NamesInv
<1>22. ASSUME NEW c \in Clients, CancelJob(c) PROVE NamesInv'
  BY <1>22 DEF CancelJob, Goto, Return, Others, flags, plan, OthersOfEdit, recognition, worker,
        NamesInv, CallersOK, Steps
<1>23. ASSUME NEW c \in Clients, CancelPlan(c) PROVE NamesInv'
  BY <1>23 DEF CancelPlan, Goto, Return, Others, flags, plan, Free, OthersOfEdit, recognition,
        worker, NamesInv, CallersOK, Steps
<1>24. ASSUME NEW c \in Clients, CancelSwap(c) PROVE NamesInv'
  BY <1>24 DEF CancelSwap, Goto, Return, Others, plan, OthersOfEdit, recognition, worker,
        NamesInv, CallersOK, Steps
<1>25. ASSUME NEW c \in Clients, CancelStop(c) PROVE NamesInv'
  BY <1>25 DEF CancelStop, Goto, Others, flags, plan, Free, Terminal, OthersOfEdit, recognition,
        worker, NamesInv, CallersOK, Steps
<1>26. ASSUME NEW c \in Clients, CancelWait(c) PROVE NamesInv'
  BY <1>26 DEF CancelWait, Goto, Others, flags, plan, Terminal, OthersOfEdit, recognition, worker,
        NamesInv
<1>27. ASSUME NEW c \in Clients, CancelRemove(c) PROVE NamesInv'
  BY <1>27 DEF CancelRemove, Return, history, recognition, worker, plan, NamesInv
<1>28. ASSUME CommitLock PROVE NamesInv'
  BY <1>28 DEF CommitLock, history, clients, recognition, flags, Free, Editable, Stopped, NamesInv
<1>29. ASSUME CommitImport PROVE NamesInv'
  BY <1>29 DEF CommitImport, history, clients, recognition, worker, flags, NamesInv
<1>30. ASSUME CommitEnd PROVE NamesInv'
  BY <1>30 DEF CommitEnd, history, clients, recognition, flags, plan, NamesInv
<1>31. ASSUME CommitReport PROVE NamesInv'
  BY <1>31 DEF CommitReport, history, clients, recognition, flags, plan, NamesInv
<1>32. ASSUME ReadPlan PROVE NamesInv'
  BY <1>32 DEF ReadPlan, history, clients, worker, flags, plan, Free, NamesInv
<1>33. ASSUME Publish PROVE NamesInv'
  BY <1>33 DEF Publish, history, clients, worker, flags, plan, NamesInv
<1>34. ASSUME Land PROVE NamesInv'
  BY <1>34 DEF Land, history, clients, recognition, worker, flags, plan, NamesInv
<1>35. CASE UNCHANGED vars
  BY <1>35 DEF vars, flags, plan, worker, recognition, clients, history, NamesInv
<1> QED
  BY <1>1, <1>2, <1>3, <1>4, <1>5, <1>6, <1>7, <1>8, <1>9, <1>10, <1>11, <1>12, <1>13, <1>14, <1>15, <1>16, <1>17,
     <1>18, <1>19, <1>20, <1>21, <1>22, <1>23, <1>24, <1>25, <1>26, <1>27, <1>28, <1>29, <1>30, <1>31, <1>32, <1>33, <1>34, <1>35
  DEF Next, ClientStep, CommitStep, RecognizerStep

-----------------------------------------------------------------------------
(* The theorems *)

\* The inductive invariant holds at first.
LEMMA InvInit == Init => IInv
<1> SUFFICES ASSUME Init PROVE IInv
  OBVIOUS
<1>1. TypeOK
  BY DEF Init, TypeOK, SessionOK, JobsOK, CallersOK, Plans, Steps
<1>2. StepsFit /\ CommitInv /\ PassInv
  BY DEF Init, StepsFit, CommitInv, Confirming, PassInv
<1>3. TableInv
  BY ClientsAssumption DEF Init, TableInv
<1>4. AloneInv
  BY DEF Init, AloneInv, PastGuard, PastPlan
<1>5. NamesInv
  BY DEF Init, NamesInv
<1> QED
  BY <1>1, <1>2, <1>3, <1>4, <1>5 DEF IInv

\* Every step keeps the inductive invariant.
LEMMA InvStep == IInv /\ [Next]_vars => IInv'
BY SessionKeep, JobsKeep, CallersKeep, StepsKeep, CommitKeep, TableKeep, AloneKeep, PassKeep, NamesKeep
   DEF IInv, TypeOK

\* The inductive invariant always holds.
THEOREM Invariant == Spec => []IInv
BY InvInit, InvStep, PTL DEF Spec

\* Every lock, flag, job and caller keeps its type.
THEOREM TypesHold == Spec => []TypeOK
<1>1. IInv => TypeOK
  BY DEF IInv
<1> QED
  BY <1>1, Invariant, PTL

\* The marker table and the plan agree whenever no edit is between the two.
THEOREM MarkersFollow == Spec => []MarkersMatchPlan
<1>1. IInv => MarkersMatchPlan
  BY ClientsAssumption DEF IInv, TableInv, MarkersMatchPlan, Free
<1> QED
  BY <1>1, Invariant, PTL

\* One commit at a time, and `running` says whether there is one.
THEOREM CommitsAreOne == Spec => []OneCommit
<1>1. ASSUME IInv PROVE OneCommit
  <2> DEFINE confirming == {c \in Clients : pc[c] \in {"spawn", "unspawn"}}
  <2>1. CommitInv
    BY <1>1 DEF IInv
  <2>2. CASE confirming = {}
    BY <2>1, <2>2, FS_EmptySet DEF OneCommit, CommitInv, Confirming
  <2>3. CASE confirming # {}
    <3>1. PICK c \in Clients : Confirming(c)
      BY <2>3 DEF Confirming
    <3>2. confirming = {c} /\ commit = "none" /\ job.running
      BY <2>1, <3>1 DEF CommitInv, Confirming
    <3>3. Cardinality(confirming) = 1
      BY <3>2, FS_Singleton
    <3> QED
      BY <2>3, <3>2, <3>3 DEF OneCommit
  <2> QED
    BY <2>2, <2>3
<1> QED
  BY <1>1, Invariant, PTL

\* A caller that makes one call at a time never cancels away the tracks that the
\* plan names as imported (the guard of DubRipSession::cancel).
THEOREM ImportsAreKept == Spec => []ImportsSurvive
<1>1. IInv => ImportsSurvive
  BY DEF IInv, AloneInv, ImportsSurvive
<1> QED
  BY <1>1, Invariant, PTL

\* Only an edit of the splits moves a boundary.
LEMMA CutsMove ==
  ASSUME IInv, Next, cuts' # cuts
  PROVE  \E c \in Clients : EditPlan(c)
<1>1. ASSUME NEW c \in Clients, EditMeta(c) PROVE cuts' = cuts
  BY <1>1 DEF EditMeta, NewPlan, flags, IInv, TableInv
<1>2. ASSUME NEW c \in Clients, Enter(c) \/ ClientStep(c), ~EditPlan(c), ~EditMeta(c) PROVE cuts' = cuts
  BY <1>2 DEF Enter, ClientStep, GuardMutable, SyncIfTerminal, StatusJob, StatusRead, StopRequest,
    StopSync, StopWait, LockSplits, EditMarkers, RecognizeRead, RecognizeJob, RecognizeSpawn,
    ApplyStatus, ApplyPlan, ConfirmRead, ConfirmJob, Spawn, Unspawn, CancelJob, CancelPlan,
    CancelSwap, CancelStop, CancelWait, CancelRemove, plan
<1>3. ASSUME CommitStep \/ CommitImport \/ RecognizerStep \/ Land PROVE cuts' = cuts
  BY <1>3 DEF CommitStep, CommitLock, CommitImport, CommitEnd, CommitReport, RecognizerStep, ReadPlan,
    Publish, Land, plan
<1> QED
  BY <1>1, <1>2, <1>3 DEF Next, ClientStep

\* For a caller that makes one call at a time no boundary moves under a commit,
\* or after one that fully succeeded.
THEOREM EditsAreGuarded == Spec => EditsGuarded
<1> DEFINE Guarded == cuts' # cuts /\ ~overlapped => ~job.running /\ ~(job.finished /\ job.complete)
<1>1. ASSUME IInv, [Next]_vars PROVE [Guarded]_vars
  <2>1. CASE cuts' # cuts /\ Next
    <3>1. PICK c \in Clients : EditPlan(c)
      BY <1>1, <2>1, CutsMove
    <3>2. PastGuard(c)
      BY <3>1 DEF EditPlan, NewPlan, PastGuard
    <3> QED
      BY <1>1, <3>2 DEF IInv, AloneInv
  <2> QED
    BY <1>1, <2>1
<1> QED
  BY <1>1, Invariant, PTL DEF Spec, EditsGuarded

\* Only apply_recognition writes names, and gives those it was handed.
LEMMA NamesCome ==
  ASSUME Next, named' # named
  PROVE  \E c \in Clients : ApplyPlan(c)
<1>1. ASSUME NEW c \in Clients, Enter(c) \/ ClientStep(c), ~ApplyPlan(c) PROVE named' = named
  BY <1>1 DEF Enter, ClientStep, GuardMutable, SyncIfTerminal, StatusJob, StatusRead, StopRequest,
    StopSync, StopWait, LockSplits, EditPlan, EditMarkers, EditMeta, RecognizeRead, RecognizeJob,
    RecognizeSpawn, ApplyStatus, ConfirmRead, ConfirmJob, Spawn, Unspawn, CancelJob, CancelPlan,
    CancelSwap, CancelStop, CancelWait, CancelRemove, plan
<1>2. ASSUME CommitStep \/ CommitImport \/ RecognizerStep \/ Land PROVE named' = named
  BY <1>2 DEF CommitStep, CommitLock, CommitImport, CommitEnd, CommitReport, RecognizerStep, ReadPlan,
    Publish, Land, plan
<1> QED
  BY <1>1, <1>2 DEF Next

\* Recognised names go to the splits they were recognised for, if nobody edited
\* those since, and a caller makes one call at a time.
THEOREM NamesDoFit == Spec => NamesFit
<1> DEFINE Fits == named' # named /\ ~overlapped /\ ~moved => named' = cuts
<1>1. ASSUME IInv, [Next]_vars PROVE [Fits]_vars
  <2>1. CASE named' # named /\ ~overlapped /\ ~moved /\ Next
    <3>1. PICK c \in Clients : ApplyPlan(c)
      BY <1>1, <2>1, NamesCome
    <3>2. named' = arg[c] /\ arg[c] # None
      BY <2>1, <3>1 DEF ApplyPlan
    <3>3. arg[c] \in {None, cuts}
      BY <1>1, <2>1, <3>1 DEF ApplyPlan, IInv, NamesInv
    <3> QED
      BY <3>2, <3>3
  <2> QED
    BY <1>1, <2>1
<1> QED
  BY <1>1, Invariant, PTL DEF Spec, NamesFit

=============================================================================
