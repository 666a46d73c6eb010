-------------------------- MODULE EvaluationProofs --------------------------
(***************************************************************************)
(* Proofs about Evaluation, for any number of requests, workers, runs,     *)
(* attempts and manifests, and for any set of faults; the last two         *)
(* theorems name the operations and faults they need to be absent.         *)
(***************************************************************************)
EXTENDS Evaluation, TLAPS

-----------------------------------------------------------------------------
(* The inductive invariant.                                                *)

\* Which kinds of handler are found at which step.
KindsAt(step) ==
    CASE step = "idle" -> {"none"}
      [] step = "claim" -> Runs
      [] step \in {"load", "fail"} -> {"validate", "run"}
      [] step \in {"state", "finish"} -> {"validate", "run", "worker"}
      [] step = "ensure" -> {"run", "worker"}
      [] step \in {"checkpoint", "mark"} -> Decisions
      [] OTHER -> {"worker"}

HasManifest == {"ensure", "state", "finish", "recover", "checkpoint", "mark"}

\* A frame has the kind its step calls for, and names a run of its own graph.
FrameOK(p) ==
    /\ call[p].kind \in KindsAt(call[p].pc)
    /\ call[p].pc \in HasManifest => call[p].manifest \in Manifests
    /\ Claimed(p) => call[p].run \in RunIds /\ runs[call[p].run].graph = "api"
    /\ call[p].kind = "worker" =>
        /\ p \in Evaluators
        /\ call[p].run \in RunIds
        /\ runs[call[p].run].graph = "worker"
        /\ call[p].attempt <= runs[call[p].run].attempt
    /\ call[p].pc = "mark" =>
        call[p].run \in RunIds /\ runs[call[p].run].status # "NONE"

\* Rows are created in order, and only rows of the worker graph are typed.
RowOK(i) ==
    /\ runs[i].status = "NONE" <=> runs[i].graph = "none"
    /\ runs[i].typed => runs[i].graph = "worker"
    /\ runs[i].status = "NONE" => \A j \in RunIds : i < j => runs[j].status = "NONE"

\* No claim is newer than the release.
ClaimOK(p) == Claimed(p) => call[p].version <= release.version

IInv ==
    /\ TypeOK
    /\ \A p \in Processes : FrameOK(p)
    /\ \A i \in RunIds : RowOK(i)
    /\ \A p \in Processes : ClaimOK(p)
    /\ ApiRunsSerial
    /\ ClaimOwnsState
    /\ AttemptsDistinct

USE RequestsAssumption, HandlersAssumption, WorkerIdAssumption, BoundsAssumption, SourceAssumption
    DEF Evaluators

LEMMA RecordTypes ==
    /\ IdleCall \in CallRecords
    /\ UnusedRun \in RunRecords
    /\ \A op \in Runs : NewRun(op) \in RunRecords
<1>1. "DRAFT" \in ReleaseStates /\ "idle" \in Steps
  BY DEF ReleaseStates, Steps
<1>2. IdleCall \in CallRecords
  BY <1>1 DEF IdleCall, CallRecords
<1>3. UnusedRun \in RunRecords
  BY DEF UnusedRun, RunRecords, RunStatuses, Leases
<1>4. ASSUME NEW op \in Runs PROVE NewRun(op) \in RunRecords
  <2>1. [UnusedRun EXCEPT !.status = "WAITING", !.graph = "worker", !.typed = TRUE] \in RunRecords
    BY <1>3 DEF RunRecords, RunStatuses
  <2>2. [UnusedRun EXCEPT !.status = "RUNNING", !.graph = "api"] \in RunRecords
    BY <1>3 DEF RunRecords, RunStatuses
  <2>3. QED
    BY <2>1, <2>2 DEF NewRun
<1>5. QED
  BY <1>2, <1>3, <1>4

\* Every frame a handler builds is a frame.
LEMMA FrameTypes ==
    ASSUME NEW f \in CallRecords, NEW s \in Steps
    PROVE  /\ [f EXCEPT !.pc = s] \in CallRecords
           /\ \A k \in Runs \cup Decisions : [f EXCEPT !.pc = s, !.kind = k] \in CallRecords
           /\ \A i \in Nat : [f EXCEPT !.pc = s, !.run = i] \in CallRecords
           /\ \A i \in Nat : [f EXCEPT !.pc = s, !.manifest = i] \in CallRecords
           /\ \A m \in Nat : \A k \in Decisions :
                [f EXCEPT !.pc = s, !.kind = k, !.manifest = m] \in CallRecords
           /\ \A i, v \in Nat : \A q \in ReleaseStates :
                [f EXCEPT !.pc = s, !.run = i, !.version = v, !.prev = q] \in CallRecords
           /\ \A m, j \in Nat : \A v \in Verdicts :
                [f EXCEPT !.pc = s, !.manifest = m, !.judged = j, !.verdict = v] \in CallRecords
           /\ \A i, a \in Nat :
                [f EXCEPT !.pc = s, !.kind = "worker", !.run = i, !.attempt = a] \in CallRecords
           /\ \A j \in Nat : \A v \in Verdicts :
                [f EXCEPT !.pc = s, !.judged = j, !.verdict = v] \in CallRecords
  BY DEF CallRecords

LEMMA CallType ==
    ASSUME NEW p \in Processes, NEW frame \in CallRecords,
           call \in [Processes -> CallRecords], Return(p, frame) \/ Become(p, frame)
    PROVE  call' \in [Processes -> CallRecords]
<1>1. "fail" \in Steps
  BY DEF Steps
<1>2. Thrown(p) \in CallRecords
  BY <1>1, FrameTypes, RecordTypes DEF Thrown
<1>3. QED
  BY <1>2 DEF Return, Become

LEMMA ReleaseType ==
    ASSUME release \in [state : ReleaseStates, version : Nat], NEW s \in ReleaseStates
    PROVE  NextRelease(s) \in [state : ReleaseStates, version : Nat]
  BY DEF NextRelease

\* Every row a handler writes is a row.
LEMMA RowTypes ==
    ASSUME runs \in [RunIds -> RunRecords], NEW i \in RunIds
    PROVE  /\ \A s \in RunStatuses : \A a \in ActionKeys \cup {NoAction} :
                UpdatedRun(i, s, a) \in RunRecords
           /\ Unleased(i) \in RunRecords
           /\ \A w \in Workers : LeasedRun(i, w) \in RunRecords
<1>1. "RUNNING" \in RunStatuses /\ {"none", "live"} \subseteq Leases
  BY DEF RunStatuses, Leases
<1>2. runs[i] \in RunRecords
  OBVIOUS
<1>3. ASSUME NEW s \in RunStatuses, NEW a \in ActionKeys \cup {NoAction}
      PROVE  UpdatedRun(i, s, a) \in RunRecords
  BY <1>2 DEF UpdatedRun, RunRecords
<1>4. Unleased(i) \in RunRecords
  BY <1>1, <1>2 DEF Unleased, RunRecords
<1>5. ASSUME NEW w \in Workers PROVE LeasedRun(i, w) \in RunRecords
  <2>1. ASSUME NEW o \in WorkerIds, NEW n \in Nat, NEW l \in Leases, NEW s \in RunStatuses
        PROVE  [runs[i] EXCEPT !.status = s, !.attempt = n, !.owner = o, !.lease = l] \in RunRecords
    BY <1>2 DEF RunRecords
  <2>2. runs[i].attempt + 1 \in Nat
    BY <1>2 DEF RunRecords
  <2>3. QED
    BY <1>1, <2>1, <2>2 DEF LeasedRun
<1>6. QED
  BY <1>3, <1>4, <1>5

LEMMA InitIInv == Init => IInv
<1> SUFFICES ASSUME Init PROVE IInv
  OBVIOUS
<1>1. 1 \in Manifests /\ "DRAFT" \in ReleaseStates /\ "NONE" \in ActionStatuses
  BY DEF Manifests, ReleaseStates, ActionStatuses
<1>2. TypeOK
  BY <1>1, RecordTypes DEF Init, TypeOK
<1>3. \A p \in Processes : FrameOK(p) /\ ClaimOK(p) /\ ~ Claimed(p)
  BY DEF Init, FrameOK, ClaimOK, Claimed, KindsAt, HasManifest, IdleCall
<1>4. \A i \in RunIds : RowOK(i) /\ runs[i].graph # "api"
  BY DEF Init, RowOK, UnusedRun
<1>5. AttemptsDistinct
  BY DEF Init, AttemptsDistinct, At, IdleCall, Processes
<1>6. QED
  BY <1>2, <1>3, <1>4, <1>5 DEF IInv, ApiRunsSerial, ClaimOwnsState

\* A handler past its claim names an existing run of its own graph.
LEMMA RunBound ==
    ASSUME NEW p \in Processes, FrameOK(p)
    PROVE  /\ call[p].pc \in {"recover", "release", "prepare", "complete", "read"} =>
                /\ call[p].kind = "worker"
                /\ call[p].run \in RunIds
           /\ call[p].pc \in {"load", "ensure", "state", "finish", "fail"} =>
                /\ call[p].kind = "worker" \/ Claimed(p)
                /\ call[p].run \in RunIds
  BY DEF FrameOK, KindsAt, Claimed

\* Each action keeps the types.
LEMMA TypeStep == IInv /\ [Next]_vars => TypeOK'
<1> SUFFICES ASSUME IInv, [Next]_vars PROVE TypeOK'
  OBVIOUS
<1>0. TypeOK /\ (\A p \in Processes : call[p] \in CallRecords /\ FrameOK(p))
  BY DEF IInv, TypeOK
<1>a. \A p \in Processes : call[p].run \in Nat /\ call[p].prev \in ReleaseStates
  BY <1>0 DEF CallRecords
<1>b. {"VALIDATING", "BLOCKED", "REMEDIATING", "READY_FOR_APPROVAL", "APPROVED"} \subseteq ReleaseStates
  BY DEF ReleaseStates
<1>c. Steps = {"idle", "claim", "load", "ensure", "state", "finish", "fail", "prepare", "complete",
               "read", "recover", "release", "checkpoint", "mark"}
  BY DEF Steps
<1>d. Manifests \subseteq Nat /\ RunIds \subseteq Nat
  BY DEF Manifests, RunIds
<1>e. RunStatuses = {"NONE", "RUNNING", "WAITING", "COMPLETED", "FAILED"}
  BY DEF RunStatuses
<1>f. \A m \in Manifests : SubmissionKey(m) \in ActionKeys /\ RemediationKey(m) \in ActionKeys
  BY DEF SubmissionKey, RemediationKey, ActionKeys
<1>1. ASSUME NEW p \in Requests, NEW op \in Runs, RequireRunnable(p, op) PROVE TypeOK'
  <2>1. [IdleCall EXCEPT !.pc = "claim", !.kind = op] \in CallRecords
    BY <1>c, RecordTypes, FrameTypes
  <2>2. QED
    BY <1>0, <1>1, <2>1, CallType DEF RequireRunnable, TypeOK, Processes
<1>2. ASSUME NEW p \in Requests, ClaimRefused(p) PROVE TypeOK'
  BY <1>0, <1>2, RecordTypes, CallType DEF ClaimRefused, TypeOK, Processes
<1>3. ASSUME NEW p \in Requests, ClaimWorkflow(p) PROVE TypeOK'
  <2>1. PICK i \in RunIds :
          /\ runs' = [runs EXCEPT ![i] = NewRun(call[p].kind)]
          /\ release' = NextRelease("VALIDATING")
          /\ Return(p, IF call[p].kind = "queue" THEN IdleCall
                       ELSE [call[p] EXCEPT !.pc = "load", !.run = i,
                                            !.version = release'.version,
                                            !.prev = release.state])
    BY <1>3 DEF ClaimWorkflow
  <2>2. release' \in [state : ReleaseStates, version : Nat]
    BY <1>0, <1>b, <2>1, ReleaseType DEF TypeOK
  <2>3. release.state \in ReleaseStates /\ release'.version \in Nat
    BY <1>0, <2>2 DEF TypeOK
  <2>4. [call[p] EXCEPT !.pc = "load", !.run = i, !.version = release'.version,
                        !.prev = release.state] \in CallRecords
    BY <1>0, <1>c, <1>d, <2>3, FrameTypes DEF Processes
  <2>5. call' \in [Processes -> CallRecords]
    BY <1>0, <2>1, <2>4, RecordTypes, CallType DEF TypeOK, Processes
  <2>6. call[p].kind \in Runs
    BY <1>0, <1>3 DEF ClaimWorkflow, At, FrameOK, KindsAt, Processes
  <2>7. runs' \in [RunIds -> RunRecords]
    BY <1>0, <2>1, <2>6, RecordTypes DEF TypeOK
  <2>8. QED
    BY <1>0, <1>3, <2>2, <2>5, <2>7 DEF ClaimWorkflow, TypeOK
<1>4. ASSUME NEW p \in Requests, Load(p) PROVE TypeOK'
  <2>1. \A k : \A v : AfterVerdict(k, v) \in Steps
    BY <1>c DEF AfterVerdict
  <2>2. PICK v \in Verdicts :
          Become(p, [call[p] EXCEPT !.pc = AfterVerdict(call[p].kind, v), !.manifest = manifest,
                                    !.judged = manifest, !.verdict = v])
    BY <1>4 DEF Load
  <2>3. [call[p] EXCEPT !.pc = AfterVerdict(call[p].kind, v), !.manifest = manifest,
                        !.judged = manifest, !.verdict = v] \in CallRecords
    BY <1>0, <1>d, <2>1, FrameTypes DEF Processes, TypeOK
  <2>4. QED
    BY <1>0, <1>4, <2>2, <2>3, CallType DEF Load, TypeOK, Processes
<1>5. ASSUME NEW p \in Requests, FailRun(p) PROVE TypeOK'
  <2>1. call' \in [Processes -> CallRecords]
    BY <1>0, <1>5, RecordTypes, CallType DEF FailRun, TypeOK, Processes
  <2>2. release' \in [state : ReleaseStates, version : Nat]
    BY <1>0, <1>5, <1>a, ReleaseType DEF FailRun, TypeOK, Processes
  <2>3. runs' \in [RunIds -> RunRecords]
    BY <1>0, <1>5, <1>e, RunBound, RowTypes DEF FailRun, UpdateWorkflowRun, At, TypeOK, Processes
  <2>4. QED
    BY <1>0, <1>5, <2>1, <2>2, <2>3 DEF FailRun, TypeOK
<1>6. ASSUME NEW p \in Requests, NEW d \in Decisions, Decide(p, d) PROVE TypeOK'
  <2>1. PICK m \in Manifests :
          /\ actions' = [actions EXCEPT ![SubmissionKey(m)] = DecisionStatus(d)]
          /\ Return(p, [IdleCall EXCEPT !.pc = "checkpoint", !.kind = d, !.manifest = m])
    BY <1>6 DEF Decide
  <2>2. [IdleCall EXCEPT !.pc = "checkpoint", !.kind = d, !.manifest = m] \in CallRecords
    BY <1>c, <1>d, RecordTypes, FrameTypes
  <2>3. call' \in [Processes -> CallRecords]
    BY <1>0, <2>1, <2>2, CallType DEF TypeOK, Processes
  <2>4. actions' \in [ActionKeys -> ActionStatuses]
    BY <1>0, <2>1 DEF TypeOK, DecisionStatus, ActionStatuses
  <2>5. release' \in [state : ReleaseStates, version : Nat]
    BY <1>0, <1>6, <1>b, ReleaseType DEF Decide, DecisionState, TypeOK
  <2>6. QED
    BY <1>0, <1>6, <2>3, <2>4, <2>5 DEF Decide, TypeOK
<1>7. ASSUME NEW p \in Requests, ListRuns(p) PROVE TypeOK'
  <2>1. \A i \in RunIds : [call[p] EXCEPT !.pc = "mark", !.run = i] \in CallRecords
    BY <1>0, <1>c, <1>d, FrameTypes DEF Processes
  <2>2. call' \in [Processes -> CallRecords]
    BY <1>0, <1>7, <2>1, RecordTypes, CallType DEF ListRuns, WaitingFor, TypeOK, Processes
  <2>3. QED
    BY <1>0, <1>7, <2>2 DEF ListRuns, TypeOK
<1>8. ASSUME NEW p \in Requests, MarkRun(p) PROVE TypeOK'
  <2>1. call' \in [Processes -> CallRecords]
    BY <1>0, <1>8, RecordTypes, CallType DEF MarkRun, TypeOK, Processes
  <2>2. SubmissionKey(call[p].manifest) \in ActionKeys
    BY <1>0, <1>8, <1>f DEF MarkRun, At, FrameOK, HasManifest, Processes
  <2>3. runs' \in [RunIds -> RunRecords]
    BY <1>0, <1>8, <1>e, <2>2, RowTypes DEF MarkRun, UpdateWorkflowRun, At, FrameOK, TypeOK, Processes
  <2>4. QED
    BY <1>0, <1>8, <2>1, <2>3 DEF MarkRun, TypeOK
<1>9. ASSUME NEW w \in Workers, ClaimNext(w) PROVE TypeOK'
  <2>1. PICK i \in RunIds :
          /\ runs' = [runs EXCEPT ![i] = LeasedRun(i, w)]
          /\ Return(w, [IdleCall EXCEPT !.pc = "prepare", !.kind = "worker", !.run = i,
                                        !.attempt = runs'[i].attempt])
    BY <1>9 DEF ClaimNext
  <2>2. LeasedRun(i, w) \in RunRecords
    BY <1>0, RowTypes DEF TypeOK
  <2>3. runs' \in [RunIds -> RunRecords]
    BY <1>0, <2>1, <2>2 DEF TypeOK
  <2>4. runs'[i].attempt \in Nat
    BY <2>3 DEF RunRecords
  <2>5. [IdleCall EXCEPT !.pc = "prepare", !.kind = "worker", !.run = i,
                         !.attempt = runs'[i].attempt] \in CallRecords
    BY <1>c, <1>d, <2>4, RecordTypes, FrameTypes
  <2>6. call' \in [Processes -> CallRecords]
    BY <1>0, <2>1, <2>5, CallType DEF TypeOK, Processes
  <2>7. QED
    BY <1>0, <1>9, <2>3, <2>6 DEF ClaimNext, TypeOK
<1>10. ASSUME NEW w \in Workers, Prepare(w) PROVE TypeOK'
  <2>1. PICK v \in Verdicts :
          Become(w, [call[w] EXCEPT !.pc = "complete", !.judged = manifest, !.verdict = v])
    BY <1>10 DEF Prepare
  <2>2. [call[w] EXCEPT !.pc = "complete", !.judged = manifest, !.verdict = v] \in CallRecords
    BY <1>0, <1>c, <1>d, FrameTypes DEF Processes, TypeOK
  <2>3. QED
    BY <1>0, <1>10, <2>1, <2>2, CallType DEF Prepare, TypeOK, Processes
<1>11. ASSUME NEW w \in Evaluators, CheckLease(w) PROVE TypeOK'
  <2>1. [call[w] EXCEPT !.pc = "read"] \in CallRecords
    BY <1>0, <1>c, FrameTypes DEF Processes
  <2>2. QED
    BY <1>0, <1>11, <2>1, RecordTypes, CallType DEF CheckLease, TypeOK, Processes
<1>12. ASSUME NEW w \in Evaluators, ReadRelease(w) PROVE TypeOK'
  <2>1. \A m \in Manifests : \A s \in Steps :
          [call[w] EXCEPT !.pc = s, !.manifest = m] \in CallRecords
    BY <1>0, <1>d, FrameTypes DEF Processes
  <2>2. AfterVerdict("worker", call[w].verdict) \in Steps /\ "recover" \in Steps
    BY <1>c DEF AfterVerdict
  <2>3. \E f \in CallRecords : Become(w, f)
    BY <1>0, <1>12, <2>1, <2>2, RecordTypes DEF ReadRelease, TypeOK
  <2>4. QED
    BY <1>0, <1>12, <2>3, CallType DEF ReadRelease, TypeOK, Processes
<1>13. ASSUME NEW w \in Evaluators, Recover(w) PROVE TypeOK'
  <2>1. [call[w] EXCEPT !.pc = "release"] \in CallRecords
    BY <1>0, <1>c, FrameTypes DEF Processes
  <2>2. call' \in [Processes -> CallRecords]
    BY <1>0, <1>13, <2>1, CallType DEF Recover, TypeOK, Processes
  <2>3. SubmissionKey(call[w].manifest) \in ActionKeys
    BY <1>0, <1>13, <1>f DEF Recover, At, FrameOK, HasManifest, Processes
  <2>4. runs' \in [RunIds -> RunRecords]
    BY <1>0, <1>13, <1>e, <2>3, RunBound, RowTypes DEF Recover, UpdateWorkflowRun, At, TypeOK, Processes
  <2>5. QED
    BY <1>0, <1>13, <2>2, <2>4 DEF Recover, TypeOK
<1>14. ASSUME NEW w \in Evaluators, ReleaseLease(w) PROVE TypeOK'
  <2>1. call' \in [Processes -> CallRecords]
    BY <1>0, <1>14, RecordTypes, CallType DEF ReleaseLease, TypeOK, Processes
  <2>2. runs' \in [RunIds -> RunRecords]
    BY <1>0, <1>14, RunBound, RowTypes DEF ReleaseLease, At, TypeOK, Processes
  <2>3. QED
    BY <1>0, <1>14, <2>1, <2>2 DEF ReleaseLease, TypeOK
<1>15. ASSUME NEW p \in Processes, Ensure(p) PROVE TypeOK'
  <2>1. [call[p] EXCEPT !.pc = "state"] \in CallRecords
    BY <1>0, <1>c, FrameTypes
  <2>2. call' \in [Processes -> CallRecords]
    BY <1>0, <1>15, <2>1, CallType DEF Ensure, TypeOK
  <2>3. actions' \in [ActionKeys -> ActionStatuses]
    BY <1>0, <1>15 DEF Ensure, Ensured, TypeOK, ActionStatuses
  <2>4. QED
    BY <1>0, <1>15, <2>2, <2>3 DEF Ensure, TypeOK
<1>16. ASSUME NEW p \in Processes, EnsureConflict(p) \/ Throw(p) PROVE TypeOK'
  <2>1. Thrown(p) \in CallRecords
    BY <1>0, <1>c, FrameTypes, RecordTypes DEF Thrown
  <2>2. QED
    BY <1>0, <1>16, <2>1, CallType DEF EnsureConflict, Throw, TypeOK
<1>17. ASSUME NEW p \in Processes, WriteState(p) PROVE TypeOK'
  <2>1. [call[p] EXCEPT !.pc = "finish"] \in CallRecords
    BY <1>0, <1>c, FrameTypes
  <2>2. call' \in [Processes -> CallRecords]
    BY <1>0, <1>17, <2>1, CallType DEF WriteState, TypeOK
  <2>3. OutcomeState(call[p].kind, call[p].verdict) \in ReleaseStates
    BY <1>b DEF OutcomeState
  <2>4. release' \in [state : ReleaseStates, version : Nat]
    BY <1>0, <1>17, <2>3, ReleaseType DEF WriteState, TypeOK
  <2>5. QED
    BY <1>0, <1>17, <2>2, <2>4 DEF WriteState, TypeOK
<1>18. ASSUME NEW p \in Processes, FinishRun(p) PROVE TypeOK'
  <2>1. [call[p] EXCEPT !.pc = "release"] \in CallRecords
    BY <1>0, <1>c, FrameTypes
  <2>2. call' \in [Processes -> CallRecords]
    BY <1>0, <1>18, <2>1, RecordTypes, CallType DEF FinishRun, TypeOK
  <2>3. call[p].manifest \in Manifests
    BY <1>0, <1>18 DEF FinishRun, At, FrameOK, HasManifest
  <2>4. OutcomeAction(p) \in ActionKeys \cup {NoAction}
    BY <1>f, <2>3 DEF OutcomeAction, KeyOf
  <2>5. runs' \in [RunIds -> RunRecords]
    BY <1>0, <1>18, <1>e, <2>4, RunBound, RowTypes DEF FinishRun, UpdateWorkflowRun, At, OutcomeStatus, TypeOK
  <2>6. QED
    BY <1>0, <1>18, <2>2, <2>5 DEF FinishRun, TypeOK
<1>19. ASSUME NEW p \in Processes, ApiCrash(p) \/ (p \in Workers /\ WorkerCrash(p)) PROVE TypeOK'
  <2>1. CASE Become(p, IdleCall)
    BY <1>0, <1>19, <2>1, RecordTypes, CallType DEF ApiCrash, WorkerCrash, TypeOK
  <2>2. CASE p \in Workers /\ WorkerCrash(p) /\ \E h \in Handlers : WorkerLeaves(p, h)
    <3>1. call' \in [Processes -> CallRecords]
      BY <1>0, <2>2, RecordTypes DEF WorkerLeaves, TypeOK, Processes
    <3>2. QED
      BY <1>0, <2>2, <3>1 DEF WorkerCrash, TypeOK
  <2>3. QED
    BY <1>19, <2>1, <2>2 DEF ApiCrash, WorkerCrash, WorkerDies
<1>20. CASE RegisterAsset
  BY <1>0, <1>20 DEF RegisterAsset, TypeOK, Manifests
<1>21. ASSUME NEW i \in RunIds, LeaseExpires(i) PROVE TypeOK'
  <2>1. runs' \in [RunIds -> RunRecords]
    BY <1>0, <1>21 DEF LeaseExpires, TypeOK, RunRecords, Leases
  <2>2. QED
    BY <1>0, <1>21, <2>1 DEF LeaseExpires, TypeOK
<1>22. CASE UNCHANGED vars
  BY <1>0, <1>22 DEF vars, TypeOK
<1>23. QED
  BY <1>1, <1>2, <1>3, <1>4, <1>5, <1>6, <1>7, <1>8, <1>9, <1>10, <1>11, <1>12, <1>13, <1>14,
     <1>15, <1>16, <1>17, <1>18, <1>19, <1>20, <1>21, <1>22
     DEF Next, RequestStep, WorkerStep, CompletionStep, FinishStep, Processes

-----------------------------------------------------------------------------
(* What a step does to the rows.                                           *)

\* Row i is the next free one and becomes a run of a graph that had none
\* active, under a new version of the release.
Created(i) ==
    /\ IsNextRow(i)
    /\ runs'[i].status # "NONE" /\ runs'[i].graph \in {"api", "worker"}
    /\ ~ GraphBusy(runs'[i].graph)
    /\ runs'[i].typed => runs'[i].graph = "worker"
    /\ release'.version = release.version + 1

\* Row i is changed and stays what it is; only a typed row starts running.
Changed(i) ==
    /\ runs'[i].graph = runs[i].graph
    /\ runs'[i].attempt \in Nat /\ runs'[i].attempt >= runs[i].attempt
    /\ runs'[i].typed => runs[i].typed
    /\ runs'[i].status = "NONE" <=> runs[i].status = "NONE"
    /\ runs'[i].status = "RUNNING" => runs[i].typed \/ runs[i].status = "RUNNING"

OneRow(i) == \A j \in RunIds \ {i} : runs'[j] = runs[j]

RowEffect ==
    \/ runs' = runs
    \/ \E i \in RunIds : OneRow(i) /\ (Created(i) \/ Changed(i))

LEMMA RowFields ==
    ASSUME runs \in [RunIds -> RunRecords], NEW i \in RunIds
    PROVE  /\ \A s, a : UpdatedRun(i, s, a).status = s
                /\ UpdatedRun(i, s, a).graph = runs[i].graph
                /\ UpdatedRun(i, s, a).typed = runs[i].typed
                /\ UpdatedRun(i, s, a).attempt = runs[i].attempt
           /\ Unleased(i).status = runs[i].status
           /\ Unleased(i).graph = runs[i].graph
           /\ ~ Unleased(i).typed
           /\ Unleased(i).attempt = runs[i].attempt
           /\ \A w \in Evaluators : LeasedRun(i, w).status = "RUNNING"
                /\ LeasedRun(i, w).graph = runs[i].graph
                /\ LeasedRun(i, w).typed = runs[i].typed
                /\ LeasedRun(i, w).attempt = runs[i].attempt + 1
           /\ runs[i].attempt \in Nat /\ runs[i].typed \in BOOLEAN
<1>1. runs[i] \in RunRecords
  OBVIOUS
<1>2. QED
  BY <1>1 DEF UpdatedRun, Unleased, LeasedRun, RunRecords

LEMMA NewRunFields ==
    ASSUME NEW op \in Runs
    PROVE  /\ NewRun(op).status \in {"WAITING", "RUNNING"}
           /\ NewRun(op).graph = GraphOf(op)
           /\ NewRun(op).typed => op = "queue"
           /\ NewRun(op).graph = "worker" <=> op = "queue"
  BY DEF NewRun, GraphOf, UnusedRun, Runs

\* updateWorkflowRun on an existing row, to a status other than RUNNING.
LEMMA UpdateChanges ==
    ASSUME runs \in [RunIds -> RunRecords], NEW i \in RunIds, runs[i].status # "NONE",
           NEW s \in {"WAITING", "COMPLETED", "FAILED"}, NEW a, UpdateWorkflowRun(i, s, a)
    PROVE  OneRow(i) /\ Changed(i)
<1>1. runs'[i] = UpdatedRun(i, s, a) /\ OneRow(i)
  BY DEF UpdateWorkflowRun, OneRow
<1>2. runs'[i].attempt \in Nat /\ runs'[i].attempt >= runs[i].attempt
  BY <1>1, RowFields
<1>3. runs'[i].graph = runs[i].graph /\ (runs'[i].typed => runs[i].typed) /\ runs'[i].status = s
  BY <1>1, RowFields
<1>4. QED
  BY <1>1, <1>2, <1>3 DEF Changed

\* The run a handler works on exists.
LEMMA RunExists ==
    ASSUME TypeOK, NEW p \in Processes, FrameOK(p), \A i \in RunIds : RowOK(i),
           call[p].pc \notin {"idle", "claim", "checkpoint"}
    PROVE  call[p].run \in RunIds /\ runs[call[p].run].status # "NONE"
<1>1. call[p].pc \in Steps
  BY DEF TypeOK, CallRecords
<1>2. call[p].pc = "mark" \/ call[p].kind = "worker" \/ Claimed(p)
  BY <1>1 DEF FrameOK, KindsAt, Claimed, Steps
<1>3. QED
  BY <1>2 DEF FrameOK, RowOK

LEMMA RowEffects == IInv /\ [Next]_vars => RowEffect
<1> SUFFICES ASSUME IInv, [Next]_vars, runs' # runs PROVE RowEffect
  BY DEF RowEffect
<1>0. /\ TypeOK /\ runs \in [RunIds -> RunRecords]
      /\ \A p \in Processes : FrameOK(p)
      /\ \A i \in RunIds : RowOK(i)
  BY DEF IInv, TypeOK
<1>1. ASSUME NEW p \in Requests, ClaimWorkflow(p) PROVE RowEffect
  <2>1. PICK i \in RunIds : IsNextRow(i) /\ runs' = [runs EXCEPT ![i] = NewRun(call[p].kind)]
    BY <1>1 DEF ClaimWorkflow
  <2>2. call[p].kind \in Runs
    BY <1>0, <1>1 DEF ClaimWorkflow, At, FrameOK, KindsAt, Processes
  <2>3. runs'[i] = NewRun(call[p].kind) /\ OneRow(i)
    BY <1>0, <2>1 DEF OneRow
  <2>4. release'.version = release.version + 1
    BY <1>1 DEF ClaimWorkflow, NextRelease
  <2>5. GraphOf(call[p].kind) \in {"api", "worker"} /\ ~ GraphBusy(GraphOf(call[p].kind))
    BY <1>1 DEF ClaimWorkflow, GraphOf
  <2>6. Created(i)
    <3>1. /\ runs'[i].status # "NONE" /\ runs'[i].graph = GraphOf(call[p].kind)
          /\ runs'[i].typed => runs'[i].graph = "worker"
      BY <2>2, <2>3, NewRunFields
    <3>2. QED
      BY <2>1, <2>4, <2>5, <3>1 DEF Created
  <2>7. QED
    BY <2>3, <2>6 DEF RowEffect
<1>2. ASSUME NEW p \in Processes, NEW s \in {"WAITING", "COMPLETED", "FAILED"}, NEW a,
             call[p].pc \notin {"idle", "claim", "checkpoint"},
             UpdateWorkflowRun(call[p].run, s, a)
      PROVE  RowEffect
  BY <1>0, <1>2, RunExists, UpdateChanges DEF RowEffect
<1>3. ASSUME NEW p \in Requests, FailRun(p) PROVE RowEffect
  BY <1>2, <1>3 DEF FailRun, At, Processes
<1>4. ASSUME NEW p \in Requests, MarkRun(p) PROVE RowEffect
  BY <1>2, <1>4 DEF MarkRun, At, Processes
<1>5. ASSUME NEW w \in Evaluators, Recover(w) PROVE RowEffect
  BY <1>2, <1>5 DEF Recover, At, Processes
<1>6. ASSUME NEW p \in Processes, FinishRun(p) PROVE RowEffect
  BY <1>2, <1>6 DEF FinishRun, At, OutcomeStatus
<1>7. ASSUME NEW w \in Workers, ClaimNext(w) PROVE RowEffect
  <2>1. PICK i \in RunIds : Claimable(i) /\ runs' = [runs EXCEPT ![i] = LeasedRun(i, w)]
    BY <1>7 DEF ClaimNext
  <2>2. runs'[i] = LeasedRun(i, w) /\ OneRow(i)
    BY <1>0, <2>1 DEF OneRow
  <2>3. runs[i].typed /\ runs[i].status # "NONE"
    BY <2>1 DEF Claimable
  <2>4. Changed(i)
    <3>1. runs'[i].attempt \in Nat /\ runs'[i].attempt >= runs[i].attempt
      BY <1>0, <2>2, RowFields
    <3>2. runs'[i].graph = runs[i].graph /\ runs'[i].status = "RUNNING"
      BY <1>0, <2>2, RowFields
    <3>3. QED
      BY <2>3, <3>1, <3>2 DEF Changed
  <2>5. QED
    BY <2>2, <2>4 DEF RowEffect
<1>8. ASSUME NEW w \in Evaluators, ReleaseLease(w) PROVE RowEffect
  <2>1. call[w].run \in RunIds /\ runs[call[w].run].status # "NONE"
    BY <1>0, <1>8, RunExists DEF ReleaseLease, At, Processes
  <2>2. runs'[call[w].run] = Unleased(call[w].run) /\ OneRow(call[w].run)
    BY <1>0, <1>8, <2>1 DEF ReleaseLease, OneRow
  <2>3. Changed(call[w].run)
    <3>1. runs'[call[w].run].attempt \in Nat /\ runs'[call[w].run].attempt >= runs[call[w].run].attempt
      BY <1>0, <2>1, <2>2, RowFields
    <3>2. /\ runs'[call[w].run].graph = runs[call[w].run].graph
          /\ runs'[call[w].run].status = runs[call[w].run].status
          /\ ~ runs'[call[w].run].typed
      BY <1>0, <2>1, <2>2, RowFields
    <3>3. QED
      BY <3>1, <3>2 DEF Changed
  <2>4. QED
    BY <2>1, <2>2, <2>3 DEF RowEffect
<1>9. ASSUME NEW i \in RunIds, LeaseExpires(i) PROVE RowEffect
  <2>1. runs[i] \in RunRecords /\ runs'[i] = [runs[i] EXCEPT !.lease = "expired"] /\ OneRow(i)
    BY <1>0, <1>9 DEF LeaseExpires, OneRow
  <2>2. Changed(i)
    BY <2>1 DEF Changed, RunRecords
  <2>3. QED
    BY <2>1, <2>2 DEF RowEffect
<1>10. QED
  BY <1>1, <1>3, <1>4, <1>5, <1>6, <1>7, <1>8, <1>9
     DEF Next, RequestStep, WorkerStep, CompletionStep, FinishStep, RequireRunnable, ClaimRefused, Load, Decide,
         ListRuns, Prepare, CheckLease, ReadRelease, Ensure, EnsureConflict, WriteState, Throw,
         ApiCrash, WorkerCrash, WorkerDies, WorkerLeaves, RegisterAsset, vars

\* Rows stay well formed, and at most one API run is RUNNING.
LEMMA RowStep ==
    ASSUME IInv, [Next]_vars
    PROVE  (\A i \in RunIds : RowOK(i))' /\ ApiRunsSerial'
<1>1. RowEffect
  BY RowEffects
<1>2. (\A i \in RunIds : RowOK(i)) /\ ApiRunsSerial /\ runs \in [RunIds -> RunRecords]
      /\ RunIds \subseteq Nat
  BY DEF IInv, TypeOK, RunIds
<1>3. CASE runs' = runs
  BY <1>2, <1>3 DEF RowOK, ApiRunsSerial
<1>4. ASSUME NEW i \in RunIds, OneRow(i), Created(i)
      PROVE  (\A j \in RunIds : RowOK(j))' /\ ApiRunsSerial'
  <2>1. \A j \in RunIds : runs[j].status = "NONE" => i <= j
    BY <1>4 DEF Created, IsNextRow
  <2>2. \A j \in RunIds : RowOK(j)'
    BY <1>2, <1>4, <2>1 DEF RowOK, OneRow, Created, IsNextRow
  <2>3. \A j \in RunIds \ {i} : runs'[i].graph = "api" =>
            ~ (runs'[j].graph = "api" /\ runs'[j].status = "RUNNING")
    BY <1>4 DEF Created, OneRow, GraphBusy, Active
  <2>4. ApiRunsSerial'
    BY <1>2, <1>4, <2>3 DEF ApiRunsSerial, OneRow
  <2>5. QED
    BY <2>2, <2>4
<1>5. ASSUME NEW i \in RunIds, OneRow(i), Changed(i)
      PROVE  (\A j \in RunIds : RowOK(j))' /\ ApiRunsSerial'
  <2>1. \A j \in RunIds : RowOK(j)'
    BY <1>2, <1>5 DEF RowOK, OneRow, Changed
  <2>2. \A j \in RunIds : runs'[j].graph = "api" /\ runs'[j].status = "RUNNING" =>
            runs[j].graph = "api" /\ runs[j].status = "RUNNING"
    BY <1>2, <1>5 DEF RowOK, OneRow, Changed
  <2>3. ApiRunsSerial'
    BY <1>2, <2>2 DEF ApiRunsSerial
  <2>4. QED
    BY <2>1, <2>3
<1>6. QED
  BY <1>1, <1>3, <1>4, <1>5 DEF RowEffect

-----------------------------------------------------------------------------
(* What a step does to the frame of the process that takes it.             *)

\* p goes on with the run, the version and the attempt it has.
Continues(p) ==
    /\ call'[p].kind = call[p].kind
    /\ call'[p].run = call[p].run
    /\ call'[p].version = call[p].version
    /\ call'[p].attempt = call[p].attempt

\* p has just been granted the release, under a version of its own.
GrantedTo(p) ==
    /\ call'[p].run \in RunIds /\ IsNextRow(call'[p].run) /\ OneRow(call'[p].run)
    /\ runs'[call'[p].run].graph = "api"
    /\ release'.state = "VALIDATING" /\ release'.version = release.version + 1
    /\ call'[p].version = release'.version

\* w has just taken the next attempt of a run.
LeasedTo(w) ==
    /\ w \in Workers
    /\ call'[w].run \in RunIds /\ runs'[call'[w].run].graph = "worker"
    /\ call'[w].attempt = runs[call'[w].run].attempt + 1
    /\ call'[w].attempt = runs'[call'[w].run].attempt

\* The frame of p fits its step; a claim or a lease in it is old or new.
Mover(p) ==
    /\ call'[p].kind \in KindsAt(call'[p].pc)
    /\ call'[p].pc \in HasManifest => call'[p].manifest \in Manifests
    /\ Claimed(p)' => (Claimed(p) /\ Continues(p)) \/ GrantedTo(p)
    /\ call'[p].kind = "worker" => (call[p].kind = "worker" /\ Continues(p)) \/ LeasedTo(p)
    /\ call'[p].pc = "mark" => call'[p].run \in RunIds /\ runs'[call'[p].run].status # "NONE"

OneFrame(p) == \A q \in Processes \ {p} : call'[q] = call[q]

\* The worker w died, and h handles its completion to the end.
Left(w, h) ==
    /\ call[w].kind = "worker" /\ call[h].kind = "none"
    /\ call' = [call EXCEPT ![h] = call[w], ![w] = IdleCall]
    /\ UNCHANGED <<release, manifest, runs>>

CallEffect ==
    \/ call' = call
    \/ \E p \in Processes : OneFrame(p) /\ Mover(p)
    \/ \E w \in Workers, h \in Handlers : Left(w, h)

\* A handler that gives up or moves to its next step.
LEMMA FrameFields ==
    ASSUME NEW f \in CallRecords, NEW s
    PROVE  /\ [f EXCEPT !.pc = s].pc = s
           /\ [f EXCEPT !.pc = s].kind = f.kind
           /\ [f EXCEPT !.pc = s].run = f.run
           /\ [f EXCEPT !.pc = s].version = f.version
           /\ [f EXCEPT !.pc = s].attempt = f.attempt
           /\ [f EXCEPT !.pc = s].manifest = f.manifest
  BY DEF CallRecords

LEMMA BecomeIdle ==
    ASSUME TypeOK, NEW p \in Processes, Become(p, IdleCall)
    PROVE  OneFrame(p) /\ Mover(p)
<1>1. call'[p] = IdleCall /\ OneFrame(p)
  BY DEF Become, OneFrame, TypeOK
<1>2. QED
  BY <1>1 DEF Mover, IdleCall, KindsAt, HasManifest, Claimed

\* A handler moves on to a step that suits its kind and keeps its manifest.
LEMMA BecomeNext ==
    ASSUME TypeOK, NEW p \in Processes, NEW s \in Steps \ {"mark"}, NEW f \in CallRecords,
           f.pc = s, f.kind = call[p].kind, f.run = call[p].run,
           f.version = call[p].version, f.attempt = call[p].attempt,
           call[p].kind \in KindsAt(s), s \in HasManifest => f.manifest \in Manifests,
           call[p].kind = "worker" \/ Claimed(p), Become(p, f)
    PROVE  OneFrame(p) /\ Mover(p)
<1>1. call'[p] = f /\ OneFrame(p)
  BY DEF Become, OneFrame, TypeOK
<1>2. Claimed(p)' => Claimed(p)
  BY <1>1 DEF Claimed
<1>3. QED
  BY <1>1, <1>2 DEF Mover, Continues

\* What Return leads to, for a handler that has a claim or a lease.
LEMMA Unwound ==
    ASSUME TypeOK, NEW p \in Processes, FrameOK(p), Become(p, Thrown(p))
    PROVE  OneFrame(p) /\ Mover(p)
<1>0. call[p] \in CallRecords
  BY DEF TypeOK
<1>1. CASE CatchesAt(p)
  <2>1. Claimed(p) /\ call[p].kind \in KindsAt("fail")
    BY <1>1 DEF CatchesAt, Claimed, KindsAt
  <2>2. [call[p] EXCEPT !.pc = "fail"] \in CallRecords /\ "fail" \in Steps \ {"mark"}
    BY <1>0, FrameTypes DEF Steps
  <2>3. QED
    BY <1>0, <1>1, <2>1, <2>2, FrameFields, BecomeNext DEF Thrown, HasManifest
<1>2. CASE ~ CatchesAt(p)
  BY <1>2, BecomeIdle DEF Thrown
<1>3. QED
  BY <1>1, <1>2

LEMMA ReturnCases ==
    ASSUME NEW p, NEW f, Return(p, f)
    PROVE  Become(p, f) \/ Become(p, Thrown(p))
  BY DEF Return, Become

LEMMA CallEffects == IInv /\ [Next]_vars => CallEffect
<1> SUFFICES ASSUME IInv, [Next]_vars, call' # call PROVE CallEffect
  BY DEF CallEffect
<1>0. /\ TypeOK
      /\ \A p \in Processes : FrameOK(p) /\ call[p] \in CallRecords
      /\ \A i \in RunIds : RowOK(i)
      /\ manifest \in Manifests
  BY DEF IInv, TypeOK
<1>a. Steps = {"idle", "claim", "load", "ensure", "state", "finish", "fail", "prepare", "complete",
               "read", "recover", "release", "checkpoint", "mark"}
  BY DEF Steps
<1>b. Manifests \subseteq Nat /\ RunIds \subseteq Nat
  BY DEF Manifests, RunIds
<1>idle. ASSUME NEW p \in Processes, Become(p, IdleCall) PROVE CallEffect
  BY <1>0, <1>idle, BecomeIdle DEF CallEffect
<1>thrown. ASSUME NEW p \in Processes, Become(p, Thrown(p)) PROVE CallEffect
  BY <1>0, <1>thrown, Unwound DEF CallEffect
\* The handler only moves its program counter.
<1>moves. ASSUME NEW p \in Processes, NEW s \in Steps \ {"mark"},
                 call[p].kind = "worker" \/ Claimed(p), call[p].kind \in KindsAt(s),
                 s \in HasManifest => call[p].manifest \in Manifests,
                 Become(p, [call[p] EXCEPT !.pc = s])
          PROVE  CallEffect
  BY <1>0, <1>moves, FrameTypes, FrameFields, BecomeNext DEF CallEffect
<1>1. ASSUME NEW p \in Requests, NEW op \in Runs, RequireRunnable(p, op) PROVE CallEffect
  <2>1. call'[p] = [IdleCall EXCEPT !.pc = "claim", !.kind = op] /\ OneFrame(p)
    BY <1>0, <1>1 DEF RequireRunnable, Become, OneFrame, TypeOK, Processes
  <2>2. call'[p].pc = "claim" /\ call'[p].kind = op
    BY <2>1 DEF IdleCall
  <2>3. Mover(p)
    BY <2>2 DEF Mover, KindsAt, HasManifest, Claimed, Runs
  <2>4. QED
    BY <2>1, <2>3 DEF CallEffect, Processes
<1>2. ASSUME NEW p \in Requests, ClaimRefused(p) PROVE CallEffect
  BY <1>2, <1>idle DEF ClaimRefused, Processes
<1>3. ASSUME NEW p \in Requests, ClaimWorkflow(p) PROVE CallEffect
  <2> DEFINE Frame(i) == [call[p] EXCEPT !.pc = "load", !.run = i, !.version = release'.version,
                                         !.prev = release.state]
  <2>1. PICK i \in RunIds :
          /\ IsNextRow(i) /\ runs' = [runs EXCEPT ![i] = NewRun(call[p].kind)]
          /\ Become(p, IF call[p].kind = "queue" THEN IdleCall ELSE Frame(i))
             \/ Become(p, Thrown(p))
    BY <1>3, ReturnCases DEF ClaimWorkflow
  <2>2. call[p].kind \in Runs
    BY <1>0, <1>3 DEF ClaimWorkflow, At, FrameOK, KindsAt, Processes
  <2>3. CASE call[p].kind # "queue" /\ Become(p, Frame(i))
    <3>1. call'[p] = Frame(i) /\ OneFrame(p)
      BY <1>0, <2>3 DEF Become, OneFrame, TypeOK, Processes
    <3>2. /\ call'[p].pc = "load" /\ call'[p].kind = call[p].kind /\ call'[p].run = i
          /\ call'[p].version = release'.version
      BY <1>0, <3>1 DEF CallRecords, Processes
    <3>3. runs'[i] = NewRun(call[p].kind) /\ OneRow(i)
      BY <1>0, <2>1 DEF OneRow, TypeOK
    <3>4. runs'[i].graph = "api"
      BY <2>2, <2>3, <3>3, NewRunFields DEF GraphOf
    <3>5. GrantedTo(p)
      BY <1>3, <2>1, <3>2, <3>3, <3>4 DEF GrantedTo, ClaimWorkflow, NextRelease
    <3>6. call[p].kind \in {"validate", "run"}
      BY <2>2, <2>3 DEF Runs
    <3>7. Mover(p)
      BY <3>2, <3>5, <3>6 DEF Mover, KindsAt, HasManifest
    <3>8. QED
      BY <3>1, <3>7 DEF CallEffect, Processes
  <2>4. QED
    BY <2>1, <2>3, <1>idle, <1>thrown DEF Processes
<1>4. ASSUME NEW p \in Requests, Load(p) PROVE CallEffect
  <2>1. PICK v \in Verdicts :
          Become(p, [call[p] EXCEPT !.pc = AfterVerdict(call[p].kind, v), !.manifest = manifest,
                                    !.judged = manifest, !.verdict = v])
    BY <1>4 DEF Load
  <2> DEFINE f == [call[p] EXCEPT !.pc = AfterVerdict(call[p].kind, v), !.manifest = manifest,
                                  !.judged = manifest, !.verdict = v]
  <2>2. AfterVerdict(call[p].kind, v) \in {"state", "ensure"}
    BY DEF AfterVerdict
  <2>3. f \in CallRecords
    BY <1>0, <1>a, <1>b, <2>2, FrameTypes DEF Processes
  <2>4. /\ f.pc = AfterVerdict(call[p].kind, v) /\ f.kind = call[p].kind /\ f.run = call[p].run
        /\ f.version = call[p].version /\ f.attempt = call[p].attempt /\ f.manifest = manifest
    BY <1>0, <2>2 DEF CallRecords, Processes
  <2>5. Claimed(p) /\ call[p].kind \in KindsAt(AfterVerdict(call[p].kind, v))
    <3>1. call[p].kind \in {"validate", "run"} /\ call[p].pc = "load"
      BY <1>0, <1>4 DEF Load, At, FrameOK, KindsAt, Processes
    <3>2. QED
      BY <3>1 DEF AfterVerdict, KindsAt, Claimed
  <2>6. f.pc \in Steps \ {"mark"} /\ call[p].kind \in KindsAt(f.pc) /\ Become(p, f)
    BY <1>a, <2>1, <2>2, <2>4, <2>5
  <2>7. QED
    BY <1>0, <2>3, <2>4, <2>5, <2>6, BecomeNext DEF CallEffect, Processes
<1>5. ASSUME NEW p \in Requests, FailRun(p) PROVE CallEffect
  BY <1>5, <1>idle DEF FailRun, Processes
<1>6. ASSUME NEW p \in Requests, NEW d \in Decisions, Decide(p, d) PROVE CallEffect
  <2>1. PICK m \in Manifests :
          Become(p, [IdleCall EXCEPT !.pc = "checkpoint", !.kind = d, !.manifest = m])
          \/ Become(p, Thrown(p))
    BY <1>6, ReturnCases DEF Decide
  <2>2. CASE Become(p, [IdleCall EXCEPT !.pc = "checkpoint", !.kind = d, !.manifest = m])
    <3>1. call'[p] = [IdleCall EXCEPT !.pc = "checkpoint", !.kind = d, !.manifest = m] /\ OneFrame(p)
      BY <1>0, <2>2 DEF Become, OneFrame, TypeOK, Processes
    <3>2. call'[p].pc = "checkpoint" /\ call'[p].kind = d /\ call'[p].manifest = m
      BY <3>1 DEF IdleCall
    <3>3. Mover(p)
      BY <3>2 DEF Mover, KindsAt, HasManifest, Claimed, Decisions
    <3>4. QED
      BY <3>1, <3>3 DEF CallEffect, Processes
  <2>3. QED
    BY <2>1, <2>2, <1>thrown DEF Processes
<1>7. ASSUME NEW p \in Requests, ListRuns(p) PROVE CallEffect
  <2>1. CASE \E i \in RunIds : runs[i].status = "WAITING" /\ runs' = runs
                                /\ Become(p, [call[p] EXCEPT !.pc = "mark", !.run = i])
    <3>1. PICK i \in RunIds : runs[i].status = "WAITING" /\ runs' = runs
                                /\ Become(p, [call[p] EXCEPT !.pc = "mark", !.run = i])
      BY <2>1
    <3>2. call'[p] = [call[p] EXCEPT !.pc = "mark", !.run = i] /\ OneFrame(p)
      BY <1>0, <3>1 DEF Become, OneFrame, TypeOK, Processes
    <3>3. /\ call'[p].pc = "mark" /\ call'[p].kind = call[p].kind /\ call'[p].run = i
          /\ call'[p].manifest = call[p].manifest
      BY <1>0, <3>2 DEF CallRecords, Processes
    <3>4. call[p].kind \in Decisions /\ call[p].manifest \in Manifests
      BY <1>0, <1>7 DEF ListRuns, At, FrameOK, KindsAt, HasManifest, Processes
    <3>5. Mover(p)
      BY <3>1, <3>3, <3>4 DEF Mover, KindsAt, Claimed, Decisions
    <3>6. QED
      BY <3>2, <3>5 DEF CallEffect, Processes
  <2>2. QED
    BY <1>7, <1>idle, <2>1 DEF ListRuns, WaitingFor, Processes
<1>8. ASSUME NEW p \in Requests, MarkRun(p) PROVE CallEffect
  BY <1>8, <1>idle DEF MarkRun, Processes
<1>9. ASSUME NEW w \in Workers, ClaimNext(w) PROVE CallEffect
  <2>1. PICK i \in RunIds :
          /\ Claimable(i) /\ runs' = [runs EXCEPT ![i] = LeasedRun(i, w)]
          /\ Become(w, [IdleCall EXCEPT !.pc = "prepare", !.kind = "worker", !.run = i,
                                        !.attempt = runs'[i].attempt])
             \/ Become(w, Thrown(w))
    BY <1>9, ReturnCases DEF ClaimNext
  <2>2. CASE Become(w, [IdleCall EXCEPT !.pc = "prepare", !.kind = "worker", !.run = i,
                                        !.attempt = runs'[i].attempt])
    <3>1. call'[w] = [IdleCall EXCEPT !.pc = "prepare", !.kind = "worker", !.run = i,
                                      !.attempt = runs'[i].attempt] /\ OneFrame(w)
      BY <1>0, <2>2 DEF Become, OneFrame, TypeOK, Processes
    <3>2. /\ call'[w].pc = "prepare" /\ call'[w].kind = "worker" /\ call'[w].run = i
          /\ call'[w].attempt = runs'[i].attempt
      BY <3>1 DEF IdleCall
    <3>3. runs'[i] = LeasedRun(i, w)
      BY <1>0, <2>1 DEF TypeOK
    <3>4. runs'[i].graph = "worker" /\ runs'[i].attempt = runs[i].attempt + 1
      BY <1>0, <2>1, <3>3, RowFields DEF TypeOK, RowOK, Claimable
    <3>5. LeasedTo(w)
      BY <3>2, <3>4 DEF LeasedTo
    <3>6. Mover(w)
      BY <3>2, <3>5 DEF Mover, KindsAt, HasManifest, Claimed
    <3>7. QED
      BY <3>1, <3>6 DEF CallEffect, Processes
  <2>3. QED
    BY <2>1, <2>2, <1>thrown DEF Processes
<1>10. ASSUME NEW w \in Workers, Prepare(w) PROVE CallEffect
  <2>1. PICK v \in Verdicts :
          Become(w, [call[w] EXCEPT !.pc = "complete", !.judged = manifest, !.verdict = v])
    BY <1>10 DEF Prepare
  <2> DEFINE f == [call[w] EXCEPT !.pc = "complete", !.judged = manifest, !.verdict = v]
  <2>2. f \in CallRecords
    BY <1>0, <1>a, <1>b, FrameTypes DEF Processes
  <2>3. /\ f.pc = "complete" /\ f.kind = call[w].kind /\ f.run = call[w].run
        /\ f.version = call[w].version /\ f.attempt = call[w].attempt
    BY <1>0 DEF CallRecords, Processes
  <2>4. call[w].kind = "worker" /\ call[w].kind \in KindsAt("complete")
    BY <1>0, <1>10 DEF Prepare, At, FrameOK, KindsAt, Processes
  <2>5. "complete" \in Steps \ {"mark"} /\ "complete" \notin HasManifest
    BY <1>a DEF HasManifest
  <2>6. QED
    BY <1>0, <2>1, <2>2, <2>3, <2>4, <2>5, BecomeNext DEF CallEffect, Processes
<1>11. ASSUME NEW w \in Evaluators, CheckLease(w) PROVE CallEffect
  <2>1. call[w].kind = "worker" /\ call[w].kind \in KindsAt("read") /\ "read" \notin HasManifest
    BY <1>0, <1>11 DEF CheckLease, At, FrameOK, KindsAt, HasManifest, Processes
  <2>2. QED
    BY <1>11, <1>a, <1>idle, <1>moves, <2>1 DEF CheckLease, Processes
<1>12. ASSUME NEW w \in Evaluators, ReadRelease(w) PROVE CallEffect
  <2>1. call[w].kind = "worker"
    BY <1>0, <1>12 DEF ReadRelease, At, FrameOK, KindsAt, Processes
  <2>2. ASSUME NEW s \in {"recover", "ensure", "state"}, NEW m \in Manifests,
               Become(w, [call[w] EXCEPT !.pc = s, !.manifest = m])
        PROVE  CallEffect
    <3> DEFINE f == [call[w] EXCEPT !.pc = s, !.manifest = m]
    <3>1. f \in CallRecords
      BY <1>0, <1>a, <1>b, FrameTypes DEF Processes
    <3>2. /\ f.pc = s /\ f.kind = call[w].kind /\ f.run = call[w].run
          /\ f.version = call[w].version /\ f.attempt = call[w].attempt /\ f.manifest = m
      BY <1>0 DEF CallRecords, Processes
    <3>3. s \in Steps \ {"mark"} /\ call[w].kind \in KindsAt(s)
      BY <1>a, <2>1 DEF KindsAt
    <3>4. QED
      BY <1>0, <2>1, <2>2, <3>1, <3>2, <3>3, BecomeNext DEF CallEffect, Processes
  <2>3. AfterVerdict("worker", call[w].verdict) \in {"ensure", "state"}
    BY DEF AfterVerdict
  <2>4. QED
    BY <1>0, <1>12, <1>idle, <2>2, <2>3 DEF ReadRelease, Processes
<1>13. ASSUME NEW w \in Evaluators, Recover(w) PROVE CallEffect
  <2>1. call[w].kind = "worker" /\ call[w].kind \in KindsAt("release") /\ "release" \notin HasManifest
    BY <1>0, <1>13 DEF Recover, At, FrameOK, KindsAt, HasManifest, Processes
  <2>2. QED
    BY <1>13, <1>a, <1>thrown, <1>moves, <2>1, ReturnCases DEF Recover, Processes
<1>14. ASSUME NEW w \in Evaluators, ReleaseLease(w) PROVE CallEffect
  BY <1>14, <1>idle DEF ReleaseLease, Processes
<1>15. ASSUME NEW p \in Processes, Ensure(p) PROVE CallEffect
  <2>1. /\ call[p].kind = "worker" \/ Claimed(p)
        /\ call[p].kind \in KindsAt("state") /\ call[p].manifest \in Manifests
    BY <1>0, <1>15 DEF Ensure, At, FrameOK, KindsAt, HasManifest, Claimed
  <2>2. QED
    BY <1>15, <1>a, <1>thrown, <1>moves, <2>1, ReturnCases DEF Ensure
<1>16. ASSUME NEW p \in Processes, EnsureConflict(p) \/ Throw(p) PROVE CallEffect
  BY <1>16, <1>thrown DEF EnsureConflict, Throw
<1>17. ASSUME NEW p \in Processes, WriteState(p) PROVE CallEffect
  <2>1. /\ call[p].kind = "worker" \/ Claimed(p)
        /\ call[p].kind \in KindsAt("finish") /\ call[p].manifest \in Manifests
    BY <1>0, <1>17 DEF WriteState, At, FrameOK, KindsAt, HasManifest, Claimed
  <2>2. QED
    BY <1>17, <1>a, <1>thrown, <1>moves, <2>1, ReturnCases DEF WriteState
<1>18. ASSUME NEW p \in Processes, FinishRun(p) PROVE CallEffect
  <2>1. "release" \in Steps \ {"mark"} /\ "release" \notin HasManifest
        /\ (call[p].kind = "worker" => call[p].kind \in KindsAt("release"))
    BY <1>a DEF HasManifest, KindsAt
  <2>2. QED
    BY <1>18, <1>idle, <1>thrown, <1>moves, <2>1, ReturnCases DEF FinishRun
<1>19. ASSUME NEW p \in Processes, ApiCrash(p) \/ (p \in Workers /\ WorkerCrash(p)) PROVE CallEffect
  <2>1. ASSUME p \in Workers, NEW h \in Handlers, WorkerLeaves(p, h), WorkerCrash(p) PROVE Left(p, h)
    BY <1>0, <2>1 DEF WorkerLeaves, WorkerCrash, Left, At, FrameOK, KindsAt, Processes
  <2>2. QED
    BY <1>19, <1>idle, <2>1 DEF ApiCrash, WorkerCrash, WorkerDies, CallEffect
<1>20. QED
  BY <1>1, <1>2, <1>3, <1>4, <1>5, <1>6, <1>7, <1>8, <1>9, <1>10, <1>11, <1>12, <1>13, <1>14,
     <1>15, <1>16, <1>17, <1>18, <1>19
     DEF Next, RequestStep, WorkerStep, CompletionStep, FinishStep, Processes, RegisterAsset, LeaseExpires, vars

-----------------------------------------------------------------------------
(* The invariant is inductive.                                             *)

\* A row that exists keeps its graph, and its attempts only grow.
LEMMA RowsLast ==
    ASSUME IInv, [Next]_vars, NEW i \in RunIds, runs[i].status # "NONE"
    PROVE  /\ runs'[i].graph = runs[i].graph
           /\ runs'[i].status # "NONE"
           /\ runs'[i].attempt \in Nat /\ runs'[i].attempt >= runs[i].attempt
<1>1. runs[i].attempt \in Nat
  BY RowFields DEF IInv, TypeOK
<1>2. QED
  BY <1>1, RowEffects DEF RowEffect, OneRow, Created, Changed, IsNextRow

\* Two frames change when a worker leaves its completion behind.
LEMMA LeftFrames ==
    ASSUME TypeOK, NEW w \in Workers, NEW h \in Handlers, Left(w, h)
    PROVE  /\ call'[w] = IdleCall /\ call'[h] = call[w]
           /\ \A q \in Processes \ {w, h} : call'[q] = call[q]
  BY DEF Left, TypeOK, Processes

\* A frame is as it was, its process has moved, or it is a worker's.
LEMMA Movers ==
    ASSUME IInv, [Next]_vars, NEW q \in Processes
    PROVE  \/ call'[q] = call[q] \/ Mover(q)
           \/ q \in Handlers /\ runs' = runs /\ \E w \in Workers :
                call[w].kind = "worker" /\ call'[q] = call[w]
<1>1. CASE call' = call
  BY <1>1
<1>2. ASSUME NEW p \in Processes, OneFrame(p), Mover(p) PROVE call'[q] = call[q] \/ Mover(q)
  <2>1. CASE p = q
    BY <1>2, <2>1
  <2>2. CASE p # q
    BY <1>2, <2>2 DEF OneFrame
  <2>3. QED
    BY <2>1, <2>2
<1>3. ASSUME NEW w \in Workers, NEW h \in Handlers, Left(w, h)
      PROVE  \/ call'[q] = call[q] \/ Mover(q)
             \/ q = h /\ call[w].kind = "worker" /\ call'[q] = call[w] /\ runs' = runs
  <2>1. TypeOK
    BY DEF IInv
  <2>2. CASE q = w
    <3>1. call'[q] = IdleCall
      BY <1>3, <2>1, <2>2, LeftFrames
    <3>2. QED
      BY <3>1 DEF Mover, IdleCall, KindsAt, HasManifest, Claimed
  <2>3. CASE q # w
    <3>1. call'[q] = call[q] \/ (q = h /\ call'[q] = call[w])
      BY <1>3, <2>1, <2>3, LeftFrames
    <3>2. call[w].kind = "worker" /\ runs' = runs
      BY <1>3 DEF Left
    <3>3. QED
      BY <3>1, <3>2
  <2>4. QED
    BY <2>2, <2>3
<1>4. QED
  BY <1>1, <1>2, <1>3, CallEffects DEF CallEffect

LEMMA FrameStep ==
    ASSUME IInv, [Next]_vars, NEW q \in Processes
    PROVE  FrameOK(q)'
<1>0. /\ TypeOK /\ TypeOK' /\ FrameOK(q)
      /\ \A i \in RunIds : RowOK(i)
  BY TypeStep DEF IInv
<1>1. \A i \in RunIds : runs[i].graph # "none" =>
        /\ runs'[i].graph = runs[i].graph /\ runs'[i].status # "NONE"
        /\ runs'[i].attempt \in Nat /\ runs[i].attempt \in Nat
        /\ runs'[i].attempt >= runs[i].attempt
  BY <1>0, RowsLast, RowFields DEF RowOK, TypeOK
<1>2. call[q].attempt \in Nat /\ call'[q].attempt \in Nat
  BY <1>0 DEF TypeOK, CallRecords
<1>3. CASE call'[q] = call[q]
  BY <1>0, <1>1, <1>2, <1>3 DEF FrameOK, Claimed, RowOK
<1>4. CASE Mover(q)
  <2>1. Claimed(q)' => call'[q].run \in RunIds /\ runs'[call'[q].run].graph = "api"
    BY <1>0, <1>1, <1>4 DEF Mover, Continues, GrantedTo, FrameOK
  <2>2. call'[q].kind = "worker" =>
            /\ q \in Evaluators /\ call'[q].run \in RunIds
            /\ runs'[call'[q].run].graph = "worker"
            /\ call'[q].attempt <= runs'[call'[q].run].attempt
    BY <1>0, <1>1, <1>2, <1>4 DEF Mover, Continues, LeasedTo, FrameOK
  <2>3. QED
    BY <1>4, <2>1, <2>2 DEF Mover, FrameOK
<1>5. ASSUME q \in Handlers, runs' = runs, NEW w \in Workers, call[w].kind = "worker",
             call'[q] = call[w]
      PROVE  FrameOK(q)'
  <2>1. FrameOK(w)
    BY DEF IInv, Processes
  <2>2. QED
    BY <1>5, <2>1 DEF FrameOK, Claimed
<1>6. QED
  BY <1>3, <1>4, <1>5, Movers

\* The release moves only under a new version; so a claim whose version is
\* still current has seen no write and no later claim.
LEMMA ReleaseEffect ==
    ASSUME [Next]_vars
    PROVE  release' = release \/ release'.version = release.version + 1
<1>1. \A s : NextRelease(s).version = release.version + 1
  BY DEF NextRelease
<1>2. ASSUME NEW p \in Requests, RequestStep(p)
      PROVE  release' = release \/ release'.version = release.version + 1
  BY <1>1, <1>2 DEF RequestStep, RequireRunnable, ClaimRefused, ClaimWorkflow, Load, FailRun,
     Decide, ListRuns, MarkRun
<1>3. ASSUME NEW w \in Evaluators, WorkerStep(w) \/ CompletionStep(w) \/ WorkerCrash(w)
      PROVE  release' = release
  BY <1>3 DEF WorkerStep, CompletionStep, ClaimNext, Prepare, CheckLease, ReadRelease, Recover,
     ReleaseLease, WorkerCrash
<1>4. ASSUME NEW p \in Processes, FinishStep(p) \/ Throw(p) \/ ApiCrash(p)
      PROVE  release' = release \/ release'.version = release.version + 1
  BY <1>1, <1>4 DEF FinishStep, Ensure, EnsureConflict, WriteState, FinishRun, Throw, ApiCrash
<1>5. QED
  BY <1>2, <1>3, <1>4 DEF Next, RegisterAsset, LeaseExpires, vars

LEMMA ClaimStep ==
    ASSUME IInv, [Next]_vars
    PROVE  (\A p \in Processes : ClaimOK(p))' /\ ClaimOwnsState'
<1>0. /\ TypeOK /\ TypeOK' /\ ClaimOwnsState
      /\ \A p \in Processes : ClaimOK(p)
      /\ \A i \in RunIds : RowOK(i)
  BY TypeStep DEF IInv
<1>1. release.version \in Nat /\ release'.version \in Nat
  BY <1>0 DEF TypeOK
<1>2. \A p \in Processes : call[p].version \in Nat /\ call'[p].version \in Nat
  BY <1>0 DEF TypeOK, CallRecords
<1>3. release' = release \/ release'.version = release.version + 1
  BY ReleaseEffect
<1>4. ASSUME NEW q \in Processes, Claimed(q)'
      PROVE  (Claimed(q) /\ call'[q].version = call[q].version /\ call'[q].run = call[q].run)
             \/ GrantedTo(q)
  BY <1>4, Movers DEF Mover, Continues, Claimed
<1>5. \A q \in Processes : ClaimOK(q)'
  BY <1>0, <1>1, <1>2, <1>3, <1>4 DEF ClaimOK, GrantedTo
<1>6. ASSUME NEW q \in Processes, Claimed(q)', call'[q].version = release'.version
      PROVE  /\ release'.state = "VALIDATING"
             /\ \A i \in RunIds : i > call'[q].run => runs'[i].status = "NONE"
  <2>1. CASE Claimed(q) /\ call'[q].version = call[q].version /\ call'[q].run = call[q].run
    <3>1. call[q].version <= release.version
      BY <1>0, <2>1 DEF ClaimOK
    <3>2. release' = release
      BY <1>1, <1>2, <1>3, <1>6, <2>1, <3>1
    <3>3. /\ release.state = "VALIDATING"
          /\ \A i \in RunIds : i > call[q].run => runs[i].status = "NONE"
      BY <1>0, <1>6, <2>1, <3>2 DEF ClaimOwnsState
    <3>4. \A i \in RunIds : runs[i].status = "NONE" => runs'[i].status = "NONE"
      BY <1>1, <3>2, RowEffects DEF RowEffect, OneRow, Created, Changed
    <3>5. QED
      BY <2>1, <3>2, <3>3, <3>4
  <2>2. CASE GrantedTo(q)
    <3>1. \A i \in RunIds : i > call'[q].run => runs[i].status = "NONE"
      BY <1>0, <2>2 DEF GrantedTo, IsNextRow, RowOK
    <3>2. \A i \in RunIds : i > call'[q].run => runs'[i] = runs[i]
      BY <2>2 DEF GrantedTo, OneRow, RunIds
    <3>3. QED
      BY <2>2, <3>1, <3>2 DEF GrantedTo
  <2>3. QED
    BY <1>4, <1>6, <2>1, <2>2
<1>7. QED
  BY <1>5, <1>6 DEF ClaimOwnsState

LEMMA AttemptStep ==
    ASSUME IInv, [Next]_vars
    PROVE  AttemptsDistinct'
<1>0. /\ TypeOK /\ TypeOK' /\ AttemptsDistinct
      /\ \A p \in Processes : FrameOK(p)
      /\ \A i \in RunIds : RowOK(i) /\ runs[i].attempt \in Nat
      /\ Evaluators \subseteq Processes
  BY TypeStep, RowFields DEF IInv, TypeOK, Processes
<1>1. \A w \in Evaluators : call[w].attempt \in Nat /\ call'[w].attempt \in Nat
  BY <1>0 DEF TypeOK, CallRecords
\* The attempt just taken is greater than any held on the same run.
<1>2. ASSUME NEW v \in Evaluators, NEW w \in Evaluators, LeasedTo(v), call[w].kind = "worker",
             call[w].run = call'[v].run
      PROVE  call[w].attempt < call'[v].attempt
  BY <1>0, <1>1, <1>2 DEF LeasedTo, FrameOK
<1>3. ASSUME NEW v \in Evaluators, NEW w \in Evaluators, v # w, Mover(v), call'[w] = call[w],
             call'[v].kind = "worker", call[w].kind = "worker", call'[v].run = call[w].run
      PROVE  call'[v].attempt # call[w].attempt
  <2>1. CASE call[v].kind = "worker" /\ Continues(v)
    BY <1>0, <1>3, <2>1 DEF AttemptsDistinct, Continues
  <2>2. CASE LeasedTo(v)
    BY <1>1, <1>2, <1>3, <2>2
  <2>3. QED
    BY <1>3, <2>1, <2>2 DEF Mover
<1>4. CASE call' = call
  BY <1>0, <1>4 DEF AttemptsDistinct
<1>5. ASSUME NEW p \in Processes, OneFrame(p), Mover(p) PROVE AttemptsDistinct'
  <2> SUFFICES ASSUME NEW v \in Evaluators, NEW w \in Evaluators, v # w,
                      call'[v].kind = "worker", call'[w].kind = "worker",
                      call'[v].run = call'[w].run
               PROVE  call'[v].attempt # call'[w].attempt
    BY DEF AttemptsDistinct
  <2>1. CASE p = v
    <3>1. Mover(v) /\ call'[w] = call[w]
      BY <1>0, <1>5, <2>1 DEF OneFrame
    <3>2. QED
      BY <1>3, <3>1
  <2>2. CASE p = w
    <3>1. Mover(w) /\ call'[v] = call[v]
      BY <1>0, <1>5, <2>2 DEF OneFrame
    <3>2. QED
      BY <1>3, <3>1
  <2>3. CASE p # v /\ p # w
    BY <1>0, <1>5, <2>3 DEF OneFrame, AttemptsDistinct
  <2>4. QED
    BY <2>1, <2>2, <2>3
\* A completion that is left behind keeps its attempt, and its worker has none.
<1>6. ASSUME NEW u \in Workers, NEW h \in Handlers, Left(u, h) PROVE AttemptsDistinct'
  <2>1. /\ call'[u].kind = "none" /\ call'[h] = call[u] /\ call[u].kind = "worker"
        /\ \A q \in Evaluators \ {u, h} : call'[q] = call[q]
    <3>1. /\ call'[u] = IdleCall /\ call'[h] = call[u]
          /\ \A q \in Evaluators \ {u, h} : call'[q] = call[q]
      BY <1>0, <1>6, LeftFrames
    <3>2. call[u].kind = "worker"
      BY <1>6 DEF Left
    <3>3. QED
      BY <3>1, <3>2 DEF IdleCall
  <2>2. QED
    BY <1>0, <2>1 DEF AttemptsDistinct
<1>7. QED
  BY <1>4, <1>5, <1>6, CallEffects DEF CallEffect

LEMMA NextIInv == IInv /\ [Next]_vars => IInv'
<1> SUFFICES ASSUME IInv, [Next]_vars PROVE IInv'
  OBVIOUS
<1>1. TypeOK' /\ (\A i \in RunIds : RowOK(i))' /\ ApiRunsSerial'
  BY TypeStep, RowStep
<1>2. (\A p \in Processes : ClaimOK(p))' /\ ClaimOwnsState' /\ AttemptsDistinct'
  BY ClaimStep, AttemptStep
<1>3. (\A p \in Processes : FrameOK(p))'
  BY FrameStep
<1>4. QED
  BY <1>1, <1>2, <1>3 DEF IInv

LEMMA Invariance == Spec => []IInv
<1>1. Init => IInv
  BY InitIInv
<1>2. IInv /\ [Next]_vars => IInv'
  BY NextIInv
<1>3. QED
  BY <1>1, <1>2, PTL DEF Spec

-----------------------------------------------------------------------------
(* Theorems                                                                *)

\* Every reachable state has the right types: in particular no handler reads
\* a run or a manifest that does not exist.
THEOREM TypeCorrect == Spec => []TypeOK
<1>1. IInv => TypeOK
  BY DEF IInv
<1>2. QED
  BY <1>1, Invariance, PTL

\* claimWorkflow keeps validate and run of a release apart.
THEOREM ApiRunsAreSerial == Spec => []ApiRunsSerial
<1>1. IInv => ApiRunsSerial
  BY DEF IInv
<1>2. QED
  BY <1>1, Invariance, PTL

\* An unchanged version means that nothing happened to the release since the
\* claim: what failWorkflow relies on.
THEOREM ClaimsOwnTheState == Spec => []ClaimOwnsState
<1>1. IInv => ClaimOwnsState
  BY DEF IInv
<1>2. QED
  BY <1>1, Invariance, PTL

\* No attempt of a run is ever held twice, whatever WORKER_ID the workers have.
THEOREM AttemptsAreDistinct == Spec => []AttemptsDistinct
<1>1. IInv => AttemptsDistinct
  BY DEF IInv
<1>2. QED
  BY <1>1, Invariance, PTL

\* Only four calls write the release.
LEMMA ReleaseWriters ==
    ASSUME [Next]_vars, release' # release
    PROVE  \E q \in Processes :
              \/ WriteState(q)
              \/ /\ q \in Requests
                 /\ ClaimWorkflow(q) \/ FailRun(q) \/ \E d \in Decisions : Decide(q, d)
<1>1. ASSUME NEW p \in Requests, RequestStep(p)
      PROVE  ClaimWorkflow(p) \/ FailRun(p) \/ \E d \in Decisions : Decide(p, d)
  BY <1>1 DEF RequestStep, RequireRunnable, ClaimRefused, Load, ListRuns, MarkRun
<1>2. ASSUME NEW w \in Evaluators, WorkerStep(w) \/ CompletionStep(w) \/ WorkerCrash(w) PROVE FALSE
  BY <1>2 DEF WorkerStep, CompletionStep, ClaimNext, Prepare, CheckLease, ReadRelease, Recover,
     ReleaseLease, WorkerCrash
<1>3. ASSUME NEW p \in Processes, FinishStep(p) \/ Throw(p) \/ ApiCrash(p) PROVE WriteState(p)
  BY <1>3 DEF FinishStep, Ensure, EnsureConflict, FinishRun, Throw, ApiCrash
<1>4. QED
  BY <1>1, <1>2, <1>3 DEF Next, RegisterAsset, LeaseExpires, vars, Processes

\* failWorkflow never takes VALIDATING away from a newer run.
THEOREM RestoreIsSafe == Spec => RestoreSparesNewer
<1> DEFINE Safe == \A p \in Processes :
        At(p, "fail") /\ release' # release /\ call'[p] # call[p] =>
            \A i \in RunIds : i > call[p].run => runs[i].status = "NONE"
<1>1. IInv /\ [Next]_vars => Safe
  <2> SUFFICES ASSUME IInv, [Next]_vars, NEW p \in Processes, At(p, "fail"),
                      release' # release, call'[p] # call[p]
               PROVE  \A i \in RunIds : i > call[p].run => runs[i].status = "NONE"
    OBVIOUS
  <2>1. TypeOK /\ ClaimOwnsState /\ FrameOK(p)
    BY DEF IInv
  <2>2. Claimed(p)
    BY <2>1 DEF At, Claimed, FrameOK, KindsAt
  <2>3. PICK q \in Processes :
          \/ ClaimWorkflow(q) \/ WriteState(q) \/ FailRun(q)
          \/ \E d \in Decisions : Decide(q, d)
    BY ReleaseWriters
  <2>4. ASSUME NEW f, q # p, Return(q, f) \/ Become(q, f) PROVE FALSE
    BY <2>1, <2>4 DEF Return, Become, TypeOK
  <2>5. q = p
    BY <2>3, <2>4 DEF ClaimWorkflow, WriteState, FailRun, Decide
  <2>6. FailRun(p)
    BY <2>3, <2>5 DEF ClaimWorkflow, WriteState, Decide, At
  <2>7. MayRestore(p)
    BY <2>6 DEF FailRun
  <2>8. QED
    BY <2>1, <2>2, <2>7 DEF MayRestore, ClaimOwnsState
<1>2. QED
  BY <1>1, Invariance, PTL DEF Spec, RestoreSparesNewer

-----------------------------------------------------------------------------
(* Runs that are left behind.  claimWorkflow commits a RUNNING row that only *)
(* its handler can settle.  A handler loses it where no try block encloses    *)
(* the call that fails: claimWorkflow itself, whose reply may be lost, and    *)
(* what runRelease returns without awaiting it.                               *)

\* q goes on with its claim.
Keeps(q) == Claimed(q)' /\ call'[q].run = call[q].run

LEMMA KeepsAt ==
    ASSUME IInv, NEW q \in Requests, Claimed(q), NEW s \in {"state", "finish", "fail"},
           Become(q, [call[q] EXCEPT !.pc = s])
    PROVE  Keeps(q)
<1>1. call'[q] = [call[q] EXCEPT !.pc = s] /\ call[q] \in CallRecords
  BY DEF Become, IInv, TypeOK, Processes
<1>2. call'[q].pc = s /\ call'[q].kind = call[q].kind /\ call'[q].run = call[q].run
  BY <1>1, FrameFields
<1>3. QED
  BY <1>2 DEF Keeps, Claimed

\* An exception is caught and ends with fail, or it is one of runRelease's.
LEMMA UnwoundClaim ==
    ASSUME IInv, NEW q \in Requests, Claimed(q), call[q].pc # "fail", Become(q, Thrown(q))
    PROVE  Keeps(q) \/ FailsUncaught(q)
<1>0. FrameOK(q) /\ q \in Processes /\ TypeOK
  BY DEF IInv, Processes
<1>1. CASE CatchesAt(q)
  BY <1>1, KeepsAt DEF Thrown
<1>2. CASE ~ CatchesAt(q)
  <2>1. call'[q] = IdleCall
    BY <1>0, <1>2 DEF Thrown, Become, TypeOK
  <2>2. At(q, "idle")'
    BY <2>1 DEF At, IdleCall
  <2>3. call[q].kind = "run" /\ call[q].pc \in {"ensure", "state", "finish"}
    BY <1>0, <1>2 DEF CatchesAt, Claimed, FrameOK, KindsAt
  <2>4. QED
    BY <2>2, <2>3 DEF FailsUncaught
<1>3. QED
  BY <1>1, <1>2

\* A handler that has a claim keeps it, settles its run, or fails uncaught.
LEMMA KeepsItsRun ==
    ASSUME IInv, "apiCrash" \notin Faults, [Next]_vars, NEW q \in Requests, Claimed(q)
    PROVE  Keeps(q) \/ runs'[call[q].run].status # "RUNNING" \/ FailsUncaught(q)
<1>0. /\ TypeOK /\ FrameOK(q) /\ q \in Processes /\ q \notin Evaluators
      /\ call[q] \in CallRecords /\ call[q].run \in RunIds
      /\ call[q].kind \in {"validate", "run"}
      /\ runs \in [RunIds -> RunRecords]
  BY DEF IInv, TypeOK, FrameOK, Claimed, Processes
<1>others. ASSUME NEW p \in Processes, p # q, NEW f, Return(p, f) \/ Become(p, f)
           PROVE  Keeps(q)
  <2>1. call'[q] = call[q]
    BY <1>0, <1>others DEF Return, Become, TypeOK
  <2>2. QED
    BY <2>1 DEF Keeps, Claimed
<1>1. CASE Load(q)
  <2>1. PICK v \in Verdicts :
          Become(q, [call[q] EXCEPT !.pc = AfterVerdict(call[q].kind, v), !.manifest = manifest,
                                    !.judged = manifest, !.verdict = v])
    BY <1>1 DEF Load
  <2> DEFINE f == [call[q] EXCEPT !.pc = AfterVerdict(call[q].kind, v), !.manifest = manifest,
                                  !.judged = manifest, !.verdict = v]
  <2>2. f.pc \in {"state", "ensure"} /\ f.kind = call[q].kind /\ f.run = call[q].run
    BY <1>0 DEF CallRecords, AfterVerdict
  <2>3. call'[q] = f
    BY <1>0, <2>1 DEF Become, TypeOK
  <2> HIDE DEF f
  <2>4. QED
    BY <1>0, <2>2, <2>3 DEF Keeps, Claimed
<1>2. CASE Ensure(q)
  <2>1. call[q].pc # "fail"
    BY <1>2 DEF Ensure, At
  <2>2. QED
    BY <1>2, <2>1, KeepsAt, UnwoundClaim, ReturnCases DEF Ensure
<1>3. CASE EnsureConflict(q) \/ Throw(q)
  BY <1>3, UnwoundClaim DEF EnsureConflict, Throw, At
<1>4. CASE WriteState(q)
  <2>1. call[q].pc # "fail"
    BY <1>4 DEF WriteState, At
  <2>2. QED
    BY <1>4, <2>1, KeepsAt, UnwoundClaim, ReturnCases DEF WriteState
<1>5. CASE FinishRun(q)
  <2>1. runs'[call[q].run] = UpdatedRun(call[q].run,
                                OutcomeStatus(call[q].kind, call[q].verdict), OutcomeAction(q))
    BY <1>0, <1>5 DEF FinishRun, UpdateWorkflowRun
  <2>2. runs'[call[q].run].status = OutcomeStatus(call[q].kind, call[q].verdict)
    BY <1>0, <2>1, RowFields
  <2>3. QED
    BY <2>2 DEF OutcomeStatus
<1>6. CASE FailRun(q)
  <2>1. CASE runs[call[q].run].status = "RUNNING"
    <3>1. runs'[call[q].run] = UpdatedRun(call[q].run, "FAILED", NoAction)
      BY <1>0, <1>6, <2>1 DEF FailRun, UpdateWorkflowRun
    <3>2. QED
      BY <1>0, <3>1, RowFields
  <2>2. CASE runs[call[q].run].status # "RUNNING"
    BY <1>6, <2>2 DEF FailRun
  <2>3. QED
    BY <2>1, <2>2
<1>8. CASE UNCHANGED call
  BY <1>8 DEF Keeps, Claimed
<1>9. ASSUME NEW p \in Requests, RequestStep(p)
      PROVE  Keeps(q) \/ runs'[call[q].run].status # "RUNNING" \/ FailsUncaught(q)
  <2>1. CASE p = q
    <3>1. ~ At(q, "idle") /\ ~ At(q, "claim") /\ ~ At(q, "checkpoint") /\ ~ At(q, "mark")
      BY DEF Claimed, At
    <3>2. Load(q) \/ FailRun(q)
      BY <1>9, <2>1, <3>1 DEF RequestStep, RequireRunnable, ClaimRefused, ClaimWorkflow,
         Decide, ListRuns, MarkRun
    <3>3. QED
      BY <1>1, <1>6, <3>2
  <2>2. CASE p # q
    <3>1. \E f : Return(p, f) \/ Become(p, f)
      BY <1>9 DEF RequestStep, RequireRunnable, ClaimRefused, ClaimWorkflow, Load, FailRun,
         Decide, ListRuns, MarkRun
    <3>2. QED
      BY <1>others, <2>2, <3>1 DEF Processes
  <2>3. QED
    BY <2>1, <2>2
<1>10. ASSUME NEW w \in Evaluators, WorkerStep(w) \/ CompletionStep(w) PROVE Keeps(q)
  <2>1. \E f : Return(w, f) \/ Become(w, f)
    BY <1>10 DEF WorkerStep, CompletionStep, ClaimNext, Prepare, CheckLease, ReadRelease, Recover,
       ReleaseLease
  <2>2. QED
    BY <1>0, <1>others, <2>1 DEF Processes
<1>11. ASSUME NEW w \in Workers, WorkerCrash(w) PROVE Keeps(q)
  <2>1. call'[q] = call[q]
    BY <1>0, <1>11 DEF WorkerCrash, WorkerDies, WorkerLeaves, Become, TypeOK
  <2>2. QED
    BY <2>1 DEF Keeps, Claimed
<1>12. ASSUME NEW p \in Processes, FinishStep(p) \/ Throw(p) \/ ApiCrash(p)
       PROVE  Keeps(q) \/ runs'[call[q].run].status # "RUNNING" \/ FailsUncaught(q)
  <2>1. CASE p = q
    BY <1>2, <1>3, <1>4, <1>5, <1>12, <2>1 DEF FinishStep, ApiCrash
  <2>2. CASE p # q
    <3>1. \E f : Return(p, f) \/ Become(p, f)
      BY <1>12 DEF FinishStep, Ensure, EnsureConflict, WriteState, FinishRun, Throw, ApiCrash
    <3>2. QED
      BY <1>others, <2>2, <3>1
  <2>3. QED
    BY <2>1, <2>2
<1>13. QED
  BY <1>8, <1>9, <1>10, <1>11, <1>12 DEF Next, RegisterAsset, LeaseExpires, vars

\* A row of the API graph starts RUNNING with the handler that claimed it, or
\* the reply of its claim is lost.
LEMMA ClaimHasHandler ==
    ASSUME IInv, NEW p \in Requests, ClaimWorkflow(p),
           NEW i \in RunIds, runs'[i] # runs[i], runs'[i].graph = "api"
    PROVE  (Claimed(p)' /\ call'[p].run = i) \/ FailsUncaught(p)
<1>0. TypeOK /\ FrameOK(p) /\ p \in Processes /\ call[p] \in CallRecords
  BY DEF IInv, TypeOK, Processes
<1>1. PICK j \in RunIds :
        /\ runs' = [runs EXCEPT ![j] = NewRun(call[p].kind)]
        /\ Return(p, IF call[p].kind = "queue" THEN IdleCall
                     ELSE [call[p] EXCEPT !.pc = "load", !.run = j, !.version = release'.version,
                                          !.prev = release.state])
  BY DEF ClaimWorkflow
<1>2. j = i /\ runs'[i] = NewRun(call[p].kind)
  BY <1>0, <1>1 DEF TypeOK
<1>3. call[p].kind \in Runs \ {"queue"}
  <2>1. call[p].kind \in Runs
    BY <1>0 DEF ClaimWorkflow, At, FrameOK, KindsAt
  <2>2. QED
    BY <1>2, <2>1, NewRunFields
<1> DEFINE f == [call[p] EXCEPT !.pc = "load", !.run = i, !.version = release'.version,
                                !.prev = release.state]
<1>4. f.pc = "load" /\ f.kind = call[p].kind /\ f.run = i
  BY <1>0 DEF CallRecords
<1>5. Become(p, f) \/ Become(p, Thrown(p))
  BY <1>1, <1>2, <1>3, ReturnCases
<1> HIDE DEF f
<1>6. CASE Become(p, f)
  <2>1. call'[p] = f
    BY <1>0, <1>6 DEF Become, TypeOK
  <2>2. QED
    BY <1>3, <1>4, <2>1 DEF Claimed, Runs
<1>7. CASE Become(p, Thrown(p))
  <2>1. At(p, "claim") /\ ~ CatchesAt(p)
    BY DEF ClaimWorkflow, At, CatchesAt
  <2>2. call'[p] = IdleCall
    BY <1>0, <1>7, <2>1 DEF Thrown, Become, TypeOK
  <2>3. QED
    BY <2>1, <2>2 DEF FailsUncaught, At, IdleCall
<1>8. QED
  BY <1>5, <1>6, <1>7

LEMMA OrphanStep ==
    ASSUME IInv, "apiCrash" \notin Faults, [Next]_vars,
           NEW i \in RunIds, Orphaned(i)', ~ Orphaned(i)
    PROVE  \E p \in Requests : FailsUncaught(p)
<1>0. (\A j \in RunIds : RowOK(j)) /\ runs'[i].graph = "api" /\ runs'[i].status = "RUNNING"
      /\ \A p \in Requests : ~ (Claimed(p)' /\ call'[p].run = i)
  BY DEF IInv, Orphaned
<1>1. CASE runs[i].graph = "api" /\ runs[i].status = "RUNNING"
  <2>1. PICK p \in Requests : Claimed(p) /\ call[p].run = i
    BY <1>1 DEF Orphaned
  <2>2. QED
    BY <1>0, <2>1, KeepsItsRun DEF Keeps
<1>2. CASE ~ (runs[i].graph = "api" /\ runs[i].status = "RUNNING")
  <2>1. runs'[i] # runs[i] /\ runs[i].status = "NONE" /\ release'.version = release.version + 1
    BY <1>0, <1>2, RowEffects DEF RowEffect, OneRow, Created, Changed, RowOK, IsNextRow
  <2>2. PICK p \in Requests : ClaimWorkflow(p)
    <3>1. release' # release
      <4>1. release.version \in Nat
        BY DEF IInv, TypeOK
      <4>2. QED
        BY <2>1, <4>1
    <3>2. PICK q \in Processes :
            \/ WriteState(q)
            \/ /\ q \in Requests
               /\ ClaimWorkflow(q) \/ FailRun(q) \/ \E d \in Decisions : Decide(q, d)
      BY <3>1, ReleaseWriters
    <3>3. ASSUME FailRun(q) PROVE FALSE
      <4>1. call[q].run \in RunIds /\ runs[call[q].run].status # "NONE"
        BY <1>0, <3>3, RunExists DEF FailRun, At, IInv
      <4>2. runs'[i] = runs[i]
        BY <2>1, <3>3, <4>1 DEF FailRun, UpdateWorkflowRun, IInv, TypeOK
      <4>3. QED
        BY <2>1, <4>2
    <3>4. QED
      BY <2>1, <3>2, <3>3 DEF WriteState, Decide
  <2>3. QED
    BY <1>0, <2>1, <2>2, ClaimHasHandler
<1>3. QED
  BY <1>1, <1>2

\* Whatever throws, whatever reply is lost, whatever is rejected: as long as the
\* API does not die, a run is left behind only by the claim itself and behind
\* runRelease's missing await (service :58-76), never by validateRelease.
THEOREM OrphansAreUncaught ==
    ASSUME "apiCrash" \notin Faults
    PROVE  Spec => OrphansWereUncaught
<1> DEFINE Uncaught == \A i \in RunIds :
        Orphaned(i)' /\ ~ Orphaned(i) => \E p \in Requests : FailsUncaught(p)
<1>1. IInv /\ [Next]_vars => Uncaught
  BY OrphanStep
<1>2. QED
  BY <1>1, Invariance, PTL DEF Spec, OrphansWereUncaught

-----------------------------------------------------------------------------
(* The result of a worker and the asset set it was computed from, when all   *)
(* runs are queued.  Nothing compares a version: what keeps the two together  *)
(* is that the row of a run stays RUNNING while a worker is engaged in it, so *)
(* that no other claim brings the release back to VALIDATING.  Work that goes *)
(* on after its lease ran out, beside whoever took the run over, breaks that. *)

OnlyQueued == Ops \subseteq {"queue", "upload"}

LeasesOutliveWork == "slowLease" \notin Faults

\* The steps from taking a run to settling it.
Engaged == {"prepare", "complete", "read", "ensure", "state", "finish", "recover"}

\* A request is between two calls, or queues a run.
OnlyQueues(p) == At(p, "idle") \/ (At(p, "claim") /\ call[p].kind = "queue")

OnlyEvaluates(w) == call[w].kind \in {"none", "worker"}

\* Who is engaged in a run has not lost it.
LeaseKept(w) ==
    call[w].pc \in Engaged =>
        /\ runs[call[w].run].status = "RUNNING"
        /\ runs[call[w].run].attempt = call[w].attempt
        /\ runs[call[w].run].lease # "expired"

Matched(w) ==
    /\ call[w].pc \in {"complete", "read"} /\ release.state = "VALIDATING" =>
        call[w].judged = manifest
    /\ At(w, "ensure") => call[w].manifest = call[w].judged

Occupied(i) == runs[i].graph = "worker" /\ Active(i)

WorkerRunsSerial == \A i, j \in RunIds : Occupied(i) /\ Occupied(j) => i = j

MatchInv ==
    /\ \A p \in Requests : OnlyQueues(p)
    /\ \A w \in Evaluators : OnlyEvaluates(w) /\ LeaseKept(w) /\ Matched(w)
    /\ WorkerRunsSerial

\* What a step does to what the invariant talks about.
Steady == UNCHANGED <<release, manifest, runs>>

Queues ==
    /\ ~ GraphBusy("worker")
    /\ \E i \in RunIds :
        runs[i].status = "NONE" /\ runs' = [runs EXCEPT ![i] = NewRun("queue")]
    /\ UNCHANGED manifest

Uploads == release.state # "VALIDATING" /\ UNCHANGED <<release, runs>>

Expires ==
    /\ \E i \in RunIds :
        /\ runs' = [runs EXCEPT ![i].lease = "expired"]
        /\ \A w \in Evaluators : ~ Holds(w, i)
    /\ UNCHANGED <<release, manifest>>

Quits(v) == call'[v].pc \notin Engaged

Stays(v) == call'[v].run = call[v].run /\ call'[v].attempt = call[v].attempt

Takes(v) ==
    /\ At(v, "idle")
    /\ \E i \in RunIds :
        /\ Claimable(i)
        /\ runs' = [runs EXCEPT ![i] = LeasedRun(i, v)]
        /\ \/ Quits(v)
           \/ /\ call'[v].pc = "prepare" /\ call'[v].run = i
              /\ call'[v].attempt = runs'[i].attempt
    /\ UNCHANGED <<release, manifest>>

Advances(v) ==
    /\ call[v].pc \in Engaged /\ Stays(v) /\ Steady
    /\ \/ call'[v].pc = "complete" /\ call'[v].judged = manifest
       \/ At(v, "complete") /\ call'[v].pc = "read" /\ call'[v].judged = call[v].judged
       \/ /\ At(v, "read") /\ release.state = "VALIDATING" /\ call'[v].pc = "ensure"
          /\ call'[v].manifest = manifest /\ call'[v].judged = call[v].judged
       \/ call'[v].pc \in {"state", "recover"}

WritesState(v) ==
    /\ At(v, "state")
    /\ UNCHANGED <<manifest, runs>>
    /\ Quits(v) \/ (call'[v].pc = "finish" /\ Stays(v))

Settles(v) ==
    /\ call[v].pc \in Engaged /\ Quits(v)
    /\ \E s, a : UpdateWorkflowRun(call[v].run, s, a)
    /\ UNCHANGED <<release, manifest>>

Frees(v) ==
    /\ call[v].run \in RunIds /\ Quits(v)
    /\ runs' = [runs EXCEPT ![call[v].run] = Unleased(call[v].run)]
    /\ UNCHANGED <<release, manifest>>

WorkerEffect(v) ==
    \/ Takes(v) \/ Advances(v) \/ WritesState(v) \/ Settles(v) \/ Frees(v)
    \/ Quits(v) /\ Steady

LEMMA WorkerEffects ==
    ASSUME IInv, MatchInv, NEW v \in Evaluators,
           \/ v \in Workers /\ (WorkerStep(v) \/ (WorkerDies(v) /\ Steady))
           \/ CompletionStep(v) \/ FinishStep(v) \/ Throw(v) \/ ApiCrash(v)
    PROVE  OneFrame(v) /\ OnlyEvaluates(v)' /\ WorkerEffect(v)
<1>0. /\ v \in Processes /\ call \in [Processes -> CallRecords] /\ call[v] \in CallRecords
      /\ FrameOK(v) /\ call[v].kind \in {"none", "worker"}
  BY DEF IInv, TypeOK, MatchInv, OnlyEvaluates, Processes
<1>become. ASSUME NEW f, Become(v, f) PROVE OneFrame(v) /\ call'[v] = f
  BY <1>0, <1>become DEF Become, OneFrame
<1>thrown. Thrown(v) = IdleCall
  BY <1>0 DEF Thrown, CatchesAt
<1>idle. ASSUME Become(v, IdleCall) PROVE OneFrame(v) /\ OnlyEvaluates(v)' /\ Quits(v)
  <2>1. call'[v] = IdleCall /\ OneFrame(v)
    BY <1>become, <1>idle
  <2>2. QED
    BY <2>1 DEF IdleCall, OnlyEvaluates, Quits, Engaged
<1>moves. ASSUME NEW s, Become(v, [call[v] EXCEPT !.pc = s])
          PROVE  /\ OneFrame(v) /\ OnlyEvaluates(v)' /\ call'[v].pc = s /\ Stays(v)
                 /\ call'[v].judged = call[v].judged
  <2>1. call'[v] = [call[v] EXCEPT !.pc = s] /\ OneFrame(v)
    BY <1>become, <1>moves
  <2>2. [call[v] EXCEPT !.pc = s].judged = call[v].judged
    BY <1>0 DEF CallRecords
  <2>3. QED
    BY <1>0, <2>1, <2>2, FrameFields DEF OnlyEvaluates, Stays
<1>1. CASE ClaimNext(v)
  <2>1. PICK i \in RunIds :
          /\ Claimable(i) /\ runs' = [runs EXCEPT ![i] = LeasedRun(i, v)]
          /\ Return(v, [IdleCall EXCEPT !.pc = "prepare", !.kind = "worker", !.run = i,
                                        !.attempt = runs'[i].attempt])
    BY <1>1 DEF ClaimNext
  <2> DEFINE f == [IdleCall EXCEPT !.pc = "prepare", !.kind = "worker", !.run = i,
                                   !.attempt = runs'[i].attempt]
  <2>2. /\ f.pc = "prepare" /\ f.kind = "worker" /\ f.run = i /\ f.attempt = runs'[i].attempt
    BY DEF IdleCall
  <2>3. At(v, "idle") /\ UNCHANGED <<release, manifest>>
    BY <1>1 DEF ClaimNext
  <2>4. CASE Become(v, IdleCall)
    BY <1>idle, <2>1, <2>3, <2>4 DEF Takes, WorkerEffect
  <2>5. CASE Become(v, f)
    <3>1. OneFrame(v) /\ call'[v] = f
      BY <1>become, <2>5
    <3> HIDE DEF f
    <3>2. QED
      BY <2>1, <2>2, <2>3, <3>1 DEF Takes, WorkerEffect, OnlyEvaluates
  <2>6. QED
    BY <1>thrown, <2>1, <2>4, <2>5, ReturnCases
<1>2. CASE Prepare(v)
  <2>1. PICK w \in Verdicts :
          Become(v, [call[v] EXCEPT !.pc = "complete", !.judged = manifest, !.verdict = w])
    BY <1>2 DEF Prepare
  <2> DEFINE f == [call[v] EXCEPT !.pc = "complete", !.judged = manifest, !.verdict = w]
  <2>2. /\ f.pc = "complete" /\ f.judged = manifest /\ f.kind = call[v].kind
        /\ f.run = call[v].run /\ f.attempt = call[v].attempt
    BY <1>0 DEF CallRecords
  <2>3. OneFrame(v) /\ call'[v] = f
    BY <1>become, <2>1
  <2> HIDE DEF f
  <2>4. QED
    BY <1>0, <1>2, <2>2, <2>3 DEF Prepare, At, Advances, Engaged, Stays, Steady, WorkerEffect,
       OnlyEvaluates
<1>3. CASE CheckLease(v)
  BY <1>idle, <1>moves, <1>3 DEF CheckLease, At, Advances, Engaged, Steady, WorkerEffect
<1>4. CASE ReadRelease(v)
  <2> DEFINE f(s, m) == [call[v] EXCEPT !.pc = s, !.manifest = m]
  <2>1. \A s, m : /\ f(s, m).pc = s /\ f(s, m).manifest = m /\ f(s, m).kind = call[v].kind
                  /\ f(s, m).run = call[v].run /\ f(s, m).attempt = call[v].attempt
                  /\ f(s, m).judged = call[v].judged
    BY <1>0 DEF CallRecords
  <2>2. At(v, "read") /\ Steady
    BY <1>4 DEF ReadRelease, Steady
  <2>3. \/ Become(v, IdleCall)
        \/ \E m : Become(v, f("recover", m))
        \/ /\ release.state = "VALIDATING"
           /\ \E s \in {"ensure", "state"} : Become(v, f(s, manifest))
    BY <1>4 DEF ReadRelease, AfterVerdict
  <2> HIDE DEF f
  <2>4. CASE Become(v, IdleCall)
    BY <1>idle, <2>2, <2>4 DEF WorkerEffect
  <2>5. ASSUME NEW m, Become(v, f("recover", m)) PROVE OneFrame(v) /\ OnlyEvaluates(v)' /\ Advances(v)
    BY <1>0, <1>become, <2>1, <2>2, <2>5 DEF At, Advances, Engaged, Stays, OnlyEvaluates
  <2>6. ASSUME NEW s \in {"ensure", "state"}, Become(v, f(s, manifest)), release.state = "VALIDATING"
        PROVE  OneFrame(v) /\ OnlyEvaluates(v)' /\ Advances(v)
    <3>1. OneFrame(v) /\ call'[v] = f(s, manifest)
      BY <1>become, <2>6
    <3>2. QED
      BY <1>0, <2>1, <2>2, <2>6, <3>1 DEF At, Advances, Engaged, Stays, OnlyEvaluates
  <2>7. QED
    BY <2>3, <2>4, <2>5, <2>6 DEF WorkerEffect
<1>5. CASE Recover(v)
  <2>1. Become(v, IdleCall) \/ Become(v, [call[v] EXCEPT !.pc = "release"])
    BY <1>5, <1>thrown, ReturnCases DEF Recover
  <2>2. OneFrame(v) /\ OnlyEvaluates(v)' /\ Quits(v)
    BY <1>idle, <1>moves, <2>1 DEF Quits, Engaged
  <2>3. QED
    BY <1>5, <2>2 DEF Recover, At, Settles, Engaged, WorkerEffect
<1>6. CASE ReleaseLease(v)
  BY <1>0, <1>6, <1>idle, RunBound DEF ReleaseLease, At, Frees, WorkerEffect
<1>7. CASE FinishRun(v)
  <2>1. Become(v, IdleCall) \/ Become(v, [call[v] EXCEPT !.pc = "release"])
    BY <1>7, <1>thrown, ReturnCases DEF FinishRun
  <2>2. OneFrame(v) /\ OnlyEvaluates(v)' /\ Quits(v)
    BY <1>idle, <1>moves, <2>1 DEF Quits, Engaged
  <2>3. QED
    BY <1>7, <2>2 DEF FinishRun, At, Settles, Engaged, WorkerEffect
<1>8. CASE WriteState(v)
  <2>1. Become(v, IdleCall) \/ Become(v, [call[v] EXCEPT !.pc = "finish"])
    BY <1>8, <1>thrown, ReturnCases DEF WriteState
  <2>2. QED
    BY <1>8, <1>idle, <1>moves, <2>1 DEF WriteState, WritesState, WorkerEffect
<1>9. CASE Ensure(v)
  <2>1. Become(v, IdleCall) \/ Become(v, [call[v] EXCEPT !.pc = "state"])
    BY <1>9, <1>thrown, ReturnCases DEF Ensure
  <2>2. QED
    BY <1>9, <1>idle, <1>moves, <2>1 DEF Ensure, At, Advances, Engaged, Steady, WorkerEffect
<1>10. CASE EnsureConflict(v) \/ Throw(v) \/ ApiCrash(v) \/ (WorkerDies(v) /\ Steady)
  <2>1. Become(v, IdleCall) /\ Steady
    BY <1>10, <1>thrown DEF EnsureConflict, Throw, ApiCrash, WorkerDies, Steady
  <2>2. QED
    BY <1>idle, <2>1 DEF WorkerEffect
<1>11. QED
  BY <1>1, <1>2, <1>3, <1>4, <1>5, <1>6, <1>7, <1>8, <1>9, <1>10 DEF WorkerStep, CompletionStep, FinishStep

LEMMA QueueEffects ==
    ASSUME OnlyQueued, IInv, MatchInv, NEW p \in Requests,
           RequestStep(p) \/ FinishStep(p) \/ Throw(p) \/ ApiCrash(p)
    PROVE  OneFrame(p) /\ OnlyQueues(p)' /\ (Steady \/ Queues)
<1>0. /\ p \in Processes /\ call \in [Processes -> CallRecords]
      /\ At(p, "idle") \/ (At(p, "claim") /\ call[p].kind = "queue")
  BY DEF IInv, TypeOK, MatchInv, OnlyQueues, Processes
<1>become. ASSUME NEW f, Become(p, f) PROVE OneFrame(p) /\ call'[p] = f
  BY <1>0, <1>become DEF Become, OneFrame
<1>thrown. Thrown(p) = IdleCall
  BY <1>0 DEF Thrown, CatchesAt, At
<1>idle. ASSUME Become(p, IdleCall) PROVE OneFrame(p) /\ OnlyQueues(p)'
  BY <1>become, <1>idle DEF IdleCall, OnlyQueues, At
<1>1. ASSUME NEW op \in Runs, RequireRunnable(p, op)
      PROVE  OneFrame(p) /\ OnlyQueues(p)' /\ Steady
  <2>1. op = "queue" /\ Steady
    BY <1>1 DEF RequireRunnable, OnlyQueued, Runs, Steady
  <2>2. OneFrame(p) /\ call'[p] = [IdleCall EXCEPT !.pc = "claim", !.kind = op]
    BY <1>become, <1>1 DEF RequireRunnable
  <2>3. call'[p].pc = "claim" /\ call'[p].kind = op
    BY <2>2 DEF IdleCall
  <2>4. QED
    BY <2>1, <2>2, <2>3 DEF OnlyQueues, At
<1>2. CASE ClaimRefused(p)
  BY <1>2, <1>idle DEF ClaimRefused, Steady
<1>3. CASE ClaimWorkflow(p)
  <2>1. call[p].kind = "queue"
    BY <1>0, <1>3 DEF ClaimWorkflow, At
  <2>2. Become(p, IdleCall)
    BY <1>3, <1>thrown, <2>1, ReturnCases DEF ClaimWorkflow
  <2>3. Queues
    BY <1>3, <2>1 DEF ClaimWorkflow, Queues, GraphOf, IsNextRow
  <2>4. QED
    BY <1>idle, <2>2, <2>3
<1>4. ASSUME NEW d \in Decisions, Decide(p, d) PROVE FALSE
  BY <1>4 DEF Decide, OnlyQueued, Decisions
<1>5. CASE Throw(p) \/ ApiCrash(p)
  BY <1>5, <1>thrown, <1>idle DEF Throw, ApiCrash, Steady
<1>6. QED
  BY <1>0, <1>1, <1>2, <1>3, <1>4, <1>5 DEF RequestStep, FinishStep, Load, FailRun, ListRuns,
     MarkRun, Ensure, EnsureConflict, WriteState, FinishRun, At

LEMMA StepEffects ==
    ASSUME OnlyQueued, LeasesOutliveWork, IInv, MatchInv, [Next]_vars
    PROVE  \/ \E v \in Evaluators : OneFrame(v) /\ OnlyEvaluates(v)' /\ WorkerEffect(v)
           \/ \E w \in Workers, h \in Handlers : Left(w, h) /\ Steady
           \/ \E p \in Requests : OneFrame(p) /\ OnlyQueues(p)' /\ (Steady \/ Queues)
           \/ UNCHANGED call /\ (Steady \/ Uploads \/ Expires)
<1>1. CASE RegisterAsset
  BY <1>1 DEF RegisterAsset, AssetMutableStates, Uploads
<1>2. ASSUME NEW i \in RunIds, LeaseExpires(i) PROVE UNCHANGED call /\ Expires
  BY <1>2 DEF LeaseExpires, LeasesOutliveWork, Expires
<1>3. CASE UNCHANGED vars
  BY <1>3 DEF vars, Steady
<1>4. ASSUME NEW w \in Workers, WorkerCrash(w)
      PROVE  Steady /\ (WorkerDies(w) \/ \E h \in Handlers : Left(w, h))
  <2>1. Steady
    BY <1>4 DEF WorkerCrash, Steady
  <2>2. ASSUME NEW h \in Handlers, WorkerLeaves(w, h) PROVE Left(w, h)
    <3>1. FrameOK(h)
      BY DEF IInv, Processes, Evaluators
    <3>2. call[h].kind = "none"
      BY <2>2, <3>1 DEF WorkerLeaves, At, FrameOK, KindsAt
    <3>3. QED
      BY <2>1, <2>2, <3>2 DEF WorkerLeaves, Left, Steady
  <2>3. QED
    BY <1>4, <2>1, <2>2 DEF WorkerCrash
<1>5. QED
  BY <1>1, <1>2, <1>3, <1>4, WorkerEffects, QueueEffects DEF Next, Processes, Evaluators

\* Who is engaged is engaged in a row that is taken.
LEMMA EngagedRow ==
    ASSUME IInv, MatchInv, NEW w \in Evaluators, call[w].pc \in Engaged
    PROVE  /\ call[w].kind = "worker"
           /\ call[w].run \in RunIds /\ Occupied(call[w].run)
           /\ runs[call[w].run].status = "RUNNING"
           /\ runs[call[w].run].attempt = call[w].attempt
<1>1. FrameOK(w) /\ call[w].kind \in {"none", "worker"} /\ LeaseKept(w)
  BY DEF IInv, MatchInv, OnlyEvaluates, Processes
<1>2. call[w].kind = "worker"
  BY <1>1 DEF FrameOK, KindsAt, Engaged
<1>3. QED
  BY <1>1, <1>2 DEF FrameOK, LeaseKept, Occupied, Active

\* Only one process is engaged at a time.
LEMMA OneEngaged ==
    ASSUME IInv, MatchInv, NEW v \in Evaluators, NEW w \in Evaluators,
           call[v].pc \in Engaged, call[w].pc \in Engaged
    PROVE  v = w
<1>1. call[v].run = call[w].run
  BY EngagedRow DEF MatchInv, WorkerRunsSerial
<1>2. QED
  BY <1>1, EngagedRow DEF IInv, AttemptsDistinct

\* No step but a claim takes a further row.
LEMMA OccupiedBefore ==
    ASSUME OnlyQueued, LeasesOutliveWork, IInv, MatchInv, [Next]_vars, ~ Queues,
           NEW i \in RunIds, Occupied(i)'
    PROVE  Occupied(i)
<1>0. runs \in [RunIds -> RunRecords] /\ runs[i] \in RunRecords
  BY DEF IInv, TypeOK
<1>1. CASE runs'[i] = runs[i]
  BY <1>1 DEF Occupied, Active
<1>2. ASSUME NEW v \in Evaluators, Takes(v), runs'[i] # runs[i] PROVE Occupied(i)
  <2>1. Claimable(i) /\ runs'[i] = LeasedRun(i, v)
    BY <1>0, <1>2 DEF Takes
  <2>2. QED
    BY <1>0, <2>1, RowFields DEF Occupied, Active, Claimable
<1>3. ASSUME NEW v \in Evaluators, Settles(v), runs'[i] # runs[i] PROVE Occupied(i)
  <2>1. i = call[v].run
    BY <1>0, <1>3 DEF Settles, UpdateWorkflowRun
  <2>2. QED
    BY <1>3, <2>1, EngagedRow DEF Settles
<1>4. ASSUME NEW v \in Evaluators, Frees(v), runs'[i] # runs[i] PROVE Occupied(i)
  <2>1. runs'[i] = Unleased(i)
    BY <1>0, <1>4 DEF Frees
  <2>2. QED
    BY <1>0, <2>1, RowFields DEF Occupied, Active
<1>5. ASSUME Expires, runs'[i] # runs[i] PROVE Occupied(i)
  <2>1. runs'[i] = [runs[i] EXCEPT !.lease = "expired"]
    BY <1>0, <1>5 DEF Expires
  <2>2. QED
    BY <1>0, <2>1 DEF Occupied, Active, RunRecords
<1>6. QED
  BY <1>1, <1>2, <1>3, <1>4, <1>5, StepEffects
     DEF WorkerEffect, Advances, WritesState, Steady, Uploads

LEMMA SerialStep ==
    ASSUME OnlyQueued, LeasesOutliveWork, IInv, MatchInv, [Next]_vars
    PROVE  WorkerRunsSerial'
<1> SUFFICES ASSUME NEW i \in RunIds, NEW j \in RunIds, Occupied(i)', Occupied(j)'
             PROVE  i = j
  BY DEF WorkerRunsSerial
<1>1. CASE Queues
  <2>1. PICK k \in RunIds : runs' = [runs EXCEPT ![k] = NewRun("queue")]
    BY <1>1 DEF Queues
  <2>2. ASSUME NEW l \in RunIds, Occupied(l)' PROVE l = k
    <3>1. ~ Occupied(l)
      BY <1>1 DEF Queues, GraphBusy, Occupied
    <3>2. runs'[l] # runs[l]
      BY <2>2, <3>1 DEF Occupied, Active
    <3>3. QED
      BY <2>1, <3>2 DEF IInv, TypeOK
  <2>3. QED
    BY <2>2
<1>2. CASE ~ Queues
  BY <1>2, OccupiedBefore DEF MatchInv, WorkerRunsSerial
<1>3. QED
  BY <1>1, <1>2

\* Nobody takes a run from the process that is engaged in it.
LEMMA RowKept ==
    ASSUME OnlyQueued, LeasesOutliveWork, IInv, MatchInv, [Next]_vars,
           NEW w \in Evaluators, call[w].pc \in Engaged, call'[w] = call[w]
    PROVE  LeaseKept(w)'
<1> DEFINE r == call[w].run
<1>0. /\ runs \in [RunIds -> RunRecords] /\ r \in RunIds /\ runs[r] \in RunRecords
      /\ runs[r].status = "RUNNING" /\ runs[r].attempt = call[w].attempt
      /\ runs[r].lease # "expired"
      /\ Occupied(r)
  BY EngagedRow DEF IInv, TypeOK, MatchInv, LeaseKept
<1>a. SUFFICES /\ runs'[r].status = "RUNNING" /\ runs'[r].attempt = runs[r].attempt
               /\ runs'[r].lease # "expired"
  BY <1>0 DEF LeaseKept
<1> HIDE DEF r
<1>1. CASE runs'[r] = runs[r]
  BY <1>0, <1>1
<1>2. ASSUME NEW v \in Evaluators, Takes(v), runs'[r] # runs[r] PROVE FALSE
  <2>1. Claimable(r) /\ v # w
    BY <1>0, <1>2 DEF Takes, At, Engaged
  <2>2. runs[r].lease = "expired"
    BY <1>0, <2>1 DEF Claimable
  <2>3. QED
    BY <1>0, <2>2
<1>3. ASSUME NEW v \in Evaluators, Settles(v) PROVE FALSE
  BY <1>3, OneEngaged DEF Settles, Quits
<1>4. ASSUME NEW v \in Evaluators, Frees(v), runs'[r] # runs[r]
      PROVE  /\ runs'[r].status = "RUNNING" /\ runs'[r].attempt = runs[r].attempt
             /\ runs'[r].lease # "expired"
  <2>1. runs'[r] = Unleased(r)
    BY <1>0, <1>4 DEF Frees
  <2>2. QED
    BY <1>0, <2>1 DEF Unleased, RunRecords
<1>5. ASSUME Expires, runs'[r] # runs[r] PROVE FALSE
  <2>1. ~ Holds(w, r)
    BY <1>0, <1>5 DEF Expires
  <2>2. Holds(w, r)
    BY <1>0 DEF Holds, At, Engaged, r
  <2>3. QED
    BY <2>1, <2>2
<1>6. ASSUME Queues PROVE FALSE
  BY <1>0, <1>6 DEF Queues, GraphBusy, Occupied
<1>7. QED
  BY <1>0, <1>1, <1>2, <1>3, <1>4, <1>5, <1>6, StepEffects
     DEF WorkerEffect, Advances, WritesState, Steady, Uploads

LEMMA LeaseStep ==
    ASSUME OnlyQueued, LeasesOutliveWork, IInv, MatchInv, [Next]_vars, NEW w \in Evaluators
    PROVE  LeaseKept(w)'
<1>0. runs \in [RunIds -> RunRecords] /\ LeaseKept(w)
  BY DEF IInv, TypeOK, MatchInv
<1>1. CASE call'[w] = call[w]
  <2>1. CASE call[w].pc \in Engaged
    BY <1>1, <2>1, RowKept
  <2>2. CASE call[w].pc \notin Engaged
    BY <1>1, <2>2 DEF LeaseKept
  <2>3. QED
    BY <2>1, <2>2
<1>2. CASE WorkerEffect(w)
  <2>1. CASE Quits(w)
    BY <2>1 DEF Quits, LeaseKept
  <2>2. CASE Takes(w) /\ ~ Quits(w)
    <3>1. PICK i \in RunIds : /\ runs' = [runs EXCEPT ![i] = LeasedRun(i, w)]
                              /\ call'[w].run = i /\ call'[w].attempt = runs'[i].attempt
      BY <2>2 DEF Takes
    <3>2. runs'[i] = LeasedRun(i, w) /\ runs[i] \in RunRecords
      BY <1>0, <3>1
    <3>3. runs'[i].status = "RUNNING" /\ runs'[i].lease = "live"
      BY <3>2 DEF LeasedRun, RunRecords
    <3>4. QED
      BY <3>1, <3>3 DEF LeaseKept
  <2>3. CASE (Advances(w) \/ WritesState(w)) /\ ~ Quits(w)
    BY <1>0, <2>3 DEF Advances, WritesState, Stays, Steady, LeaseKept, At, Engaged, Quits
  <2>4. QED
    BY <1>2, <2>1, <2>2, <2>3 DEF WorkerEffect, Settles, Frees
<1>3. ASSUME NEW u \in Workers, NEW h \in Handlers, Left(u, h), Steady
      PROVE  LeaseKept(w)' \/ call'[w] = call[w]
  <2>1. LeaseKept(u) /\ TypeOK
    BY DEF MatchInv, IInv, Evaluators
  <2>2. call'[w] = IdleCall \/ call'[w] = call[u] \/ call'[w] = call[w]
    BY <1>3, <2>1, LeftFrames DEF Processes
  <2>3. QED
    BY <1>3, <2>1, <2>2 DEF LeaseKept, Steady, IdleCall, Engaged
<1>4. QED
  BY <1>1, <1>2, <1>3, StepEffects DEF OneFrame, Processes

LEMMA MatchedStep ==
    ASSUME OnlyQueued, LeasesOutliveWork, IInv, MatchInv, [Next]_vars, NEW w \in Evaluators
    PROVE  Matched(w)'
<1>0. Matched(w)
  BY DEF MatchInv
<1>1. CASE WorkerEffect(w)
  BY <1>0, <1>1 DEF WorkerEffect, Takes, Advances, WritesState, Settles, Frees, Quits, Steady,
     Engaged, Matched, At
<1>2. CASE call'[w] = call[w] /\ call[w].pc \in {"complete", "read"}
  <2>1. call[w].pc \in Engaged
    BY <1>2 DEF Engaged
  <2>2. ~ Queues
    BY <2>1, EngagedRow DEF Queues, GraphBusy, Occupied
  <2>3. ASSUME NEW v \in Evaluators, WritesState(v) PROVE FALSE
    BY <1>2, <2>1, <2>3, OneEngaged DEF WritesState, At, Engaged
  <2>4. UNCHANGED <<release, manifest>> \/ Uploads
    BY <2>2, <2>3, StepEffects DEF WorkerEffect, Takes, Advances, Settles, Frees, Steady, Expires
  <2>5. QED
    BY <1>0, <1>2, <2>4 DEF Uploads, Matched, At
<1>3. CASE call'[w] = call[w] /\ call[w].pc \notin {"complete", "read"}
  BY <1>0, <1>3 DEF Matched, At
<1>4. ASSUME NEW u \in Workers, NEW h \in Handlers, Left(u, h), Steady PROVE Matched(w)'
  <2>1. Matched(u) /\ TypeOK
    BY DEF MatchInv, IInv, Evaluators
  <2>2. call'[w] = IdleCall \/ call'[w] = call[u] \/ call'[w] = call[w]
    BY <1>4, <2>1, LeftFrames DEF Processes
  <2>3. QED
    BY <1>0, <1>4, <2>1, <2>2 DEF Matched, Steady, IdleCall, At
<1>5. QED
  BY <1>1, <1>2, <1>3, <1>4, StepEffects DEF OneFrame, Processes

LEMMA MatchStep ==
    ASSUME OnlyQueued, LeasesOutliveWork, IInv, MatchInv, [Next]_vars
    PROVE  MatchInv'
<1>1. \A p \in Requests : OnlyQueues(p)'
  <2> SUFFICES ASSUME NEW p \in Requests PROVE OnlyQueues(p)'
    OBVIOUS
  <2>1. OnlyQueues(p) /\ p \in Processes /\ p \notin Evaluators /\ TypeOK
    BY DEF MatchInv, IInv, Processes
  <2>2. ASSUME NEW u \in Workers, NEW h \in Handlers, Left(u, h) PROVE call'[p] = call[p]
    BY <2>1, <2>2, LeftFrames DEF Evaluators
  <2>3. call'[p] = call[p] \/ OnlyQueues(p)'
    BY <2>1, <2>2, StepEffects DEF OneFrame
  <2>4. QED
    BY <2>1, <2>3 DEF OnlyQueues, At
<1>2. \A w \in Evaluators : OnlyEvaluates(w)'
  <2> SUFFICES ASSUME NEW w \in Evaluators PROVE OnlyEvaluates(w)'
    OBVIOUS
  <2>1. OnlyEvaluates(w) /\ w \in Processes /\ w \notin Requests /\ TypeOK
    BY DEF MatchInv, IInv, Processes
  <2>2. ASSUME NEW u \in Workers, NEW h \in Handlers, Left(u, h) PROVE OnlyEvaluates(w)'
    <3>1. OnlyEvaluates(u)
      BY DEF MatchInv, Evaluators
    <3>2. call'[w] = IdleCall \/ call'[w] = call[u] \/ call'[w] = call[w]
      BY <2>1, <2>2, LeftFrames
    <3>3. QED
      BY <2>1, <3>1, <3>2 DEF OnlyEvaluates, IdleCall
  <2>3. call'[w] = call[w] \/ OnlyEvaluates(w)'
    BY <2>1, <2>2, StepEffects DEF OneFrame
  <2>4. QED
    BY <2>1, <2>3 DEF OnlyEvaluates
<1>3. QED
  BY <1>1, <1>2, LeaseStep, MatchedStep, SerialStep DEF MatchInv

\* While runs are queued and nothing else writes the release, a worker's result
\* is applied only to the asset set it was computed from, for any number of
\* workers and whenever they die, as long as nobody works on after the sixty
\* seconds of its lease (release-workflow.service.ts:79-101).
THEOREM ResultsMatchInputs ==
    ASSUME OnlyQueued, LeasesOutliveWork
    PROVE  Spec => ResultMatchesInput
<1> DEFINE Matches == \A w \in Evaluators :
        At(w, "ensure") /\ actions' # actions /\ call'[w] # call[w] =>
            call[w].manifest = call[w].judged
<1>1. Init => MatchInv
  BY RecordTypes DEF Init, MatchInv, OnlyQueues, OnlyEvaluates, LeaseKept, Matched, WorkerRunsSerial,
     Occupied, At, Engaged, IdleCall, UnusedRun, Processes
<1>2. IInv /\ MatchInv /\ [Next]_vars => MatchInv'
  BY MatchStep
<1>3. MatchInv => Matches
  BY DEF MatchInv, Matched
<1>4. QED
  BY <1>1, <1>2, <1>3, Invariance, PTL DEF Spec, ResultMatchesInput
=============================================================================
