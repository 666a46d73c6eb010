----------------------------- MODULE Evaluation -----------------------------
(***************************************************************************)
(* One release under evaluation: the API requests validate, run and queue, *)
(* the approval decision, asset registration, and the workers that poll    *)
(* the API for queued runs, evaluate them and post the result back.        *)
(*                                                                         *)
(* A handler is a sequence of awaited repository calls.  Each call is one  *)
(* transaction and one action here; between two of them any other handler  *)
(* may run.  call[p] is the stack frame of process p: a request, a worker  *)
(* together with the completion handler it is waiting for, or a completion *)
(* handler whose worker died while it was waiting.                         *)
(***************************************************************************)
EXTENDS Naturals, FiniteSets, ReleaseTypes

CONSTANTS
    Requests,      \* concurrent API requests
    Workers,       \* polling worker processes
    Handlers,      \* bound: completions still handled after their worker died
    WorkerIds,     \* values of WORKER_ID
    WorkerId,      \* the id of each worker, and the one each handler was posted
    Ops,           \* the operations users invoke in this instance
    Faults,        \* the faults that may happen in this instance
    MaxRuns,       \* bound: workflow_runs rows
    MaxAttempts,   \* bound: leases taken on one run
    MaxManifests,  \* bound: versions of the asset set
    Source         \* Source[m]: the subtitle source in asset set m

RunIds == 1 .. MaxRuns              \* ids in order of created_at
Manifests == 1 .. MaxManifests
Evaluators == Workers \cup Handlers
Processes == Requests \cup Evaluators
Runs == {"validate", "run", "queue"}
Decisions == {"approve", "reject"}

ASSUME RequestsAssumption == Requests \cap Evaluators = {}
ASSUME HandlersAssumption == Workers \cap Handlers = {}
ASSUME WorkerIdAssumption == WorkerId \in [Evaluators -> WorkerIds]
ASSUME BoundsAssumption ==
    MaxRuns \in Nat \ {0} /\ MaxAttempts \in Nat /\ MaxManifests \in Nat \ {0}
ASSUME SourceAssumption == Source \in [Manifests -> Manifests]
ASSUME OpsAssumption == Ops \subseteq (Runs \cup Decisions \cup {"upload"})
ASSUME FaultsAssumption ==
    Faults \subseteq {"throw", "lostReply", "apiCrash", "workerCrash", "slowLease"}

VARIABLES
    release,   \* the releases row: state and optimistic version
    manifest,  \* version of the release's asset set
    actions,   \* status of the action stored under each idempotency key
    runs,      \* the workflow_runs rows
    call       \* what each process is doing

vars == <<release, manifest, actions, runs, call>>

-----------------------------------------------------------------------------
(* Idempotency keys.  A submission is bound to the manifest version, a     *)
(* remediation to the subtitle it repairs.                                 *)

ActionKeys == {"SUBMIT_DELIVERY", "REPAIR_SUBTITLE"} \X Manifests
NoAction == <<"NONE", 0>>
SubmissionKey(m) == <<"SUBMIT_DELIVERY", m>>
RemediationKey(m) == <<"REPAIR_SUBTITLE", Source[m]>>

Leases == {"none", "live", "expired"}
NoOwner == "nobody"

RunRecords ==
    [status : RunStatuses, graph : {"none", "api", "worker"}, typed : BOOLEAN,
     attempt : Nat, owner : WorkerIds \cup {NoOwner}, lease : Leases,
     action : ActionKeys \cup {NoAction}]

UnusedRun ==
    [status |-> "NONE", graph |-> "none", typed |-> FALSE, attempt |-> 0,
     owner |-> NoOwner, lease |-> "none", action |-> NoAction]

\* What an evaluation concludes: no blocker, a repair to propose, blockers.
Verdicts == {"CLEAN", "REPAIR", "BLOCKED"}

Steps ==
    {"idle", "claim", "load", "ensure", "state", "finish", "fail",
     "prepare", "complete", "read", "recover", "release", "checkpoint", "mark"}

CallRecords ==
    [pc : Steps, kind : Runs \cup Decisions \cup {"none", "worker"},
     run : Nat, attempt : Nat, version : Nat, prev : ReleaseStates,
     manifest : Nat, judged : Nat, verdict : Verdicts \cup {"NONE"}]

IdleCall ==
    [pc |-> "idle", kind |-> "none", run |-> 0, attempt |-> 0, version |-> 0,
     prev |-> "DRAFT", manifest |-> 0, judged |-> 0, verdict |-> "NONE"]

TypeOK ==
    /\ release \in [state : ReleaseStates, version : Nat]
    /\ manifest \in Manifests
    /\ actions \in [ActionKeys -> ActionStatuses]
    /\ runs \in [RunIds -> RunRecords]
    /\ call \in [Processes -> CallRecords]

Init ==
    /\ release = [state |-> "DRAFT", version |-> 1]
    /\ manifest = 1
    /\ actions = [k \in ActionKeys |-> "NONE"]
    /\ runs = [i \in RunIds |-> UnusedRun]
    /\ call = [p \in Processes |-> IdleCall]

-----------------------------------------------------------------------------
(* How a handler goes on after an awaited call.                            *)

At(p, step) == call[p].pc = step

\* Seeded fault: validateRelease forgets to await, as runRelease does.
CatchesOnlyLoad(p) == call[p].kind \in {"validate", "run"} /\ call[p].pc = "load"

\* validateRelease wraps every call in try/catch.  runRelease does so only up
\* to the evaluation: finishEvaluationRun is returned without being awaited,
\* so what it throws leaves the try block and failRun is not reached.
CatchesAt(p) ==
    \/ call[p].kind = "validate" /\ call[p].pc \in {"load", "state", "finish"}
    \/ call[p].kind = "run" /\ call[p].pc = "load"

\* The frame after the current call threw.
Thrown(p) == IF CatchesAt(p) THEN [call[p] EXCEPT !.pc = "fail"] ELSE IdleCall

\* The current call committed; its reply may still be lost on the way back,
\* which the handler sees as an exception.
Return(p, frame) ==
    \/ call' = [call EXCEPT ![p] = frame]
    \/ "lostReply" \in Faults /\ call' = [call EXCEPT ![p] = Thrown(p)]

Become(p, frame) == call' = [call EXCEPT ![p] = frame]

\* Seeded fault: only a claim counts the version up.
ClaimsAloneBump(state) ==
    [state |-> state,
     version |-> IF state = "VALIDATING" THEN release.version + 1 ELSE release.version]

NextRelease(state) == [state |-> state, version |-> release.version + 1]

-----------------------------------------------------------------------------
(* validate, run and queue                                                 *)

\* requireRunnableRelease: a check of its own, before the claim.
RequireRunnable(p, op) ==
    /\ At(p, "idle")
    /\ op \in Ops \cap Runs
    /\ release.state \in RunnableStates
    /\ Become(p, [IdleCall EXCEPT !.pc = "claim", !.kind = op])
    /\ UNCHANGED <<release, manifest, actions, runs>>

Active(i) ==
    \/ runs[i].status = "RUNNING"
    \/ runs[i].status = "WAITING" /\ runs[i].typed

GraphOf(op) == IF op = "queue" THEN "worker" ELSE "api"

\* Seeded fault: the claim looks for queued runs only.
QueuedBusy(graph) == \E i \in RunIds : runs[i].graph = graph /\ runs[i].typed

GraphBusy(graph) == \E i \in RunIds : runs[i].graph = graph /\ Active(i)

IsNextRow(i) ==
    /\ runs[i].status = "NONE"
    /\ \A j \in RunIds : runs[j].status = "NONE" => i <= j

NewRun(op) ==
    IF op = "queue"
    THEN [UnusedRun EXCEPT !.status = "WAITING", !.graph = "worker", !.typed = TRUE]
    ELSE [UnusedRun EXCEPT !.status = "RUNNING", !.graph = "api"]

\* claimWorkflow refuses: a run of the same graph is active.
ClaimRefused(p) ==
    /\ At(p, "claim")
    /\ GraphBusy(GraphOf(call[p].kind))
    /\ Become(p, IdleCall)
    /\ UNCHANGED <<release, manifest, actions, runs>>

\* claimWorkflow grants the release.  The state is not looked at again: the
\* claim moves the release to VALIDATING from wherever it is by now.
ClaimWorkflow(p) ==
    /\ At(p, "claim")
    /\ ~ GraphBusy(GraphOf(call[p].kind))
    /\ \E i \in RunIds :
        /\ IsNextRow(i)
        /\ runs' = [runs EXCEPT ![i] = NewRun(call[p].kind)]
        /\ release' = NextRelease("VALIDATING")
        /\ Return(p, IF call[p].kind = "queue" THEN IdleCall
                     ELSE [call[p] EXCEPT !.pc = "load", !.run = i,
                                          !.version = release'.version,
                                          !.prev = release.state])
    /\ UNCHANGED <<manifest, actions>>

\* The step of a handler that has its verdict.  validateRelease proposes
\* nothing; a blocked evaluation creates no action.
AfterVerdict(kind, verdict) ==
    IF kind = "validate" \/ verdict = "BLOCKED" THEN "state" ELSE "ensure"

\* requireRelease reads the release, the orchestration evaluates what it read
\* and storeValidation replaces the findings.  Rights are judged against the
\* clock, so the verdict is not a function of the assets.
Load(p) ==
    /\ At(p, "load")
    /\ \E v \in Verdicts :
        Become(p, [call[p] EXCEPT !.pc = AfterVerdict(call[p].kind, v),
                                  !.manifest = manifest, !.judged = manifest,
                                  !.verdict = v])
    /\ UNCHANGED <<release, manifest, actions, runs>>

KeyOf(p) ==
    IF call[p].verdict = "REPAIR" THEN RemediationKey(call[p].manifest)
                                  ELSE SubmissionKey(call[p].manifest)

\* ensureAction and ensureSubmission: create the row of the key, or find it.
Ensured(status, key) ==
    IF status # "NONE" THEN status
    ELSE IF key[1] = "SUBMIT_DELIVERY" THEN "PENDING_APPROVAL" ELSE "PROPOSED"

Ensure(p) ==
    /\ At(p, "ensure")
    /\ actions[KeyOf(p)] \notin {"REJECTED", "FAILED"}
    /\ actions' = [actions EXCEPT ![KeyOf(p)] = Ensured(@, KeyOf(p))]
    /\ Return(p, [call[p] EXCEPT !.pc = "state"])
    /\ UNCHANGED <<release, manifest, runs>>

\* The key's action was rejected or failed before: ConflictException.
EnsureConflict(p) ==
    /\ At(p, "ensure")
    /\ actions[KeyOf(p)] \in {"REJECTED", "FAILED"}
    /\ Become(p, Thrown(p))
    /\ UNCHANGED <<release, manifest, actions, runs>>

\* validate reports READY_FOR_APPROVAL for anything that is not a blocker.
OutcomeState(kind, verdict) ==
    CASE verdict = "BLOCKED" -> "BLOCKED"
      [] verdict = "REPAIR" /\ kind # "validate" -> "REMEDIATING"
      [] OTHER -> "READY_FOR_APPROVAL"

\* updateReleaseState: unconditional.
WriteState(p) ==
    /\ At(p, "state")
    /\ release' = NextRelease(OutcomeState(call[p].kind, call[p].verdict))
    /\ Return(p, [call[p] EXCEPT !.pc = "finish"])
    /\ UNCHANGED <<manifest, actions, runs>>

\* updateWorkflowRun writes the status and a checkpoint that may name an
\* action; unconditional too, and the lease stays as it is.
UpdatedRun(i, status, key) == [runs[i] EXCEPT !.status = status, !.action = key]

UpdateWorkflowRun(i, status, key) ==
    runs' = [runs EXCEPT ![i] = UpdatedRun(i, status, key)]

OutcomeStatus(kind, verdict) ==
    IF kind = "validate" \/ verdict = "BLOCKED" THEN "COMPLETED" ELSE "WAITING"

OutcomeAction(p) ==
    IF OutcomeStatus(call[p].kind, call[p].verdict) = "WAITING"
    THEN KeyOf(p) ELSE NoAction

FinishRun(p) ==
    /\ At(p, "finish")
    /\ UpdateWorkflowRun(call[p].run, OutcomeStatus(call[p].kind, call[p].verdict),
                         OutcomeAction(p))
    /\ Return(p, IF call[p].kind = "worker"
                 THEN [call[p] EXCEPT !.pc = "release"] ELSE IdleCall)
    /\ UNCHANGED <<release, manifest, actions>>

\* Seeded fault: the version is not compared.
RestoreUnversioned(p) == release.state = "VALIDATING"

\* failWorkflow gives the release back only if nothing moved it since.
MayRestore(p) ==
    release.version = call[p].version /\ release.state = "VALIDATING"

FailRun(p) ==
    /\ At(p, "fail")
    /\ IF runs[call[p].run].status = "RUNNING"
       THEN /\ UpdateWorkflowRun(call[p].run, "FAILED", NoAction)
            /\ release' = IF MayRestore(p) THEN NextRelease(call[p].prev) ELSE release
       ELSE UNCHANGED <<runs, release>>
    /\ Become(p, IdleCall)
    /\ UNCHANGED <<manifest, actions>>

-----------------------------------------------------------------------------
(* The approval decision and asset registration, as far as a run sees them *)

\* decideApproval by the one approver an R2 action needs: the action and the
\* release change together, whatever state the release is in.
DecisionStatus(d) == IF d = "approve" THEN "APPROVED" ELSE "REJECTED"
DecisionState(d) == IF d = "approve" THEN "APPROVED" ELSE "BLOCKED"

Decide(p, d) ==
    /\ At(p, "idle")
    /\ d \in Ops \cap Decisions
    /\ \E m \in Manifests :
        /\ actions[SubmissionKey(m)] = "PENDING_APPROVAL"
        /\ actions' = [actions EXCEPT ![SubmissionKey(m)] = DecisionStatus(d)]
        /\ Return(p, [IdleCall EXCEPT !.pc = "checkpoint", !.kind = d, !.manifest = m])
    /\ release' = NextRelease(DecisionState(d))
    /\ UNCHANGED <<manifest, runs>>

\* checkpointAction: the latest run that waits for this action ...
WaitingFor(key) ==
    {i \in RunIds : runs[i].status = "WAITING" /\ runs[i].action = key}

ListRuns(p) ==
    /\ At(p, "checkpoint")
    /\ LET waiting == WaitingFor(SubmissionKey(call[p].manifest)) IN
        \/ waiting = {} /\ Become(p, IdleCall)
        \/ \E i \in waiting :
            /\ \A j \in waiting : j <= i
            /\ Become(p, [call[p] EXCEPT !.pc = "mark", !.run = i])
    /\ UNCHANGED <<release, manifest, actions, runs>>

\* ... gets the decision written over whatever it is by then.
MarkRun(p) ==
    /\ At(p, "mark")
    /\ UpdateWorkflowRun(call[p].run,
                         IF call[p].kind = "approve" THEN "WAITING" ELSE "COMPLETED",
                         SubmissionKey(call[p].manifest))
    /\ Become(p, IdleCall)
    /\ UNCHANGED <<release, manifest, actions>>

\* registerAsset outside a repair: the asset set changes, the version of the
\* release does not.
RegisterAsset ==
    /\ "upload" \in Ops
    /\ release.state \in AssetMutableStates
    /\ \A k \in ActionKeys : actions[k] # "RUNNING"
    /\ manifest < MaxManifests
    /\ manifest' = manifest + 1
    /\ UNCHANGED <<release, actions, runs, call>>

-----------------------------------------------------------------------------
(* Workers                                                                 *)

\* Seeded fault: a run whose lease ran out is never offered again.
QueuedOnly(i) == runs[i].typed /\ runs[i].status = "WAITING"

Claimable(i) ==
    /\ runs[i].typed
    /\ \/ runs[i].status = "WAITING"
       \/ runs[i].status = "RUNNING" /\ runs[i].lease = "expired"

\* Seeded fault: taking a run over keeps its attempt number.
LeasedSameAttempt(i, w) ==
    [runs[i] EXCEPT !.status = "RUNNING",
                    !.attempt = IF runs[i].status = "WAITING" THEN @ + 1 ELSE @,
                    !.owner = WorkerId[w], !.lease = "live"]

LeasedRun(i, w) ==
    [runs[i] EXCEPT !.status = "RUNNING", !.attempt = @ + 1,
                    !.owner = WorkerId[w], !.lease = "live"]

\* claimNextWorkflowRun: the oldest run that is queued or whose lease ran out.
ClaimNext(w) ==
    /\ At(w, "idle")
    /\ \E i \in RunIds :
        /\ Claimable(i)
        /\ \A j \in RunIds : Claimable(j) => i <= j
        /\ runs[i].attempt < MaxAttempts
        /\ runs' = [runs EXCEPT ![i] = LeasedRun(i, w)]
        /\ Return(w, [IdleCall EXCEPT !.pc = "prepare", !.kind = "worker", !.run = i,
                                      !.attempt = runs'[i].attempt])
    /\ UNCHANGED <<release, manifest, actions>>

\* The claim handler's second half reads the release and sends its snapshot;
\* the worker evaluates that snapshot.
Prepare(w) ==
    /\ At(w, "prepare")
    /\ \E v \in Verdicts :
        Become(w, [call[w] EXCEPT !.pc = "complete", !.judged = manifest, !.verdict = v])
    /\ UNCHANGED <<release, manifest, actions, runs>>

LeaseCurrent(w) ==
    LET run == runs[call[w].run] IN
    /\ run.typed
    /\ run.status = "RUNNING"
    /\ run.owner = WorkerId[w]
    /\ run.attempt = call[w].attempt

\* completeWorkerEvaluation reads the run and answers 404 or 409 when the
\* lease is not the caller's; the expiry time is not compared.
CheckLease(w) ==
    /\ At(w, "complete")
    /\ Become(w, IF LeaseCurrent(w) THEN [call[w] EXCEPT !.pc = "read"] ELSE IdleCall)
    /\ UNCHANGED <<release, manifest, actions, runs>>

\* It then reads the release, by now in any state.
ReadRelease(w) ==
    /\ At(w, "read")
    /\ CASE release.state = "READY_FOR_APPROVAL" ->
              LET pending == {m \in Manifests : actions[SubmissionKey(m)] = "PENDING_APPROVAL"} IN
              \/ pending = {} /\ Become(w, IdleCall)
              \/ \E m \in pending :
                  Become(w, [call[w] EXCEPT !.pc = "recover", !.manifest = m])
         [] release.state = "VALIDATING" ->
              Become(w, [call[w] EXCEPT !.pc = AfterVerdict("worker", call[w].verdict),
                                        !.manifest = manifest])
         [] OTHER -> Become(w, IdleCall)
    /\ UNCHANGED <<release, manifest, actions, runs>>

\* A previous attempt already made the release ready: settle the run.
Recover(w) ==
    /\ At(w, "recover")
    /\ UpdateWorkflowRun(call[w].run, "WAITING", SubmissionKey(call[w].manifest))
    /\ Return(w, [call[w] EXCEPT !.pc = "release"])
    /\ UNCHANGED <<release, manifest, actions>>

Unleased(i) == [runs[i] EXCEPT !.typed = FALSE, !.owner = NoOwner, !.lease = "none"]

\* releaseWorkflowRunLease, in a call of its own after the status is written.
ReleaseLease(w) ==
    /\ At(w, "release")
    /\ runs' = [runs EXCEPT ![call[w].run] = Unleased(call[w].run)]
    /\ Become(w, IdleCall)
    /\ UNCHANGED <<release, manifest, actions>>

-----------------------------------------------------------------------------
(* Faults and time                                                         *)

\* A call throws before it has any effect.
Throw(p) ==
    /\ "throw" \in Faults
    /\ call[p].pc \notin {"idle", "complete", "fail"}
    /\ Become(p, Thrown(p))
    /\ UNCHANGED <<release, manifest, actions, runs>>

\* The API process dies, or failWorkflow itself throws: the handler is gone.
ApiCrash(p) ==
    /\ "apiCrash" \in Faults
    /\ call[p].pc \notin {"idle", "complete"}
    /\ Become(p, IdleCall)
    /\ UNCHANGED <<release, manifest, actions, runs>>

\* The worker dies before its completion has reached the API; its successor
\* starts idle and polls at once.
WorkerDies(w) ==
    /\ call[w].pc \in {"prepare", "complete"}
    /\ Become(w, IdleCall)

\* The worker dies after it posted its completion: nobody waits for the answer,
\* but the handler goes on with what it was posted.
WorkerLeaves(w, h) ==
    /\ call[w].kind = "worker"
    /\ call[w].pc # "prepare"
    /\ At(h, "idle")
    /\ WorkerId[h] = WorkerId[w]
    /\ call' = [call EXCEPT ![h] = call[w], ![w] = IdleCall]

WorkerCrash(w) ==
    /\ "workerCrash" \in Faults
    /\ WorkerDies(w) \/ \E h \in Handlers : WorkerLeaves(w, h)
    /\ runs[call[w].run].attempt < MaxAttempts
    /\ UNCHANGED <<release, manifest, actions, runs>>

Holds(w, i) ==
    ~ At(w, "idle") /\ call[w].run = i /\ call[w].attempt = runs[i].attempt

\* Sixty seconds pass.  With "slowLease" they may pass while the worker or
\* the completion handler is still busy.
LeaseExpires(i) ==
    /\ runs[i].lease = "live"
    /\ "slowLease" \in Faults \/ \A w \in Evaluators : ~ Holds(w, i)
    /\ runs' = [runs EXCEPT ![i].lease = "expired"]
    /\ UNCHANGED <<release, manifest, actions, call>>

-----------------------------------------------------------------------------
RequestStep(p) ==
    \/ \E op \in Runs : RequireRunnable(p, op)
    \/ ClaimRefused(p) \/ ClaimWorkflow(p) \/ Load(p) \/ FailRun(p)
    \/ \E d \in Decisions : Decide(p, d)
    \/ ListRuns(p) \/ MarkRun(p)

\* finishEvaluationRun, on behalf of runRelease or of a worker's completion.
FinishStep(p) == Ensure(p) \/ EnsureConflict(p) \/ WriteState(p) \/ FinishRun(p)

\* completeWorkerEvaluation, whether or not its worker is still there.
CompletionStep(w) ==
    \/ CheckLease(w) \/ ReadRelease(w) \/ Recover(w) \/ ReleaseLease(w)

WorkerStep(w) == ClaimNext(w) \/ Prepare(w)

Next ==
    \/ \E p \in Requests : RequestStep(p)
    \/ \E w \in Workers : WorkerStep(w) \/ WorkerCrash(w)
    \/ \E w \in Evaluators : CompletionStep(w)
    \/ \E p \in Processes : FinishStep(p) \/ Throw(p) \/ ApiCrash(p)
    \/ RegisterAsset
    \/ \E i \in RunIds : LeaseExpires(i)

Spec == Init /\ [][Next]_vars

\* A handler that was called runs on: Node keeps resolving its promises.
Progress(p) ==
    \/ ClaimRefused(p) \/ ClaimWorkflow(p) \/ Load(p) \/ FailRun(p)
    \/ FinishStep(p) \/ ListRuns(p) \/ MarkRun(p)

\* Workers poll for ever, and the sixty seconds of a lease do pass.
FairSpec ==
    /\ Spec
    /\ \A p \in Requests : WF_vars(Progress(p))
    /\ \A w \in Workers : WF_vars(WorkerStep(w) \/ CompletionStep(w) \/ FinishStep(w))
    /\ \A h \in Handlers : WF_vars(CompletionStep(h) \/ FinishStep(h))
    /\ \A i \in RunIds : WF_vars(LeaseExpires(i))

-----------------------------------------------------------------------------
(* Properties                                                              *)

\* validate and run hold at most one running workflow between them: while one
\* is in progress, claimWorkflow turns every other request away.
ApiRunsSerial ==
    \A i, j \in RunIds :
        /\ runs[i].graph = "api" /\ runs[i].status = "RUNNING"
        /\ runs[j].graph = "api" /\ runs[j].status = "RUNNING"
        => i = j

\* p holds a claim granted to validate or run.
Claimed(p) ==
    /\ call[p].kind \in {"validate", "run"}
    /\ call[p].pc \in {"load", "ensure", "state", "finish", "fail"}

\* As long as the version a claim produced is the release's version, the
\* release is where the claim put it and no later claim was granted: the
\* optimistic version is a sound test of "nothing happened since".
ClaimOwnsState ==
    \A p \in Processes :
        Claimed(p) /\ call[p].version = release.version =>
            /\ release.state = "VALIDATING"
            /\ \A i \in RunIds : i > call[p].run => runs[i].status = "NONE"

\* A failing run hands the release back only if its claim is the newest one:
\* it never takes VALIDATING away from a run claimed or queued after it.
RestoreSparesNewer ==
    [][\A p \in Processes :
        At(p, "fail") /\ release' # release /\ call'[p] # call[p] =>
            \A i \in RunIds : i > call[p].run => runs[i].status = "NONE"]_vars

\* A row of the API graph that no handler works on blocks validate and run of
\* its release for ever.
Orphaned(i) ==
    /\ runs[i].graph = "api" /\ runs[i].status = "RUNNING"
    /\ \A p \in Requests : ~ (Claimed(p) /\ call[p].run = i)

\* p's call fails where no try block encloses it: the claim itself, and all that
\* runRelease returns without awaiting it.
FailsUncaught(p) ==
    /\ \/ At(p, "claim")
       \/ call[p].kind = "run" /\ call[p].pc \in {"ensure", "state", "finish"}
    /\ At(p, "idle")'

\* As long as the API does not die, a run is orphaned only at those two places:
\* every other failure is caught and gives the claim back.
OrphansWereUncaught ==
    [][\A i \in RunIds :
        Orphaned(i)' /\ ~ Orphaned(i) => \E p \in Requests : FailsUncaught(p)]_vars

\* No two workers or left completions hold the same attempt of a run, even when
\* they were given the same WORKER_ID: at most one can pass the lease check.
AttemptsDistinct ==
    \A v, w \in Evaluators :
        /\ v # w /\ call[v].kind = "worker" /\ call[w].kind = "worker"
        /\ call[v].run = call[w].run
        => call[v].attempt # call[w].attempt

\* A queued run leaves the queue: over deaths of its worker before, during and
\* after the POST, some completion of it is handled to the end.
QueuedRunLeaves ==
    \A i \in RunIds : runs[i].typed ~> ~ runs[i].typed

\* The outcome of a run is written only over the release its claim produced:
\* an old run does not overwrite a release that has changed since.
OldRunKeepsOff ==
    [][\A p \in Processes :
        Claimed(p) /\ At(p, "state") /\ release' # release /\ call'[p] # call[p] =>
            release.version = call[p].version]_vars

\* A worker's result is applied only to the asset set it was computed from: no
\* version is compared, it is the state VALIDATING that keeps uploads away from
\* the snapshot until the completion.
ResultMatchesInput ==
    [][\A w \in Evaluators :
        At(w, "ensure") /\ actions' # actions /\ call'[w] # call[w] =>
            call[w].manifest = call[w].judged]_vars
=============================================================================
