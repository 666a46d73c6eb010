---------------------------- MODULE Remediation ----------------------------
(***************************************************************************)
(* The subtitles of one release: uploads, the remediation actions that     *)
(* derive a repaired or converted subtitle, and the two stores both write  *)
(* to, the object storage and the assets table.  Nothing makes the two     *)
(* agree but the order of the calls; a COMMIT of the table may be in doubt *)
(* and stay in flight while the handler goes on.                           *)
(*                                                                         *)
(* As in Evaluation, a handler is a sequence of awaited calls, each of     *)
(* them one action, and call[p] is the frame of the request p.  The        *)
(* evaluations that propose actions and judge the result are reduced to    *)
(* what this component sees of them.                                       *)
(***************************************************************************)
EXTENDS Naturals, FiniteSets, ReleaseTypes

CONSTANTS
    Requests,      \* concurrent API requests
    NeedsTtml,     \* the rule set asks for a TTML package
    Faults,        \* the faults that may happen in this instance
    MaxFailures,   \* bound: how often they happen
    MaxObjects     \* bound: objects ever stored

ASSUME BoundsAssumption == MaxFailures \in Nat /\ MaxObjects \in Nat
ASSUME NeedsTtmlAssumption == NeedsTtml \in BOOLEAN
ASSUME FaultsAssumption == Faults \subseteq {"throw", "lostReply", "commit", "crash"}

Uris == 1 .. MaxObjects             \* objects in the order they were stored
Contents == {"broken", "clean"}     \* fails QC in a repairable way, or passes

\* One asset row per object; a row without parent was uploaded.
RowRecords ==
    [uri : Uris, format : {"SRT", "TTML"}, parent : Uris \cup {0}, content : Contents]

\* The idempotency key binds an action to the subtitle it works on.
ActionKeys == {"REPAIR_SUBTITLE", "GENERATE_TTML"} \X Uris
NoAction == <<"NONE", 0>>

Steps ==
    {"idle", "load", "derive", "precheck", "store", "inspect", "register", "verify",
     "remove", "discard", "complete", "fail", "giveUp", "block", "rerun"}

\* action is NoAction for an upload; source is the latest SRT in the handler's
\* snapshot, uri the object it stored and content what it stores.
CallRecords ==
    [pc : Steps, action : ActionKeys \cup {NoAction}, source : Uris \cup {0},
     uri : Uris \cup {0}, content : Contents]

IdleCall ==
    [pc |-> "idle", action |-> NoAction, source |-> 0, uri |-> 0, content |-> "broken"]

EvaluationRecords ==
    [step : {"off", "load", "store"}, from : ReleaseStates, state : ReleaseStates,
     action : ActionKeys \cup {NoAction}]

NoEvaluation ==
    [step |-> "off", from |-> "DRAFT", state |-> "DRAFT", action |-> NoAction]

VARIABLES
    release,      \* state of the release
    rows,         \* its asset rows
    latest,       \* uri of the SRT row created last, 0 when there is none
    pending,      \* the row whose COMMIT is in flight, at most one
    objects,      \* objects in the storage
    stored,       \* how many were ever stored
    actions,      \* status of the action under each key
    evaluation,   \* the evaluation in progress
    failures,     \* faults so far
    call          \* what each request is doing

assets == <<rows, latest, pending>>
vars == <<release, assets, objects, stored, actions, evaluation, failures, call>>

TypeOK ==
    /\ release \in ReleaseStates
    /\ rows \subseteq RowRecords
    /\ latest \in Uris \cup {0}
    /\ pending \subseteq RowRecords
    /\ objects \subseteq Uris
    /\ stored \in Nat
    /\ actions \in [ActionKeys -> ActionStatuses]
    /\ evaluation \in EvaluationRecords
    /\ failures \in Nat
    /\ call \in [Requests -> CallRecords]

Init ==
    /\ release = "DRAFT"
    /\ rows = {} /\ latest = 0 /\ pending = {}
    /\ objects = {} /\ stored = 0
    /\ actions = [k \in ActionKeys |-> "NONE"]
    /\ evaluation = NoEvaluation
    /\ failures = 0
    /\ call = [p \in Requests |-> IdleCall]

-----------------------------------------------------------------------------
(* How a handler goes on.                                                  *)

At(p, step) == call[p].pc = step
Goto(p, step) == [call[p] EXCEPT !.pc = step]

\* Seeded fault: executeAction leaves to its caller what addDerived throws.
EscapedUncaught(p) == IdleCall

\* persist threw: an upload ends, executeAction catches.
Escaped(p) == IF call[p].action = NoAction THEN IdleCall ELSE Goto(p, "fail")

\* persist returned the asset.
Persisted(p) == IF call[p].action = NoAction THEN IdleCall ELSE Goto(p, "complete")

\* The frame after the current call threw: persist catches around inspection
\* and registration, executeAction around its first reads and around the rest.
Thrown(p) ==
    CASE call[p].pc \in {"inspect", "register"} -> Goto(p, "remove")
      [] call[p].pc = "load" -> Goto(p, "giveUp")
      [] call[p].pc = "giveUp" -> Goto(p, "block")
      [] call[p].pc \in {"derive", "precheck", "store", "verify", "remove", "discard", "complete"}
            -> Escaped(p)
      [] OTHER -> IdleCall

Become(p, frame) ==
    /\ call' = [call EXCEPT ![p] = frame]
    /\ UNCHANGED failures

Fail(fault, p, frame) ==
    /\ fault \in Faults
    /\ failures < MaxFailures
    /\ failures' = failures + 1
    /\ call' = [call EXCEPT ![p] = frame]

\* The call took effect; its reply may be lost.
Return(p, frame) == Become(p, frame) \/ Fail("lostReply", p, Thrown(p))

\* A transaction that waits for the lock on the release row can go on: no
\* other one is still committing.
Unlocked == pending = {}

Running == {k \in ActionKeys : actions[k] = "RUNNING"}

-----------------------------------------------------------------------------
(* Uploads                                                                 *)

\* addContent and addUpload up to the first write: the state is checked here
\* and once more under the lock.
StartUpload(p) ==
    /\ At(p, "idle")
    /\ release \in AssetMutableStates
    /\ \E c \in Contents : Become(p, [IdleCall EXCEPT !.pc = "store", !.content = c])
    /\ UNCHANGED <<release, assets, objects, stored, actions, evaluation>>

-----------------------------------------------------------------------------
(* executeAction                                                           *)

\* Seeded fault: the claim does not lock the release.
ClaimableUnlocked(k) == actions[k] = "PROPOSED" /\ Running = {}

Claimable(k) ==
    /\ Unlocked
    /\ actions[k] = "PROPOSED"
    /\ Running = {}

\* claimAction.  What executeAction read before adds nothing: no action
\* becomes PROPOSED again.
ClaimAction(p, k) ==
    /\ At(p, "idle")
    /\ Claimable(k)
    /\ actions' = [actions EXCEPT ![k] = "RUNNING"]
    /\ Return(p, [IdleCall EXCEPT !.pc = "load", !.action = k])
    /\ UNCHANGED <<release, assets, objects, stored, evaluation>>

\* requireRelease: the snapshot the action works on.
LoadRelease(p) ==
    /\ At(p, "load")
    /\ Become(p, [call[p] EXCEPT !.pc = "derive", !.source = latest])
    /\ UNCHANGED <<release, assets, objects, stored, actions, evaluation>>

ContentOf(uri) == (CHOOSE r \in rows : r.uri = uri).content

SourceIsLatest(k, source) == k[2] = source

\* What is derived from a content: repairSrt changes a broken subtitle into a
\* valid one, srtToTtml asks for a valid one.
Derivable(k, content) ==
    content = IF k[1] = "REPAIR_SUBTITLE" THEN "broken" ELSE "clean"

\* orchestration.executeAction: reads the source object and derives from it.
\* Where this is not allowed, or the result is not valid, the action fails.
Derive(p) ==
    LET k == call[p].action IN
    /\ At(p, "derive")
    /\ \/ /\ SourceIsLatest(k, call[p].source)
          /\ k[2] \in objects
          /\ Derivable(k, ContentOf(k[2]))
          /\ Become(p, [call[p] EXCEPT !.pc = "precheck", !.content = "clean"])
       \/ Become(p, Goto(p, "fail"))
    /\ UNCHANGED <<release, assets, objects, stored, actions, evaluation>>

\* addDerived checks the state of the release as it is now.
Precheck(p) ==
    /\ At(p, "precheck")
    /\ Become(p, Goto(p, IF release \in AssetMutableStates THEN "store" ELSE "fail"))
    /\ UNCHANGED <<release, assets, objects, stored, actions, evaluation>>

\* Seeded fault: a failed registration does not fail the action.
CompletesAlways(p) == At(p, "complete") \/ At(p, "fail")

MayComplete(p) == At(p, "complete")

\* updateAction, unconditional.
CompleteAction(p) ==
    /\ MayComplete(p)
    /\ actions' = [actions EXCEPT ![call[p].action] = "COMPLETED"]
    /\ Return(p, Goto(p, "rerun"))
    /\ UNCHANGED <<release, assets, objects, stored, evaluation>>

\* The first write of the two failure paths; one of them ignores errors.
FailAction(p) ==
    /\ At(p, "fail") \/ At(p, "giveUp")
    /\ actions' = [actions EXCEPT ![call[p].action] = "FAILED"]
    /\ Return(p, Goto(p, "block"))
    /\ UNCHANGED <<release, assets, objects, stored, evaluation>>

\* The second: updateReleaseState, whatever the release has become.
BlockRelease(p) ==
    /\ At(p, "block")
    /\ Unlocked
    /\ release' = "BLOCKED"
    /\ Return(p, IdleCall)
    /\ UNCHANGED <<assets, objects, stored, actions, evaluation>>

-----------------------------------------------------------------------------
(* persist and registerAsset                                               *)

\* storeContent: written, synced and renamed under a fresh name.
Store(p) ==
    /\ At(p, "store")
    /\ stored < MaxObjects
    /\ stored' = stored + 1
    /\ objects' = objects \cup {stored + 1}
    /\ Become(p, [call[p] EXCEPT !.pc = "inspect", !.uri = stored + 1])
    /\ UNCHANGED <<release, assets, actions, evaluation>>

\* The content is accepted or not.
Inspect(p) ==
    /\ At(p, "inspect")
    /\ \E step \in {"register", "remove"} : Become(p, Goto(p, step))
    /\ UNCHANGED <<release, assets, objects, stored, actions, evaluation>>

Row(p) ==
    [uri |-> call[p].uri,
     format |-> IF call[p].action[1] = "GENERATE_TTML" THEN "TTML" ELSE "SRT",
     parent |-> call[p].action[2],
     content |-> call[p].content]

\* The unique index of the table: parent and content, and the format with it.
Equivalent(p) ==
    {r \in rows : /\ r.format = Row(p).format
                  /\ r.parent = Row(p).parent
                  /\ r.content = Row(p).content}

\* The release may be changed, by the running action only if there is one.
Admits(p) ==
    /\ release \in AssetMutableStates
    /\ Running = {call[p].action} \ {NoAction}

Insert(row) ==
    /\ rows' = rows \cup {row}
    /\ latest' = IF row.format = "SRT" THEN row.uri ELSE latest

\* registerAsset holds the lock until its COMMIT, which is answered, or takes
\* effect unanswered, or is in flight when the connection breaks.
Register(p) ==
    /\ At(p, "register")
    /\ Unlocked
    /\ \/ ~ Admits(p) /\ Become(p, Goto(p, "remove")) /\ UNCHANGED assets
       \/ /\ Admits(p) /\ Equivalent(p) # {}
          /\ Become(p, Goto(p, "discard"))
          /\ UNCHANGED assets
       \/ /\ Admits(p) /\ Equivalent(p) = {}
          /\ Insert(Row(p))
          /\ Become(p, Persisted(p)) \/ Fail("commit", p, Goto(p, "verify"))
          /\ UNCHANGED pending
       \/ /\ Admits(p) /\ Equivalent(p) = {}
          /\ pending' = {Row(p)}
          /\ Fail("commit", p, Goto(p, "verify"))
          /\ UNCHANGED <<rows, latest>>
    /\ UNCHANGED <<release, objects, stored, actions, evaluation>>

\* What became of a COMMIT in flight.
Commit ==
    /\ \E row \in pending : Insert(row)
    /\ pending' = {}
    /\ UNCHANGED <<release, objects, stored, actions, evaluation, failures, call>>

Abort ==
    /\ pending # {}
    /\ pending' = {}
    /\ UNCHANGED <<release, rows, latest, objects, stored, actions, evaluation, failures, call>>

\* Seeded fault: an asset that cannot be confirmed is removed.
RemoveUnconfirmed(p) == Goto(p, "remove")

\* AssetRegistrationUncertainError: the object is kept.
KeepUnconfirmed(p) == Escaped(p)

\* resolveAssetRegistrationVerification, on what a new connection reads.
Verify(p) ==
    /\ At(p, "verify")
    /\ Become(p, IF Row(p) \in rows THEN Persisted(p)
                 ELSE IF Equivalent(p) # {} THEN Goto(p, "discard")
                 ELSE KeepUnconfirmed(p))
    /\ UNCHANGED <<release, assets, objects, stored, actions, evaluation>>

\* Seeded fault: a refused object stays where it is.
NothingRemoved(p) == objects

WithoutObject(p) == objects \ {call[p].uri}

\* storage.remove, after a refusal and after a duplicate.
Remove(p) ==
    /\ At(p, "remove") \/ At(p, "discard")
    /\ objects' = WithoutObject(p)
    /\ Become(p, IF At(p, "discard") THEN Persisted(p) ELSE Escaped(p))
    /\ UNCHANGED <<release, assets, stored, actions, evaluation>>

-----------------------------------------------------------------------------
(* Evaluations and decisions, as far as the assets see them                *)

\* claimWorkflow of a run, by a user or by executeAction.
Claimed ==
    /\ Unlocked
    /\ release \in RunnableStates
    /\ evaluation.step = "off"
    /\ evaluation' = [NoEvaluation EXCEPT !.step = "load", !.from = release]
    /\ release' = "VALIDATING"

StartEvaluation ==
    /\ Claimed
    /\ UNCHANGED <<assets, objects, stored, actions, failures, call>>

\* executeAction evaluates again, and does not mind when it is refused.
Rerun(p) ==
    /\ At(p, "rerun")
    /\ Claimed \/ UNCHANGED <<release, evaluation>>
    /\ Become(p, IdleCall)
    /\ UNCHANGED <<assets, objects, stored, actions>>

HasTtmlChild(uri) == \E r \in rows : r.format = "TTML" /\ r.parent = uri

\* planningNode on the latest subtitle: what it proposes, if anything.
Proposed ==
    IF latest = 0 THEN NoAction
    ELSE IF ContentOf(latest) = "broken" THEN <<"REPAIR_SUBTITLE", latest>>
    ELSE IF NeedsTtml /\ ~ HasTtmlChild(latest) THEN <<"GENERATE_TTML", latest>>
    ELSE NoAction

\* evaluateRelease on a snapshot.  Other blockers, of the video or the rights,
\* may be there at any time and leave nothing to propose.
Evaluate ==
    /\ evaluation.step = "load"
    /\ \/ evaluation' = [evaluation EXCEPT !.step = "store", !.state = "BLOCKED"]
       \/ /\ Proposed # NoAction
          /\ evaluation' = [evaluation EXCEPT !.step = "store", !.state = "REMEDIATING",
                                              !.action = Proposed]
       \/ /\ Proposed = NoAction /\ latest # 0
          /\ evaluation' = [evaluation EXCEPT !.step = "store", !.state = "READY_FOR_APPROVAL"]
    /\ UNCHANGED <<release, assets, objects, stored, actions, failures, call>>

\* failRun: the state is given back if nothing happened to it.
EvaluationFails ==
    /\ evaluation.step = "load"
    /\ Unlocked
    /\ release' = IF release = "VALIDATING" THEN evaluation.from ELSE release
    /\ evaluation' = NoEvaluation
    /\ UNCHANGED <<assets, objects, stored, actions, failures, call>>

\* finishEvaluationRun: ensureAction and the state.  An action that failed is
\* not proposed again, and the run is left as it is.
StoreOutcome ==
    LET k == evaluation.action IN
    /\ evaluation.step = "store"
    /\ Unlocked
    /\ evaluation' = NoEvaluation
    /\ \/ k = NoAction /\ release' = evaluation.state /\ UNCHANGED actions
       \/ /\ k # NoAction /\ actions[k] # "FAILED"
          /\ actions' = IF actions[k] = "NONE" THEN [actions EXCEPT ![k] = "PROPOSED"] ELSE actions
          /\ release' = evaluation.state
       \/ k # NoAction /\ actions[k] = "FAILED" /\ UNCHANGED <<release, actions>>
    /\ UNCHANGED <<assets, objects, stored, failures, call>>

\* decideApproval on a release that is ready.
Decide ==
    /\ Unlocked
    /\ release = "READY_FOR_APPROVAL"
    /\ release' \in {"APPROVED", "BLOCKED"}
    /\ UNCHANGED <<assets, objects, stored, actions, evaluation, failures, call>>

-----------------------------------------------------------------------------
Throw(p) ==
    /\ ~ At(p, "idle")
    /\ Fail("throw", p, Thrown(p))
    /\ UNCHANGED <<release, assets, objects, stored, actions, evaluation>>

Crash(p) ==
    /\ ~ At(p, "idle")
    /\ Fail("crash", p, IdleCall)
    /\ UNCHANGED <<release, assets, objects, stored, actions, evaluation>>

Progress(p) ==
    \/ LoadRelease(p) \/ Derive(p) \/ Precheck(p) \/ CompleteAction(p) \/ FailAction(p)
    \/ BlockRelease(p) \/ Store(p) \/ Inspect(p) \/ Register(p) \/ Verify(p) \/ Remove(p)
    \/ Rerun(p)

Next ==
    \/ \E p \in Requests :
        \/ StartUpload(p) \/ Progress(p) \/ Throw(p) \/ Crash(p)
        \/ \E k \in ActionKeys : ClaimAction(p, k)
    \/ Commit \/ Abort
    \/ StartEvaluation \/ Evaluate \/ EvaluationFails \/ StoreOutcome \/ Decide

Spec == Init /\ [][Next]_vars

-----------------------------------------------------------------------------
(* Properties                                                              *)

\* Every asset row has its object, also a row whose COMMIT is still in flight:
\* nothing is removed that the table may refer to.
RowsHaveObjects == \A row \in rows \cup pending : row.uri \in objects

\* claimAction runs one remediation of a release at a time.
OneRunning == \A k, l \in Running : k = l

\* An action that is RUNNING, and by that keeps uploads and other actions away,
\* has a handler that will settle it; only a failure leaves it without one.
\* What executeAction calls may refuse or find nothing to do: that settles it.
RunningHasHandler ==
    failures = 0 =>
        \A k \in Running : \E p \in Requests : ~ At(p, "idle") /\ call[p].action = k

\* While an action runs, the only asset that is added is its own; and what is
\* derived from a subtitle, whenever its COMMIT lands, is added while that
\* subtitle is the latest one.
FrozenWhileRunning ==
    [][\A row \in rows' \ rows :
        /\ \A k \in Running : row.parent = k[2]
        /\ row.parent # 0 => row.parent = latest]_vars

\* An action is COMPLETED only when the table has what it derived.
CompletedHasAsset ==
    \A k \in ActionKeys :
        actions[k] = "COMPLETED" =>
            \E row \in rows :
                /\ row.parent = k[2]
                /\ row.format = IF k[1] = "GENERATE_TTML" THEN "TTML" ELSE "SRT"

Referenced == {row.uri : row \in rows \cup pending}
InHand ==
    {call[p].uri : p \in {q \in Requests :
        call[q].pc \in {"inspect", "register", "verify", "remove", "discard"}}}

\* Each object that no row refers to and no handler is working on has been
\* left behind by a failure of its own.
LeaksArePaidFor == Cardinality(objects \ (Referenced \cup InHand)) <= failures
=============================================================================
