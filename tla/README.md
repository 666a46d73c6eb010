# TLA+ models of Localization Release Commander

Formal models of the release workflow of this repository: what the API
handlers, the repository they share, the polling workers and the delivery
provider do to one release when they run at the same time and when calls,
processes and replies fail. TLC checks the models on small instances; TLAPS
proves nearly all of the safety properties for every instance.

Paths below are relative to `src/`. "The service" is
`apps/api/src/workflow/release-workflow.service.ts`, "the repository" is
`apps/api/src/storage/postgres/postgres.repository.ts`; the in-memory
repository (`apps/api/src/storage/in-memory.repository.ts`) implements the same
interface, and where the two differ the PostgreSQL one is modelled.

## 1. Inventory

| Component | State it keeps | Operations | What makes it hard | Correct means |
|---|---|---|---|---|
| Release workflow (the service: `validateRelease`, `runRelease`, `queueRelease`, `completeWorkerEvaluation`, `finishEvaluationRun`, `failRun`) | `releases.state` and `version`, `workflow_runs`, `actions` | claim a workflow, evaluate, store the outcome, give the claim back on failure | every handler is a chain of awaited repository calls, each its own transaction; a check is never repeated at the write it guards | one active run per graph; a failing run restores only what it claimed; an outcome reaches the release and its run; nothing stays RUNNING or VALIDATING |
| Worker and internal API (`apps/worker/src/main.ts`, `api-worker.ts`, `apps/api/src/internal-worker.controller.ts`) | lease (owner, attempt, expiry) in the run row | claim next, evaluate a snapshot, complete | crash with a lease, also while the posted result is still handled, lease running out under a slow worker, two workers with one `WORKER_ID` | a lease is exclusive, a dead one is taken over, a late completion is refused |
| Approval (`decideAction`, repository `decideApproval`) | `approvals`, action status, release state | approve, reject | several approvers at once, R3 needs two people | one vote a person, a rejection is final, enough distinct approvals |
| Delivery (`submitDelivery`, `finalizeDelivery`, `rejectSubmission`, `reconcileSubmittedDelivery`) | `delivery_attempts` with its stored receipt, action status, release state | preflight, claim, call the provider, record, fall back, reconcile | the provider may accept and not answer; every local write after it may fail; two submits race | no send without approval, only the approved asset set, one handler at a time, no resend while a receipt is stored, "done" means accepted |
| Remediation (`executeAction`, `apps/api/src/asset.service.ts`, `asset-storage.service.ts`) | action status, asset rows, stored objects | claim an action, derive an asset, register it, rerun the evaluation | object and row live in two stores; a COMMIT may be in doubt; uploads and evaluations run alongside | no row without its object, one running action, nobody else changes the assets meanwhile |
| Asset registration (repository `registerAsset`, `isAssetMutableState`) | `assets` | upload, register | see above | assets change only in the mutable states |
| Evaluation graph (`apps/worker/src/release-evaluation.ts`, `orchestration.ts`) | none | derive findings and at most one remediation | which findings are repairable | a blocker never passes; a repair is proposed only when it can clear all blockers |
| QC package (`packages/qc/src`) | none | `validateSrt`, `repairSrt`, `srtToTtml`, `checkRightsWindow` | boundary arithmetic on milliseconds and dates | a repaired file validates; windows are judged at their ends as documented |
| Delivery graph of the worker (`apps/worker/src/workflow.ts`, `platform.ts`) | the checkpoints its callers keep; the platform adapter's records | validate, repair, package, ask for approval, submit with an idempotency key, recover by key, poll, revise | every checkpoint may be resumed again, late, twice or revised; receipts get lost; decisions belong to one package | one acceptance per key, of an approved command, truly reported |
| Release list (`apps/api/src/release.service.ts`, `listReleasePage`) | none (cursor held by the client) | keyset pages | releases are updated between pages | no release of a stable list is skipped or repeated |
| Contracts (`packages/contracts/src/index.ts`) | vocabularies of states and statuses | – | – | – |
| Asset files (`apps/api/src/asset.service.ts`, `storage/asset-storage.service.ts`, `storage/media-inspection.service.ts`, `upload-asset.guard.ts`) | files under `.incoming` and `objects` | stream or post, check, sync, hash, rename, inspect, remove | nothing sweeps the directories; a dozen awaited calls may fail, the process may die, the machine may lose power; `ffprobe` may hang | an object is whole or not there, a row is served what it says and holds what its kind needs, no file is left behind without a failure |
| Sessions and access (`apps/api/src/auth`) | none; a signed token with a role, a project and an expiry | log in, verify, allow by role, allow by project, filter lists | the same right is decided in four places, at different moments, by strings here and by UUIDs there | the places agree as far as the spelling of an id lets them; nobody creates a release outside their projects |
| Web front end (`apps/web/src`) | the session cookie, the form in the browser | log in and out, show a form, server actions with a 4.5 s limit on the API | it gives up on requests the API goes on with; pages outlive sessions | a form makes one release unless an answer was lost |
| Release creation (`apps/api/src/release.service.ts`) | `projects`, `releases`, `audit_events` | `createRelease` | three writes and no transaction | half of it is left behind only by a failure |
| Rule sets, remaining DTO checks, migrations, TTML text, page rendering | none | static data, checks, schema, formatting | – | – |

The parts meet in the database. A user request enters through a NestJS
controller, which calls the service; the service calls repository methods one
after the other and keeps what it read in local variables. A queued run is a
row that a worker finds by polling `claim`; it receives a snapshot of the
release, evaluates it without holding anything but its lease, and posts the
result to `complete`, whose handler goes through the same `finishEvaluationRun`
as the synchronous `run`. Approvals and deliveries follow on the submission
action that the evaluation ensured.

So the hard behaviours are of one kind: *between any two awaited calls
everything else may run, any call may throw, and a call that committed may look
as if it had thrown.* The hazards in `PROJECT.json` list where that bites.

## 2. Modules

| Module | Contents |
|---|---|
| `ReleaseTypes` | the shared vocabularies and the two predicates on release states |
| `Evaluation` | component: one release under evaluation, requests and workers |
| `MCEvaluation` | instance: model values, shared `WORKER_ID`, sources, symmetry |
| `EvaluationProofs` | theorems about `Evaluation` |
| `ApprovalGate` | abstract specification: what an approval promises |
| `Delivery` | component: approvals, submission, provider, reconciliation; implements `ApprovalGate` |
| `MCDelivery` | instance: model values, symmetry |
| `DeliveryProofs` | theorems about `Delivery` |
| `Remediation` | component: the subtitles of a release, uploads, `executeAction`, the assets table and the object storage |
| `MCRemediation` | instance: model values, symmetry |
| `RemediationProofs` | theorems about `Remediation` |
| `KeyedDelivery` | abstract specification: what an idempotency key promises |
| `WorkerGraph` | component: the worker's delivery graph and its platform adapter; implements `KeyedDelivery` |
| `MCWorkerGraph` | instance: two releases, contents, updates, symmetry |
| `WorkerGraphProofs` | theorems about `WorkerGraph`, and its refinement of `KeyedDelivery` |
| `Subtitles` | pure functions: `validateSrt` and `repairSrt` on cues |
| `ReleaseCycle` | component: one release from evaluation to delivery while time passes; uses `Subtitles` |
| `MCReleaseCycle` | instance: all small subtitles, windows, videos |
| `ReleaseCycleProofs` | theorems about `ReleaseCycle` and about `repairSrt` on subtitles of any length |
| `ReleasePaging` | component: a client's walk over the release list |
| `MCReleasePaging` | instance: ids |
| `ReleasePagingProofs` | theorems about `ReleasePaging` |
| `ObjectStore` | abstract specification: what the keeper of an object's URI may rely on |
| `AssetStorage` | component: files from the stream to the row, with loss of power; implements `ObjectStore` |
| `MCAssetStorage` | instance: contents on both sides of every limit, symmetry |
| `AssetStorageProofs` | theorems about `AssetStorage` |
| `Intake` | component: sessions, the web server, the API's guard and `createRelease` |
| `MCIntake` | instance: model values, symmetry |
| `IntakeProofs` | theorems about `Intake` |

### How a handler is modelled

`call[p]` is the stack frame of process `p`: a program counter and the local
variables the handler reads again later. One action is one awaited repository
call (one SQL statement or one transaction) together with the synchronous code
up to the next `await`. A call can end in four ways: it returns; it throws
without effect (`throw`); it commits and its reply is lost, which the handler
sees as a throw (`lostReply`); or the process dies (`apiCrash`, `workerCrash`,
`crash`). `Thrown(p)` says where an exception lands, that is, which `try` block
the call is in, and is the place where a missing `await` shows.
`Return(p, frame)` is "returns or loses its reply". `Faults` selects which of
these may happen in an instance.

### Evaluation

| State | Code |
|---|---|
| `release.state`, `release.version` | `releases` row, the version bumped by every state write |
| `manifest` | version of the asset set, i.e. what `manifestVersion` hashes |
| `actions` | status stored under each idempotency key |
| `runs` | `workflow_runs` rows, in order of `created_at` |
| `call` | frames of requests, of workers with the completion handler they wait for, and of completion handlers whose worker has died (`Handlers`) |

| Actions | Code |
|---|---|
| `RequireRunnable` | `requireRunnableRelease`, the check before a claim |
| `ClaimWorkflow` | repository `claimWorkflow`; `queueRelease` uses the same call with a queued row |
| `Load`, `Ensure`, `EnsureConflict`, `WriteState`, `FinishRun` | evaluation and the calls of `finishEvaluationRun` |
| `FailRun` | `failRun` and repository `failWorkflow` |
| `Decide`, `ListRuns`, `MarkRun` | `decideApproval` for a single approver, `checkpointAction` |
| `RegisterAsset` | `registerAsset` seen as a new asset set |
| `ClaimNext`, `Prepare`, `WorkerStep`, `CheckLease`, `ReadRelease`, `Recover`, `ReleaseLease` | worker polling, leasing, completing |
| `WorkerCrash` | the worker process ends; before it has posted its result nothing is left of it (`WorkerDies`), afterwards the handler in the API goes on (`WorkerLeaves`), and the restarted worker may poll beside it |
| `LeaseExpires` and the thrown, lost and crashed calls | the environment |

Abstracted: the evaluation is a nondeterministic verdict (`CLEAN`, `REPAIR`,
`BLOCKED`); findings and audit rows, which no handler acts on, are left out;
the risk and platform parts of the submission key are fixed; time appears only
as a lease that is live or expired.

### ApprovalGate and Delivery

`ApprovalGate` has three variables: how many approvals are required, who voted
what, and how often the provider accepted a submission. It promises that votes
are cast once and only while the matter is open, that a rejection is final, and
that a send needs enough *distinct* approvers. `Delivery` implements it with
`required <- RequiredApprovals` (the action's risk) and
`sends <- provider.calls`; `GateHolds` is the refinement.

| State | Code |
|---|---|
| `release`, `manifest`, `action`, `risk`, `votes`, `run` | the rows the submission action hangs on |
| `delivery.status`, `delivery.receipt` | `delivery_attempts.status` and whether its response holds a provider receipt |
| `provider` | what the provider has accepted: how often, and of which asset sets |
| `lateRun` | an evaluation that was checked before the approval and ends after it |
| `failures` | how many faults have happened, bounded by `MaxFailures` |

| Actions | Code |
|---|---|
| `Decide`, `ListRuns`, `MarkRun` | `decideAction`: the vote transaction, then `checkpointAction` |
| `ReadDelivery`, `ReadRelease`, `Preflight` | the reads and checks of `submitDelivery` |
| `ClaimDelivery`, `ClaimLost` | repository `claimDelivery` |
| `Send` | the provider call; it may be accepted without an answer |
| `Undo`, then `WriteState` at `undone` | the catch around the provider |
| `Record`, `WriteAction`, `WriteState`, `Fallback` | `finalizeDelivery` and its fallback |
| `Reconcile` and the writes after it | `reconcileSubmittedDelivery` |
| `LateRunEnds`, `RegisterAsset` | the rest of the API as a delivery sees it |

The provider in the repository is a sandbox that always accepts
(`orchestration.ts`); it is generalised to one that may refuse, throw or lose
its answer, which the service's own error handling is written for. The
`workflow_runs` row of the preflight is left out: nothing acts on it.

### Remediation

| State | Code |
|---|---|
| `rows`, `latest` | `assets` rows of kind SUBTITLE, and which SRT was created last |
| `pending` | a row whose COMMIT is in flight: the handler has lost its connection, the transaction still holds the lock on the release |
| `objects`, `stored` | files under `objects/`, numbered in the order they were stored |
| `actions` | status of the action under each idempotency key, that is, per type and source subtitle |
| `release`, `evaluation` | state of the release, and the evaluation in progress |
| `call` | request frames; `action = NoAction` is an upload |

| Actions | Code |
|---|---|
| `StartUpload` | `addContent` and `addUpload` up to the first write |
| `ClaimAction`, `LoadRelease`, `Derive`, `Precheck` | `executeAction` down to `addDerived` |
| `Store`, `Inspect`, `Register`, `Verify`, `Remove` | `persist`: `storeContent`, inspection, repository `registerAsset` and its verification on a new connection, `storage.remove` |
| `Commit`, `Abort` | what the database makes of a COMMIT nobody waits for |
| `CompleteAction`, `FailAction`, `BlockRelease`, `Rerun` | the end of `executeAction`; its two `catch` blocks share two actions |
| `StartEvaluation`, `Evaluate`, `EvaluationFails`, `StoreOutcome`, `Decide` | the rest of the API as the assets see it |

`Unlocked` stands for `SELECT ... FOR UPDATE` on the release row: a transaction
is one action, so its lock matters only while a COMMIT is in flight. Abstracted:
a content is `broken` (fails QC in a repairable way) or `clean`; uploads are SRT
files without parent, other kinds of assets only show as blockers that may be
there at any time; there is one evaluation at a time (`Evaluation` has the races
between them), and its outcome is stored in one step; the checkpoint that
`executeAction` writes on the run, whose failure it ignores, is left out.

### KeyedDelivery and WorkerGraph

`DeliveryWorkflow` keeps nothing between calls: `start` and `resume` take a
checkpoint, walk the graph and return another. So a caller may keep every
checkpoint it was given, resume an old one, resume one twice, revise it in two
ways, or run two calls at once, and a call whose node throws returns nothing at
all. `KeyedDelivery` says what must come out of it nevertheless: under one
idempotency key the platform accepts at most one request, only of a command that
was approved for that key, and what is reported as accepted was accepted.

| State | Code |
|---|---|
| `running` | the node and `WorkflowCheckpoint` of each `start` or `resume` in progress |
| `saved` | every checkpoint a caller was given |
| `approvals` | the `WorkflowApproval`s people have given |
| `records`, `requests`, `captionTracks`, `externalSubmitCount` | the fields of `DeterministicPlatformAdapter` |
| `calls` | how many calls were made, bounded by `MaxCalls` |

| Actions | Code |
|---|---|
| `Start`, `Resume`, `Revise` | `start`; `resume` with `validateApprovalForCheckpoint`; `reviseCheckpoint` |
| `Validate`, `Repair`, `Manual`, `Package`, `Approval` | the node of that name and the routing after it |
| `Recover`, `Submit` | `submitNode`, in two actions because it awaits `recover` before `submit` |
| `Qc` | `qcNode` with the adapter's `poll` |
| `Throw` | a node throws or the process dies |
| `Decide` | a person decides on a package that some checkpoint presents |

A hash stands for the value it is taken of, that is, SHA-256 has no collisions.
A start label is any value that is no hash: `start` asks of an `inputVersion` only
that it is not empty, so that two inputs may be started under one. `SameLabel`
names such pairs, for which the key does not determine the command; nothing else is
assumed of callers. The adapter's simulation switches (lost
receipt, rejection, QC verdict) are a nondeterministic choice at each request.
Audit events, names and messages are left out.

### Subtitles and ReleaseCycle

`Subtitles` has the two algorithms a repair rests on: `SrtCodes` (`validateSrt`)
and `RepairedSrt` (`repairSrt`), with cues as times and a number of characters.
`ReleaseCycle` runs them in the life of a release. Here one request is one step
and the clock moves between requests; the component specifications above have
the concurrency and the faults, this one has the data: the codes that decide
what is proposed, the rights window, the manifest and the risk in the key.

| State | Code |
|---|---|
| `now` | `ORCHESTRATION_CLOCK` |
| `srts`, `ttmls`, `rights`, `videos` | `assets`: SRT rows in order, those with a TTML child, RIGHTS rows, VIDEO rows; a video is its `durationMs`, which may be unknown |
| `findings` | codes of the last `replaceFindings` |
| `actions`, `submissions` | `actions` rows by idempotency key: source and type; manifest and risk |
| `sent` | what the provider was sent |
| `proposedFor` | history: the video each action was last proposed for |

| Actions | Code |
|---|---|
| `Run`, `Validate` | `runRelease` with `finishEvaluationRun`; `validateRelease` |
| `UploadSubtitle`, `UploadRights`, `UploadVideo` | `addContent`, `addUpload`; an asset that is there already is returned |
| `ExecuteAction`, `ExecuteFails` | the two ends of `executeAction`, which looks at the latest video of its time (`Derivable`) |
| `Approve`, `Reject` | `decideApproval` |
| `Submit` | `submitDelivery` with its second validation; a failing provider leaves the release APPROVED |
| `Reconcile` | `reconcileSubmittedDelivery` |
| `Tick` | time |

The release always has a video, though it need not be known how long that is. An
action that had failed or been rejected makes
`finishEvaluationRun` throw and leaves the release VALIDATING, the first observation
of section 4 again. Floating point is not modelled: times are integers and the one
rounding that changes a cue is rounding up.

### ReleasePaging

| State | Code |
|---|---|
| `now` | the database's clock; a `timestamptz` has microseconds |
| `releases` | `releases` rows: `updated_at`, and whether they pass the client's filter |
| `open` | transactions that will update a release; `now()` is when they began |
| `walk`, `cursor` | what the client does next, and the `nextCursor` it holds |
| `pages`, `touched` | history: what was shown, and what was written since the walk began |

| Actions | Code |
|---|---|
| `ListReleasePage` | `listReleasePage` with the query of `listReleaseRows`, one statement |
| `CreateRelease`, `UpdateRelease` | `createRelease`; `updateReleaseState` and the updates inside `claimWorkflow`, `failWorkflow`, `decideApproval` |
| `Begin`, `Tick` | `BEGIN` of those transactions; time |

`Fraction` is how many instants of the database fall into one of the cursor,
which goes through a JavaScript `Date` and has milliseconds. With `Fraction = 1`
the module is the in-memory repository.

### ObjectStore and AssetStorage

`Remediation` stores an object in one step. `AssetStorage` is what that step
consists of. `ObjectStore` says what it must amount to: an object is put whole,
at once, and from then on the only thing that can happen to it is that it is
gone. `StoreIsAtomic` is the refinement, with the files under `objects` as the
objects and `.incoming` out of sight.

| State | Code |
|---|---|
| `files` | the files under the storage root: their directory, the bytes a reader sees, the bytes that survive loss of power |
| `created` | how many there ever were; a name is a UUID and never used again |
| `rows` | `assets` rows as far as they describe the file: kind, `sha256`, `sizeBytes` |
| `call` | request frames of `addUpload` and `addContent`; `size` and `hash` are what `adoptTemporaryFile` found |
| `failures`, `crashes`, `outages` | what has gone wrong so far |

| Actions | Code |
|---|---|
| `StartUpload`, `Write`, `Written`, `Abandon` | `UploadAssetGuard`, and multer's stream into `.incoming` (external, as the controllers use it) |
| `StartContent` | `addContent` with the limit of `parseCreateAsset`; `Write` is its `writeFile` |
| `Recheck` | `addUpload` between the stream and the storage |
| `Adopt`, `Sync`, `HashFile`, `Rename` | the calls of `adoptTemporaryFile` |
| `Discard` | `discardTemporaryFile`, in `adoptTemporaryFile` and again in its callers |
| `Inspect`, `Register`, `Remove` | `persist`; `Inspect` is `AssetInspectionService` with `ffprobe` |
| `Throw`, `Crash`, `Outage` | a call throws; the process dies; the machine loses power |

Abstracted: a file is a size and one of six kinds of bytes (`movie` and `sound`
have those streams, `rights`, `json` and `text` decode as UTF-8, `noise` does
not), and a hash stands for the bytes it is taken of. After a loss of power a
file has some prefix of its bytes that holds the synced ones, or is back in
`.incoming`, or gone, since directories are not synced; the database is on a
machine of its own. Whether the state of the release admits the asset, and who
wins a COMMIT in doubt, is `Remediation`'s matter: here `Register` may refuse any
request. The last `discardTemporaryFile` of `addUpload` may fail after the asset
was registered, and the user is told of an error; the asset is there, so nothing
here depends on it. A file exactly at the size limit may be turned away by the
multipart parser, which `Abandon` covers.

### Intake

| State | Code |
|---|---|
| `now` | the clock of web server and API, in lifetimes of a token |
| `cookie`, `login` | the session cookie of each browser; a token on its way there |
| `form` | the form for a new release a browser shows, with the project it was rendered for |
| `action` | the server action a browser waits for: it asks `/auth/me`, sends, waits |
| `handler` | requests in the API, which go on when nobody waits any more |
| `projects`, `releases`, `audits` | the tables `createRelease` writes |
| `givenUp`, `failures`, `crashes` | what may have made somebody press a button twice |

| Actions | Code |
|---|---|
| `Login`, `SetCookie`, `Logout` | `demoLogin`, `loginAction`, `logoutAction` |
| `OpenForm`, `Press`, `Authorize` | `releases/new/page.tsx`, the server actions and their `authorize` |
| `Post`, `Timeout` | `request` in `lib/api.ts` with its `AbortSignal.timeout` |
| `Admit`, `Refuse` | `AuthGuard`, `@RequireRoles`, the DTO and the checks at the head of `createRelease` |
| `ChooseProject`, `InsertRelease`, `AppendAudit`, `ReadBack` | the awaited calls of `createRelease` |
| `Throw`, `Crash`, `Tick` | a call throws; the API dies; time |

A project has one id and several spellings of it (`Spellings`): `demoLogin` takes
the id in capital letters too and writes it into the token as it came,
`assertProject` compares strings (`Opens`), while `getProject` and the list compare
UUIDs (`ChooseProject`, `Listed`) and the row keeps small letters (`OpensRelease`).

Abstracted: a token cannot be forged; a persona has one role (as in
`auth.controller.ts`) and Admin logs in without a project; a browser has one
server action at a time; a release is named after the request that created it.
Of the operations other than `createRelease` only the way to the API's guard is
modelled, since the other modules begin there. The upload proxy
(`assets/upload/route.ts`), which streams a body through, is left out.

## 3. Runs

Deadlock checking is off in every run: with bounded runs, attempts and manifests
the system may come to rest.

| Run | Instance | Shows |
|---|---|---|
| `EvaluationApi` | 2 requests, 3 runs, 2 manifests; throws, lost replies, API crashes | claims of the API graph are serial; the optimistic version is a sound test; a failing run restores nothing newer |
| `EvaluationWorkers` | 1 user who validates, runs and queues, 2 workers with one `WORKER_ID`; throws, lost replies, worker crashes, slow leases | the attempt number alone keeps the workers' completions apart; a run is orphaned only by a claim whose reply is lost and behind `runRelease`'s missing `await` |
| `EvaluationOneWorker` | 1 worker that crashes and comes back, 1 completion handled beyond its death, uploads | whatever is queued leaves the queue in the end, by a completion that was handled to its end, and a result is applied only to the assets it was computed from |
| `EvaluationOldRun` | violation | see the finding |
| `DeliverySafety` | 3 approvers, 2 requests, 2 manifests, 3 faults of any kind | the approval gate holds; one handler at a time; only approved assets are sent; extra sends are paid for by failures; "done" means accepted |
| `DeliveryRetry` | 2 approvers, requests one after the other, 1 fault | a stored receipt stops further sends; SUBMITTING is always left |
| `Remediation` | 2 requests, 3 objects, rule set with TTML, 2 faults of any kind | rows keep their objects, assets are frozen beside a running action, only a failure leaves an action RUNNING without a handler, a completed action has its asset, strays are paid for by failures |
| `WorkerGraph` | 2 calls at once of 4, 3 inputs with one version label, two of them of one release, 3 revisions; any receipt may get lost, any submission be rejected | the key names the command, packages are fit, reports agree with the platform, and the graph implements `KeyedDelivery` |
| `ReleaseCycle` | every repairable subtitle of one cue within 4 time units or of two within 3, the first one easily read or too long to read, 2 windows that begin and end within the clock, a shorter video that may replace the first, TTML required | what is sent is fit at that time; a repair creates no new defect; what is proposed can be executed; a manifest that asked for two approvals is not sent with one |
| `ReleasePaging` | 3 releases in pages of 1, 4 instants, 2 in one of the cursor, 1 open transaction | a walk shows what nobody wrote meanwhile, up to the cursor's rounding |
| `AssetStorage` | 2 requests, 2 files of 7 contents, 3 kinds; 2 failing calls and one death of the process or loss of power | the storage is an atomic object store; rows are served what they say and hold what their kind needs; strays are paid for |
| `Intake` | 2 browsers, 2 API requests at once, 2 logins, 2 forms, 2 server actions, 3 roles, 2 spellings of an id, a clock that passes a token's lifetime, 1 fault of any kind | duplicates and half-done creations are paid for; a release is inside its creator's projects; the four checks of rights agree, but for the spelling of an id |

The type invariants of `Evaluation`, `Delivery`, `Remediation` and `AssetStorage`
are proved (`TypeCorrect` in their proof modules), so no run repeats them; the
others are checked by the run of their module and proved too.

Why the bounds are enough to be interesting: two requests give every pairwise race
of handlers; three runs allow an old run, the run that overtook it and a newer
claim; two manifests tell "changed" from "unchanged"; three approvers let two
approve while a third rejects; three faults cover a failed send, the failure of its
undo and a lost reply on the retry; three objects are an upload, its repair and the
TTML made of that, or two uploads with the same content racing an action; two faults
are a COMMIT in doubt and the failure of the call that deals with it. In
`WorkerGraph` four calls are a start, its approval, a second copy of it and a
revision or a retry, two of them at the same time; one input is OTT, repairable and
with a waivable finding, another goes to a caption track that a revision can rename;
both use the same version label, so that only the rest of the key keeps them apart.
The third is the second's release with other subtitles under the same label, which
nothing keeps apart. In `ReleaseCycle` two cues are the first and the last, since a
cue is retimed between its two neighbours only; single cues lie within four time
units (`Horizon`), pairs and hard ones within three (`Nearer`), which leaves room
for cues that are too short, too long, too fast, and for those with and without room
behind them or before the end of the media; the second cue's index may repeat the
first's. The second video ends a time unit earlier, where the last cue of many a
subtitle, and the room behind it, is cut off. Two subtitle contents are an original
and its repair or replacement. In `ReleasePaging` pages of one row make every row a
boundary, and two instants of the cursor hold rows of one and of different
milliseconds. In `AssetStorage` the contents are empty, at the limits and beyond
them, of the right and of the wrong kind, `MaxBytes`, `PostLimit` and `TextLimit`
are as small as keeps them apart from nothing, and two failures are the call and the
clean-up after it. In `Intake` two presses are a wish and its repetition, or two
users' wishes that meet in the API; a second login changes the session under a form
or a request; two projects tell one's own from a new one; of the spellings one is
the database's. `MaxFailures` counts crashes too; one crash may spoil every request
the API has in work, and `Losses` says so.

The proofs then remove the bounds for the properties they cover.

**Fairness.** `FairSpec` gives weak fairness to each handler's progress: Node
runs on a handler whose awaited call has settled. Users are never obliged to
call anything. In `EvaluationOneWorker` the worker's polling loop is fair as
well: `main.ts` polls for ever, and a worker that died is started again, which is
an assumption about the operator (compose sets no restart policy). A handler that a
dead worker has left behind goes on like any other. A lease can run
out only while nobody is completing under it: the default lease outlives a
completion by orders of magnitude. `EvaluationWorkers` drops that assumption.
`compose.yaml:45` gives every replica the same `WORKER_ID`, hence the shared id.
`DeliveryRetry` excludes lost replies and crashes: a claim that committed without
the handler knowing leaves SUBMITTING for good, which
`docs/06-tool-contracts.md:22` names as future work.

**Mutants.** Next to the definitions stand a few marked "Seeded fault": each is
a plausible bug in the code the neighbouring definition models. `PROJECT.json`
pairs every property of a passing run with one of them that breaks it.

## 4. Findings

1. *A run can overwrite a decision* (`EvaluationOldRun`). `finishEvaluationRun`
   creates the submission action in one call and writes the state of the release
   in a later one, which compares no version. TLC's trace has one run and one
   approval: the run claims a DRAFT, ensures the action, the action is approved
   and the release APPROVED, and then the run writes READY_FOR_APPROVAL over it.
   The action stays APPROVED while its release waits for an approval.
   `README.md:196` and `docs/06-tool-contracts.md:19` say that an old flow cannot
   overwrite a later state.

Observed while modelling, without a run of their own:

- *A run is orphaned when its outcome cannot be stored.* `runRelease` returns
  `finishEvaluationRun(...)` without `await`, so its rejection is not caught by the
  `catch` that calls `failRun`. Running again after a rejection with unchanged
  assets is enough: the release stays VALIDATING and its run RUNNING.
  `validateRelease` awaits and is not affected. `OrphansWereUncaught` says that
  there is no other way to an orphan, but for a claim that committed and whose
  reply was lost, and the death of the API.
- *A second send with a receipt stored.* `submitDelivery` looks for the receipt in
  a snapshot taken before the claim and not in the row the claim returned, whereas
  `README.md:197` says that the next submission finishes locally and does not call
  the provider again. `ReceiptStopsSending` fails with a second request in
  `DeliveryRetry`; `ReceiptSparesProvider` says that only requests already on their
  way when the receipt was stored can do it.
- *One manifest, two deliveries.* The submission key contains the risk.
  `executeAction` looks at its action and not at the release, so a proposal for an
  older subtitle can fail on a SUBMITTED release and block it; the next run, by
  now inside the warning window, finds no R3 submission of the same manifest and
  starts one with a delivery of its own. `docs/03-domain-state.md:44` derives
  the key from release, action type, input version and platform.
- *A page can lose releases.* `updated_at` has microseconds, the cursor
  milliseconds: a release that was written in the same millisecond as the last
  row of a page, and before it, is compared with the beginning of that
  millisecond and is on no page. `ExactCursorIsComplete` says that nothing else
  is the cause; `api.e2e.test.ts:385` runs on the in-memory repository, which is
  exact. A release can also be shown twice, when a transaction that began
  earlier, and waited for the lock, sets its `updated_at` back.
- *A queued run can be stranded, with one worker too.* `completeWorkerEvaluation`
  writes `WAITING` and clears the lease in a second statement, unconditionally. A
  poll in between leases the run again, since it is WAITING, and is stripped of that
  lease and of its work type: the row stays RUNNING without a lease that could run
  out, and no worker looks for it. Another worker can do it, and so can a worker
  that died while its POST was handled and was started again.
  `docs/15-durable-execution-handoff.md:65` has RUNNING runs taken over by their
  lease. What holds is `QueuedRunLeaves`: the run left the queue because a
  completion of it was handled to the end.
- When a worker outlives its lease between writing the release and settling the run,
  a second worker takes the run over and passes the lease check; an upload and a
  newly queued run later, its result is applied to assets it has never seen
  (`ResultMatchesInput` with two workers and `"slowLease"`).
- *A version label can be used twice.* `start` does not check that an
  `inputVersion` names one input, and `workflow.test.ts:206-218` uses one with two.
  If both packages are approved, the second one's submission finds the first one's
  record under the key and is reported SUBMITTED, and after its QC COMPLETED, with
  the first one's request: `recover` and `submit` compare no command. The key is as
  `docs/03-domain-state.md:44` defines it, which puts the duty on callers.
- *A repair that failed for one video is never proposed for another.* The key of
  a remediation names its subtitle and not the video. When a shorter video makes
  a proposed repair fail, and a longer one arrives, the next run finds the FAILED
  action under the same key, throws, and leaves the release VALIDATING.
- *A session in capital letters creates releases it may not open.* `demoLogin`
  accepts a project id in any case and does not normalise it (`auth.controller.ts:47`).
  `createRelease` compares the form's id with the token's as strings, finds the
  project by its UUID and goes on with the id of the row. Such a session sees its
  release in the list, which compares UUIDs, and gets 403 when it opens it.
- A REJECTED decision is accepted for a checkpoint of the worker graph whose
  submission is in RETRY_WAIT, and the delivery is completed all the same: the
  entry route follows the state. The command had been approved when it was sent.
- A repair in the worker graph that does not reach a valid subtitle keeps the
  changed subtitle and hands it to a person under NEEDS_HUMAN.
- Cutting a cue that is too long can make it too fast, and of two cues with one
  index the second is never slowed down. Both end in a subtitle that fails its
  validation, so that the action fails and the release is BLOCKED.
- `reconcileSubmittedDelivery` sets SUBMITTED also when the release has changed
  since that delivery.
- `routeEntry` has branches for APPROVED, SUBMITTING and SUBMITTED checkpoints;
  no call returns one.

## 5. Proofs

All theorems are about `Spec` and hold for any sets of requests, workers and
approvers, any bounds and any subset of the faults, except where one says so. The
assumptions are the named `ASSUME`s of the component modules: disjoint sets of
processes (`RequestsAssumption`, `HandlersAssumption` in `Evaluation`), typed bounds,
a finite set of approvers, of API requests (`HandlersAssumption` in `Intake`) and of
rights windows (`BoundsAssumption`), the limits `validateSrt` insists on
(`LimitsAssumption`), contents that are sequences of cues with times that are no
negative numbers, as `parseSrt` makes them (`SubtitlesAssumption`), durations of
videos that are such numbers or unknown (`VideosAssumption`), project ids that can be
spelled as the database does (`SpellingsAssumption`), and for the worker graph that
findings carry the codes of the QC package (`FindingsAssumption`) and that inputs are
contents there are (`InputsAssumption`). TLC evaluates all of them in the runs.

**`EvaluationProofs`** proves `TypeCorrect`, `ApiRunsAreSerial`,
`ClaimsOwnTheState`, `AttemptsAreDistinct` and `RestoreIsSafe`. The invariant
`IInv` adds to the properties: which kind of handler is found at which step and
that the run in a frame exists and belongs to its graph (`FrameOK`); that rows
are created in order (`RowOK`); and that no claim is newer than the release
(`ClaimOK`). `ClaimOwnsState` needs the last: every write of the release bumps
the version, so a claim's version can only be equal as long as nobody wrote.
`RestoreIsSafe` is an action property from the same invariant. Each lemma first
reduces the many actions to what they can do to rows (`RowEffects`), frames
(`CallEffects`) and the release (`ReleaseEffect`), and each conjunct is then
proved against those few effects.

`OrphansAreUncaught` is another action property. Its one hypothesis is that the API
does not die, which would take every handler along; throws, lost replies, rejected
keys and dying workers are all let in. `ClaimHasHandler` says that a claim and the
row it made come into being together; from there `OrphanStep` goes through the steps
that take a row from its handler, and finds each to be one that settles the row or
one of the two calls `FailsUncaught` names. So validate never leaves a run behind,
and run only where its `await` is missing.

`ResultsMatchInputs` holds under two hypotheses, since the code breaks it otherwise
(section 4). `OnlyQueued` leaves queueing and uploads as the only operations;
`LeasesOutliveWork` says that no lease runs out on a worker or a completion handler
that is still engaged. Throws, lost replies and deaths of the API and of workers, also
in the middle of a completion, are let in, for any number of workers. A worker or
handler is engaged from taking a run to settling it; as long as it is, the run's row
stays RUNNING and keeps its attempt (`LeaseKept`), at most one row is taken
(`WorkerRunsSerial`), hence one of them engaged. So no claim can bring the release back
to VALIDATING behind its back, and while the release is VALIDATING nothing can be
uploaded (`Matched`). With two workers and a slow lease TLC finds the old result
applied to the new assets.

**`DeliveryProofs`** proves `TypeCorrect`, `OneHandlerAtATime`,
`ProviderSeesApproved`, `SendsPaidFor`, `DoneIsAccepted` and the refinement
`DeliveryImplementsGate`. `IInv` strengthens each property by what the frames
know: a handler at or past the preflight saw an open gate, and an open gate
cannot close because voting ends with it (`GateInv`); a handler at the claim or
later carries the approved manifest (`ManifestInv`); a handler that may still
send, and an unclaimed delivery, have a failure in hand for every call made so
far (`PaidInv`); a handler past the provider, and one that carries a receipt,
know that the provider accepted (`DoneInv`). `OneInFlight` is what makes
`PaidInv` inductive: while one handler sends nobody else can be about to. All
actions reduce to ten effects (`Effects`), against which each part is proved
once. `CountingApprovals` turns the repository's row count into the gate's
"two different people". `ReceiptSparesProvider` takes the place of
`ReceiptStopsSending`, which is checked for requests one after the other and is false
for two at once. It has no hypothesis: while a receipt is stored, the requests that
do not know of it (`UnawareOnes`) only become fewer, and each call of the provider is
by one of them. A submission that starts later is not among them.

**`RemediationProofs`** proves all properties of its run and two more:
`TypeCorrect`, `RowsKeepTheirObjects`, `OneActionRuns`, `AssetsFrozen`,
`CompletedActionsHaveAssets`, `LeaksPaidFor` and `RunningActionsHaveHandlers`.
`ObjectInv` says that the object in a handler's hand has no row and no second
handler, so a removal cannot hurt a row; a handler in doubt knows the only row its
object may have. `ActionInv` and `SourceInv` say that an action has one handler and
that, until it registers, the action is RUNNING, no COMMIT is in flight and its
source is the latest subtitle; `PendingInv` carries this over to the moment a COMMIT
in flight lands, which may be long after the action has failed. `LeakInv` counts the
objects in nobody's care with a handler in doubt not counting as care: its failure
is already paid. All actions reduce to nine effects of a handler and three outside
of it. `RunningActionsHaveHandlers` has an invariant of its own, `HandlerInv`: until
a call fails, a RUNNING action has a handler at a step from which every way out of
executeAction leads over the write that settles it (`HandlerGoesOn`).

**`WorkerGraphProofs`** proves all properties of its run: `TypeCorrect`,
`KeyNamesOneCommand`, `OnlyFitIsPackaged`, `ReportsAreTrue` and the refinement
`GraphKeepsPromise`. A checkpoint carries what its hash was taken of, and its
version names that hash: it is the label of a start input, or the hash itself
(`Rooted`). Equal hashes have equal histories, hence one source subtitle
(`SourceInv`), so a key determines package and command, unless it is that of two
inputs started under one label (`SameLabel`). The platform records one request under
such a key too, and `Answers` says that what a checkpoint was told of it is what was
sent for itself or for its namesake. `Placed` says how far a
checkpoint at a node has come: what is packaged has no finding but a waivable
one, what is about to be sent was approved and presented, what goes to QC is a
request of its own. All of it looks only at sets that never shrink (what callers
hold, approvals, requests, records), so a step of one call cannot spoil it for
another (`PlacedStays`), and every action reduces to the growth of those sets.

**`ReleaseCycleProofs`** proves all properties of its run: `TypeCorrect`,
`OnlyFitIsSent`, `NoEscapeFromTwoApprovals`, `RepairsAreSafe` and
`ProposalsAreExecutable`. For the first three the invariant `IInv` says that assets
are only added, so a manifest goes on naming what it named; that a submission which
asks for two approvals was made when the end of its window was near, which the clock
does not undo (`KeyOK`); that what may be sent has all approvals it asks for
(`RowOK`); and that what was sent passed the preflight at that time (`SentOK`). The
other two are about `repairSrt` and need induction along the cues, because each cue
is retimed after the repaired one before it. The library's induction theorems cannot
be used, but well-founded sets can: a set of cue numbers at which a claim fails has
a least element (`LeastNumber`), and the claim holds there all the same. In this way
`ChainExists` shows that the recursive function in `RetimedCues` is defined, and
`ChainParts` that every cue is retimed after an end that is no later than its own
start. `Moved` is what a single cue may undergo, `RepairedParts` the sum over the
subtitle, `RepairSafe` what `RepairIsSafe` says. `RoomyRepairs` adds that with room
for every cue and distinct indexes nothing is left to repair, down to the rounding
of a required duration. `PlannedInv` ties this to the release: open proposals were
made for such a subtitle and the video of `proposedFor`, and subtitles do not change.

**`ReleasePagingProofs`** proves `TypeCorrect`, `WalkDescends`, `WalkIsComplete` and
`ExactCursorIsComplete` for any page size, any resolution of the cursor and any
number of transactions. `CursorInv` says what a cursor stands for: all that was
shown precedes it or is at it. `WalkInv` says of a release that nobody wrote
during the walk that it is shown, lies behind the cursor, or was lost in the
rounding. `PagePrecedes` is the counting argument that a page is a prefix of the
rows, `PageIsBounded` the one that it has at most `Limit` of them.

**`AssetStorageProofs`** proves all properties of its run, `RowsServed`,
`RowsUsable`, `StraysPaidFor` and the refinement `StorageImplementsStore`, and
`TypeCorrect`. `HandlersInv` gives each handler a file of its own and says, by the
step it is at, how far the file has come: whole, its size and hash taken, synced,
accepted by the inspection. A file is synced before it is renamed, so whatever
is under `objects` is out of reach of a power failure but for its disappearance
(`FileOk`). `RowsInv` keeps the files of rows out of every handler's hands, which is
why no clean-up can hurt one. `Effect` reduces the actions to what they do to one
file; `StraysPaidFor` adds to it that a handler lets go of a file only when that
is gone, has a row, or a failure was counted, and `HandsFull` that a death of the
process frees at most one file a request.

**`IntakeProofs`** proves all properties of its run: `TypeCorrect`, `InsideCreated`,
`ChecksAgreeAlways`, `HalfDoneIsPaid` and `DuplicatesArePaid`. The invariant follows
a token on its way: a server action that sends has checked the role of the token it
sends (`WebOK`); a request past the guard has checked that token against the project
of the form it carries, and goes on with that project or with a new one of Admin's
(`ApiOK`). `MembersAreInside` and `InsideAlike` are about spellings: who passes with the
form's id has that project on the list, whatever the letters, and opens what was
created there if the token has the database's. That the list and `assertProject` agree
needs, beside that, that no release is without a project (`TablesOK`).

The last two count. `LinkInv` says which request belongs to which server action, how
far it has got and that identities are not shared; a project without release, or a
release without audit event, is then in the hands of a request or was dropped by one
that a fault ended, of which there are at most `Losses`. For duplicates the requests
that may still make a release and that nobody waits for any more are counted
(`StraysArePaidFor`): a form that is off the screen with a release of its own
accounts for one, `givenUp` and `Losses` for the others.

Not proved: liveness (`QueuedRunLeaves`, `SubmittingEnds`), which TLC checks under
the fairness above and which is out of TLAPS's reach; `ReceiptStopsSending`, which
holds with one request at a time only; and `OldRunKeepsOff`, which is false.
`ResultMatchesInput` and `OrphansWereUncaught` are proved under the hypotheses given
here.

## 6. Not modelled yet, and the plan

In order of weight:

1. Compositions: `Evaluation` with `Delivery` over the shared release row (so
   far each sees the other through one abstracted action), and an abstract
   release life cycle both implement (`docs/03-domain-state.md`).
2. `Remediation` with several evaluations at once and the run's checkpoint, with
   the steps of `AssetStorage` in the place of `Store`.

Left out for good: migrations (schema set-up under an advisory lock), rule sets
and the DTO checks without an effect on the models (static data), TTML text
layout, page rendering and the upload proxy (streams), and the worker's static
token, which keeps no state.
