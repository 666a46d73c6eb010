---------------------------- MODULE IntakeProofs ----------------------------
(***************************************************************************)
(* Proofs about Intake, for every number of browsers, requests and bounds: *)
(* type correctness, that a release is created inside the projects of its  *)
(* creator (CreatedInside), that the four places which look at rights      *)
(* agree but for the spelling of an id (ChecksAgree), and what the missing *)
(* transaction and the missing key of createRelease cost at most           *)
(* (HalfDoneIsPaidFor, DuplicatesArePaidFor).                              *)
(*                                                                         *)
(* None of them is inductive.  IInv follows a token on its way: the server *)
(* action that sends it has checked its role (WebOK), the request that     *)
(* carries it past the guard has checked it against the project of the     *)
(* form, and the project it goes on with is that one or a new one of       *)
(* Admin's (ApiOK).  The two that count need more (Accounts): which        *)
(* request is whose and how far it has got (LinkInv), and an account of    *)
(* the requests that nobody waits for any more (StraysArePaidFor).         *)
(***************************************************************************)
EXTENDS Intake, FiniteSetTheorems, TLAPS

Asks(r) ==
    /\ r.token \in Tokens
    /\ HasRole(r.token, WebRole(r.op))
    /\ r.op = "create" => r.form \in Forms

GoodAction(a) ==
    /\ a.pc = "authorize" => (a.op = "create" => a.form \in Forms)
    /\ a.pc \in {"post", "wait"} => Asks(a)

GoodFrame(f) ==
    /\ Asks(f)
    /\ f.pc # "guard" => f.op = "create" /\ MayChoose(f.token, f.form)
    /\ f.pc \in {"release", "audit", "read"} =>
            f.project \in ProjectIds /\ Inside(f.token, f)

SessionOK ==
    /\ cookie \in [Browsers -> [token : Tokens, until : Times] \cup {NoToken}]
    /\ login \in [Browsers -> Tokens \cup {NoToken}]
    /\ logins \in Nat

WebOK ==
    /\ form \in [Browsers -> Forms \cup {NoForm}]
    /\ action \in [Browsers -> ActionRecords \cup {Idle}]
    /\ \A b \in Browsers : GoodAction(action[b])

CountsOK == forms \in Nat /\ presses \in Nat /\ givenUp \in Nat

ApiOK ==
    /\ handler \in [Handlers -> HandlerRecords \cup {Idle}]
    /\ \A h \in Handlers : handler[h] # Idle => GoodFrame(handler[h])

TablesOK ==
    /\ projects \in 1 .. MaxProjects
    /\ releases \subseteq ReleaseRecords
    /\ audits \subseteq Requests
    /\ CreatedInside

FaultsOK == failures \in Nat /\ crashes \in Nat

IInv ==
    /\ now \in 0 .. MaxTime
    /\ SessionOK /\ WebOK /\ CountsOK /\ ApiOK /\ TablesOK /\ FaultsOK

-----------------------------------------------------------------------------
(* Data                                                                    *)

LEMMA Idles ==
    /\ Idle \notin ActionRecords /\ Idle \notin HandlerRecords
    /\ GoodAction(Idle)
    /\ \A a \in ActionRecords \cup {Idle} :
        a.pc \in {"authorize", "post", "wait"} => a \in ActionRecords
    /\ \A f \in HandlerRecords \cup {Idle} :
        f.pc \in {"guard", "project", "release", "audit", "read"} =>
            f \in HandlerRecords /\ f # Idle
BY DEF Idle, ActionRecords, HandlerRecords, GoodAction

\* The web server's table of roles and the API's say the same.
LEMMA RolesAgree ==
    ASSUME NEW token, NEW op \in WebOps, HasRole(token, WebRole(op))
    PROVE ApiAllows(token, op)
BY DEF HasRole, WebRole, ApiAllows, ApiRole, WebOps

\* The id of the row has the spelling that assertProject may refuse, and no
\* other.
LEMMA MembersAreInside ==
    ASSUME NEW token, NEW r, r.project # NoProject,
           token.role = "Admin" \/ token.project = r.project
    PROVE  Inside(token, r)
BY DEF Inside, Listed, OpensRelease, Opens

LEMMA InsideAlike ==
    ASSUME NEW token, NEW q, NEW r, q.project = r.project, Inside(token, q)
    PROVE  Inside(token, r)
BY DEF Inside, Listed, OpensRelease, Opens

LEMMA Expires == now \in 0 .. MaxTime => Expiry \in Times
BY BoundsAssumption DEF BoundsAssumption, Expiry, Times

\* A handler that moves on with the same request.
LEMMA Moves ==
    ASSUME NEW f \in HandlerRecords,
           NEW pc \in {"guard", "project", "release", "audit", "read"}
    PROVE LET g == [f EXCEPT !.pc = pc] IN
          /\ g \in HandlerRecords /\ g.pc = pc /\ g # Idle
          /\ g.id = f.id /\ g.op = f.op /\ g.browser = f.browser /\ g.token = f.token
          /\ g.form = f.form /\ g.project = f.project
BY DEF HandlerRecords, Idle

-----------------------------------------------------------------------------
(* Parts of steps                                                          *)

LEMMA WebStays == WebOK /\ UNCHANGED <<form, action>> => WebOK'
BY DEF WebOK

LEMMA ApiStays == ApiOK /\ UNCHANGED handler => ApiOK'
BY DEF ApiOK

LEMMA SessionStays == SessionOK /\ UNCHANGED session => SessionOK'
BY DEF SessionOK, session

LEMMA TablesStay == TablesOK /\ UNCHANGED tables => TablesOK'
BY DEF TablesOK, tables, CreatedInside

LEMMA FaultsStay == FaultsOK /\ UNCHANGED faults => FaultsOK'
BY DEF FaultsOK, faults

LEMMA ErrsOK ==
    ASSUME WebOK, NEW b, Errs(b)
    PROVE WebOK'
<1>1. action' \in [Browsers -> ActionRecords \cup {Idle}] BY DEF WebOK, Errs
<1>2. ASSUME NEW c \in Browsers PROVE GoodAction(action[c])'
  <2>1. action'[c] = action[c] \/ action'[c] = Idle BY DEF WebOK, Errs
  <2>2. GoodAction(action'[c]) BY <2>1, Idles DEF WebOK
  <2> QED BY <2>2 DEF GoodAction, Asks
<1> QED BY <1>1, <1>2 DEF WebOK, Errs

LEMMA SucceedsOK ==
    ASSUME WebOK, NEW b, NEW release, Succeeds(b, release)
    PROVE WebOK'
<1>1. action' \in [Browsers -> ActionRecords \cup {Idle}] BY DEF WebOK, Succeeds
<1>2. ASSUME NEW c \in Browsers PROVE GoodAction(action[c])'
  <2>1. action'[c] = action[c] \/ action'[c] = Idle BY DEF WebOK, Succeeds
  <2>2. GoodAction(action'[c]) BY <2>1, Idles DEF WebOK
  <2> QED BY <2>2 DEF GoodAction, Asks
<1>3. form' \in [Browsers -> Forms \cup {NoForm}] BY DEF WebOK, Succeeds
<1> QED BY <1>1, <1>2, <1>3 DEF WebOK

LEMMA BecomeOK ==
    ASSUME ApiOK, NEW h \in Handlers, NEW f \in HandlerRecords \cup {Idle},
           f # Idle => GoodFrame(f), Become(h, f)
    PROVE ApiOK'
<1>1. handler' \in [Handlers -> HandlerRecords \cup {Idle}] BY DEF ApiOK, Become
<1>2. ASSUME NEW g \in Handlers, handler'[g] # Idle PROVE GoodFrame(handler'[g])
  BY <1>2 DEF ApiOK, Become
<1>3. \A g \in Handlers : (handler[g] # Idle => GoodFrame(handler[g]))'
  BY <1>2 DEF GoodFrame, Asks
<1> QED BY <1>1, <1>3 DEF ApiOK

LEMMA AnswerOK ==
    ASSUME WebOK, ApiOK, NEW h \in Handlers, NEW release, Answer(h, release)
    PROVE WebOK' /\ ApiOK'
<1>1. ApiOK' BY BecomeOK DEF Answer
<1>2. \/ UNCHANGED <<form, action>>
      \/ Succeeds(handler[h].browser, release)
      \/ Errs(handler[h].browser)
  BY DEF Answer
<1> QED BY <1>1, <1>2, WebStays, SucceedsOK, ErrsOK

LEMMA FaultOK ==
    ASSUME FaultsOK, NEW fault, Fault(fault)
    PROVE FaultsOK'
BY DEF FaultsOK, Fault

LEMMA ReturnOK ==
    ASSUME WebOK, ApiOK, FaultsOK, NEW h \in Handlers, NEW f \in HandlerRecords,
           GoodFrame(f), Return(h, f)
    PROVE WebOK' /\ ApiOK' /\ FaultsOK'
<1>1. CASE Become(h, f) /\ UNCHANGED <<form, action, faults>>
  BY <1>1, BecomeOK, WebStays, FaultsStay
<1>2. CASE Answer(h, 0) /\ Fault("lostReply")
  BY <1>2, AnswerOK, FaultOK
<1> QED BY <1>1, <1>2 DEF Return

-----------------------------------------------------------------------------
(* The steps                                                               *)

LEMMA LoginStep ==
    ASSUME IInv, NEW b \in Browsers, Login(b)
    PROVE SessionOK'
<1>1. PICK role \in Roles, project \in 0 .. projects, written \in Spellings :
        login' = [login EXCEPT ![b] = [role |-> role, project |-> project, written |-> written,
                                       exp |-> Expiry]]
  BY DEF Login
<1>2. role \in AuthRoles BY RolesAssumption DEF RolesAssumption
<1>3. project \in ProjectIds \cup {NoProject}
  BY BoundsAssumption DEF BoundsAssumption, IInv, TablesOK, ProjectIds, NoProject
<1>4. [role |-> role, project |-> project, written |-> written, exp |-> Expiry] \in Tokens
  BY <1>2, <1>3, Expires DEF Tokens, IInv
<1> QED BY <1>1, <1>4 DEF IInv, SessionOK, Login

LEMMA SetCookieStep ==
    ASSUME IInv, NEW b \in Browsers, SetCookie(b)
    PROVE SessionOK'
<1>1. login[b] \in Tokens BY DEF IInv, SessionOK, SetCookie
<1>2. [token |-> login[b], until |-> Expiry] \in [token : Tokens, until : Times]
  BY <1>1, Expires DEF IInv
<1> QED BY <1>2 DEF IInv, SessionOK, SetCookie

LEMMA CookieTyped ==
    ASSUME SessionOK, NEW b \in Browsers
    PROVE CookieOf(b) \in Tokens \cup {NoToken}
<1>1. cookie[b] \in [token : Tokens, until : Times] \cup {NoToken} BY DEF SessionOK
<1>2. cookie[b] # NoToken => cookie[b].token \in Tokens BY <1>1
<1> QED BY <1>2 DEF CookieOf

LEMMA OpenFormStep ==
    ASSUME IInv, NEW b \in Browsers, OpenForm(b)
    PROVE WebOK' /\ CountsOK'
<1> DEFINE token == CookieOf(b)
           project == IF token.role = "Admin" THEN NoProject ELSE token.project
           new == [id |-> forms + 1, project |-> project, written |-> token.written]
<1>1. token \in Tokens BY CookieTyped DEF IInv, OpenForm, Valid
<1>2. token.project \in ProjectIds \cup {NoProject} /\ token.written \in Spellings
  BY <1>1 DEF Tokens
<1>3. forms + 1 \in 1 .. MaxForms
  BY BoundsAssumption DEF BoundsAssumption, IInv, CountsOK, OpenForm
<1>4. new \in Forms BY <1>2, <1>3 DEF Forms
<1>5. form' = [form EXCEPT ![b] = new] /\ UNCHANGED action BY DEF OpenForm
<1>6. form' \in [Browsers -> Forms \cup {NoForm}] BY <1>4, <1>5 DEF IInv, WebOK
<1>7. WebOK' BY <1>5, <1>6 DEF IInv, WebOK
<1> QED BY <1>7 DEF IInv, CountsOK, OpenForm

LEMMA PressStep ==
    ASSUME IInv, NEW b \in Browsers, NEW op \in Ops, Press(b, op)
    PROVE WebOK' /\ CountsOK'
<1> DEFINE shown == IF op = "create" THEN form[b] ELSE NoForm
           new == [pc |-> "authorize", id |-> presses + 1, op |-> op,
                   token |-> CookieOf(b), form |-> shown]
<1>1. shown \in Forms \cup {NoForm} /\ (op = "create" => shown \in Forms)
  BY DEF IInv, WebOK, Press
<1>2. presses + 1 \in Requests
  BY BoundsAssumption DEF BoundsAssumption, IInv, CountsOK, Press, Requests
<1>3. op \in WebOps BY OpsAssumption DEF OpsAssumption
<1>4. CookieOf(b) \in Tokens \cup {NoToken} BY CookieTyped DEF IInv
<1>5. new \in ActionRecords BY <1>1, <1>2, <1>3, <1>4 DEF ActionRecords
<1>6. GoodAction(new) BY <1>1 DEF GoodAction
<1>7. action' = [action EXCEPT ![b] = new] /\ UNCHANGED form BY DEF Press
<1>8. action' \in [Browsers -> ActionRecords \cup {Idle}] BY <1>5, <1>7 DEF IInv, WebOK
<1>9. \A c \in Browsers : GoodAction(action'[c]) BY <1>6, <1>7 DEF IInv, WebOK
<1>10. WebOK' BY <1>7, <1>8, <1>9 DEF IInv, WebOK, GoodAction, Asks
<1> QED BY <1>10 DEF IInv, CountsOK, Press

LEMMA AuthorizeStep ==
    ASSUME IInv, NEW b \in Browsers, Authorize(b)
    PROVE WebOK'
<1> DEFINE a == action[b]
           new == [a EXCEPT !.pc = "post"]
<1>1. CASE Errs(b) BY <1>1, ErrsOK DEF IInv
<1>2. CASE /\ Valid(a.token) /\ HasRole(a.token, WebRole(a.op))
           /\ action' = [action EXCEPT ![b].pc = "post"]
           /\ UNCHANGED form
  <2>1. a \in ActionRecords /\ GoodAction(a) BY Idles DEF IInv, WebOK, Authorize
  <2>2. a.token \in Tokens BY <1>2, <2>1 DEF ActionRecords, Valid
  <2>3. new \in ActionRecords /\ new.pc = "post" /\ new.token = a.token /\ new.op = a.op
        /\ new.form = a.form
    BY <2>1 DEF ActionRecords
  <2>4. a.op = "create" => a.form \in Forms BY <2>1 DEF GoodAction, Authorize
  <2>5. GoodAction(new) BY <1>2, <2>2, <2>3, <2>4 DEF GoodAction, Asks
  <2>6. action' = [action EXCEPT ![b] = new] BY <1>2
  <2>7. action' \in [Browsers -> ActionRecords \cup {Idle}] BY <2>3, <2>6 DEF IInv, WebOK
  <2>8. \A c \in Browsers : GoodAction(action'[c]) BY <2>5, <2>6 DEF IInv, WebOK
  <2> QED BY <1>2, <2>7, <2>8 DEF IInv, WebOK, GoodAction, Asks
<1> QED BY <1>1, <1>2 DEF Authorize

LEMMA PostStep ==
    ASSUME IInv, NEW b \in Browsers, NEW h \in Handlers, Post(b, h)
    PROVE WebOK' /\ ApiOK'
<1> DEFINE a == action[b]
           waiting == [a EXCEPT !.pc = "wait"]
           new == [pc |-> "guard", id |-> a.id, op |-> a.op, browser |-> b,
                   token |-> a.token, form |-> a.form, project |-> NoProject]
<1>1. a \in ActionRecords /\ Asks(a) BY Idles DEF IInv, WebOK, Post, GoodAction
<1>2. /\ waiting \in ActionRecords /\ waiting.pc = "wait" /\ waiting.token = a.token
      /\ waiting.op = a.op /\ waiting.form = a.form
  BY <1>1 DEF ActionRecords
<1>3. GoodAction(waiting) BY <1>1, <1>2 DEF GoodAction, Asks
<1>4. a.id \in Requests /\ a.op \in WebOps /\ a.form \in Forms \cup {NoForm}
  BY <1>1 DEF ActionRecords
<1>5. new \in HandlerRecords BY <1>1, <1>4 DEF HandlerRecords, Asks
<1>6. GoodFrame(new) BY <1>1 DEF GoodFrame, Asks
<1>7. ApiOK' BY <1>5, <1>6, BecomeOK DEF IInv, Post, Become
<1>8. action' = [action EXCEPT ![b] = waiting] /\ UNCHANGED form BY DEF Post
<1>9. action' \in [Browsers -> ActionRecords \cup {Idle}] BY <1>2, <1>8 DEF IInv, WebOK
<1>10. \A c \in Browsers : GoodAction(action'[c]) BY <1>3, <1>8 DEF IInv, WebOK
<1>11. WebOK' BY <1>8, <1>9, <1>10 DEF IInv, WebOK, GoodAction, Asks
<1> QED BY <1>7, <1>11

LEMMA AdmitStep ==
    ASSUME IInv, NEW h \in Handlers, Admit(h)
    PROVE WebOK' /\ ApiOK'
<1> DEFINE f == handler[h]
           new == [f EXCEPT !.pc = "project"]
<1>1. f \in HandlerRecords /\ f # Idle /\ GoodFrame(f)
  BY Idles DEF IInv, ApiOK, Admit
<1>2. CASE /\ f.op = "create" /\ MayChoose(f.token, f.form)
           /\ Become(h, new)
           /\ UNCHANGED <<form, action>>
  <2>1. new \in HandlerRecords /\ new.pc = "project" /\ new.token = f.token
        /\ new.op = f.op /\ new.form = f.form
    BY <1>1, Moves
  <2>2. GoodFrame(new) BY <1>1, <1>2, <2>1 DEF GoodFrame, Asks
  <2> QED BY <1>2, <2>1, <2>2, BecomeOK, WebStays DEF IInv
<1>3. CASE /\ Become(h, Idle)
           /\ IF Awaited(h) THEN Succeeds(f.browser, 0) ELSE UNCHANGED <<form, action>>
  BY <1>3, BecomeOK, WebStays, SucceedsOK DEF IInv
<1> QED BY <1>2, <1>3 DEF Admit, Goto

LEMMA ChooseProjectStep ==
    ASSUME IInv, NEW h \in Handlers, ChooseProject(h)
    PROVE WebOK' /\ ApiOK' /\ TablesOK' /\ FaultsOK'
<1> DEFINE f == handler[h]
           To(p) == [[f EXCEPT !.pc = "release"] EXCEPT !.project = p]
<1>1. f \in HandlerRecords /\ GoodFrame(f) /\ f.op = "create" /\ f.pc = "project"
  BY Idles DEF IInv, ApiOK, ChooseProject, GoodFrame
<1>2. f.form \in Forms /\ MayChoose(f.token, f.form) BY <1>1 DEF GoodFrame, Asks
<1>3. ASSUME NEW p \in ProjectIds, f.token.role = "Admin" \/ f.token.project = p
      PROVE To(p) \in HandlerRecords /\ GoodFrame(To(p))
  <2>1. f \in HandlerRecords BY <1>1
  <2> HIDE DEF f
  <2>2. /\ To(p) \in HandlerRecords /\ To(p).pc = "release" /\ To(p).token = f.token
        /\ To(p).op = f.op /\ To(p).form = f.form /\ To(p).project = p
    BY <2>1, <1>3 DEF HandlerRecords
  <2>3. p # NoProject BY DEF ProjectIds, NoProject
  <2>4. PICK g : g = To(p) OBVIOUS
  <2>5. Inside(f.token, g) BY <1>3, <2>2, <2>3, <2>4, MembersAreInside
  <2>6. GoodFrame(g)
    BY <1>1, <1>2, <2>2, <2>4, <2>5 DEF GoodFrame, Asks
  <2> QED BY <2>2, <2>4, <2>6
<1>4. CASE f.form.project = NoProject
  <2>1. projects + 1 \in ProjectIds /\ projects' = projects + 1
    BY <1>4, BoundsAssumption DEF BoundsAssumption, IInv, TablesOK, ChooseProject, ProjectIds
  <2>2. f.token.role = "Admin" BY <1>2, <1>4 DEF MayChoose
  <2>3. Return(h, To(projects + 1)) BY <1>4 DEF ChooseProject, Goto
  <2>4. WebOK' /\ ApiOK' /\ FaultsOK' BY <1>3, <2>1, <2>2, <2>3, ReturnOK DEF IInv
  <2>5. TablesOK'
    BY <2>1, BoundsAssumption
    DEF BoundsAssumption, IInv, TablesOK, ChooseProject, ProjectIds, CreatedInside
  <2> QED BY <2>4, <2>5
<1>5. CASE f.form.project # NoProject
  <2>1. f.form.project \in ProjectIds BY <1>2, <1>5 DEF Forms
  <2>2. f.token.role = "Admin" \/ f.token.project = f.form.project
    BY <1>2, <1>5 DEF MayChoose, Opens
  <2>3. /\ Become(h, To(f.form.project)) /\ UNCHANGED <<form, action, projects, faults>>
        /\ UNCHANGED <<releases, audits>>
    BY <1>5 DEF ChooseProject, Goto
  <2>4. ApiOK' BY <1>3, <2>1, <2>2, <2>3, BecomeOK DEF IInv
  <2> QED BY <2>3, <2>4, WebStays, FaultsStay, TablesStay DEF IInv, tables
<1> QED BY <1>4, <1>5

LEMMA InsertReleaseStep ==
    ASSUME IInv, NEW h \in Handlers, InsertRelease(h)
    PROVE WebOK' /\ ApiOK' /\ TablesOK' /\ FaultsOK'
<1> DEFINE f == handler[h]
           new == [f EXCEPT !.pc = "audit"]
           release == [id |-> f.id, project |-> f.project, by |-> f.token, form |-> f.form.id]
<1>1. f \in HandlerRecords /\ GoodFrame(f) /\ f.pc = "release"
  BY Idles DEF IInv, ApiOK, InsertRelease
<1>2. /\ f.op = "create" /\ f.form \in Forms /\ f.token \in Tokens
      /\ f.project \in ProjectIds /\ Inside(f.token, f)
  BY <1>1 DEF GoodFrame, Asks
<1>3. release \in ReleaseRecords BY <1>1, <1>2 DEF ReleaseRecords, HandlerRecords, Forms
<1>4. releases' = releases \cup {release} /\ UNCHANGED <<projects, audits>>
  BY DEF InsertRelease
<1>5. CreatedInside'
  <2>1. release.by = f.token /\ release.project = f.project OBVIOUS
  <2> HIDE DEF release
  <2>2. Inside(release.by, release)
    BY <1>2, <2>1 DEF Inside, Listed, OpensRelease, Opens
  <2>3. ASSUME NEW r \in releases' PROVE Inside(r.by, r)
    BY <1>4, <2>2, <2>3 DEF IInv, TablesOK, CreatedInside
  <2> QED BY <2>3 DEF CreatedInside, Inside, Listed, OpensRelease, Opens
<1>6. TablesOK' BY <1>3, <1>4, <1>5 DEF IInv, TablesOK
<1>7. /\ new \in HandlerRecords /\ new.pc = "audit" /\ new.token = f.token
      /\ new.op = f.op /\ new.form = f.form /\ new.project = f.project
  BY <1>1, Moves
<1>8. GoodFrame(new)
  <2> HIDE DEF new
  <2>1. Inside(f.token, new) BY <1>2, <1>7, InsideAlike
  <2> QED BY <1>1, <1>7, <2>1 DEF GoodFrame, Asks
<1>9. WebOK' /\ ApiOK' /\ FaultsOK' BY <1>7, <1>8, ReturnOK DEF IInv, InsertRelease, Goto
<1> QED BY <1>6, <1>9

LEMMA AppendAuditStep ==
    ASSUME IInv, NEW h \in Handlers, AppendAudit(h)
    PROVE WebOK' /\ ApiOK' /\ TablesOK' /\ FaultsOK'
<1> DEFINE f == handler[h]
           new == [f EXCEPT !.pc = "read"]
<1>1. f \in HandlerRecords /\ GoodFrame(f) /\ f.pc = "audit"
  BY Idles DEF IInv, ApiOK, AppendAudit
<1>2. f.id \in Requests BY <1>1 DEF HandlerRecords
<1>3. TablesOK' BY <1>2 DEF IInv, TablesOK, AppendAudit, CreatedInside
<1>4. /\ new \in HandlerRecords /\ new.pc = "read" /\ new.token = f.token
      /\ new.op = f.op /\ new.form = f.form /\ new.project = f.project
  BY <1>1, Moves
<1>5. GoodFrame(new)
  <2> HIDE DEF new
  <2>1. Inside(f.token, f) BY <1>1 DEF GoodFrame
  <2>2. Inside(f.token, new) BY <1>4, <2>1, InsideAlike
  <2> QED BY <1>1, <1>4, <2>2 DEF GoodFrame, Asks
<1>6. WebOK' /\ ApiOK' /\ FaultsOK' BY <1>4, <1>5, ReturnOK DEF IInv, AppendAudit, Goto
<1> QED BY <1>3, <1>6

LEMMA CrashStep ==
    ASSUME IInv, Crash
    PROVE WebOK' /\ ApiOK' /\ FaultsOK'
<1>1. ApiOK' BY DEF Crash, ApiOK
<1>2. action' \in [Browsers -> ActionRecords \cup {Idle}] BY DEF IInv, WebOK, Crash
<1>3. \A c \in Browsers : GoodAction(action'[c]) BY Idles DEF IInv, WebOK, Crash
<1>4. WebOK' BY <1>2, <1>3 DEF IInv, WebOK, Crash, GoodAction, Asks
<1> QED BY <1>1, <1>4 DEF IInv, FaultsOK, Crash

-----------------------------------------------------------------------------
(* The invariant                                                           *)

LEMMA Initially == Init => IInv
<1> SUFFICES ASSUME Init PROVE IInv OBVIOUS
<1>1. now \in 0 .. MaxTime BY BoundsAssumption DEF BoundsAssumption, Init
<1>2. SessionOK /\ CountsOK /\ ApiOK /\ FaultsOK
  BY DEF Init, SessionOK, CountsOK, ApiOK, FaultsOK
<1>3. WebOK BY Idles DEF Init, WebOK
<1>4. TablesOK
  BY BoundsAssumption DEF BoundsAssumption, Init, TablesOK, CreatedInside
<1> QED BY <1>1, <1>2, <1>3, <1>4 DEF IInv

LEMMA Inductive == IInv /\ [Next]_vars => IInv'
<1> SUFFICES ASSUME IInv, [Next]_vars PROVE IInv' OBVIOUS
<1> USE DEF IInv
<1>1. CASE UNCHANGED vars
  BY <1>1, WebStays, ApiStays, SessionStays, TablesStay, FaultsStay
  DEF vars, web, faults, CountsOK
<1>2. ASSUME NEW b \in Browsers, Login(b) PROVE IInv'
  BY <1>2, LoginStep, WebStays, ApiStays, TablesStay, FaultsStay DEF Login, web, CountsOK
<1>3. ASSUME NEW b \in Browsers, SetCookie(b) PROVE IInv'
  BY <1>3, SetCookieStep, WebStays, ApiStays, TablesStay, FaultsStay
  DEF SetCookie, web, CountsOK
<1>4. ASSUME NEW b \in Browsers, Logout(b) PROVE IInv'
  <2>1. SessionOK' BY <1>4 DEF Logout, SessionOK
  <2> QED BY <1>4, <2>1, WebStays, ApiStays, TablesStay, FaultsStay DEF Logout, web, CountsOK
<1>5. ASSUME NEW b \in Browsers, OpenForm(b) PROVE IInv'
  BY <1>5, OpenFormStep, ApiStays, SessionStays, TablesStay, FaultsStay DEF OpenForm
<1>6. ASSUME NEW b \in Browsers, NEW op \in Ops, Press(b, op) PROVE IInv'
  BY <1>6, PressStep, ApiStays, SessionStays, TablesStay, FaultsStay DEF Press
<1>7. ASSUME NEW b \in Browsers, Authorize(b) PROVE IInv'
  BY <1>7, AuthorizeStep, ApiStays, SessionStays, TablesStay, FaultsStay
  DEF Authorize, CountsOK
<1>8. ASSUME NEW b \in Browsers, Timeout(b) PROVE IInv'
  BY <1>8, ErrsOK, ApiStays, SessionStays, TablesStay, FaultsStay DEF Timeout, CountsOK
<1>9. ASSUME NEW b \in Browsers, NEW h \in Handlers, Post(b, h) PROVE IInv'
  BY <1>9, PostStep, SessionStays, TablesStay, FaultsStay DEF Post, CountsOK
<1>10. ASSUME NEW h \in Handlers, Refuse(h) PROVE IInv'
  BY <1>10, AnswerOK, SessionStays, TablesStay, FaultsStay DEF Refuse, CountsOK
<1>11. ASSUME NEW h \in Handlers, Admit(h) PROVE IInv'
  BY <1>11, AdmitStep, SessionStays, TablesStay, FaultsStay DEF Admit, CountsOK
<1>12. ASSUME NEW h \in Handlers, ChooseProject(h) PROVE IInv'
  BY <1>12, ChooseProjectStep, SessionStays DEF ChooseProject, CountsOK
<1>13. ASSUME NEW h \in Handlers, InsertRelease(h) PROVE IInv'
  BY <1>13, InsertReleaseStep, SessionStays DEF InsertRelease, CountsOK
<1>14. ASSUME NEW h \in Handlers, AppendAudit(h) PROVE IInv'
  BY <1>14, AppendAuditStep, SessionStays DEF AppendAudit, CountsOK
<1>15. ASSUME NEW h \in Handlers, ReadBack(h) PROVE IInv'
  BY <1>15, AnswerOK, FaultOK, SessionStays, TablesStay, FaultsStay DEF ReadBack, CountsOK
<1>16. ASSUME NEW h \in Handlers, Throw(h) PROVE IInv'
  BY <1>16, AnswerOK, FaultOK, SessionStays, TablesStay DEF Throw, CountsOK
<1>17. CASE Crash
  BY <1>17, CrashStep, SessionStays, TablesStay DEF Crash, CountsOK
<1>18. CASE Tick
  <2>1. now' \in 0 .. MaxTime BY <1>18, BoundsAssumption DEF BoundsAssumption, Tick
  <2> QED
    BY <1>18, <2>1, WebStays, ApiStays, SessionStays, TablesStay, FaultsStay
    DEF Tick, web, CountsOK
<1> QED
  BY <1>1, <1>2, <1>3, <1>4, <1>5, <1>6, <1>7, <1>8, <1>9, <1>10, <1>11, <1>12, <1>13,
     <1>14, <1>15, <1>16, <1>17, <1>18
  DEF Next

-----------------------------------------------------------------------------
(* What it gives                                                           *)

LEMMA Typed == IInv => TypeOK
BY DEF IInv, TypeOK, SessionOK, WebOK, CountsOK, ApiOK, TablesOK, FaultsOK

LEMMA ListsAgree == IInv => ListsWhatOpens
<1> SUFFICES ASSUME IInv, NEW b \in Browsers, NEW r \in releases,
                    NEW token, token = CookieOf(b), token # NoToken
             PROVE  /\ OpensRelease(token, r) => Listed(token, r)
                    /\ token.written = "small" /\ Listed(token, r) => OpensRelease(token, r)
  BY DEF ListsWhatOpens
<1>1. r.project \in ProjectIds /\ r.project # NoProject
  BY DEF IInv, TablesOK, ReleaseRecords, ProjectIds, NoProject
<1> QED BY <1>1 DEF Listed, OpensRelease, Opens

LEMMA GuardAgrees == IInv => TablesAgree
<1> SUFFICES ASSUME IInv, NEW h \in Handlers, handler[h] # Idle
             PROVE ApiAllows(handler[h].token, handler[h].op)
  BY DEF TablesAgree
<1>1. handler[h] \in HandlerRecords /\ GoodFrame(handler[h]) BY DEF IInv, ApiOK
<1>2. handler[h].op \in WebOps BY <1>1 DEF HandlerRecords
<1> QED BY <1>1, <1>2, RolesAgree DEF GoodFrame, Asks

LEMMA Consequences == IInv => CreatedInside /\ ChecksAgree
BY ListsAgree, GuardAgrees DEF IInv, TablesOK, ChecksAgree

\* The tokens, forms and projects stay together on every way through the web
\* server and the API: the invariant the theorems below follow from.
THEOREM Invariance == Spec => []IInv
BY Initially, Inductive, PTL DEF Spec

\* The variables keep their types: in particular no cookie or token lives longer
\* than one lifetime from now, and no release lacks a project or a form.
THEOREM TypeCorrect == Spec => []TypeOK
BY Invariance, Typed, PTL

\* For any number of browsers, sessions, stale forms and crashes, the release
\* that createRelease makes of a form is on its creator's list, and open to a
\* creator whose session writes the project in small letters.
THEOREM InsideCreated == Spec => []CreatedInside
BY Invariance, Consequences, PTL

\* The four places that look at rights, two in the web server and two in the
\* API, agree for every session and at any time, but for the spelling of a
\* project id: a session opens what it lists unless it writes the id with other
\* letters than the database, and lists all it opens.
THEOREM ChecksAgreeAlways == Spec => []ChecksAgree
BY Invariance, Consequences, PTL

-----------------------------------------------------------------------------
(* What is paid for.  HalfDoneIsPaidFor and DuplicatesArePaidFor count, and   *)
(* counting needs to know what belongs together: which request is whose       *)
(* (Numbered, Distinct, Linked) and how far it has got in the tables          *)
(* (ProgressOK).                                                              *)

Working == {h \in Handlers : handler[h] # Idle}
Busy == {b \in Browsers : action[b] # Idle}
ReleaseIds == {r.id : r \in releases}

Numbered ==
    /\ \A b \in Busy : action[b].id <= presses
    /\ \A h \in Working : handler[h].id <= presses /\ handler[h].form.id <= forms
    /\ \A r \in releases : r.id <= presses /\ r.form <= forms
    /\ \A b \in Browsers : form[b].id <= forms

Distinct ==
    /\ \A b, c \in Busy : action[b].id = action[c].id => b = c
    /\ \A g, h \in Working : handler[g].id = handler[h].id => g = h
    /\ \A r, s \in releases : r.id = s.id => r = s
    /\ \A b, c \in Browsers : form[b] # NoForm /\ form[b].id = form[c].id => b = c

\* A server action waits for one request and for no other; the form it sends
\* stays on the screen.
Linked ==
    /\ \A b \in Busy : action[b].pc \in {"authorize", "post"} =>
            action[b].id \notin ReleaseIds /\ \A h \in Working : handler[h].id # action[b].id
    /\ \A b \in Busy : action[b].pc = "wait" => \E h \in Working : handler[h].id = action[b].id
    /\ \A b \in Busy, h \in Working : handler[h].id = action[b].id =>
            handler[h].browser = b /\ handler[h].form = action[b].form
    /\ \A b \in Busy : action[b].form = IF action[b].op = "create" THEN form[b] ELSE NoForm

\* What the tables hold of a request, by its step.
Progressed(f) ==
    /\ f.pc \in {"guard", "project"} => f.project = NoProject
    /\ f.pc \in {"guard", "project", "release"} => f.id \notin ReleaseIds
    /\ f.pc \in {"audit", "read"} =>
            \E r \in releases : r.id = f.id /\ r.project = f.project /\ r.form = f.form.id
    /\ f.pc = "read" => f.id \in audits

ProgressOK == \A h \in Working : Progressed(handler[h])

\* Requests that have made a release, or still may.
Creating == {h \in Working : handler[h].op = "create"}
Live == ReleaseIds \cup {handler[h].id : h \in Creating}
Current == {action[b].id : b \in Busy}

\* Forms that are off the screen with a release made of them.
Closed == {k \in {r.form : r \in releases} : \A b \in Browsers : form[b].id # k}

\* A request that may make a release and that nobody waits for is the one its
\* form was left for, or it is paid for.
StraysArePaidFor ==
    Cardinality(Live \ Current) <= Cardinality(Closed) + givenUp + Losses

LinkInv == Numbered /\ Distinct /\ Linked /\ ProgressOK
PaidInv == HalfDoneIsPaidFor /\ StraysArePaidFor

\* What the parts of the state are made of.
LEMMA Shape ==
    ASSUME IInv
    PROVE  /\ handler \in [Handlers -> HandlerRecords \cup {Idle}]
           /\ action \in [Browsers -> ActionRecords \cup {Idle}]
           /\ form \in [Browsers -> Forms \cup {NoForm}]
           /\ releases \subseteq ReleaseRecords
           /\ \A h \in Working : handler[h] \in HandlerRecords /\ GoodFrame(handler[h])
           /\ \A b \in Busy : action[b] \in ActionRecords /\ GoodAction(action[b])
           /\ {forms, presses, givenUp, failures, crashes} \subseteq Nat
           /\ projects \in Nat
BY BoundsAssumption
DEF BoundsAssumption, IInv, ApiOK, WebOK, CountsOK, TablesOK, FaultsOK, Working, Busy

-----------------------------------------------------------------------------
(* What a step of the API does to the request it is about                  *)

\* The request is over, and with it the server action that waits for it.
Over(h) ==
    /\ Become(h, Idle)
    /\ \/ ~ Awaited(h) /\ UNCHANGED <<form, action>>
       \/ /\ Awaited(h)
          /\ action' = [action EXCEPT ![handler[h].browser] = Idle]
          /\ form' = form \/ form' = [form EXCEPT ![handler[h].browser] = NoForm]

\* It goes on, the same request.
GoesOn(h) ==
    /\ handler' = [handler EXCEPT ![h] = handler'[h]]
    /\ handler'[h] # Idle /\ handler'[h].id = handler[h].id /\ handler'[h].op = handler[h].op
    /\ handler'[h].browser = handler[h].browser /\ handler'[h].form = handler[h].form
    /\ UNCHANGED <<form, action>>

ReleaseOf(h) ==
    [id |-> handler[h].id, project |-> handler[h].project,
     by |-> handler[h].token, form |-> handler[h].form.id]

Effect(h) ==
    /\ h \in Working
    /\ Over(h) \/ GoesOn(h)
    /\ \/ releases' = releases
       \/ handler[h].pc = "release" /\ releases' = releases \cup {ReleaseOf(h)}
    /\ audits \subseteq audits'
    /\ UNCHANGED <<forms, presses, givenUp>>

LEMMA AnswerEnds ==
    ASSUME IInv, NEW h \in Handlers, NEW release, Answer(h, release)
    PROVE  Over(h)
<1>1. form \in [Browsers -> Forms \cup {NoForm}] BY Shape
<1>2. ASSUME NEW b, Succeeds(b, release)
      PROVE  form' = form \/ form' = [form EXCEPT ![b] = NoForm]
  BY <1>1, <1>2 DEF Succeeds
<1> QED BY <1>2 DEF Answer, Errs, Succeeds, Over

LEMMA MoveGoesOn ==
    ASSUME IInv, NEW h \in Working, NEW f \in HandlerRecords, Become(h, f),
           f.id = handler[h].id, f.op = handler[h].op, f.browser = handler[h].browser,
           f.form = handler[h].form, UNCHANGED <<form, action>>
    PROVE  GoesOn(h) /\ handler'[h] = f
<1>1. handler'[h] = f BY Shape DEF Become, Working
<1>2. f # Idle BY Idles
<1> QED BY <1>1, <1>2 DEF GoesOn, Become

\* A step of the API that only moves on, or fails on its way.
Steps(h, f) == GoesOn(h) /\ handler'[h] = f /\ UNCHANGED faults

LEMMA ReturnEffect ==
    ASSUME IInv, NEW h \in Working, NEW f \in HandlerRecords, Return(h, f),
           f.id = handler[h].id, f.op = handler[h].op, f.browser = handler[h].browser,
           f.form = handler[h].form
    PROVE  Steps(h, f) \/ (Over(h) /\ Fault("lostReply"))
<1>1. h \in Handlers BY DEF Working
<1>2. CASE Become(h, f) /\ UNCHANGED <<form, action, faults>>
  BY <1>2, MoveGoesOn DEF Steps
<1>3. CASE Answer(h, 0) /\ Fault("lostReply")
  BY <1>1, <1>3, AnswerEnds
<1> QED BY <1>2, <1>3 DEF Return

\* The request h with its step and its project replaced.
LEMMA Chosen ==
    ASSUME NEW f \in HandlerRecords, NEW p \in ProjectIds \cup {NoProject}
    PROVE LET g == [[f EXCEPT !.pc = "release"] EXCEPT !.project = p] IN
          /\ g \in HandlerRecords /\ g.pc = "release" /\ g.project = p
          /\ g.id = f.id /\ g.op = f.op /\ g.browser = f.browser /\ g.form = f.form
BY DEF HandlerRecords

Failed == failures' = failures + 1 /\ UNCHANGED crashes

\* A request that is over before it had any effect, or after its last one.
NothingLost(h) == Over(h) /\ UNCHANGED <<tables, faults>>

LEMMA ApiSteps ==
    ASSUME IInv, NEW h \in Handlers
    PROVE  /\ Refuse(h) => Effect(h) /\ handler[h].pc = "guard" /\ NothingLost(h)
           /\ Admit(h) => /\ Effect(h) /\ handler[h].pc = "guard" /\ UNCHANGED <<tables, faults>>
                          /\ \/ Over(h)
                             \/ Steps(h, Goto(h, "project"))
           /\ ReadBack(h) => /\ Effect(h) /\ handler[h].pc = "read" /\ UNCHANGED tables
                             /\ \/ NothingLost(h)
                                \/ Over(h) /\ Failed
           /\ Throw(h) => Effect(h) /\ UNCHANGED tables /\ Over(h) /\ Failed
<1>1. h \in Working <=> handler[h] # Idle BY DEF Working
<1>2. ASSUME handler[h].pc \in {"guard", "project", "release", "audit", "read"}
      PROVE  h \in Working
  BY <1>1, <1>2, Shape, Idles
<1>3. ASSUME Refuse(h) PROVE Effect(h) /\ handler[h].pc = "guard" /\ NothingLost(h)
  <2>1. Over(h) /\ h \in Working BY <1>1, <1>3, AnswerEnds DEF Refuse
  <2> QED BY <1>3, <2>1 DEF Refuse, Refuses, Effect, NothingLost, tables
<1>4. ASSUME Admit(h)
      PROVE  /\ Effect(h) /\ handler[h].pc = "guard" /\ UNCHANGED <<tables, faults>>
             /\ Over(h) \/ Steps(h, Goto(h, "project"))
  <2>1. h \in Working /\ handler[h] \in HandlerRecords BY <1>2, <1>4, Shape DEF Admit
  <2>2. form \in [Browsers -> Forms \cup {NoForm}] BY Shape
  <2>3. CASE Become(h, Goto(h, "project")) /\ UNCHANGED <<form, action>>
    <3>1. /\ Goto(h, "project") \in HandlerRecords /\ Goto(h, "project").id = handler[h].id
          /\ Goto(h, "project").op = handler[h].op
          /\ Goto(h, "project").browser = handler[h].browser
          /\ Goto(h, "project").form = handler[h].form
      BY <2>1, Moves DEF Goto
    <3>2. GoesOn(h) /\ handler'[h] = Goto(h, "project") BY <2>1, <2>3, <3>1, MoveGoesOn
    <3> QED BY <1>4, <2>1, <3>2 DEF Admit, Effect, Steps, tables
  <2>4. CASE /\ Become(h, Idle)
             /\ IF Awaited(h) THEN Succeeds(handler[h].browser, 0) ELSE UNCHANGED <<form, action>>
    <3>1. Over(h) BY <2>2, <2>4 DEF Over, Succeeds
    <3> QED BY <1>4, <2>1, <3>1 DEF Admit, Effect, tables
  <2> QED BY <1>4, <2>3, <2>4 DEF Admit
<1>5. ASSUME ReadBack(h)
      PROVE  /\ Effect(h) /\ handler[h].pc = "read" /\ UNCHANGED tables
             /\ NothingLost(h) \/ (Over(h) /\ Failed)
  <2>1. h \in Working BY <1>2, <1>5 DEF ReadBack
  <2>2. Over(h) /\ (UNCHANGED faults \/ Failed)
    BY <1>5, AnswerEnds DEF ReadBack, Fault, Failed
  <2> QED BY <1>5, <2>1, <2>2 DEF ReadBack, Effect, NothingLost, tables
<1>6. ASSUME Throw(h) PROVE Effect(h) /\ UNCHANGED tables /\ Over(h) /\ Failed
  <2>1. h \in Working BY <1>2, <1>6 DEF Throw
  <2>2. Over(h) /\ Failed BY <1>6, AnswerEnds DEF Throw, Fault, Failed
  <2> QED BY <1>6, <2>1, <2>2 DEF Throw, Effect, tables
<1> QED BY <1>3, <1>4, <1>5, <1>6

\* The three calls that change a table.
LEMMA TableSteps ==
    ASSUME IInv, NEW h \in Handlers
    PROVE  /\ ChooseProject(h) =>
                /\ Effect(h) /\ handler[h].pc = "project" /\ UNCHANGED <<releases, audits>>
                /\ \E p \in ProjectIds :
                    /\ \/ projects' = projects
                       \/ projects' = projects + 1 /\ p = projects + 1
                    /\ \/ Steps(h, [Goto(h, "release") EXCEPT !.project = p])
                       \/ Over(h) /\ Failed
           /\ InsertRelease(h) =>
                /\ Effect(h) /\ handler[h].pc = "release" /\ UNCHANGED <<projects, audits>>
                /\ releases' = releases \cup {ReleaseOf(h)}
                /\ Steps(h, Goto(h, "audit")) \/ (Over(h) /\ Failed)
           /\ AppendAudit(h) =>
                /\ Effect(h) /\ handler[h].pc = "audit" /\ UNCHANGED <<projects, releases>>
                /\ audits' = audits \cup {handler[h].id}
                /\ Steps(h, Goto(h, "read")) \/ (Over(h) /\ Failed)
<1> DEFINE f == handler[h]
<1>1. ASSUME f.pc \in {"project", "release", "audit"}
      PROVE  h \in Working /\ f \in HandlerRecords /\ GoodFrame(f)
  BY <1>1, Shape, Idles DEF Working
<1>2. ASSUME NEW pc \in {"audit", "read"}, f.pc \in {"release", "audit"}, Return(h, Goto(h, pc))
      PROVE  Steps(h, Goto(h, pc)) \/ (Over(h) /\ Failed)
  <2>1. h \in Working /\ f \in HandlerRecords BY <1>1, <1>2
  <2>2. PICK g : g = handler[h] OBVIOUS
  <2>3. g \in HandlerRecords /\ pc \in {"guard", "project", "release", "audit", "read"}
    BY <2>1, <2>2
  <2>4. /\ Goto(h, pc) \in HandlerRecords /\ Goto(h, pc).id = f.id /\ Goto(h, pc).op = f.op
        /\ Goto(h, pc).browser = f.browser /\ Goto(h, pc).form = f.form
    <3>1. Goto(h, pc) = [g EXCEPT !.pc = pc] BY <2>2 DEF Goto
    <3>2. /\ [g EXCEPT !.pc = pc] \in HandlerRecords
          /\ [g EXCEPT !.pc = pc].id = g.id /\ [g EXCEPT !.pc = pc].op = g.op
          /\ [g EXCEPT !.pc = pc].browser = g.browser /\ [g EXCEPT !.pc = pc].form = g.form
      BY <2>3, Moves
    <3> QED BY <2>2, <3>1, <3>2
  <2> QED BY <1>2, <2>1, <2>4, ReturnEffect DEF Fault, Failed
<1>3. ASSUME ChooseProject(h)
      PROVE  /\ Effect(h) /\ f.pc = "project" /\ UNCHANGED <<releases, audits>>
             /\ \E p \in ProjectIds :
                 /\ \/ projects' = projects
                    \/ projects' = projects + 1 /\ p = projects + 1
                 /\ \/ Steps(h, [Goto(h, "release") EXCEPT !.project = p])
                    \/ Over(h) /\ Failed
  <2> DEFINE To(p) == [[f EXCEPT !.pc = "release"] EXCEPT !.project = p]
  <2>1. h \in Working /\ f \in HandlerRecords /\ GoodFrame(f) /\ f.pc = "project"
    BY <1>1, <1>3 DEF ChooseProject
  <2>2. ASSUME NEW p \in ProjectIds
        PROVE  /\ To(p) \in HandlerRecords /\ To(p).id = f.id /\ To(p).op = f.op
               /\ To(p).browser = f.browser /\ To(p).form = f.form
               /\ To(p) = [Goto(h, "release") EXCEPT !.project = p]
    BY <2>1, <2>2, Chosen DEF Goto
  <2> HIDE DEF To
  <2>3. CASE f.form.project = NoProject
    <3>1. projects + 1 \in ProjectIds
      BY <1>3, <2>3, Shape, BoundsAssumption DEF BoundsAssumption, ChooseProject, ProjectIds
    <3>2. projects' = projects + 1 /\ Return(h, To(projects + 1))
      BY <1>3, <2>2, <2>3, <3>1 DEF ChooseProject
    <3>3. PICK p \in ProjectIds : p = projects + 1 BY <3>1
    <3>4. Return(h, To(p)) BY <3>2, <3>3
    <3>5. Steps(h, To(p)) \/ (Over(h) /\ Failed)
      BY <2>1, <2>2, <3>4, ReturnEffect DEF Fault, Failed
    <3> QED BY <1>3, <2>1, <2>2, <3>2, <3>3, <3>5 DEF ChooseProject, Effect, Steps
  <2>4. CASE f.form.project # NoProject
    <3>1. PICK p \in ProjectIds : p = f.form.project
      <4>1. f.form \in Forms BY <2>1 DEF GoodFrame, Asks
      <4> QED BY <2>4, <4>1 DEF Forms
    <3>2. Become(h, To(p)) /\ UNCHANGED <<form, action, projects, faults>>
      BY <1>3, <2>2, <2>4, <3>1 DEF ChooseProject
    <3>3. Steps(h, To(p)) BY <2>1, <2>2, <3>2, MoveGoesOn DEF Steps
    <3> QED BY <1>3, <2>1, <2>2, <3>2, <3>3 DEF ChooseProject, Effect, Steps
  <2> QED BY <2>3, <2>4
<1>4. ASSUME InsertRelease(h)
      PROVE  /\ Effect(h) /\ f.pc = "release" /\ UNCHANGED <<projects, audits>>
             /\ releases' = releases \cup {ReleaseOf(h)}
             /\ Steps(h, Goto(h, "audit")) \/ (Over(h) /\ Failed)
  <2>1. h \in Working /\ f.pc = "release" BY <1>1, <1>4 DEF InsertRelease
  <2>2. Steps(h, Goto(h, "audit")) \/ (Over(h) /\ Failed) BY <1>2, <1>4 DEF InsertRelease
  <2>3. releases' = releases \cup {ReleaseOf(h)} BY <1>4 DEF InsertRelease, ReleaseOf
  <2> QED BY <1>4, <2>1, <2>2, <2>3 DEF InsertRelease, Effect, Steps
<1>5. ASSUME AppendAudit(h)
      PROVE  /\ Effect(h) /\ f.pc = "audit" /\ UNCHANGED <<projects, releases>>
             /\ audits' = audits \cup {f.id}
             /\ Steps(h, Goto(h, "read")) \/ (Over(h) /\ Failed)
  <2>1. h \in Working /\ f.pc = "audit" BY <1>1, <1>5 DEF AppendAudit
  <2>2. Steps(h, Goto(h, "read")) \/ (Over(h) /\ Failed) BY <1>2, <1>5 DEF AppendAudit
  <2> QED BY <1>5, <2>1, <2>2 DEF AppendAudit, Effect, Steps
<1> QED BY <1>3, <1>4, <1>5

-----------------------------------------------------------------------------
(* Requests stay linked to what they come from and lead to.                *)

\* What a step of the API leaves of the requests, the actions and the forms.
LEMMA EffectLeaves ==
    ASSUME IInv, NEW h \in Handlers, Effect(h)
    PROVE  /\ \A g \in Working' :
                /\ g \in Working /\ handler'[g].id = handler[g].id
                /\ handler'[g].op = handler[g].op
                /\ handler'[g].browser = handler[g].browser /\ handler'[g].form = handler[g].form
                /\ g # h => handler'[g] = handler[g]
           /\ \A g \in Working : g # h => g \in Working'
           /\ \A b \in Busy' : b \in Busy /\ action'[b] = action[b] /\ form'[b] = form[b]
           /\ \A b \in Busy : b \in Busy' \/ (Awaited(h) /\ Over(h) /\ b = handler[h].browser)
           /\ \A b \in Browsers : form'[b] = form[b] \/ form'[b] = NoForm
           /\ \A r \in releases' :
                r \in releases \/ (r = ReleaseOf(h) /\ handler[h].pc = "release")
           /\ releases \subseteq releases'
<1>1. /\ handler \in [Handlers -> HandlerRecords \cup {Idle}]
      /\ action \in [Browsers -> ActionRecords \cup {Idle}]
      /\ form \in [Browsers -> Forms \cup {NoForm}]
  BY Shape
<1>2. h \in Working BY DEF Effect
<1>3. CASE GoesOn(h)
  BY <1>1, <1>2, <1>3 DEF Effect, GoesOn, Working, Busy
<1>4. CASE Over(h)
  <2>1. handler' = [handler EXCEPT ![h] = Idle] BY <1>4 DEF Over, Become
  <2>2. /\ \A g \in Working' : g \in Working /\ g # h /\ handler'[g] = handler[g]
        /\ \A g \in Working : g # h => g \in Working'
    BY <1>1, <2>1 DEF Working
  <2>3. CASE UNCHANGED <<form, action>>
    BY <2>2, <2>3 DEF Effect, Busy
  <2>4. CASE /\ Awaited(h)
             /\ action' = [action EXCEPT ![handler[h].browser] = Idle]
             /\ form' = form \/ form' = [form EXCEPT ![handler[h].browser] = NoForm]
    BY <1>1, <1>4, <2>2, <2>4 DEF Effect, Busy
  <2> QED BY <1>4, <2>3, <2>4 DEF Over
<1> QED BY <1>3, <1>4 DEF Effect

\* The release that is inserted is the first of its request.
LEMMA Inserted ==
    ASSUME IInv, LinkInv, NEW h \in Handlers, Effect(h), handler[h].pc = "release"
    PROVE  /\ ReleaseOf(h).id = handler[h].id /\ ReleaseOf(h).form = handler[h].form.id
           /\ ReleaseOf(h).project = handler[h].project
           /\ handler[h].id \notin ReleaseIds
BY DEF Effect, ReleaseOf, LinkInv, ProgressOK, Progressed

LEMMA EffectLinks ==
    ASSUME IInv, LinkInv, NEW h \in Handlers, Effect(h)
    PROVE  Numbered' /\ Distinct' /\ Linked'
<1>0. h \in Working /\ UNCHANGED <<forms, presses>> BY DEF Effect
<1>1. /\ \A g \in Working' :
            /\ g \in Working /\ handler'[g].id = handler[g].id
            /\ handler'[g].browser = handler[g].browser /\ handler'[g].form = handler[g].form
      /\ \A g \in Working : g # h => g \in Working'
  BY EffectLeaves
<1>2. \A b \in Busy' : b \in Busy /\ action'[b] = action[b] /\ form'[b] = form[b]
  BY EffectLeaves
<1>3. \A b \in Browsers : form'[b] = form[b] \/ form'[b] = NoForm
  BY EffectLeaves
<1>4. \A r \in releases' :
        r \in releases \/ (/\ r = ReleaseOf(h) /\ r.id = handler[h].id
                           /\ r.form = handler[h].form.id /\ handler[h].id \notin ReleaseIds)
  BY EffectLeaves, Inserted
<1>5. Numbered'
  <2>1. \A b \in Browsers : form'[b].id <= forms
    BY <1>3, Shape DEF LinkInv, Numbered, NoForm
  <2>2. \A r \in releases' : r.id <= presses /\ r.form <= forms
    BY <1>0, <1>4 DEF LinkInv, Numbered
  <2> QED BY <1>0, <1>1, <1>2, <2>1, <2>2 DEF LinkInv, Numbered
<1>6. Distinct'
  <2>1. \A r, s \in releases' : r.id = s.id => r = s
    BY <1>4 DEF LinkInv, Distinct, ReleaseIds
  <2>2. \A b, c \in Browsers : form'[b] # NoForm /\ form'[b].id = form'[c].id => b = c
    <3> SUFFICES ASSUME NEW b \in Browsers, NEW c \in Browsers, form'[b] # NoForm,
                        form'[b].id = form'[c].id
                 PROVE  b = c
      OBVIOUS
    <3>1. form'[b] = form[b] /\ form[b] \in Forms BY <1>3, Shape
    <3>2. form[b].id # NoForm.id BY <3>1 DEF Forms, NoForm
    <3>3. form'[c] = form[c] BY <1>3, <3>1, <3>2
    <3> QED BY <3>1, <3>3 DEF LinkInv, Distinct
  <2> QED BY <1>1, <1>2, <2>1, <2>2 DEF LinkInv, Distinct
<1>7. Linked'
  <2>1. ASSUME NEW b \in Busy', action'[b].pc \in {"authorize", "post"}
        PROVE  action'[b].id \notin ReleaseIds' /\ \A g \in Working' : handler'[g].id # action'[b].id
    <3>1. /\ action[b].id \notin ReleaseIds
          /\ \A g \in Working : handler[g].id # action[b].id
      BY <1>2, <2>1 DEF LinkInv, Linked
    <3>2. \A r \in releases' : r.id # action[b].id BY <1>0, <1>4, <3>1 DEF ReleaseIds
    <3> QED BY <1>1, <1>2, <2>1, <3>1, <3>2 DEF ReleaseIds
  <2>2. ASSUME NEW b \in Busy', action'[b].pc = "wait"
        PROVE  \E g \in Working' : handler'[g].id = action'[b].id
    <3>1. b \in Busy /\ action'[b] = action[b] /\ action[b].pc = "wait" BY <1>2, <2>2
    <3>2. PICK g \in Working : handler[g].id = action[b].id BY <3>1 DEF LinkInv, Linked
    <3>3. g \in Working'
      <4>1. CASE g # h BY <1>1, <4>1
      <4>2. CASE g = h
        <5>1. handler[h].browser = b BY <3>1, <3>2, <4>2 DEF LinkInv, Linked
        <5>2. Awaited(h) BY <3>1, <3>2, <4>2, <5>1 DEF Awaited
        <5>3. ~ Over(h)
          <6>1. action \in [Browsers -> ActionRecords \cup {Idle}] BY Shape
          <6> QED BY <2>2, <5>1, <5>2, <6>1 DEF Over, Busy
        <5>4. GoesOn(h) BY <5>3 DEF Effect
        <5> QED BY <4>2, <5>4 DEF GoesOn, Working
      <4> QED BY <4>1, <4>2
    <3> QED BY <1>1, <3>1, <3>2, <3>3
  <2>3. \A b \in Busy', g \in Working' : handler'[g].id = action'[b].id =>
            handler'[g].browser = b /\ handler'[g].form = action'[b].form
    BY <1>1, <1>2 DEF LinkInv, Linked
  <2>4. \A b \in Busy' :
            action'[b].form = IF action'[b].op = "create" THEN form'[b] ELSE NoForm
    BY <1>2 DEF LinkInv, Linked
  <2> QED BY <2>1, <2>2, <2>3, <2>4 DEF Linked
<1> QED BY <1>5, <1>6, <1>7

\* The other requests stay where they are in the tables.
LEMMA EffectProgress ==
    ASSUME IInv, LinkInv, NEW h \in Handlers, Effect(h),
           h \in Working' => Progressed(handler[h])'
    PROVE  ProgressOK'
<1> SUFFICES ASSUME NEW g \in Working', g # h PROVE Progressed(handler[g])'
  BY DEF ProgressOK
<1>1. g \in Working /\ h \in Working /\ handler'[g] = handler[g]
  BY EffectLeaves DEF Effect
<1>2. Progressed(handler[g]) /\ handler[g].id # handler[h].id
  BY <1>1 DEF LinkInv, ProgressOK, Distinct
<1>3. \A r \in releases' : r \in releases \/ r.id = handler[h].id
  BY EffectLeaves, Inserted
<1>4. handler[g].id \notin ReleaseIds => handler[g].id \notin ReleaseIds'
  BY <1>2, <1>3 DEF ReleaseIds
<1>5. releases \subseteq releases' /\ audits \subseteq audits'
  BY EffectLeaves DEF Effect
<1> QED BY <1>1, <1>2, <1>4, <1>5 DEF Progressed

LEMMA OverIdles ==
    ASSUME IInv, NEW h \in Handlers, Over(h) PROVE h \notin Working'
BY Shape DEF Over, Become, Working

LEMMA ApiLinks ==
    ASSUME IInv, LinkInv, NEW h \in Handlers,
           \/ Refuse(h) \/ Admit(h) \/ ChooseProject(h) \/ InsertRelease(h) \/ AppendAudit(h)
           \/ ReadBack(h) \/ Throw(h)
    PROVE  LinkInv'
<1> DEFINE f == handler[h]
<1>1. Effect(h) BY ApiSteps, TableSteps
<1>2. h \in Working /\ f \in HandlerRecords /\ Progressed(f)
  BY <1>1, Shape DEF Effect, LinkInv, ProgressOK
<1>3. h \in Working' => Progressed(handler[h])'
  <2>1. CASE Over(h) BY <2>1, OverIdles
  <2>2. ASSUME Steps(h, Goto(h, "project")), f.pc = "guard", UNCHANGED tables
        PROVE  Progressed(handler[h])'
    <3>1. PICK g : g = handler'[h] OBVIOUS
    <3>2. g.pc = "project" /\ g.project = f.project /\ g.id = f.id
      BY <1>2, <2>2, <3>1, Moves DEF Steps, Goto
    <3>3. ReleaseIds' = ReleaseIds BY <2>2 DEF tables, ReleaseIds
    <3> QED BY <1>2, <2>2, <3>1, <3>2, <3>3 DEF Progressed
  <2>3. ASSUME NEW p \in ProjectIds, Steps(h, [Goto(h, "release") EXCEPT !.project = p]),
               f.pc = "project", UNCHANGED releases
        PROVE  Progressed(handler[h])'
    <3>1. PICK g : g = handler'[h] OBVIOUS
    <3>2. g.pc = "release" /\ g.id = f.id
      <4>1. PICK q : q = f OBVIOUS
      <4>2. g = [[q EXCEPT !.pc = "release"] EXCEPT !.project = p]
        BY <2>3, <3>1, <4>1 DEF Steps, Goto
      <4>3. q \in HandlerRecords BY <1>2, <4>1
      <4> QED BY <4>1, <4>2, <4>3 DEF HandlerRecords
    <3>3. ReleaseIds' = ReleaseIds BY <2>3 DEF ReleaseIds
    <3> QED BY <1>2, <2>3, <3>1, <3>2, <3>3 DEF Progressed
  <2>4. ASSUME Steps(h, Goto(h, "audit")), f.pc = "release",
               releases' = releases \cup {ReleaseOf(h)}
        PROVE  Progressed(handler[h])'
    <3>1. PICK g : g = handler'[h] OBVIOUS
    <3>2. g.pc = "audit" /\ g.project = f.project /\ g.id = f.id /\ g.form = f.form
      BY <1>2, <2>4, <3>1, Moves DEF Steps, Goto
    <3>3. \E r \in releases' : r.id = g.id /\ r.project = g.project /\ r.form = g.form.id
      BY <1>1, <2>4, <3>2, Inserted
    <3> QED BY <3>1, <3>2, <3>3 DEF Progressed
  <2>5. ASSUME Steps(h, Goto(h, "read")), f.pc = "audit", UNCHANGED releases,
               audits' = audits \cup {f.id}
        PROVE  Progressed(handler[h])'
    <3>1. PICK g : g = handler'[h] OBVIOUS
    <3>2. g.pc = "read" /\ g.project = f.project /\ g.id = f.id /\ g.form = f.form
      BY <1>2, <2>5, <3>1, Moves DEF Steps, Goto
    <3>3. \E r \in releases' : r.id = g.id /\ r.project = g.project /\ r.form = g.form.id
      BY <1>2, <2>5, <3>2 DEF Progressed
    <3> QED BY <2>5, <3>1, <3>2, <3>3 DEF Progressed
  <2> QED BY <2>1, <2>2, <2>3, <2>4, <2>5, ApiSteps, TableSteps DEF NothingLost
<1> QED BY <1>1, <1>3, EffectLinks, EffectProgress DEF LinkInv

LEMMA ProgressStays == ProgressOK /\ UNCHANGED <<handler, releases, audits>> => ProgressOK'
BY DEF ProgressOK, Progressed, Working, ReleaseIds

LEMMA LinkStays ==
    ASSUME LinkInv, UNCHANGED <<form, action, forms, presses, handler, tables>>
    PROVE  LinkInv'
<1>1. UNCHANGED <<handler, releases, audits>> BY DEF tables
<1>2. Working' = Working /\ Busy' = Busy /\ ReleaseIds' = ReleaseIds
  BY <1>1 DEF Working, Busy, ReleaseIds
<1> QED BY <1>1, <1>2, ProgressStays DEF LinkInv, Numbered, Distinct, Linked

\* A server action that ends by itself: nothing refers to it any more.
LEMMA ErrsLinks ==
    ASSUME IInv, LinkInv, NEW b \in Browsers, Errs(b),
           UNCHANGED <<forms, presses, handler, tables>>
    PROVE  LinkInv'
<1>1. Working' = Working /\ ReleaseIds' = ReleaseIds /\ UNCHANGED <<handler, releases, audits, form>>
  BY DEF Working, ReleaseIds, tables, Errs
<1>2. \A c \in Busy' : c \in Busy /\ action'[c] = action[c]
  BY Shape DEF Busy, Errs
<1> QED BY <1>1, <1>2, ProgressStays DEF LinkInv, Numbered, Distinct, Linked

LEMMA OpenFormLinks ==
    ASSUME IInv, LinkInv, NEW b \in Browsers, OpenForm(b)
    PROVE  LinkInv'
<1> DEFINE token == CookieOf(b)
           new == [id |-> forms + 1,
                   project |-> IF token.role = "Admin" THEN NoProject ELSE token.project,
                   written |-> token.written]
<1>1. /\ form' = [form EXCEPT ![b] = new] /\ new.id = forms + 1
      /\ forms' = forms + 1 /\ action[b] = Idle
      /\ UNCHANGED <<handler, action, releases, audits, presses>>
  BY DEF OpenForm, tables
<1> HIDE DEF new
<1>2. Working' = Working /\ Busy' = Busy /\ ReleaseIds' = ReleaseIds /\ b \notin Busy
  BY <1>1 DEF Working, Busy, ReleaseIds
<1>3. /\ forms \in Nat
      /\ \A c \in Browsers : form[c].id \in Nat /\ form'[c] = IF c = b THEN new ELSE form[c]
      /\ \A h \in Working : handler[h].form.id \in Nat
      /\ \A r \in releases : r.form \in Nat
  <2>1. form \in [Browsers -> Forms \cup {NoForm}] /\ forms \in Nat /\ releases \subseteq ReleaseRecords
    BY Shape
  <2>2. \A k \in Forms \cup {NoForm} : k.id \in Nat BY DEF Forms, NoForm
  <2>3. \A h \in Working : handler[h].form \in Forms \cup {NoForm} BY Shape DEF HandlerRecords
  <2>4. \A r \in releases : r.form \in Nat BY <2>1 DEF ReleaseRecords
  <2> QED BY <1>1, <2>1, <2>2, <2>3, <2>4
<1>4. Numbered' BY <1>1, <1>2, <1>3 DEF LinkInv, Numbered
<1>5. Distinct'
  <2>1. \A c \in Browsers : form[c].id # new.id BY <1>1, <1>3 DEF LinkInv, Numbered
  <2>2. \A c, d \in Browsers : form'[c] # NoForm /\ form'[c].id = form'[d].id => c = d
    BY <1>3, <2>1 DEF LinkInv, Distinct
  <2> QED BY <1>1, <1>2, <2>2 DEF LinkInv, Distinct
<1>6. Linked' BY <1>1, <1>2, <1>3 DEF LinkInv, Linked, Busy
<1> QED BY <1>1, <1>4, <1>5, <1>6, ProgressStays DEF LinkInv

LEMMA PressLinks ==
    ASSUME IInv, LinkInv, NEW b \in Browsers, NEW op \in Ops, Press(b, op)
    PROVE  LinkInv'
<1> DEFINE new == [pc |-> "authorize", id |-> presses + 1, op |-> op, token |-> CookieOf(b),
                   form |-> IF op = "create" THEN form[b] ELSE NoForm]
<1>1. /\ action' = [action EXCEPT ![b] = new] /\ new.id = presses + 1
      /\ new.pc = "authorize" /\ new.op = op
      /\ new.form = IF op = "create" THEN form[b] ELSE NoForm
      /\ presses' = presses + 1 /\ action[b] = Idle
      /\ UNCHANGED <<handler, form, releases, audits, forms>>
  BY DEF Press, tables
<1> HIDE DEF new
<1>2. /\ Working' = Working /\ ReleaseIds' = ReleaseIds
      /\ \A c \in Busy' : (c = b /\ action'[c] = new) \/ (c # b /\ c \in Busy /\ action'[c] = action[c])
  BY <1>1, Shape DEF Working, Busy, ReleaseIds
<1>3. /\ presses \in Nat
      /\ \A c \in Busy : action[c].id \in Nat
      /\ \A h \in Working : handler[h].id \in Nat
      /\ \A r \in releases : r.id \in Nat
  <2>1. Requests \subseteq Nat BY DEF Requests
  <2>2. \A c \in Busy : action[c].id \in Requests BY Shape DEF ActionRecords
  <2>3. \A h \in Working : handler[h].id \in Requests BY Shape DEF HandlerRecords
  <2>4. \A r \in releases : r.id \in Requests BY Shape DEF ReleaseRecords
  <2> QED BY <2>1, <2>2, <2>3, <2>4, Shape
<1>4. /\ \A c \in Busy : action[c].id # new.id
      /\ \A h \in Working : handler[h].id # new.id
      /\ new.id \notin ReleaseIds
  BY <1>1, <1>3 DEF LinkInv, Numbered, ReleaseIds
<1>5. Numbered' BY <1>1, <1>2, <1>3 DEF LinkInv, Numbered
<1>6. Distinct' BY <1>1, <1>2, <1>4 DEF LinkInv, Distinct
<1>7. Linked' BY <1>1, <1>2, <1>4 DEF LinkInv, Linked
<1> QED BY <1>1, <1>5, <1>6, <1>7, ProgressStays DEF LinkInv

LEMMA AuthorizeLinks ==
    ASSUME IInv, LinkInv, NEW b \in Browsers, Authorize(b)
    PROVE  LinkInv'
<1>1. UNCHANGED <<forms, presses, handler, tables, releases, audits>>
  BY DEF Authorize, tables
<1>2. CASE Errs(b) BY <1>1, <1>2, ErrsLinks
<1>3. CASE action' = [action EXCEPT ![b].pc = "post"] /\ UNCHANGED form
  <2>1. action[b] \in ActionRecords /\ action[b].pc = "authorize"
    BY Shape, Idles DEF Authorize
  <2>2. PICK new : /\ action' = [action EXCEPT ![b] = new] /\ new.pc = "post"
                   /\ new.id = action[b].id /\ new.op = action[b].op /\ new.form = action[b].form
    <3>1. PICK a : a = action[b] OBVIOUS
    <3>2. [a EXCEPT !.pc = "post"].pc = "post" /\ [a EXCEPT !.pc = "post"].id = a.id
          /\ [a EXCEPT !.pc = "post"].op = a.op /\ [a EXCEPT !.pc = "post"].form = a.form
      BY <2>1, <3>1 DEF ActionRecords
    <3>3. action' = [action EXCEPT ![b] = [a EXCEPT !.pc = "post"]] BY <1>3, <3>1
    <3> QED BY <3>1, <3>2, <3>3
  <2>3. Working' = Working /\ ReleaseIds' = ReleaseIds /\ b \in Busy
    BY <1>1, <2>1, Idles DEF Working, ReleaseIds, Busy
  <2>4. \A c \in Busy' :
            /\ c \in Busy /\ action'[c].id = action[c].id /\ action'[c].op = action[c].op
            /\ action'[c].form = action[c].form
            /\ action'[c].pc = action[c].pc
               \/ (action[c].pc = "authorize" /\ action'[c].pc = "post")
    <3> SUFFICES ASSUME NEW c \in Busy' PROVE
            /\ c \in Busy /\ action'[c].id = action[c].id /\ action'[c].op = action[c].op
            /\ action'[c].form = action[c].form
            /\ action'[c].pc = action[c].pc
               \/ (action[c].pc = "authorize" /\ action'[c].pc = "post")
      OBVIOUS
    <3>1. CASE c = b BY <2>1, <2>2, <2>3, <3>1, Shape
    <3>2. CASE c # b BY <2>2, <3>2, Shape DEF Busy
    <3> QED BY <3>1, <3>2
  <2>5. Numbered' /\ Distinct' BY <1>1, <1>3, <2>3, <2>4 DEF LinkInv, Numbered, Distinct
  <2>6. Linked' BY <1>1, <1>3, <2>3, <2>4 DEF LinkInv, Linked
  <2> QED BY <1>1, <2>5, <2>6, ProgressStays DEF LinkInv
<1> QED BY <1>2, <1>3 DEF Authorize

LEMMA PostLinks ==
    ASSUME IInv, LinkInv, NEW b \in Browsers, NEW h \in Handlers, Post(b, h)
    PROVE  LinkInv'
<1>1. action[b] \in ActionRecords /\ action[b].pc = "post" /\ b \in Busy
  BY Shape, Idles DEF Post, Busy
<1>2. PICK new : /\ action' = [action EXCEPT ![b] = new] /\ new.pc = "wait"
                 /\ new.id = action[b].id /\ new.op = action[b].op /\ new.form = action[b].form
  <2>1. PICK a : a = action[b] OBVIOUS
  <2>2. [a EXCEPT !.pc = "wait"].pc = "wait" /\ [a EXCEPT !.pc = "wait"].id = a.id
        /\ [a EXCEPT !.pc = "wait"].op = a.op /\ [a EXCEPT !.pc = "wait"].form = a.form
    BY <1>1, <2>1 DEF ActionRecords
  <2>3. action' = [action EXCEPT ![b] = [a EXCEPT !.pc = "wait"]] BY <2>1 DEF Post
  <2> QED BY <2>1, <2>2, <2>3
<1> DEFINE f == [pc |-> "guard", id |-> action[b].id, op |-> action[b].op,
                 browser |-> b, token |-> action[b].token, form |-> action[b].form,
                 project |-> NoProject]
<1>3. /\ handler' = [handler EXCEPT ![h] = f] /\ f.pc = "guard"
      /\ f.id = action[b].id /\ f.browser = b /\ f.form = action[b].form
      /\ f.project = NoProject
  BY DEF Post
<1> HIDE DEF f
<1>a. f # Idle BY <1>3 DEF Idle
<1>4. handler[h] = Idle /\ UNCHANGED <<form, releases, audits, forms, presses>>
  BY DEF Post, tables
<1>5. ReleaseIds' = ReleaseIds BY <1>4 DEF ReleaseIds
<1>6. \A c \in Busy' :
        \/ c = b /\ action'[c] = new
        \/ c # b /\ c \in Busy /\ action'[c] = action[c]
  BY <1>1, <1>2, Shape DEF Busy
<1>7. /\ \A g \in Working' :
            \/ g = h /\ handler'[g] = f
            \/ g # h /\ g \in Working /\ handler'[g] = handler[g]
      /\ h \in Working' /\ handler'[h] = f
      /\ \A g \in Working : g \in Working' /\ handler'[g] = handler[g]
  BY <1>3, <1>4, <1>a, Shape DEF Working
<1>8. f.id \notin ReleaseIds /\ \A g \in Working : handler[g].id # f.id
  BY <1>1, <1>3 DEF LinkInv, Linked
<1>9. f.id <= presses /\ f.form.id <= forms
  <2>1. f.form = form[b] \/ f.form = NoForm BY <1>1, <1>3 DEF LinkInv, Linked
  <2> QED BY <1>1, <1>3, <2>1, Shape DEF LinkInv, Numbered, NoForm
<1>10. Numbered' BY <1>1, <1>2, <1>4, <1>6, <1>7, <1>9 DEF LinkInv, Numbered
<1>11. Distinct'
  <2>1. \A c, d \in Busy' : action'[c].id = action'[d].id => c = d
    BY <1>1, <1>2, <1>6 DEF LinkInv, Distinct
  <2>2. \A g, k \in Working' : handler'[g].id = handler'[k].id => g = k
    BY <1>7, <1>8 DEF LinkInv, Distinct
  <2> QED BY <1>4, <2>1, <2>2 DEF LinkInv, Distinct
<1>12. Linked'
  <2>1. \A c \in Busy : c # b => action[c].id # action[b].id
    BY <1>1 DEF LinkInv, Distinct
  <2>2. \A c \in Busy' : action'[c].pc \in {"authorize", "post"} =>
            action'[c].id \notin ReleaseIds' /\ \A g \in Working' : handler'[g].id # action'[c].id
    BY <1>2, <1>3, <1>5, <1>6, <1>7, <2>1 DEF LinkInv, Linked
  <2>3. \A c \in Busy' : action'[c].pc = "wait" =>
            \E g \in Working' : handler'[g].id = action'[c].id
    <3> SUFFICES ASSUME NEW c \in Busy', action'[c].pc = "wait"
                 PROVE  \E g \in Working' : handler'[g].id = action'[c].id
      OBVIOUS
    <3>1. CASE c = b BY <1>2, <1>3, <1>6, <1>7, <3>1
    <3>2. CASE c # b
      <4>1. c \in Busy /\ action'[c] = action[c] BY <1>6, <3>2
      <4>2. PICK g \in Working : handler[g].id = action[c].id BY <4>1 DEF LinkInv, Linked
      <4> QED BY <1>7, <4>1, <4>2
    <3> QED BY <3>1, <3>2
  <2>4. \A c \in Busy', g \in Working' : handler'[g].id = action'[c].id =>
            handler'[g].browser = c /\ handler'[g].form = action'[c].form
    BY <1>2, <1>3, <1>6, <1>7, <1>8, <2>1 DEF LinkInv, Linked
  <2>5. \A c \in Busy' :
            action'[c].form = IF action'[c].op = "create" THEN form'[c] ELSE NoForm
    BY <1>1, <1>2, <1>4, <1>6 DEF LinkInv, Linked
  <2> QED BY <2>2, <2>3, <2>4, <2>5 DEF Linked
<1>13. ProgressOK'
  <2> SUFFICES ASSUME NEW g \in Working' PROVE Progressed(handler[g])'
    BY DEF ProgressOK
  <2>1. CASE g = h BY <1>3, <1>5, <1>7, <1>8, <2>1 DEF Progressed
  <2>2. CASE g # h
    <3>1. g \in Working /\ handler'[g] = handler[g] BY <1>7, <2>2
    <3> QED BY <1>4, <1>5, <3>1 DEF LinkInv, ProgressOK, Progressed
  <2> QED BY <2>1, <2>2
<1> QED BY <1>10, <1>11, <1>12, <1>13 DEF LinkInv

LEMMA CrashLinks ==
    ASSUME IInv, LinkInv, Crash
    PROVE  LinkInv'
<1>1. Working' = {} BY DEF Crash, Working
<1>2. \A b \in Busy' : b \in Busy /\ action'[b] = action[b] /\ action[b].pc # "wait"
  BY Shape DEF Crash, Busy, Idle
<1>3. UNCHANGED <<form, forms, presses, releases>> /\ ReleaseIds' = ReleaseIds
  BY DEF Crash, tables, ReleaseIds
<1> QED BY <1>1, <1>2, <1>3 DEF LinkInv, Numbered, Distinct, Linked, ProgressOK

LEMMA LinkInitially == Init => LinkInv
<1> SUFFICES ASSUME Init PROVE LinkInv OBVIOUS
<1>1. Working = {} /\ Busy = {} /\ releases = {} /\ \A b \in Browsers : form[b] = NoForm
  BY DEF Init, Working, Busy
<1> QED BY <1>1 DEF Init, LinkInv, Numbered, Distinct, Linked, ProgressOK, NoForm

LEMMA LinkInductive == IInv /\ LinkInv /\ [Next]_vars => LinkInv'
<1> SUFFICES ASSUME IInv, LinkInv, [Next]_vars PROVE LinkInv' OBVIOUS
<1>1. ASSUME NEW b \in Browsers, Login(b) \/ SetCookie(b) \/ Logout(b) PROVE LinkInv'
  BY <1>1, LinkStays DEF Login, SetCookie, Logout, web
<1>2. ASSUME NEW b \in Browsers, Timeout(b) PROVE LinkInv'
  BY <1>2, ErrsLinks DEF Timeout
<1>3. CASE Tick \/ UNCHANGED vars
  BY <1>3, LinkStays DEF Tick, vars, web
<1> QED
  BY <1>1, <1>2, <1>3, OpenFormLinks, PressLinks, AuthorizeLinks, PostLinks, ApiLinks, CrashLinks
  DEF Next

-----------------------------------------------------------------------------
(* Counting                                                                *)

LEMMA Fewer ==
    ASSUME NEW A, IsFiniteSet(A), NEW B, B \subseteq A
    PROVE  /\ IsFiniteSet(B) /\ Cardinality(A) \in Nat /\ Cardinality(B) \in Nat
           /\ Cardinality(B) <= Cardinality(A)
BY FS_Subset, FS_CardinalityType

LEMMA OneMore ==
    ASSUME NEW A, IsFiniteSet(A), NEW x, NEW B, B \subseteq A \cup {x}
    PROVE  Cardinality(B) <= Cardinality(A) + 1
<1>1. IsFiniteSet(A \cup {x}) /\ Cardinality(A \cup {x}) <= Cardinality(A) + 1
  <2>1. PICK n \in Nat : n = Cardinality(A) BY FS_CardinalityType
  <2>2. IsFiniteSet(A \cup {x}) BY FS_AddElement
  <2>3. Cardinality(A \cup {x}) = n \/ Cardinality(A \cup {x}) = n + 1
    BY <2>1, FS_AddElement
  <2>4. n <= n + 1 /\ n + 1 <= n + 1 OBVIOUS
  <2> QED BY <2>1, <2>2, <2>3, <2>4
<1>2. Cardinality(B) <= Cardinality(A \cup {x}) BY <1>1, Fewer
<1> QED BY <1>1, <1>2, Fewer, FS_CardinalityType

\* A set that grows by one value for each element of another.
LEMMA ManyMore ==
    ASSUME NEW A, IsFiniteSet(A), NEW H, IsFiniteSet(H), NEW f, DOMAIN f = H,
           NEW B, B \subseteq A \cup {f[h] : h \in H}
    PROVE  Cardinality(B) <= Cardinality(A) + Cardinality(H)
<1> DEFINE F == {f[h] : h \in H}
           g == [h \in H |-> f[h]]
<1>1. g \in Surjection(H, F) BY DEF Surjection
<1>2. IsFiniteSet(F) /\ Cardinality(F) <= Cardinality(H) BY <1>1, FS_Surjection
<1> HIDE DEF F
<1>3. IsFiniteSet(A \cup F)
      /\ Cardinality(A \cup F) = Cardinality(A) + Cardinality(F) - Cardinality(A \cap F)
  BY <1>2, FS_Union
<1>4. Cardinality(A \cap F) \in Nat /\ Cardinality(A) \in Nat /\ Cardinality(F) \in Nat
      /\ Cardinality(H) \in Nat
  BY <1>2, FS_Subset, FS_CardinalityType
<1>5. Cardinality(B) <= Cardinality(A \cup F) BY <1>3, Fewer DEF F
<1>6. Cardinality(B) \in Nat /\ Cardinality(A \cup F) \in Nat BY <1>3, Fewer DEF F
<1> QED BY <1>2, <1>3, <1>4, <1>5, <1>6

LEMMA LossesCount ==
    ASSUME IInv
    PROVE  /\ Losses \in Nat /\ Cardinality(Handlers) \in Nat
           /\ UNCHANGED faults => Losses' = Losses
           /\ Failed => Losses' = Losses + 1
           /\ Crash => Losses' = Losses + Cardinality(Handlers)
<1>1. failures \in Nat /\ crashes \in Nat BY Shape
<1>2. PICK n \in Nat : n = Cardinality(Handlers)
  BY HandlersAssumption, FS_CardinalityType DEF HandlersAssumption
<1>3. Losses = failures + crashes * n /\ Losses' = failures' + crashes' * n
  BY <1>2 DEF Losses
<1>4. crashes * n \in Nat /\ (crashes + 1) * n = crashes * n + n
  BY <1>1
<1> QED BY <1>1, <1>2, <1>3, <1>4 DEF faults, Failed, Crash

-----------------------------------------------------------------------------
(* Half-done creations                                                     *)

LostProjects ==
    (2 .. projects) \ ({r.project : r \in releases} \cup {handler[h].project : h \in Working})
LostReleases == ReleaseIds \ (audits \cup {handler[h].id : h \in Working})

LEMMA Losable ==
    ASSUME NEW p \in Nat, NEW R, R \subseteq ReleaseRecords, NEW S, NEW T
    PROVE  IsFiniteSet((2 .. p) \ S) /\ IsFiniteSet({r.id : r \in R} \ T)
<1>1. IsFiniteSet(2 .. p) BY FS_Interval
<1>2. IsFiniteSet(Requests) BY BoundsAssumption, FS_Interval DEF BoundsAssumption, Requests
<1>3. {r.id : r \in R} \ T \subseteq Requests BY DEF ReleaseRecords
<1> QED BY <1>1, <1>2, <1>3, Fewer

LEMMA LostFinite ==
    /\ IInv => IsFiniteSet(LostProjects) /\ IsFiniteSet(LostReleases)
    /\ IInv' => IsFiniteSet(LostProjects') /\ IsFiniteSet(LostReleases')
<1>1. IInv => projects \in Nat /\ releases \subseteq ReleaseRecords
  BY BoundsAssumption DEF BoundsAssumption, IInv, TablesOK
<1>2. IInv' => projects' \in Nat /\ releases' \subseteq ReleaseRecords
  BY BoundsAssumption DEF BoundsAssumption, IInv, TablesOK
<1> QED BY <1>1, <1>2, Losable DEF LostProjects, LostReleases, ReleaseIds

LEMMA AbandonedIs ==
    /\ Abandoned = Cardinality(LostProjects) + Cardinality(LostReleases)
    /\ Abandoned' = Cardinality(LostProjects') + Cardinality(LostReleases')
<1>1. InWork = {handler[h] : h \in Working} /\ InWork' = {handler'[h] : h \in Working'}
  BY DEF InWork, Working
<1>2. /\ {f.project : f \in InWork} = {handler[h].project : h \in Working}
      /\ {f.id : f \in InWork} = {handler[h].id : h \in Working}
      /\ {f.project : f \in InWork'} = {handler'[h].project : h \in Working'}
      /\ {f.id : f \in InWork'} = {handler'[h].id : h \in Working'}
  BY <1>1
<1> QED BY <1>2 DEF Abandoned, LostProjects, LostReleases, ReleaseIds

LEMMA NothingMoreLost ==
    ASSUME IInv, IInv', LostProjects' \subseteq LostProjects, LostReleases' \subseteq LostReleases
    PROVE  Abandoned \in Nat /\ Abandoned' \in Nat /\ Abandoned' <= Abandoned
<1>1. Abandoned' = Cardinality(LostProjects') + Cardinality(LostReleases')
  BY AbandonedIs
<1>2. /\ Cardinality(LostProjects) \in Nat /\ Cardinality(LostProjects') \in Nat
      /\ Cardinality(LostProjects') <= Cardinality(LostProjects)
  BY LostFinite, Fewer
<1>3. /\ Cardinality(LostReleases) \in Nat /\ Cardinality(LostReleases') \in Nat
      /\ Cardinality(LostReleases') <= Cardinality(LostReleases)
  BY LostFinite, Fewer
<1> QED BY <1>1, <1>2, <1>3, AbandonedIs

\* A request takes one thing with it at most.
OneLost ==
    \/ \E x : LostProjects' \subseteq LostProjects \cup {x} /\ LostReleases' \subseteq LostReleases
    \/ \E x : LostProjects' \subseteq LostProjects /\ LostReleases' \subseteq LostReleases \cup {x}

LEMMA OneMoreLost ==
    ASSUME IInv, IInv', OneLost
    PROVE  Abandoned \in Nat /\ Abandoned' \in Nat /\ Abandoned' <= Abandoned + 1
<1>1. /\ Cardinality(LostProjects) \in Nat /\ Cardinality(LostProjects') \in Nat
      /\ Cardinality(LostReleases) \in Nat /\ Cardinality(LostReleases') \in Nat
      /\ IsFiniteSet(LostProjects) /\ IsFiniteSet(LostReleases)
  BY LostFinite, FS_CardinalityType
<1>2. Abandoned' = Cardinality(LostProjects') + Cardinality(LostReleases')
  BY AbandonedIs
<1>3. Abandoned = Cardinality(LostProjects) + Cardinality(LostReleases)
  BY AbandonedIs
<1>4. ASSUME NEW x, LostProjects' \subseteq LostProjects \cup {x},
             LostReleases' \subseteq LostReleases
      PROVE  Abandoned' <= Abandoned + 1
  <2>1. /\ Cardinality(LostProjects') <= Cardinality(LostProjects) + 1
        /\ Cardinality(LostReleases') <= Cardinality(LostReleases)
    BY <1>1, <1>4, OneMore, Fewer
  <2> QED BY <1>1, <1>2, <1>3, <2>1
<1>5. ASSUME NEW x, LostProjects' \subseteq LostProjects,
             LostReleases' \subseteq LostReleases \cup {x}
      PROVE  Abandoned' <= Abandoned + 1
  <2>1. /\ Cardinality(LostProjects') <= Cardinality(LostProjects)
        /\ Cardinality(LostReleases') <= Cardinality(LostReleases) + 1
    BY <1>1, <1>5, OneMore, Fewer
  <2> QED BY <1>1, <1>2, <1>3, <2>1
<1>6. Abandoned' <= Abandoned + 1 BY <1>4, <1>5 DEF OneLost
<1> QED BY <1>1, <1>2, <1>3, <1>6

LEMMA GoingOnLosesNothing ==
    ASSUME IInv, LinkInv, NEW h \in Handlers, Effect(h), GoesOn(h),
           projects' = projects \/ (projects' = projects + 1 /\ handler'[h].project = projects + 1),
           handler'[h].project = handler[h].project \/ handler[h].project = NoProject
    PROVE  LostProjects' \subseteq LostProjects /\ LostReleases' \subseteq LostReleases
<1>1. h \in Working /\ h \in Working' BY DEF Effect, GoesOn, Working
<1>2. \A g \in Working : g \in Working' /\ handler'[g].id = handler[g].id
                         /\ (g # h => handler'[g].project = handler[g].project)
  BY <1>1, EffectLeaves
<1>3. \A r \in releases' : r \in releases \/ r.id = handler[h].id
  BY EffectLeaves, Inserted
<1>4. releases \subseteq releases' /\ audits \subseteq audits' BY EffectLeaves DEF Effect
<1>5. ASSUME NEW k \in LostProjects' PROVE k \in LostProjects
  <2>1. k \in 2 .. projects' /\ \A g \in Working' : k # handler'[g].project
    BY DEF LostProjects
  <2>2. k \in 2 .. projects BY <1>1, <2>1, Shape
  <2>3. ASSUME NEW g \in Working, k = handler[g].project PROVE FALSE
    BY <1>1, <1>2, <2>1, <2>2, <2>3 DEF NoProject
  <2>4. \A r \in releases : k # r.project BY <1>4 DEF LostProjects
  <2> QED BY <2>2, <2>3, <2>4 DEF LostProjects
<1>6. ASSUME NEW i \in LostReleases' PROVE i \in LostReleases
  <2>1. i \in ReleaseIds' /\ i \notin audits' /\ \A g \in Working' : i # handler'[g].id
    BY DEF LostReleases
  <2>2. i # handler[h].id BY <1>1, <1>2, <2>1
  <2>3. i \in ReleaseIds BY <1>3, <2>1, <2>2 DEF ReleaseIds
  <2> QED BY <1>2, <1>4, <2>1, <2>3 DEF LostReleases
<1> QED BY <1>5, <1>6

LEMMA OverLoses ==
    ASSUME IInv, LinkInv, NEW h \in Handlers, Effect(h), Over(h),
           projects' = projects \/ (projects' = projects + 1 /\ handler[h].pc = "project")
    PROVE  /\ OneLost
           /\ handler[h].pc \in {"guard", "read"} =>
                LostProjects' \subseteq LostProjects /\ LostReleases' \subseteq LostReleases
<1> DEFINE f == handler[h]
           x == IF f.pc = "project" THEN projects + 1 ELSE f.project
<1>1. h \in Working /\ f \in HandlerRecords /\ Progressed(f) /\ projects \in Nat
  BY Shape DEF Effect, LinkInv, ProgressOK
<1>2. \A g \in Working : g # h => g \in Working' /\ handler'[g] = handler[g]
  BY EffectLeaves
<1>3. \A r \in releases' : r \in releases \/ (r = ReleaseOf(h) /\ r.id = f.id /\ f.pc = "release")
  BY EffectLeaves, Inserted
<1>4. releases \subseteq releases' /\ audits \subseteq audits' BY EffectLeaves DEF Effect
<1>5. LostProjects' \subseteq LostProjects \cup {x}
  <2> SUFFICES ASSUME NEW k \in LostProjects', k # x PROVE k \in LostProjects
    OBVIOUS
  <2>1. k \in 2 .. projects' /\ \A g \in Working' : k # handler'[g].project
    BY DEF LostProjects
  <2>2. k \in 2 .. projects BY <1>1, <2>1
  <2>3. k # f.project BY <1>1, <2>2 DEF Progressed, NoProject
  <2>4. \A g \in Working : k # handler[g].project BY <1>2, <2>1, <2>3
  <2>5. \A r \in releases : k # r.project BY <1>4 DEF LostProjects
  <2> QED BY <2>2, <2>4, <2>5 DEF LostProjects
<1>6. LostReleases' \subseteq LostReleases \cup {f.id}
  <2> SUFFICES ASSUME NEW i \in LostReleases', i # f.id PROVE i \in LostReleases
    OBVIOUS
  <2>1. i \in ReleaseIds' /\ i \notin audits' /\ \A g \in Working' : i # handler'[g].id
    BY DEF LostReleases
  <2>2. i \in ReleaseIds BY <1>3, <2>1 DEF ReleaseIds
  <2> QED BY <1>2, <1>4, <2>1, <2>2 DEF LostReleases
<1>7. f.pc \in {"guard", "audit", "read"} \/ releases' # releases => x \notin LostProjects'
  <2>1. CASE f.pc = "guard"
    BY <1>1, <2>1 DEF Progressed, NoProject, LostProjects
  <2>2. CASE f.pc \in {"audit", "read"}
    <3>1. \E r \in releases : r.project = f.project BY <1>1, <2>2 DEF Progressed
    <3> QED BY <1>4, <2>2, <3>1 DEF LostProjects
  <2>3. CASE releases' # releases
    <3>1. ReleaseOf(h) \in releases' /\ f.pc = "release" BY <2>3 DEF Effect
    <3>2. ReleaseOf(h).project = f.project BY DEF ReleaseOf
    <3> QED BY <3>1, <3>2 DEF LostProjects
  <2> QED BY <2>1, <2>2, <2>3
<1>8. f.pc \in {"guard", "project", "release", "read"} /\ releases' = releases =>
        f.id \notin LostReleases'
  BY <1>1, <1>4 DEF Progressed, LostReleases, ReleaseIds
<1>9. f.pc \in {"guard", "project", "release", "audit", "read"} BY <1>1 DEF HandlerRecords
<1>10. releases' = releases \/ f.pc = "release" BY DEF Effect
<1>11. OneLost BY <1>5, <1>6, <1>7, <1>8, <1>9, <1>10 DEF OneLost
<1> QED BY <1>5, <1>6, <1>7, <1>8, <1>10, <1>11

LEMMA QuietlyHalfDone ==
    ASSUME IInv, IInv', HalfDoneIsPaidFor, UNCHANGED faults,
           LostProjects' \subseteq LostProjects, LostReleases' \subseteq LostReleases
    PROVE  HalfDoneIsPaidFor'
<1>1. Abandoned \in Nat /\ Abandoned' \in Nat /\ Abandoned' <= Abandoned BY NothingMoreLost
<1>2. Losses \in Nat /\ Losses' = Losses BY LossesCount
<1> QED BY <1>1, <1>2 DEF HalfDoneIsPaidFor

LEMMA FailurePays ==
    ASSUME IInv, IInv', HalfDoneIsPaidFor, Failed, OneLost
    PROVE  HalfDoneIsPaidFor'
<1>1. Abandoned \in Nat /\ Abandoned' \in Nat /\ Abandoned' <= Abandoned + 1 BY OneMoreLost
<1>2. Losses \in Nat /\ Losses' = Losses + 1 BY LossesCount
<1> QED BY <1>1, <1>2 DEF HalfDoneIsPaidFor

LEMMA ApiHalfDone ==
    ASSUME IInv, IInv', LinkInv, HalfDoneIsPaidFor, NEW h \in Handlers,
           \/ Refuse(h) \/ Admit(h) \/ ChooseProject(h) \/ InsertRelease(h) \/ AppendAudit(h)
           \/ ReadBack(h) \/ Throw(h)
    PROVE  HalfDoneIsPaidFor'
<1>1. Effect(h) BY ApiSteps, TableSteps
<1>2. handler[h] \in HandlerRecords /\ Progressed(handler[h])
  BY <1>1, Shape DEF Effect, LinkInv, ProgressOK
<1>3. ASSUME Over(h), Failed,
             projects' = projects \/ (projects' = projects + 1 /\ handler[h].pc = "project")
      PROVE  HalfDoneIsPaidFor'
  BY <1>1, <1>3, OverLoses, FailurePays
<1>4. ASSUME Over(h), UNCHANGED <<tables, faults>>, handler[h].pc \in {"guard", "read"}
      PROVE  HalfDoneIsPaidFor'
  <2>1. LostProjects' \subseteq LostProjects /\ LostReleases' \subseteq LostReleases
    BY <1>1, <1>4, OverLoses DEF tables
  <2> QED BY <1>4, <2>1, QuietlyHalfDone
<1>5. ASSUME NEW f, Steps(h, f),
             projects' = projects \/ (projects' = projects + 1 /\ f.project = projects + 1),
             f.project = handler[h].project \/ handler[h].project = NoProject
      PROVE  HalfDoneIsPaidFor'
  <2>1. LostProjects' \subseteq LostProjects /\ LostReleases' \subseteq LostReleases
    BY <1>1, <1>5, GoingOnLosesNothing DEF Steps
  <2> QED BY <1>5, <2>1, QuietlyHalfDone DEF Steps
<1>6. ASSUME NEW step, Steps(h, Goto(h, step)), projects' = projects PROVE HalfDoneIsPaidFor'
  <2>1. Goto(h, step).project = handler[h].project BY <1>2 DEF Goto, HandlerRecords
  <2> QED BY <1>5, <1>6, <2>1
<1>7. CASE Refuse(h) BY <1>4, <1>7, ApiSteps DEF NothingLost
<1>8. CASE Admit(h) BY <1>4, <1>6, <1>8, ApiSteps DEF tables
<1>9. CASE ChooseProject(h)
  <2>1. PICK p \in ProjectIds :
            /\ projects' = projects \/ (projects' = projects + 1 /\ p = projects + 1)
            /\ \/ Steps(h, [Goto(h, "release") EXCEPT !.project = p])
               \/ Over(h) /\ Failed
    BY <1>9, TableSteps
  <2>2. handler[h].pc = "project" BY <1>9, TableSteps
  <2>3. handler[h].project = NoProject BY <1>2, <2>2 DEF Progressed
  <2>4. [Goto(h, "release") EXCEPT !.project = p].project = p
    BY <1>2 DEF Goto, HandlerRecords
  <2>5. CASE Over(h) /\ Failed BY <1>3, <2>1, <2>2, <2>5
  <2>6. CASE Steps(h, [Goto(h, "release") EXCEPT !.project = p])
    BY <1>5, <2>1, <2>3, <2>4, <2>6
  <2> QED BY <2>1, <2>5, <2>6
<1>10. CASE InsertRelease(h) BY <1>3, <1>6, <1>10, TableSteps
<1>11. CASE AppendAudit(h) BY <1>3, <1>6, <1>11, TableSteps
<1>12. CASE ReadBack(h) BY <1>3, <1>4, <1>12, ApiSteps DEF NothingLost, tables
<1>13. CASE Throw(h) BY <1>3, <1>13, ApiSteps DEF tables
<1> QED BY <1>7, <1>8, <1>9, <1>10, <1>11, <1>12, <1>13

\* The process takes one thing with it for each of its requests at most.
LEMMA CrashHalfDone ==
    ASSUME IInv, IInv', LinkInv, HalfDoneIsPaidFor, Crash
    PROVE  HalfDoneIsPaidFor'
<1> DEFINE A == {h \in Working : handler[h].pc # "audit"}
           B == {h \in Working : handler[h].pc = "audit"}
           f == [h \in A |-> handler[h].project]
           g == [h \in B |-> handler[h].id]
<1>1. Working' = {} /\ UNCHANGED tables BY Shape DEF Crash, Working, Idle
<1>2. LostProjects' \subseteq LostProjects \cup {f[h] : h \in A}
  <2> SUFFICES ASSUME NEW k \in LostProjects', k \notin LostProjects
               PROVE  \E h \in A : k = f[h]
    OBVIOUS
  <2>1. k \in 2 .. projects /\ \A r \in releases : k # r.project
    BY <1>1 DEF LostProjects, tables
  <2>2. PICK h \in Working : k = handler[h].project BY <2>1 DEF LostProjects
  <2>3. handler[h].pc # "audit" BY <2>1, <2>2 DEF LinkInv, ProgressOK, Progressed
  <2> QED BY <2>2, <2>3
<1>3. LostReleases' \subseteq LostReleases \cup {g[h] : h \in B}
  <2> SUFFICES ASSUME NEW i \in LostReleases', i \notin LostReleases
               PROVE  \E h \in B : i = g[h]
    OBVIOUS
  <2>1. i \in ReleaseIds /\ i \notin audits BY <1>1 DEF LostReleases, ReleaseIds, tables
  <2>2. PICK h \in Working : i = handler[h].id BY <2>1 DEF LostReleases
  <2>3. handler[h].pc \in {"guard", "project", "release", "audit", "read"}
    BY <2>2, Shape DEF HandlerRecords
  <2>4. handler[h].pc = "audit" BY <2>1, <2>2, <2>3 DEF LinkInv, ProgressOK, Progressed
  <2> QED BY <2>2, <2>4
<1>4. /\ IsFiniteSet(A) /\ IsFiniteSet(B) /\ Cardinality(A) \in Nat /\ Cardinality(B) \in Nat
      /\ Cardinality(A) + Cardinality(B) <= Cardinality(Handlers)
  <2>1. A \subseteq Handlers /\ B \subseteq Handlers /\ A \cup B \subseteq Handlers /\ A \cap B = {}
    BY DEF Working
  <2> HIDE DEF A, B
  <2>2. IsFiniteSet(A) /\ IsFiniteSet(B) /\ Cardinality(A) \in Nat /\ Cardinality(B) \in Nat
    BY <2>1, HandlersAssumption, Fewer DEF HandlersAssumption
  <2>3. Cardinality(A \cup B) = Cardinality(A) + Cardinality(B) - Cardinality(A \cap B)
    BY <2>2, FS_Union
  <2>4. Cardinality(A \cap B) = 0 BY <2>1, FS_EmptySet
  <2>5. Cardinality(A \cup B) <= Cardinality(Handlers)
    BY <2>1, HandlersAssumption, Fewer DEF HandlersAssumption
  <2> QED BY <2>2, <2>3, <2>4, <2>5
<1>5. DOMAIN f = A /\ DOMAIN g = B OBVIOUS
<1> HIDE DEF A, B, f, g
<1>6. Cardinality(LostProjects') <= Cardinality(LostProjects) + Cardinality(A)
  BY <1>2, <1>4, <1>5, LostFinite, ManyMore
<1>7. Cardinality(LostReleases') <= Cardinality(LostReleases) + Cardinality(B)
  BY <1>3, <1>4, <1>5, LostFinite, ManyMore
<1>8. /\ Cardinality(LostProjects) \in Nat /\ Cardinality(LostProjects') \in Nat
      /\ Cardinality(LostReleases) \in Nat /\ Cardinality(LostReleases') \in Nat
  BY LostFinite, FS_CardinalityType
<1>9. /\ Abandoned = Cardinality(LostProjects) + Cardinality(LostReleases)
      /\ Abandoned' = Cardinality(LostProjects') + Cardinality(LostReleases')
  BY AbandonedIs
<1>10. /\ Losses \in Nat /\ Cardinality(Handlers) \in Nat
       /\ Losses' = Losses + Cardinality(Handlers)
  BY LossesCount
<1>11. Abandoned' <= Abandoned + Cardinality(Handlers) BY <1>4, <1>6, <1>7, <1>8, <1>9, <1>10
<1>12. Abandoned \in Nat /\ Abandoned' \in Nat BY <1>8, <1>9
<1> QED BY <1>10, <1>11, <1>12 DEF HalfDoneIsPaidFor

LEMMA HalfDoneInductive ==
    ASSUME IInv, IInv', LinkInv, HalfDoneIsPaidFor, [Next]_vars
    PROVE  HalfDoneIsPaidFor'
<1>1. ASSUME UNCHANGED <<handler, tables, faults>> PROVE HalfDoneIsPaidFor'
  <2>1. LostProjects' \subseteq LostProjects /\ LostReleases' \subseteq LostReleases
    BY <1>1 DEF LostProjects, LostReleases, ReleaseIds, Working, tables
  <2> QED BY <1>1, <2>1, QuietlyHalfDone
<1>2. ASSUME NEW b \in Browsers, NEW h \in Handlers, Post(b, h) PROVE HalfDoneIsPaidFor'
  <2>1. \A g \in Working : g \in Working' /\ handler'[g] = handler[g]
    BY <1>2, Shape DEF Post, Working
  <2>2. LostProjects' \subseteq LostProjects /\ LostReleases' \subseteq LostReleases
    BY <1>2, <2>1 DEF Post, LostProjects, LostReleases, ReleaseIds, tables
  <2> QED BY <1>2, <2>2, QuietlyHalfDone DEF Post
<1>3. ASSUME NEW b \in Browsers,
             \/ Login(b) \/ SetCookie(b) \/ Logout(b) \/ OpenForm(b) \/ Authorize(b) \/ Timeout(b)
             \/ \E op \in Ops : Press(b, op)
      PROVE  HalfDoneIsPaidFor'
  BY <1>1, <1>3
  DEF Login, SetCookie, Logout, OpenForm, Authorize, Timeout, Press
<1>4. CASE Tick \/ UNCHANGED vars BY <1>1, <1>4 DEF Tick, vars
<1> QED BY <1>2, <1>3, <1>4, ApiHalfDone, CrashHalfDone DEF Next

-----------------------------------------------------------------------------
(* Strays                                                                  *)

Strays == Live \ Current
FormsUsed == {r.form : r \in releases}

LEMMA StraysFinite ==
    /\ IInv => IsFiniteSet(Strays) /\ IsFiniteSet(Closed) /\ IsFiniteSet(FormsUsed)
               /\ IsFiniteSet(ReleaseIds)
    /\ IInv' => IsFiniteSet(Strays') /\ IsFiniteSet(Closed')
<1>1. IsFiniteSet(Requests) /\ IsFiniteSet(1 .. MaxForms)
  BY BoundsAssumption, FS_Interval DEF BoundsAssumption, Requests
<1>2. ASSUME IInv
      PROVE  ReleaseIds \subseteq Requests /\ Live \subseteq Requests
             /\ FormsUsed \subseteq 1 .. MaxForms
  BY <1>2, Shape DEF Live, ReleaseIds, Creating, ReleaseRecords, HandlerRecords, FormsUsed
<1>3. ASSUME IInv'
      PROVE  Live' \subseteq Requests /\ FormsUsed' \subseteq 1 .. MaxForms
  <2>1. /\ releases' \subseteq ReleaseRecords
        /\ \A h \in Working' : handler'[h] \in HandlerRecords
    BY <1>3 DEF IInv, TablesOK, ApiOK, Working
  <2> QED BY <2>1 DEF Live, ReleaseIds, Creating, ReleaseRecords, HandlerRecords, FormsUsed
<1>4. Strays \subseteq Live /\ Strays' \subseteq Live' /\ Closed \subseteq FormsUsed
      /\ Closed' \subseteq FormsUsed'
  BY DEF Strays, Closed, FormsUsed
<1> QED BY <1>1, <1>2, <1>3, <1>4, FS_Subset

\* The three ways in which a step keeps the account.
LEMMA AccountStays ==
    ASSUME IInv, IInv', StraysArePaidFor, Closed \subseteq Closed'
    PROVE  /\ Strays' \subseteq Strays /\ UNCHANGED <<givenUp, faults>> => StraysArePaidFor'
           /\ \A x : /\ Strays' \subseteq Strays \cup {x}
                     /\ \/ givenUp' = givenUp + 1 /\ UNCHANGED faults
                        \/ UNCHANGED givenUp /\ Failed
                     => StraysArePaidFor'
           /\ \A x, k : /\ Strays' \subseteq Strays \cup {x}
                        /\ k \notin Closed /\ k \in Closed'
                        /\ UNCHANGED <<givenUp, faults>>
                        => StraysArePaidFor'
<1>1. /\ Cardinality(Strays) \in Nat /\ Cardinality(Strays') \in Nat
      /\ Cardinality(Closed) \in Nat /\ Cardinality(Closed') \in Nat
      /\ IsFiniteSet(Strays) /\ IsFiniteSet(Closed')
  BY StraysFinite, FS_CardinalityType
<1>2. Losses \in Nat /\ (UNCHANGED faults => Losses' = Losses) /\ (Failed => Losses' = Losses + 1)
  BY LossesCount
<1>3. givenUp \in Nat /\ Cardinality(Strays) <= Cardinality(Closed) + givenUp + Losses
  BY Shape DEF StraysArePaidFor, Strays
<1>4. Cardinality(Closed) <= Cardinality(Closed') BY <1>1, Fewer
<1>5. ASSUME Strays' \subseteq Strays, UNCHANGED <<givenUp, faults>> PROVE StraysArePaidFor'
  <2>1. Cardinality(Strays') <= Cardinality(Strays) BY <1>1, <1>5, Fewer
  <2>2. givenUp' = givenUp /\ Losses' = Losses BY <1>2, <1>5
  <2>3. Cardinality(Strays') <= Cardinality(Closed') + givenUp + Losses
    BY <1>1, <1>2, <1>3, <1>4, <2>1
  <2> QED BY <2>2, <2>3 DEF StraysArePaidFor, Strays
<1>6. ASSUME NEW x, Strays' \subseteq Strays \cup {x},
             \/ givenUp' = givenUp + 1 /\ UNCHANGED faults
             \/ UNCHANGED givenUp /\ Failed
      PROVE  StraysArePaidFor'
  <2>1. Cardinality(Strays') <= Cardinality(Strays) + 1 BY <1>1, <1>6, OneMore
  <2>2. Cardinality(Strays') <= Cardinality(Closed') + givenUp + Losses + 1
    BY <1>1, <1>2, <1>3, <1>4, <2>1
  <2>3. CASE givenUp' = givenUp + 1 /\ UNCHANGED faults
    <3>1. Losses' = Losses BY <1>2, <2>3
    <3>2. Cardinality(Strays') <= Cardinality(Closed') + (givenUp + 1) + Losses
      BY <1>1, <1>2, <1>3, <2>2
    <3> QED BY <2>3, <3>1, <3>2 DEF StraysArePaidFor, Strays
  <2>4. CASE UNCHANGED givenUp /\ Failed
    <3>1. Losses' = Losses + 1 /\ givenUp' = givenUp BY <1>2, <2>4
    <3>2. Cardinality(Strays') <= Cardinality(Closed') + givenUp + (Losses + 1)
      BY <1>1, <1>2, <1>3, <2>2
    <3> QED BY <3>1, <3>2 DEF StraysArePaidFor, Strays
  <2> QED BY <1>6, <2>3, <2>4
<1>7. ASSUME NEW x, NEW k, Strays' \subseteq Strays \cup {x}, k \notin Closed, k \in Closed',
             UNCHANGED <<givenUp, faults>>
      PROVE  StraysArePaidFor'
  <2>1. Cardinality(Strays') <= Cardinality(Strays) + 1 BY <1>1, <1>7, OneMore
  <2>2. Cardinality(Closed) + 1 <= Cardinality(Closed')
    <3>1. Closed \cup {k} \subseteq Closed' BY <1>7
    <3>2. Cardinality(Closed \cup {k}) = Cardinality(Closed) + 1
      BY <1>7, StraysFinite, FS_AddElement
    <3>3. Cardinality(Closed \cup {k}) <= Cardinality(Closed') BY <1>1, <3>1, Fewer
    <3> QED BY <3>2, <3>3
  <2>3. givenUp' = givenUp /\ Losses' = Losses BY <1>2, <1>7
  <2>4. Cardinality(Strays') <= Cardinality(Closed') + givenUp + Losses
    BY <1>1, <1>2, <1>3, <2>1, <2>2
  <2> QED BY <2>3, <2>4 DEF StraysArePaidFor, Strays
<1> QED BY <1>5, <1>6, <1>7

\* A request past the guard carries the form its browser still shows, if the
\* browser waits for it.
LEMMA SentForm ==
    ASSUME IInv, LinkInv, NEW b \in Busy, NEW h \in Working,
           handler[h].id = action[b].id, handler[h].pc # "guard"
    PROVE  form[b] = handler[h].form /\ handler[h].form \in Forms /\ handler[h].browser = b
<1>1. handler[h].form \in Forms BY Shape DEF GoodFrame, Asks
<1>2. handler[h].form # NoForm BY <1>1 DEF Forms, NoForm
<1>3. handler[h].form = action[b].form /\ handler[h].browser = b BY DEF LinkInv, Linked
<1>4. action[b].form = IF action[b].op = "create" THEN form[b] ELSE NoForm
  BY DEF LinkInv, Linked
<1> QED BY <1>1, <1>2, <1>3, <1>4

\* What a step of the API makes of the account, before it is paid.
LEMMA EffectStrays ==
    ASSUME IInv, LinkInv, NEW h \in Handlers, Effect(h)
    PROVE  /\ Live' \subseteq Live
           /\ Closed \subseteq Closed'
           /\ Strays' \subseteq Strays \cup {handler[h].id}
           /\ GoesOn(h) \/ ~ Awaited(h) => Strays' \subseteq Strays
<1>1. h \in Working BY DEF Effect
<1>2. \A g \in Working' :
        g \in Working /\ handler'[g].id = handler[g].id /\ handler'[g].op = handler[g].op
  BY EffectLeaves
<1>3. \A r \in releases' :
        r \in releases \/ (r.id = handler[h].id /\ handler[h].pc = "release")
  BY EffectLeaves, Inserted
<1>4. handler[h].pc = "release" => handler[h].op = "create" BY <1>1, Shape DEF GoodFrame
<1>5. Live' \subseteq Live BY <1>1, <1>2, <1>3, <1>4 DEF Live, ReleaseIds, Creating
<1>6. Closed \subseteq Closed'
  <2> SUFFICES ASSUME NEW k \in Closed PROVE k \in Closed' OBVIOUS
  <2>1. PICK r \in releases : r.form = k BY DEF Closed
  <2>2. r \in releases' BY EffectLeaves
  <2>3. k # 0 BY <2>1, Shape DEF ReleaseRecords
  <2>4. \A b \in Browsers : form'[b] = form[b] \/ form'[b] = NoForm BY EffectLeaves
  <2>5. \A b \in Browsers : form'[b].id # k BY <2>3, <2>4 DEF Closed, NoForm
  <2> QED BY <2>1, <2>2, <2>5 DEF Closed
<1>7. ASSUME NEW b \in Busy, action[b].id # handler[h].id \/ ~ Awaited(h) \/ GoesOn(h)
      PROVE  action[b].id \in Current'
  <2>1. /\ b \in Busy' \/ (Awaited(h) /\ Over(h) /\ b = handler[h].browser)
        /\ b \in Busy' => action'[b] = action[b]
    BY EffectLeaves
  <2>2. b \in Busy'
    <3>1. CASE action[b].id # handler[h].id BY <2>1, <3>1 DEF Awaited
    <3>2. CASE ~ Awaited(h) BY <2>1, <3>2
    <3>3. CASE GoesOn(h) BY <3>3 DEF GoesOn, Busy
    <3> QED BY <1>7, <3>1, <3>2, <3>3
  <2> QED BY <2>1, <2>2 DEF Current
<1>8. Strays' \subseteq Strays \cup {handler[h].id} BY <1>5, <1>7 DEF Strays, Current
<1>9. GoesOn(h) \/ ~ Awaited(h) => Strays' \subseteq Strays
  BY <1>5, <1>7 DEF Strays, Current
<1> QED BY <1>5, <1>6, <1>8, <1>9

\* Without a failure a request nobody can be waiting for any more has made no
\* release, or it has closed its form.
LEMMA ReadBackCloses ==
    ASSUME IInv, LinkInv, NEW h \in Handlers, Answer(h, handler[h].id), Awaited(h),
           Effect(h), handler[h].pc = "read"
    PROVE  handler[h].form.id \notin Closed /\ handler[h].form.id \in Closed'
<1> DEFINE b == handler[h].browser
           k == handler[h].form.id
<1>1. h \in Working /\ handler[h] \in HandlerRecords BY Shape DEF Effect
<1>2. b \in Browsers /\ handler[h].id # 0 BY <1>1 DEF HandlerRecords, Requests
<1>3. b \in Busy /\ handler[h].id = action[b].id
  BY <1>2 DEF Awaited, Busy, Idle
<1>4. form[b] = handler[h].form /\ handler[h].form \in Forms BY <1>1, <1>3, SentForm
<1>5. k \notin Closed BY <1>2, <1>4 DEF Closed
<1>6. form' = [form EXCEPT ![b] = NoForm] BY <1>2 DEF Answer, Succeeds
<1>7. \A c \in Browsers : form'[c].id # k
  <2> SUFFICES ASSUME NEW c \in Browsers, form'[c].id = k PROVE FALSE OBVIOUS
  <2>1. k # NoForm.id /\ form[b] # NoForm BY <1>4 DEF Forms, NoForm
  <2>2. c # b BY <1>2, <1>6, <2>1, Shape
  <2>3. form'[c] = form[c] BY <1>6, <2>2, Shape
  <2>4. form[b].id = form[c].id BY <1>4, <2>3
  <2> QED BY <1>2, <2>1, <2>2, <2>4 DEF LinkInv, Distinct
<1>8. PICK r \in releases : r.form = k
  BY <1>1 DEF LinkInv, ProgressOK, Progressed
<1>9. r \in releases' BY EffectLeaves
<1> QED BY <1>5, <1>7, <1>8, <1>9 DEF Closed

LEMMA ApiStrays ==
    ASSUME IInv, IInv', LinkInv, StraysArePaidFor, NEW h \in Handlers,
           \/ Refuse(h) \/ Admit(h) \/ ChooseProject(h) \/ InsertRelease(h) \/ AppendAudit(h)
           \/ ReadBack(h) \/ Throw(h)
    PROVE  StraysArePaidFor'
<1>1. Effect(h) BY ApiSteps, TableSteps
<1>2. /\ Closed \subseteq Closed' /\ Strays' \subseteq Strays \cup {handler[h].id}
      /\ GoesOn(h) \/ ~ Awaited(h) => Strays' \subseteq Strays
      /\ UNCHANGED givenUp
  BY <1>1, EffectStrays DEF Effect
<1>3. ASSUME Failed PROVE StraysArePaidFor' BY <1>2, <1>3, AccountStays
<1>4. ASSUME GoesOn(h) \/ ~ Awaited(h), UNCHANGED faults PROVE StraysArePaidFor'
  BY <1>2, <1>4, AccountStays
<1>5. ASSUME handler[h].pc = "guard", Over(h), UNCHANGED <<tables, faults>>
      PROVE  StraysArePaidFor'
  <2>1. h \in Working /\ h \notin Working' BY <1>1, <1>5, OverIdles DEF Effect
  <2>2. handler[h].id \notin ReleaseIds'
    BY <1>5, <2>1 DEF LinkInv, ProgressOK, Progressed, tables, ReleaseIds
  <2>3. \A g \in Working' : g \in Working /\ g # h /\ handler'[g].id = handler[g].id
    BY <1>1, <2>1, EffectLeaves
  <2>4. handler[h].id \notin Live' BY <2>1, <2>2, <2>3 DEF Live, Creating, LinkInv, Distinct
  <2>5. Strays' \subseteq Strays BY <1>2, <2>4 DEF Strays
  <2> QED BY <1>2, <1>5, <2>5, AccountStays
<1>6. CASE Refuse(h) BY <1>5, <1>6, ApiSteps DEF NothingLost
<1>7. CASE Admit(h) BY <1>4, <1>5, <1>7, ApiSteps DEF Steps
<1>8. CASE ChooseProject(h) BY <1>3, <1>4, <1>8, TableSteps DEF Steps
<1>9. CASE InsertRelease(h) BY <1>3, <1>4, <1>9, TableSteps DEF Steps
<1>10. CASE AppendAudit(h) BY <1>3, <1>4, <1>10, TableSteps DEF Steps
<1>11. CASE ReadBack(h)
  <2>1. CASE UNCHANGED faults /\ Awaited(h) /\ Answer(h, handler[h].id)
    <3>1. handler[h].form.id \notin Closed /\ handler[h].form.id \in Closed'
      BY <1>1, <1>11, <2>1, ReadBackCloses DEF ReadBack
    <3> QED BY <1>2, <2>1, <3>1, AccountStays
  <2>2. CASE Failed BY <1>3, <2>2
  <2>3. CASE UNCHANGED faults /\ ~ Awaited(h) BY <1>4, <2>3
  <2> QED BY <1>11, <2>1, <2>2, <2>3 DEF ReadBack, Fault, Failed
<1>12. CASE Throw(h) BY <1>3, <1>12, ApiSteps
<1> QED BY <1>6, <1>7, <1>8, <1>9, <1>10, <1>11, <1>12

\* The process takes at most the requests it works at from those who wait.
LEMMA CrashStrays ==
    ASSUME IInv, IInv', LinkInv, StraysArePaidFor, Crash
    PROVE  StraysArePaidFor'
<1> DEFINE f == [h \in Handlers |-> handler[h].id]
<1>1. Working' = {} /\ UNCHANGED tables /\ UNCHANGED form /\ UNCHANGED givenUp
  BY Shape DEF Crash, Working, Idle
<1>2. Live' \subseteq Live BY <1>1 DEF Live, ReleaseIds, Creating, tables
<1>3. Closed' = Closed BY <1>1 DEF Closed, tables
<1>4. Strays' \subseteq Strays \cup {f[h] : h \in Handlers}
  <2> SUFFICES ASSUME NEW i \in Strays', i \notin Strays PROVE \E h \in Handlers : i = f[h]
    OBVIOUS
  <2>1. PICK b \in Busy : i = action[b].id BY <1>2 DEF Strays, Current
  <2>2. b \in Browsers /\ action[b] # Idle BY DEF Busy
  <2>3. action[b].pc = "wait"
    <3>1. SUFFICES ASSUME action[b].pc # "wait" PROVE FALSE OBVIOUS
    <3>2. action'[b] = action[b] BY <2>2, <3>1 DEF Crash
    <3> QED BY <2>1, <2>2, <3>2 DEF Strays, Current, Busy
  <2>4. PICK h \in Working : handler[h].id = action[b].id BY <2>3 DEF LinkInv, Linked
  <2> QED BY <2>1, <2>4 DEF Working
<1>5. DOMAIN f = Handlers OBVIOUS
<1> HIDE DEF f
<1>6. Cardinality(Strays') <= Cardinality(Strays) + Cardinality(Handlers)
  BY <1>4, <1>5, StraysFinite, HandlersAssumption, ManyMore DEF HandlersAssumption
<1>7. /\ Cardinality(Strays) \in Nat /\ Cardinality(Strays') \in Nat
      /\ Cardinality(Closed) \in Nat /\ Cardinality(Closed') \in Nat
  BY StraysFinite, FS_CardinalityType
<1>8. /\ Losses \in Nat /\ Cardinality(Handlers) \in Nat
      /\ Losses' = Losses + Cardinality(Handlers)
  BY LossesCount
<1>9. givenUp \in Nat /\ Cardinality(Strays) <= Cardinality(Closed) + givenUp + Losses
  BY Shape DEF StraysArePaidFor, Strays
<1>10. Cardinality(Strays') <= Cardinality(Closed') + givenUp' + Losses'
  BY <1>1, <1>3, <1>6, <1>7, <1>8, <1>9
<1> QED BY <1>10 DEF StraysArePaidFor, Strays

LEMMA WebStrays ==
    ASSUME IInv, IInv', LinkInv, StraysArePaidFor, NEW b \in Browsers,
           OpenForm(b) \/ Authorize(b) \/ Timeout(b) \/ \E op \in Ops : Press(b, op)
    PROVE  StraysArePaidFor'
<1>0. /\ action \in [Browsers -> ActionRecords \cup {Idle}]
      /\ form \in [Browsers -> Forms \cup {NoForm}]
  BY Shape
<1>1. UNCHANGED <<handler, tables, faults>> BY DEF OpenForm, Authorize, Timeout, Press
<1>2. Live' = Live BY <1>1 DEF Live, ReleaseIds, Creating, Working, tables
<1>3. ASSUME UNCHANGED form PROVE Closed' = Closed BY <1>1, <1>3 DEF Closed, tables
<1>4. ASSUME Errs(b), b \in Busy
      PROVE  /\ UNCHANGED form
             /\ Strays' \subseteq Strays \cup {action[b].id}
             /\ action[b].pc \in {"authorize", "post"} => Strays' \subseteq Strays
  <2>1. \A c \in Busy : c # b => c \in Busy' /\ action'[c] = action[c]
    BY <1>0, <1>4 DEF Errs, Busy
  <2>2. Strays' \subseteq Strays \cup {action[b].id} BY <1>2, <2>1 DEF Strays, Current
  <2>3. action[b].pc \in {"authorize", "post"} => action[b].id \notin Live
    BY <1>4 DEF LinkInv, Linked, Live, Creating
  <2> QED BY <1>2, <1>4, <2>2, <2>3 DEF Strays, Errs
<1>5. ASSUME \A c \in Busy : c \in Busy' /\ action'[c].id = action[c].id
      PROVE  Strays' \subseteq Strays
  BY <1>2, <1>5 DEF Strays, Current
<1>6. action[b].pc \in {"authorize", "post", "wait"} => b \in Busy BY DEF Busy, Idle
<1>7. CASE OpenForm(b)
  <2>1. Strays' \subseteq Strays BY <1>5, <1>7 DEF OpenForm, Busy
  <2>2. Closed \subseteq Closed'
    <3> SUFFICES ASSUME NEW k \in Closed, NEW c \in Browsers, form'[c].id = k PROVE FALSE
      BY <1>1 DEF Closed, tables
    <3>1. c = b BY <1>0, <1>7 DEF OpenForm, Closed
    <3>2. form'[b].id = forms + 1 BY <1>0, <1>7 DEF OpenForm
    <3>3. k \in Nat /\ k <= forms
      BY Shape DEF Closed, LinkInv, Numbered, ReleaseRecords
    <3>4. forms \in Nat BY Shape
    <3> QED BY <3>1, <3>2, <3>3, <3>4
  <2> QED BY <1>1, <1>7, <2>1, <2>2, AccountStays DEF OpenForm
<1>8. CASE Authorize(b)
  <2>1. UNCHANGED form /\ UNCHANGED givenUp BY <1>8 DEF Authorize, Errs
  <2>2. Strays' \subseteq Strays
    <3>1. CASE Errs(b) BY <1>4, <1>6, <1>8, <3>1 DEF Authorize
    <3>2. CASE action' = [action EXCEPT ![b].pc = "post"]
      <4>1. b \in Busy /\ action[b] \in ActionRecords BY <1>6, <1>8, Shape DEF Authorize
      <4>2. action'[b].id = action[b].id /\ action'[b].pc = "post"
        BY <1>0, <3>2, <4>1 DEF ActionRecords
      <4>3. action'[b] # Idle BY <4>2 DEF Idle
      <4>4. \A c \in Busy : c # b => c \in Busy' /\ action'[c] = action[c]
        BY <1>0, <3>2 DEF Busy
      <4> QED BY <1>5, <4>2, <4>3, <4>4 DEF Busy
    <3> QED BY <1>8, <3>1, <3>2 DEF Authorize
  <2> QED BY <1>1, <1>3, <2>1, <2>2, AccountStays
<1>9. CASE Timeout(b)
  <2>1. /\ Errs(b) /\ b \in Busy
        /\ givenUp' = IF action[b].pc = "wait" THEN givenUp + 1 ELSE givenUp
        /\ action[b].pc \in {"post", "wait"}
    BY <1>6, <1>9 DEF Timeout
  <2>2. Closed' = Closed BY <1>3, <1>4, <2>1
  <2>3. CASE action[b].pc = "wait" BY <1>1, <1>4, <2>1, <2>2, <2>3, AccountStays
  <2>4. CASE action[b].pc = "post" BY <1>1, <1>4, <2>1, <2>2, <2>4, AccountStays
  <2> QED BY <2>1, <2>3, <2>4
<1>10. ASSUME NEW op \in Ops, Press(b, op) PROVE StraysArePaidFor'
  <2>1. \A c \in Busy : c \in Busy' /\ action'[c].id = action[c].id
    BY <1>0, <1>10 DEF Press, Busy
  <2> QED BY <1>1, <1>3, <1>5, <1>10, <2>1, AccountStays DEF Press
<1> QED BY <1>7, <1>8, <1>9, <1>10

LEMMA PostStrays ==
    ASSUME IInv, IInv', LinkInv, StraysArePaidFor, NEW b \in Browsers, NEW h \in Handlers,
           Post(b, h)
    PROVE  StraysArePaidFor'
<1> DEFINE f == [pc |-> "guard", id |-> action[b].id, op |-> action[b].op,
                 browser |-> b, token |-> action[b].token, form |-> action[b].form,
                 project |-> NoProject]
<1>1. b \in Busy /\ action[b] \in ActionRecords BY Shape DEF Post, Busy, Idle
<1>2. \A g \in Working' :
        (g \in Working /\ handler'[g] = handler[g]) \/ handler'[g].id = action[b].id
  <2>1. handler' = [handler EXCEPT ![h] = f] BY DEF Post
  <2>2. f.id = action[b].id OBVIOUS
  <2> HIDE DEF f
  <2> QED BY <2>1, <2>2, Shape DEF Working
<1>3. Live' \subseteq Live \cup {action[b].id}
  BY <1>2 DEF Post, Live, ReleaseIds, Creating, tables
<1>4. action'[b].id = action[b].id /\ action'[b].pc = "wait"
  BY <1>1, Shape DEF Post, ActionRecords
<1>5. b \in Busy' BY <1>4 DEF Busy, Idle
<1>6. \A c \in Busy : c \in Busy' /\ action'[c].id = action[c].id
  BY <1>4, <1>5, Shape DEF Post, Busy
<1>7. Strays' \subseteq Strays BY <1>1, <1>3, <1>6 DEF Strays, Current
<1>8. Closed' = Closed BY DEF Post, Closed, tables
<1> QED BY <1>7, <1>8, AccountStays DEF Post

LEMMA StraysInductive ==
    ASSUME IInv, IInv', LinkInv, StraysArePaidFor, [Next]_vars
    PROVE  StraysArePaidFor'
<1>1. ASSUME UNCHANGED <<form, action, givenUp, handler, tables, faults>>
      PROVE  StraysArePaidFor'
  <2>1. Strays' = Strays /\ Closed' = Closed
    BY <1>1 DEF Strays, Closed, Live, Current, ReleaseIds, Creating, Working, Busy, tables
  <2> QED BY <1>1, <2>1, AccountStays
<1>2. ASSUME NEW b \in Browsers, Login(b) \/ SetCookie(b) \/ Logout(b)
      PROVE  StraysArePaidFor'
  BY <1>1, <1>2 DEF Login, SetCookie, Logout, web
<1>3. CASE Tick \/ UNCHANGED vars BY <1>1, <1>3 DEF Tick, vars, web
<1> QED BY <1>2, <1>3, WebStrays, PostStrays, ApiStrays, CrashStrays DEF Next

-----------------------------------------------------------------------------
(* What the account says of the releases                                   *)

\* The form of a release whose request is still awaited is on the screen.
LEMMA CurrentForm ==
    ASSUME IInv, LinkInv, NEW b \in Busy, NEW r \in releases, r.id = action[b].id
    PROVE  form[b] # NoForm /\ form[b].id = r.form
<1>1. action[b].id \in ReleaseIds BY DEF ReleaseIds
<1>2. action[b].pc = "wait"
  BY <1>1, Shape DEF LinkInv, Linked, ActionRecords
<1>3. PICK h \in Working : handler[h].id = action[b].id BY <1>2 DEF LinkInv, Linked
<1>4. handler[h].pc \in {"audit", "read"}
  BY <1>1, <1>3, Shape DEF LinkInv, ProgressOK, Progressed, HandlerRecords
<1>5. PICK s \in releases : s.id = handler[h].id /\ s.form = handler[h].form.id
  BY <1>4 DEF LinkInv, ProgressOK, Progressed
<1>6. s = r BY <1>3, <1>5 DEF LinkInv, Distinct
<1>7. form[b] = handler[h].form /\ handler[h].form \in Forms BY <1>3, <1>4, SentForm
<1>8. handler[h].form # NoForm BY <1>7 DEF Forms, NoForm
<1> QED BY <1>5, <1>6, <1>7, <1>8

LEMMA Duplicates == IInv /\ LinkInv /\ StraysArePaidFor => DuplicatesArePaidFor
<1> SUFFICES ASSUME IInv, LinkInv, StraysArePaidFor PROVE DuplicatesArePaidFor OBVIOUS
<1> DEFINE I == ReleaseIds \cap Current
           O == ReleaseIds \ Current
           Shown == FormsUsed \ Closed
           The(i) == CHOOSE r \in releases : r.id = i
<1>1. /\ IsFiniteSet(ReleaseIds) /\ IsFiniteSet(FormsUsed) /\ IsFiniteSet(Strays)
      /\ IsFiniteSet(Closed)
  BY StraysFinite
<1>2. /\ IsFiniteSet(I) /\ IsFiniteSet(O) /\ IsFiniteSet(Shown)
      /\ Cardinality(I) \in Nat /\ Cardinality(O) \in Nat /\ Cardinality(Shown) \in Nat
      /\ Cardinality(Closed) \in Nat /\ Cardinality(Strays) \in Nat
  BY <1>1, Fewer
<1>3. IsFiniteSet(releases) /\ Cardinality(releases) <= Cardinality(ReleaseIds)
  <2> DEFINE f == [r \in releases |-> r.id]
  <2>1. f \in Injection(releases, ReleaseIds)
    BY DEF Injection, IsInjective, LinkInv, Distinct, ReleaseIds
  <2> QED BY <1>1, <2>1, FS_Injection
<1>4. Cardinality(ReleaseIds) = Cardinality(I) + Cardinality(O)
  <2>1. I \cup O = ReleaseIds /\ I \cap O = {} OBVIOUS
  <2> HIDE DEF I, O
  <2>2. Cardinality(I \cup O) = Cardinality(I) + Cardinality(O) - Cardinality(I \cap O)
    BY <1>2, FS_Union
  <2>3. Cardinality(I \cap O) = 0 BY <2>1, FS_EmptySet
  <2>4. Cardinality(I) + Cardinality(O) - 0 = Cardinality(I) + Cardinality(O) BY <1>2
  <2>5. Cardinality(I \cup O) = Cardinality(I) + Cardinality(O) BY <2>2, <2>3, <2>4
  <2> QED BY <2>1, <2>5
<1>5. Cardinality(FormsUsed) = Cardinality(Shown) + Cardinality(Closed)
  <2>1. Shown \cup Closed = FormsUsed /\ Shown \cap Closed = {} BY DEF Closed, FormsUsed
  <2> HIDE DEF Shown
  <2>2. Cardinality(Shown \cup Closed)
            = Cardinality(Shown) + Cardinality(Closed) - Cardinality(Shown \cap Closed)
    BY <1>1, <1>2, FS_Union
  <2>3. Cardinality(Shown \cap Closed) = 0 BY <2>1, FS_EmptySet
  <2>4. Cardinality(Shown) + Cardinality(Closed) - 0 = Cardinality(Shown) + Cardinality(Closed)
    BY <1>2
  <2>5. Cardinality(Shown \cup Closed) = Cardinality(Shown) + Cardinality(Closed)
    BY <2>2, <2>3, <2>4
  <2> QED BY <2>1, <2>5
<1>6. Cardinality(O) <= Cardinality(Strays)
  <2>1. O \subseteq Strays BY DEF Strays, Live
  <2> HIDE DEF O
  <2> QED BY <1>1, <2>1, Fewer
<1>7. Cardinality(I) <= Cardinality(Shown)
  <2> DEFINE f == [i \in I |-> The(i).form]
  <2>1. ASSUME NEW i \in I PROVE The(i) \in releases /\ The(i).id = i
    <3>1. \E r \in releases : r.id = i BY DEF ReleaseIds
    <3> QED BY <3>1
  <2> HIDE DEF The
  <2>2. ASSUME NEW i \in I
        PROVE  \E b \in Busy : action[b].id = i /\ form[b] # NoForm /\ form[b].id = f[i]
    <3>1. PICK b \in Busy : action[b].id = i BY DEF Current
    <3>2. PICK r \in releases : r = The(i) BY <2>1
    <3>3. r.id = action[b].id BY <2>1, <3>1, <3>2
    <3>4. form[b] # NoForm /\ form[b].id = r.form BY <3>3, CurrentForm
    <3> QED BY <3>1, <3>2, <3>4
  <2>3. ASSUME NEW i \in I PROVE f[i] \in Shown
    <3>1. f[i] \in FormsUsed BY <2>1 DEF FormsUsed
    <3>2. f[i] \notin Closed BY <2>2 DEF Closed, Busy
    <3> QED BY <3>1, <3>2
  <2>4. ASSUME NEW i \in I, NEW j \in I, f[i] = f[j] PROVE i = j
    <3>1. PICK b \in Busy : action[b].id = i /\ form[b] # NoForm /\ form[b].id = f[i]
      BY <2>2
    <3>2. PICK c \in Busy : action[c].id = j /\ form[c] # NoForm /\ form[c].id = f[j]
      BY <2>2
    <3>3. b = c BY <2>4, <3>1, <3>2 DEF LinkInv, Distinct, Busy
    <3> QED BY <3>1, <3>2, <3>3
  <2>5. DOMAIN f = I /\ f = [i \in I |-> f[i]] OBVIOUS
  <2> HIDE DEF f, I, Shown
  <2>6. f \in Injection(I, Shown) BY <2>3, <2>4, <2>5 DEF Injection, IsInjective
  <2> QED BY <1>2, <2>6, FS_Injection
<1> HIDE DEF I, O, Shown
<1>8. Losses \in Nat /\ givenUp \in Nat BY LossesCount, Shape
<1>9. Cardinality(Strays) <= Cardinality(Closed) + givenUp + Losses
  BY DEF StraysArePaidFor, Strays
<1>10. Cardinality(releases) \in Nat BY <1>3, FS_CardinalityType
<1>11. Cardinality(releases) <= Cardinality(FormsUsed) + givenUp + Losses
  BY <1>2, <1>3, <1>4, <1>5, <1>6, <1>7, <1>8, <1>9, <1>10
<1> QED BY <1>11 DEF DuplicatesArePaidFor, FormsUsed

LEMMA PaidInitially == Init => PaidInv
<1> SUFFICES ASSUME Init PROVE PaidInv OBVIOUS
<1>1. IInv BY Initially
<1>2. Losses \in Nat /\ givenUp \in Nat BY <1>1, LossesCount, Shape
<1>3. /\ LostProjects = {} /\ LostReleases = {} /\ Strays = {} /\ Closed = {}
  BY DEF Init, LostProjects, LostReleases, ReleaseIds, Strays, Live, Creating, Working, Closed
<1>4. Abandoned = 0 BY <1>3, AbandonedIs, FS_EmptySet
<1>5. Cardinality(Strays) = 0 /\ Cardinality(Closed) = 0 BY <1>3, FS_EmptySet
<1> QED BY <1>2, <1>4, <1>5 DEF PaidInv, HalfDoneIsPaidFor, StraysArePaidFor, Strays

Accounts == IInv /\ LinkInv /\ PaidInv

LEMMA AccountsInitially == Init => Accounts
BY Initially, LinkInitially, PaidInitially DEF Accounts

LEMMA AccountsInductive == Accounts /\ [Next]_vars => Accounts'
<1> SUFFICES ASSUME Accounts, [Next]_vars PROVE Accounts' OBVIOUS
<1>1. IInv' /\ LinkInv' BY Inductive, LinkInductive DEF Accounts
<1>2. HalfDoneIsPaidFor' BY <1>1, HalfDoneInductive DEF Accounts, PaidInv
<1>3. StraysArePaidFor' BY <1>1, StraysInductive DEF Accounts, PaidInv
<1> QED BY <1>1, <1>2, <1>3 DEF Accounts, PaidInv

LEMMA AccountsSay == Accounts => HalfDoneIsPaidFor /\ DuplicatesArePaidFor
BY Duplicates DEF Accounts, PaidInv

\* The invariant with the links and the account of strays.
THEOREM AccountsBalance == Spec => []Accounts
BY AccountsInitially, AccountsInductive, PTL DEF Spec

\* createRelease leaves no more projects without a release and releases
\* without their audit event behind than calls failed and requests died, with
\* any number of sessions, forms and requests at a time.
THEOREM HalfDoneIsPaid == Spec => []HalfDoneIsPaidFor
BY AccountsBalance, AccountsSay, PTL

\* A form makes one release, and another one only where the web server gave
\* up on a request or a fault kept its answer back.
THEOREM DuplicatesArePaid == Spec => []DuplicatesArePaidFor
BY AccountsBalance, AccountsSay, PTL
=============================================================================
