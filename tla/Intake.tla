------------------------------- MODULE Intake -------------------------------
(***************************************************************************)
(* How a request gets from a browser to a release: demo sessions, the      *)
(* server actions of the web front end, the guard of the API, and          *)
(* createRelease with its separate calls for the project, the release and  *)
(* the audit event.                                                        *)
(*                                                                         *)
(* Three parties act: the user of a browser, the web server, which gives   *)
(* up on the API after a time limit, and the API, which knows nothing of   *)
(* that and goes on.  action[b] is the server action browser b waits for,  *)
(* handler[h] a request in the API.  Requests other than the creation of a *)
(* release are modelled elsewhere and end here when the guard lets them    *)
(* through.                                                                *)
(***************************************************************************)
EXTENDS Naturals, FiniteSets

CONSTANTS
    Browsers,
    Handlers,      \* concurrent requests in the API
    Roles,         \* the roles users log in with
    Ops,           \* what they ask for
    Spellings,     \* of a project id: small letters, or others
    Lifetime,      \* of a token and of the cookie that holds it
    Faults,        \* the faults that may happen in this instance
    MaxTime,       \* bound: of the clock
    MaxLogins,     \* bound: logins
    MaxForms,      \* bound: forms filled in
    MaxPresses,    \* bound: server actions started
    MaxProjects,   \* bound: projects
    MaxFailures    \* bound: how often faults happen, crashes included

AuthRoles == {"Operator", "Approver", "ReleaseManager", "Admin"}
WebOps == {"create", "run", "queue", "execute", "decide", "submit"}

ASSUME RolesAssumption == Roles \subseteq AuthRoles
ASSUME OpsAssumption == Ops \subseteq WebOps
ASSUME SpellingsAssumption == "small" \in Spellings
ASSUME HandlersAssumption == IsFiniteSet(Handlers)
ASSUME FaultsAssumption == Faults \subseteq {"throw", "lostReply", "crash"}
ASSUME BoundsAssumption ==
    /\ Lifetime \in Nat \ {0} /\ MaxTime \in Nat /\ MaxFailures \in Nat
    /\ MaxLogins \in Nat /\ MaxForms \in Nat /\ MaxPresses \in Nat /\ MaxProjects \in Nat \ {0}

Times == 0 .. MaxTime + Lifetime
ProjectIds == 1 .. MaxProjects
NoProject == 0
Requests == 1 .. MaxPresses

\* A demo principal has one role and at most one project.  The login takes the
\* id of a project as it was typed; the database writes small letters.
Tokens ==
    [role : AuthRoles, project : ProjectIds \cup {NoProject}, written : Spellings, exp : Times]
NoToken == [role |-> "nobody"]

Forms ==
    [id : 1 .. MaxForms, project : ProjectIds \cup {NoProject}, written : Spellings]
NoForm == [id |-> 0]

\* A release is named after the request that created it.
ReleaseRecords ==
    [id : Requests, project : ProjectIds, by : Tokens, form : 1 .. MaxForms]

ActionRecords ==
    [pc : {"authorize", "post", "wait"}, id : Requests, op : WebOps,
     token : Tokens \cup {NoToken}, form : Forms \cup {NoForm}]

\* project is the one the release will be in.
HandlerRecords ==
    [pc : {"guard", "project", "release", "audit", "read"}, id : Requests, op : WebOps,
     browser : Browsers, token : Tokens, form : Forms \cup {NoForm},
     project : ProjectIds \cup {NoProject}]

Idle == [pc |-> "idle"]

VARIABLES
    now,
    cookie,      \* the session cookie of each browser
    login,       \* the token a login is about to put there
    form,        \* the form for a new release each browser shows
    action,      \* the server action each browser waits for
    handler,     \* requests in the API
    projects,    \* number of rows of the projects table
    releases,    \* its releases
    audits,      \* releases with a release.created event
    logins,      \* logins so far
    forms,       \* forms filled in
    presses,     \* server actions started
    givenUp,     \* of which the web server gave up on the API
    failures,    \* calls that failed
    crashes      \* how often the API died

session == <<cookie, login, logins>>
web == <<form, action, forms, presses, givenUp>>
tables == <<projects, releases, audits>>
faults == <<failures, crashes>>
vars == <<now, session, web, handler, tables, faults>>

TypeOK ==
    /\ now \in 0 .. MaxTime
    /\ cookie \in [Browsers -> [token : Tokens, until : Times] \cup {NoToken}]
    /\ login \in [Browsers -> Tokens \cup {NoToken}]
    /\ form \in [Browsers -> Forms \cup {NoForm}]
    /\ action \in [Browsers -> ActionRecords \cup {Idle}]
    /\ handler \in [Handlers -> HandlerRecords \cup {Idle}]
    /\ projects \in 1 .. MaxProjects
    /\ releases \subseteq ReleaseRecords
    /\ audits \subseteq Requests
    /\ {logins, forms, presses, givenUp, failures, crashes} \subseteq Nat

\* One project is there, from before.
Init ==
    /\ now = 0
    /\ cookie = [b \in Browsers |-> NoToken]
    /\ login = [b \in Browsers |-> NoToken]
    /\ form = [b \in Browsers |-> NoForm]
    /\ action = [b \in Browsers |-> Idle]
    /\ handler = [h \in Handlers |-> Idle]
    /\ projects = 1 /\ releases = {} /\ audits = {}
    /\ logins = 0 /\ forms = 0 /\ presses = 0 /\ givenUp = 0
    /\ failures = 0 /\ crashes = 0

-----------------------------------------------------------------------------
(* Principals and what they may do                                         *)

\* AuthTokenService.verify
Valid(token) == token # NoToken /\ token.exp > now

\* @RequireRoles of the controllers.
ApiRole(op) ==
    CASE op \in {"create", "run", "queue", "execute"} -> "Operator"
      [] op = "decide" -> "Approver"
      [] op = "submit" -> "ReleaseManager"

\* AuthGuard: Admin may do everything.
ApiAllows(token, op) == token.role \in {"Admin", ApiRole(op)}

\* The role each server action asks for.
WebRole(op) ==
    CASE op = "decide" -> "Approver"
      [] op = "submit" -> "ReleaseManager"
      [] OTHER -> "Operator"

HasRole(token, role) == token.role = "Admin" \/ token.role = role

\* assertProject compares the ids as they are written.
Opens(token, project, written) ==
    \/ token.role = "Admin"
    \/ token.project = project /\ token.written = written

OpensRelease(token, release) == Opens(token, release.project, "small")

\* Seeded fault: an empty list of projects is no filter.
EmptyIsNoFilter(token, release) ==
    \/ token.role = "Admin" \/ token.project = NoProject
    \/ release.project = token.project

\* projectFilter, and what the list makes of it: nothing of an empty one, and
\* uuids of the others, however they are written.
Listed(token, release) ==
    \/ token.role = "Admin"
    \/ token.project # NoProject /\ release.project = token.project

-----------------------------------------------------------------------------
(* Sessions                                                                *)

\* The browser drops the cookie at its own time.
CookieOf(b) ==
    IF cookie[b] # NoToken /\ cookie[b].until > now THEN cookie[b].token ELSE NoToken

\* Seeded fault: seconds are taken for milliseconds.
ExpiryInMilliseconds == now + 1000 * Lifetime

Expiry == now + Lifetime

\* demoLogin issues a token for any persona, bound to a project one knows of;
\* Admin has no need of one.
Login(b) ==
    /\ login[b] = NoToken
    /\ logins < MaxLogins
    /\ logins' = logins + 1
    /\ \E role \in Roles, project \in 0 .. projects, written \in Spellings :
        /\ role = "Admin" => project = NoProject
        /\ project = NoProject => written = "small"
        /\ login' = [login EXCEPT ![b] =
                        [role |-> role, project |-> project, written |-> written,
                         exp |-> Expiry]]
    /\ UNCHANGED <<now, cookie, web, handler, tables, faults>>

\* loginAction has the answer, and counts from its own time.
SetCookie(b) ==
    /\ login[b] # NoToken
    /\ login' = [login EXCEPT ![b] = NoToken]
    /\ cookie' = [cookie EXCEPT ![b] = [token |-> login[b], until |-> Expiry]]
    /\ UNCHANGED <<now, logins, web, handler, tables, faults>>

\* logoutAction: the token stays good.
Logout(b) ==
    /\ cookie[b] # NoToken
    /\ cookie' = [cookie EXCEPT ![b] = NoToken]
    /\ UNCHANGED <<now, login, logins, web, handler, tables, faults>>

-----------------------------------------------------------------------------
(* Server actions                                                          *)

\* The page for a new release, as rendered for the session of the moment: a
\* new project for Admin, the project of the session for an operator, as the
\* session writes it.
OpenForm(b) ==
    LET token == CookieOf(b) IN
    /\ action[b] = Idle
    /\ forms < MaxForms
    /\ Valid(token) /\ HasRole(token, "Operator")
    /\ token.role = "Admin" \/ token.project # NoProject
    /\ forms' = forms + 1
    /\ form' = [form EXCEPT ![b] =
                  [id |-> forms + 1,
                   project |-> IF token.role = "Admin" THEN NoProject ELSE token.project,
                   written |-> token.written]]
    /\ UNCHANGED <<now, session, action, presses, givenUp, handler, tables, faults>>

\* A button of a page that may be older than the session.
Press(b, op) ==
    /\ action[b] = Idle
    /\ presses < MaxPresses
    /\ op = "create" => form[b] # NoForm
    /\ presses' = presses + 1
    /\ action' = [action EXCEPT ![b] =
                    [pc |-> "authorize", id |-> presses + 1, op |-> op, token |-> CookieOf(b),
                     form |-> IF op = "create" THEN form[b] ELSE NoForm]]
    /\ UNCHANGED <<now, session, form, forms, givenUp, handler, tables, faults>>

\* The action of b has ended without success.
Errs(b) ==
    /\ action' = [action EXCEPT ![b] = Idle]
    /\ UNCHANGED form

\* Seeded fault: the redirect is thrown inside a try, and caught.
RedirectCaught(b, release) == Errs(b)

\* The redirect to the release that was created leaves the form behind.
Succeeds(b, release) ==
    /\ action' = [action EXCEPT ![b] = Idle]
    /\ form' = [form EXCEPT ![b] = IF release = 0 THEN @ ELSE NoForm]

\* authorize: /auth/me, then hasRole; then the fields, which may be incomplete.
Authorize(b) ==
    LET token == action[b].token IN
    /\ action[b].pc = "authorize"
    /\ \/ /\ Valid(token) /\ HasRole(token, WebRole(action[b].op))
          /\ action' = [action EXCEPT ![b].pc = "post"]
          /\ UNCHANGED form
       \/ Errs(b)
    /\ UNCHANGED <<now, session, forms, presses, givenUp, handler, tables, faults>>

\* The request with the same cookie.
Post(b, h) ==
    /\ action[b].pc = "post"
    /\ handler[h] = Idle
    /\ handler' = [handler EXCEPT ![h] =
                     [pc |-> "guard", id |-> action[b].id, op |-> action[b].op,
                      browser |-> b, token |-> action[b].token, form |-> action[b].form,
                      project |-> NoProject]]
    /\ action' = [action EXCEPT ![b].pc = "wait"]
    /\ UNCHANGED <<now, session, form, forms, presses, givenUp, tables, faults>>

\* AbortSignal.timeout: the API is not told, nor may it have been asked yet.
Timeout(b) ==
    /\ action[b].pc \in {"post", "wait"}
    /\ Errs(b)
    /\ givenUp' = IF action[b].pc = "wait" THEN givenUp + 1 ELSE givenUp
    /\ UNCHANGED <<now, session, forms, presses, handler, tables, faults>>

-----------------------------------------------------------------------------
(* The API                                                                 *)

Goto(h, step) == [handler[h] EXCEPT !.pc = step]

Become(h, frame) == handler' = [handler EXCEPT ![h] = frame]

\* Whether the web server still waits for h.
Awaited(h) ==
    LET b == handler[h].browser IN
    action[b].pc = "wait" /\ action[b].id = handler[h].id

\* The handler ends with an answer, which nobody may be waiting for.
Answer(h, release) ==
    LET b == handler[h].browser IN
    /\ Become(h, Idle)
    /\ IF ~ Awaited(h) THEN UNCHANGED <<form, action>>
       ELSE IF release # 0 THEN Succeeds(b, release)
       ELSE Errs(b)

Fault(fault) ==
    /\ fault \in Faults
    /\ failures + crashes < MaxFailures
    /\ failures' = failures + 1
    /\ UNCHANGED crashes

\* A statement that took effect; when its reply is lost the request fails.
Return(h, frame) ==
    \/ Become(h, frame) /\ UNCHANGED <<form, action, faults>>
    \/ Answer(h, 0) /\ Fault("lostReply")

\* Seeded fault: the rule set is looked up after the project.
RefusesLate(h) == handler[h].pc \in {"guard", "release"}

\* A body that does not parse, a rule set that does not fit platform and
\* language: createRelease turns it down before its first call.  What refuses
\* the other operations is in the modules about them.
Refuses(h) == handler[h].pc = "guard"

Refuse(h) ==
    /\ handler[h] # Idle /\ Refuses(h)
    /\ Answer(h, 0)
    /\ UNCHANGED <<now, session, forms, presses, givenUp, tables, faults>>

\* Seeded fault: anybody may leave out the project.
Unchecked(token, chosen) ==
    chosen.project = NoProject \/ Opens(token, chosen.project, chosen.written)

\* A new project is for Admin, an old one for its members.
MayChoose(token, chosen) ==
    IF chosen.project = NoProject THEN token.role = "Admin"
    ELSE Opens(token, chosen.project, chosen.written)

\* AuthGuard, and for a new release the checks of createRelease.
Admit(h) ==
    LET token == handler[h].token IN
    /\ handler[h].pc = "guard"
    /\ Valid(token) /\ ApiAllows(token, handler[h].op)
    /\ \/ /\ handler[h].op = "create" /\ MayChoose(token, handler[h].form)
          /\ Become(h, Goto(h, "project"))
          /\ UNCHANGED <<form, action>>
       \/ /\ handler[h].op # "create"
          /\ Become(h, Idle)
          /\ IF Awaited(h) THEN Succeeds(handler[h].browser, 0)
             ELSE UNCHANGED <<form, action>>
    /\ UNCHANGED <<now, session, forms, presses, givenUp, tables, faults>>

\* createProject or getProject, which finds a project by its uuid: the release
\* is inserted with the id of the row.
ChooseProject(h) ==
    /\ handler[h].pc = "project"
    /\ IF handler[h].form.project = NoProject
       THEN /\ projects < MaxProjects
            /\ projects' = projects + 1
            /\ Return(h, [Goto(h, "release") EXCEPT !.project = projects + 1])
       ELSE /\ Become(h, [Goto(h, "release") EXCEPT !.project = handler[h].form.project])
            /\ UNCHANGED <<form, action, projects, faults>>
    /\ UNCHANGED <<now, session, forms, presses, givenUp, releases, audits>>

InsertRelease(h) ==
    /\ handler[h].pc = "release"
    /\ releases' = releases \cup
            {[id |-> handler[h].id, project |-> handler[h].project,
              by |-> handler[h].token, form |-> handler[h].form.id]}
    /\ Return(h, Goto(h, "audit"))
    /\ UNCHANGED <<now, session, forms, presses, givenUp, projects, audits>>

AppendAudit(h) ==
    /\ handler[h].pc = "audit"
    /\ audits' = audits \cup {handler[h].id}
    /\ Return(h, Goto(h, "read"))
    /\ UNCHANGED <<now, session, forms, presses, givenUp, projects, releases>>

\* getRelease, and the answer, which may get lost.
ReadBack(h) ==
    /\ handler[h].pc = "read"
    /\ \/ Answer(h, handler[h].id) /\ UNCHANGED faults
       \/ Answer(h, 0) /\ Fault("lostReply")
    /\ UNCHANGED <<now, session, forms, presses, givenUp, tables>>

-----------------------------------------------------------------------------
(* The environment                                                         *)

\* A call throws: nothing is taken back.
Throw(h) ==
    /\ handler[h].pc \in {"project", "release", "audit", "read"}
    /\ Fault("throw")
    /\ Answer(h, 0)
    /\ UNCHANGED <<now, session, forms, presses, givenUp, tables>>

\* The API process dies with all its requests; the connections break.
Crash ==
    /\ "crash" \in Faults
    /\ failures + crashes < MaxFailures
    /\ crashes' = crashes + 1
    /\ handler' = [h \in Handlers |-> Idle]
    /\ action' = [b \in Browsers |-> IF action[b].pc = "wait" THEN Idle ELSE action[b]]
    /\ UNCHANGED <<now, session, form, forms, presses, givenUp, tables, failures>>

Tick ==
    /\ now < MaxTime
    /\ now' = now + 1
    /\ UNCHANGED <<session, web, handler, tables, faults>>

Next ==
    \/ \E b \in Browsers :
        \/ Login(b) \/ SetCookie(b) \/ Logout(b) \/ OpenForm(b) \/ Authorize(b) \/ Timeout(b)
        \/ \E op \in Ops : Press(b, op)
        \/ \E h \in Handlers : Post(b, h)
    \/ \E h \in Handlers :
        Refuse(h) \/ Admit(h) \/ ChooseProject(h) \/ InsertRelease(h) \/ AppendAudit(h)
        \/ ReadBack(h) \/ Throw(h)
    \/ Crash \/ Tick

Spec == Init /\ [][Next]_vars

-----------------------------------------------------------------------------
(* Properties                                                              *)

\* What faults may have done to the requests in work.
Losses == failures + crashes * Cardinality(Handlers)

\* One release per form, unless the web server gave up on the API while it was
\* creating one, or a fault kept its answer back: createRelease knows no key
\* that would tell a retry from a new wish.
DuplicatesArePaidFor ==
    Cardinality(releases) <= Cardinality({r.form : r \in releases}) + givenUp + Losses

InWork == {handler[h] : h \in {g \in Handlers : handler[g] # Idle}}

Abandoned ==
    Cardinality((2 .. projects) \ ({r.project : r \in releases} \cup {f.project : f \in InWork}))
    + Cardinality({r.id : r \in releases} \ (audits \cup {f.id : f \in InWork}))

\* createRelease has no transaction: it leaves a project without a release, or
\* a release without its audit event, only where a call failed or the process
\* died; giving up on it, expiry of the session or a second request do not.
HalfDoneIsPaidFor == Abandoned <= Losses

\* Whatever form was sent with whatever session, the release is inside the
\* creator's projects: on the list, and open to a session that writes the id
\* the way the database does.  One that does not is answered 403.
Inside(token, release) ==
    /\ Listed(token, release)
    /\ token.written = "small" => OpensRelease(token, release)

CreatedInside == \A r \in releases : Inside(r.by, r)

\* What a session opens is on its list, and what is on the list of one that
\* writes its project in small letters it opens.
ListsWhatOpens ==
    \A b \in Browsers, r \in releases :
        LET token == CookieOf(b) IN
        token # NoToken =>
            /\ OpensRelease(token, r) => Listed(token, r)
            /\ token.written = "small" /\ Listed(token, r) => OpensRelease(token, r)

\* Of what the web server lets through, the guard refuses nothing but tokens
\* that have expired since.
TablesAgree ==
    \A h \in Handlers :
        handler[h] # Idle /\ Valid(handler[h].token) =>
            ApiAllows(handler[h].token, handler[h].op)

\* Rights are looked at in four places, each with a rule of its own: the SQL of
\* the list and assertProject, the web server's roles and the API's.  They agree
\* on every session, also on one without projects, and at any time of its life,
\* but for the spelling of a project id, which only assertProject looks at.
ChecksAgree == ListsWhatOpens /\ TablesAgree
=============================================================================
