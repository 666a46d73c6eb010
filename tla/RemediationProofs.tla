------------------------- MODULE RemediationProofs -------------------------
(***************************************************************************)
(* Proofs about Remediation, for any requests, any number of objects and   *)
(* failures, and any subset of the faults.                                 *)
(*                                                                         *)
(* The argument is one inductive invariant, IInv.  An object belongs to    *)
(* the handler that stored it until it is registered: no other handler and *)
(* no row has its uri (ObjectInv), so what a handler removes is its own.   *)
(* A handler whose COMMIT was in doubt knows the one row its object may    *)
(* have.  An action has one handler, and until that handler registers, the *)
(* action is RUNNING, no COMMIT is in flight and its subtitle is the       *)
(* latest one (SourceInv); a COMMIT in flight carries that over to when it *)
(* lands (PendingInv).  An object that is neither in a row nor in a        *)
(* handler's care was given up by a call that failed (LeakInv).            *)
(***************************************************************************)
EXTENDS Remediation, FiniteSetTheorems, TLAPS

\* The steps of a handler that stored an object and knows it has no row.
Caring == {"inspect", "register", "remove", "discard"}
Holding == Caring \cup {"verify"}

\* The steps of an action's handler up to the registration.
Early == {"load", "derive", "precheck", "store", "inspect", "register"}

ObjectInv ==
    /\ \A uri \in objects : uri <= stored
    /\ RowsHaveObjects
    /\ \A p \in Requests : call[p].pc \in Holding => call[p].uri <= stored
    /\ \A p, q \in Requests :
        p # q /\ call[p].pc \in Holding /\ call[q].pc \in Holding => call[p].uri # call[q].uri
    /\ \A p \in Requests : call[p].pc \in {"inspect", "register"} => call[p].uri \in objects
    /\ \A p \in Requests : call[p].pc \in Caring =>
        \A row \in rows \cup pending : row.uri # call[p].uri
    /\ \A p \in Requests : At(p, "verify") =>
        \A row \in rows \cup pending : row.uri = call[p].uri => row = Row(p)

Same(row, other) ==
    /\ row.format = other.format
    /\ row.parent = other.parent
    /\ row.content = other.content

ActionInv ==
    /\ OneRunning
    /\ \A p, q \in Requests :
        p # q /\ call[p].action = call[q].action => call[p].action = NoAction
    /\ \A p \in Requests :
        call[p].action # NoAction => actions[call[p].action] \notin {"NONE", "PROPOSED"}
    /\ \A p \in Requests : call[p].action # NoAction /\ call[p].pc \in Early =>
        /\ actions[call[p].action] = "RUNNING"
        /\ pending = {}

SourceInv ==
    \A p \in Requests : call[p].action # NoAction =>
        /\ At(p, "derive") => call[p].source = latest
        /\ call[p].pc \in {"precheck", "store", "inspect", "register"} =>
            call[p].action[2] = latest

PendingInv ==
    /\ \A row, other \in pending : row = other
    /\ \A row \in pending :
        /\ \A other \in rows : ~ Same(row, other)
        /\ row.parent # 0 => row.parent = latest
        /\ \A k \in Running : row.parent = k[2]

\* The table has what the action k derives.
HasAsset(table, k) ==
    \E row \in table :
        /\ row.parent = k[2]
        /\ row.format = IF k[1] = "GENERATE_TTML" THEN "TTML" ELSE "SRT"

AssetInv ==
    /\ \A k \in ActionKeys : actions[k] = "COMPLETED" => HasAsset(rows, k)
    /\ \A p \in Requests :
        call[p].action # NoAction /\ call[p].pc \in {"discard", "complete"} =>
            HasAsset(rows, call[p].action)

\* The objects in nobody's care: a handler that cannot tell whether its row
\* was committed does not count.
Unclaimed ==
    {uri \in objects :
        /\ \A row \in rows : row.uri # uri
        /\ \A p \in Requests : call[p].pc \in Caring => call[p].uri # uri}

LeakInv == Cardinality(Unclaimed) <= failures

IInv ==
    /\ TypeOK
    /\ ObjectInv
    /\ ActionInv
    /\ SourceInv
    /\ PendingInv
    /\ AssetInv
    /\ LeakInv

-----------------------------------------------------------------------------
(* The initial states                                                      *)

LEMMA IdleType == IdleCall \in CallRecords
BY DEF IdleCall, CallRecords, Steps, Contents, NoAction

LEMMA UrisAreNumbers == \A uri \in Uris : uri \in Nat /\ uri > 0
BY BoundsAssumption DEF Uris

\* No action works on the subtitle 0.
LEMMA KeysAreActions == \A k \in ActionKeys : k # NoAction /\ k[2] \in Uris /\ k[2] # 0
BY UrisAreNumbers DEF ActionKeys, NoAction

LEMMA InitIInv == Init => IInv
<1> SUFFICES ASSUME Init PROVE IInv
  OBVIOUS
<1>1. \A p \in Requests : call[p] = IdleCall
  BY DEF Init
<1>2. \A p \in Requests : call[p].pc = "idle" /\ call[p].action = NoAction
  BY <1>1 DEF IdleCall
<1>3. TypeOK
  <2>1. call \in [Requests -> CallRecords]
    BY IdleType DEF Init
  <2>2. evaluation \in EvaluationRecords
    BY DEF Init, NoEvaluation, EvaluationRecords, ReleaseStates
  <2>3. QED
    BY <2>1, <2>2 DEF Init, TypeOK, ReleaseStates, ActionStatuses
<1>4. ObjectInv
  BY <1>2 DEF Init, ObjectInv, RowsHaveObjects, Holding, Caring, At
<1>5. ActionInv
  BY <1>2 DEF Init, ActionInv, OneRunning, Running, Early
<1>6. SourceInv
  BY <1>2 DEF SourceInv
<1>7. PendingInv
  BY DEF Init, PendingInv
<1>8. AssetInv
  BY <1>2 DEF Init, AssetInv
<1>9. LeakInv
  <2>1. Unclaimed = {}
    BY DEF Init, Unclaimed
  <2>2. Cardinality({}) = 0
    BY FS_EmptySet
  <2>3. QED
    BY <2>1, <2>2 DEF Init, LeakInv
<1>10. QED
  BY <1>3, <1>4, <1>5, <1>6, <1>7, <1>8, <1>9 DEF IInv

-----------------------------------------------------------------------------
(* What a step does to the frames and to what the invariant talks about    *)

\* Every other handler stays where it is.
Alone(p) == \A q \in Requests : q # p => call'[q] = call[q]

\* p moves on and keeps its action, its object and what it derived.
Moves(p, step) ==
    /\ call'[p].pc = step
    /\ call'[p].action = call[p].action
    /\ call'[p].source = call[p].source
    /\ call'[p].uri = call[p].uri
    /\ call'[p].content = call[p].content

\* p gets to a step about which the invariant has nothing to say.
Rests(p) ==
    /\ call'[p].pc \in {"idle", "fail", "giveUp", "block", "rerun"}
    /\ call'[p].action \in {call[p].action, NoAction}

Facts == <<assets, objects, stored, actions>>

Calm == failures' = failures
Failed == failures' = failures + 1

\* The action k gets the status s.
Sets(k, s) == \A j \in ActionKeys : actions'[j] = IF j = k THEN s ELSE actions[j]

\* p ends, or is thrown out of what it was doing; only a failure makes it give
\* up an object in its care.
Leaves(p) ==
    /\ UNCHANGED Facts
    /\ Rests(p)
    /\ (Calm /\ call[p].pc \notin Caring) \/ Failed

Starts(p) ==
    /\ UNCHANGED Facts
    /\ Calm
    /\ At(p, "idle")
    /\ call'[p].pc = "store"
    /\ call'[p].action = NoAction

\* p goes on with its action on what it read.
Reads(p) ==
    /\ UNCHANGED Facts
    /\ Calm
    /\ call'[p].action = call[p].action
    /\ \/ At(p, "load") /\ call'[p].pc = "derive" /\ call'[p].source = latest
       \/ /\ At(p, "derive") /\ call'[p].pc = "precheck"
          /\ call[p].action[2] = call[p].source
       \/ At(p, "precheck") /\ call'[p].pc = "store"

\* p goes on with the object it stored.
Keeps(p) ==
    /\ UNCHANGED Facts
    /\ Calm \/ Failed
    /\ \/ At(p, "inspect") /\ Moves(p, "register")
       \/ call[p].pc \in {"inspect", "register"} /\ Moves(p, "remove")
       \/ /\ At(p, "register") \/ (At(p, "verify") /\ Row(p) \notin rows)
          /\ Equivalent(p) # {}
          /\ Moves(p, "discard")
       \/ At(p, "verify") /\ Row(p) \in rows /\ Moves(p, "complete")

Claims(p) ==
    /\ At(p, "idle")
    /\ UNCHANGED <<assets, objects, stored>>
    /\ \E k \in ActionKeys :
        /\ Unlocked
        /\ actions[k] = "PROPOSED"
        /\ Running = {}
        /\ Sets(k, "RUNNING")
        /\ \/ call'[p].pc = "load" /\ call'[p].action = k /\ Calm
           \/ Rests(p) /\ Failed

Settles(p) ==
    /\ UNCHANGED <<assets, objects, stored>>
    /\ \/ At(p, "complete") /\ Sets(call[p].action, "COMPLETED")
       \/ call[p].pc \in {"fail", "giveUp"} /\ Sets(call[p].action, "FAILED")
    /\ Rests(p)
    /\ Calm \/ Failed

Stores(p) ==
    /\ At(p, "store")
    /\ stored < MaxObjects
    /\ stored' = stored + 1
    /\ objects' = objects \cup {stored + 1}
    /\ UNCHANGED <<assets, actions>>
    /\ call'[p].pc = "inspect"
    /\ call'[p].action = call[p].action
    /\ call'[p].uri = stored + 1
    /\ Calm

Registers(p) ==
    /\ At(p, "register")
    /\ Unlocked
    /\ Admits(p)
    /\ Equivalent(p) = {}
    /\ UNCHANGED <<objects, stored, actions>>
    /\ \/ /\ Insert(Row(p))
          /\ UNCHANGED pending
          /\ \/ (Moves(p, "complete") \/ Rests(p)) /\ Calm
             \/ Moves(p, "verify") /\ Failed
       \/ /\ pending' = {Row(p)}
          /\ UNCHANGED <<rows, latest>>
          /\ Moves(p, "verify")
          /\ Failed

Removes(p) ==
    /\ objects' = objects \ {call[p].uri}
    /\ UNCHANGED <<assets, stored, actions>>
    /\ \/ At(p, "discard") /\ Moves(p, "complete")
       \/ call[p].pc \in {"remove", "discard"} /\ Rests(p)
    /\ Calm

Effect(p) ==
    \/ Leaves(p) \/ Starts(p) \/ Reads(p) \/ Keeps(p) \/ Claims(p) \/ Settles(p)
    \/ Stores(p) \/ Registers(p) \/ Removes(p)

\* What happens outside the handlers.
Lands ==
    /\ \E row \in pending : Insert(row)
    /\ pending' = {}
    /\ UNCHANGED <<objects, stored, actions>>

Aborts == pending' = {} /\ UNCHANGED <<rows, latest, objects, stored, actions>>

Proposes ==
    /\ UNCHANGED <<assets, objects, stored>>
    /\ \/ UNCHANGED actions
       \/ \E k \in ActionKeys : actions[k] = "NONE" /\ Sets(k, "PROPOSED")

Outside == (Lands \/ Aborts \/ Proposes) /\ UNCHANGED <<failures, call>>

LEMMA BecomeMoves ==
    ASSUME TypeOK, NEW p \in Requests, NEW f, Become(p, f)
    PROVE  call'[p] = f /\ Alone(p) /\ Calm
BY DEF TypeOK, Become, Alone, Calm

LEMMA FailMoves ==
    ASSUME TypeOK, NEW p \in Requests, NEW f, NEW fault, Fail(fault, p, f)
    PROVE  call'[p] = f /\ Alone(p) /\ Failed
BY DEF TypeOK, Fail, Alone, Failed

LEMMA ReturnMoves ==
    ASSUME TypeOK, NEW p \in Requests, NEW f, Return(p, f)
    PROVE  /\ Alone(p)
           /\ \/ call'[p] = f /\ Calm
              \/ call'[p] = Thrown(p) /\ Failed
BY BecomeMoves, FailMoves DEF Return

LEMMA GotoMoves ==
    ASSUME TypeOK, NEW p \in Requests, NEW s, call'[p] = Goto(p, s)
    PROVE  Moves(p, s)
BY DEF TypeOK, CallRecords, Goto, Moves

LEMMA IdleRests ==
    ASSUME NEW p, call'[p] = IdleCall
    PROVE  Rests(p)
BY DEF IdleCall, Rests

LEMMA MovesRests ==
    ASSUME NEW p, NEW s \in {"fail", "giveUp", "block", "rerun"}, Moves(p, s)
    PROVE  Rests(p)
BY DEF Moves, Rests

LEMMA EscapedRests ==
    ASSUME TypeOK, NEW p \in Requests, call'[p] = Escaped(p)
    PROVE  Rests(p)
BY IdleRests, GotoMoves, MovesRests DEF Escaped

LEMMA PersistedMoves ==
    ASSUME TypeOK, NEW p \in Requests, call'[p] = Persisted(p)
    PROVE  Moves(p, "complete") \/ Rests(p)
BY IdleRests, GotoMoves DEF Persisted

LEMMA ThrownMoves ==
    ASSUME TypeOK, NEW p \in Requests, call'[p] = Thrown(p)
    PROVE  \/ call[p].pc \in {"inspect", "register"} /\ Moves(p, "remove")
           \/ call[p].pc \notin {"inspect", "register"} /\ Rests(p)
<1>1. CASE call[p].pc \in {"inspect", "register"}
  BY <1>1, GotoMoves DEF Thrown
<1>2. CASE call[p].pc \in {"load", "giveUp"}
  BY <1>2, GotoMoves, MovesRests DEF Thrown
<1>3. CASE call[p].pc \in {"derive", "precheck", "store", "verify", "remove", "discard", "complete"}
  BY <1>3, EscapedRests DEF Thrown
<1>4. CASE call[p].pc \notin {"inspect", "register", "load", "giveUp", "derive", "precheck",
                              "store", "verify", "remove", "discard", "complete"}
  BY <1>4, IdleRests DEF Thrown
<1>5. QED
  BY <1>1, <1>2, <1>3, <1>4

\* A call whose throw is not caught around the call itself.
LEMMA ReturnRests ==
    ASSUME TypeOK, NEW p \in Requests, NEW f, Return(p, f),
           call[p].pc \notin {"inspect", "register"}
    PROVE  /\ Alone(p)
           /\ \/ call'[p] = f /\ Calm
              \/ Rests(p) /\ Failed
BY ReturnMoves, ThrownMoves

LEMMA SetsAction ==
    ASSUME TypeOK, NEW k, NEW s, actions' = [actions EXCEPT ![k] = s]
    PROVE  Sets(k, s)
BY DEF TypeOK, Sets

LEMMA ClaimEffect ==
    ASSUME TypeOK, NEW p \in Requests, NEW k \in ActionKeys, ClaimAction(p, k)
    PROVE  Alone(p) /\ Claims(p)
<1> DEFINE f == [IdleCall EXCEPT !.pc = "load", !.action = k]
<1>1. f.pc = "load" /\ f.action = k
  BY DEF IdleCall
<1>2. /\ At(p, "idle")
      /\ Unlocked /\ actions[k] = "PROPOSED" /\ Running = {}
      /\ UNCHANGED <<assets, objects, stored>>
      /\ Sets(k, "RUNNING")
      /\ Return(p, f)
  BY SetsAction DEF ClaimAction, Claimable
<1> HIDE DEF f
<1>3. /\ Alone(p)
      /\ \/ call'[p] = f /\ Calm
         \/ Rests(p) /\ Failed
  BY <1>2, ReturnRests DEF At
<1>4. QED
  BY <1>1, <1>2, <1>3 DEF Claims

LEMMA ReadEffects ==
    ASSUME TypeOK, NEW p \in Requests,
           StartUpload(p) \/ LoadRelease(p) \/ Derive(p) \/ Precheck(p)
    PROVE  Alone(p) /\ (Leaves(p) \/ Starts(p) \/ Reads(p))
<1>0. call[p] \in CallRecords
  BY DEF TypeOK
<1>1. CASE StartUpload(p)
  <2>1. PICK c \in Contents : Become(p, [IdleCall EXCEPT !.pc = "store", !.content = c])
    BY <1>1 DEF StartUpload
  <2>2. call'[p] = [IdleCall EXCEPT !.pc = "store", !.content = c] /\ Alone(p) /\ Calm
    BY <2>1, BecomeMoves
  <2>3. call'[p].pc = "store" /\ call'[p].action = NoAction
    BY <2>2 DEF IdleCall
  <2>4. QED
    BY <1>1, <2>2, <2>3 DEF StartUpload, Starts, Facts
<1>2. CASE LoadRelease(p)
  <2>1. call'[p] = [call[p] EXCEPT !.pc = "derive", !.source = latest] /\ Alone(p) /\ Calm
    BY <1>2, BecomeMoves DEF LoadRelease
  <2>2. call'[p].pc = "derive" /\ call'[p].source = latest /\ call'[p].action = call[p].action
    BY <1>0, <2>1 DEF CallRecords
  <2>3. QED
    BY <1>2, <2>1, <2>2 DEF LoadRelease, Reads, Facts
<1>3. CASE Derive(p)
  <2>1. At(p, "derive") /\ UNCHANGED Facts
    BY <1>3 DEF Derive, Facts
  <2>2. CASE Become(p, Goto(p, "fail"))
    BY <2>1, <2>2, BecomeMoves, GotoMoves, MovesRests DEF Leaves, At, Caring
  <2>3. CASE /\ SourceIsLatest(call[p].action, call[p].source)
             /\ Become(p, [call[p] EXCEPT !.pc = "precheck", !.content = "clean"])
    <3>1. call'[p] = [call[p] EXCEPT !.pc = "precheck", !.content = "clean"] /\ Alone(p) /\ Calm
      BY <2>3, BecomeMoves
    <3>2. call'[p].pc = "precheck" /\ call'[p].action = call[p].action
      BY <1>0, <3>1 DEF CallRecords
    <3>3. QED
      BY <2>1, <2>3, <3>1, <3>2 DEF Reads, SourceIsLatest
  <2>4. QED
    BY <1>3, <2>2, <2>3 DEF Derive
<1>4. CASE Precheck(p)
  <2>1. At(p, "precheck") /\ UNCHANGED Facts
    BY <1>4 DEF Precheck, Facts
  <2>2. CASE Become(p, Goto(p, "store"))
    <3>1. Alone(p) /\ Calm /\ Moves(p, "store")
      BY <2>2, BecomeMoves, GotoMoves
    <3>2. QED
      BY <2>1, <3>1 DEF Reads, Moves
  <2>3. CASE Become(p, Goto(p, "fail"))
    BY <2>1, <2>3, BecomeMoves, GotoMoves, MovesRests DEF Leaves, At, Caring
  <2>4. QED
    BY <1>4, <2>2, <2>3 DEF Precheck
<1>5. QED
  BY <1>1, <1>2, <1>3, <1>4

LEMMA SettleEffects ==
    ASSUME TypeOK, NEW p \in Requests,
           CompleteAction(p) \/ FailAction(p) \/ BlockRelease(p) \/ Rerun(p)
    PROVE  Alone(p) /\ (Leaves(p) \/ Settles(p))
<1>1. CASE CompleteAction(p)
  <2>1. /\ At(p, "complete")
        /\ actions' = [actions EXCEPT ![call[p].action] = "COMPLETED"]
        /\ UNCHANGED <<assets, objects, stored>>
        /\ Return(p, Goto(p, "rerun"))
    BY <1>1 DEF CompleteAction, MayComplete
  <2>2. Alone(p) /\ Rests(p) /\ (Calm \/ Failed)
    BY <2>1, ReturnRests, GotoMoves, MovesRests DEF At
  <2>3. QED
    BY <2>1, <2>2, SetsAction DEF Settles
<1>2. CASE FailAction(p)
  <2>1. /\ call[p].pc \in {"fail", "giveUp"}
        /\ actions' = [actions EXCEPT ![call[p].action] = "FAILED"]
        /\ UNCHANGED <<assets, objects, stored>>
        /\ Return(p, Goto(p, "block"))
    BY <1>2 DEF FailAction, At
  <2>2. Alone(p) /\ Rests(p) /\ (Calm \/ Failed)
    BY <2>1, ReturnRests, GotoMoves, MovesRests
  <2>3. QED
    BY <2>1, <2>2, SetsAction DEF Settles
<1>3. CASE BlockRelease(p)
  BY <1>3, ReturnRests, IdleRests DEF BlockRelease, At, Leaves, Facts, Caring
<1>4. CASE Rerun(p)
  BY <1>4, BecomeMoves, IdleRests DEF Rerun, At, Leaves, Facts, Caring
<1>5. QED
  BY <1>1, <1>2, <1>3, <1>4

LEMMA StoreEffect ==
    ASSUME TypeOK, NEW p \in Requests, Store(p)
    PROVE  Alone(p) /\ Stores(p)
<1>1. call'[p] = [call[p] EXCEPT !.pc = "inspect", !.uri = stored + 1] /\ Alone(p) /\ Calm
  BY BecomeMoves DEF Store
<1>2. call[p] \in CallRecords
  BY DEF TypeOK
<1>3. call'[p].pc = "inspect" /\ call'[p].action = call[p].action /\ call'[p].uri = stored + 1
  BY <1>1, <1>2 DEF CallRecords
<1>4. QED
  BY <1>1, <1>3 DEF Store, Stores

LEMMA InspectEffect ==
    ASSUME TypeOK, NEW p \in Requests, Inspect(p)
    PROVE  Alone(p) /\ Keeps(p)
<1>1. PICK step \in {"register", "remove"} : Become(p, Goto(p, step))
  BY DEF Inspect
<1>2. Alone(p) /\ Calm /\ Moves(p, step)
  BY <1>1, BecomeMoves, GotoMoves
<1>3. QED
  BY <1>2 DEF Inspect, Keeps, Facts, At

LEMMA RegisterEffects ==
    ASSUME TypeOK, NEW p \in Requests, Register(p)
    PROVE  Alone(p) /\ (Keeps(p) \/ Registers(p))
<1>1. At(p, "register") /\ Unlocked /\ UNCHANGED <<objects, stored, actions>>
  BY DEF Register
<1>2. CASE Become(p, Goto(p, "remove")) /\ UNCHANGED assets
  BY <1>1, <1>2, BecomeMoves, GotoMoves DEF Keeps, Facts, At
<1>3. CASE Equivalent(p) # {} /\ Become(p, Goto(p, "discard")) /\ UNCHANGED assets
  BY <1>1, <1>3, BecomeMoves, GotoMoves DEF Keeps, Facts
<1>4. CASE /\ Admits(p) /\ Equivalent(p) = {}
           /\ Insert(Row(p))
           /\ Become(p, Persisted(p)) \/ Fail("commit", p, Goto(p, "verify"))
           /\ UNCHANGED pending
  <2>1. CASE Become(p, Persisted(p))
    BY <1>1, <1>4, <2>1, BecomeMoves, PersistedMoves DEF Registers
  <2>2. CASE Fail("commit", p, Goto(p, "verify"))
    BY <1>1, <1>4, <2>2, FailMoves, GotoMoves DEF Registers
  <2>3. QED
    BY <1>4, <2>1, <2>2
<1>5. CASE /\ Admits(p) /\ Equivalent(p) = {}
           /\ pending' = {Row(p)}
           /\ Fail("commit", p, Goto(p, "verify"))
           /\ UNCHANGED <<rows, latest>>
  BY <1>1, <1>5, FailMoves, GotoMoves DEF Registers
<1>6. QED
  BY <1>2, <1>3, <1>4, <1>5 DEF Register

LEMMA VerifyEffects ==
    ASSUME TypeOK, NEW p \in Requests, Verify(p)
    PROVE  Alone(p) /\ (Leaves(p) \/ Keeps(p))
<1>1. At(p, "verify") /\ UNCHANGED Facts
  BY DEF Verify, Facts
<1>2. CASE Row(p) \in rows /\ Become(p, Persisted(p))
  BY <1>1, <1>2, BecomeMoves, PersistedMoves DEF Leaves, Keeps, At, Caring
<1>3. CASE Row(p) \notin rows /\ Equivalent(p) # {} /\ Become(p, Goto(p, "discard"))
  BY <1>1, <1>3, BecomeMoves, GotoMoves DEF Keeps
<1>4. CASE Become(p, Escaped(p))
  BY <1>1, <1>4, BecomeMoves, EscapedRests DEF Leaves, At, Caring
<1>5. QED
  BY <1>2, <1>3, <1>4 DEF Verify, KeepUnconfirmed

LEMMA RemoveEffect ==
    ASSUME TypeOK, NEW p \in Requests, Remove(p)
    PROVE  Alone(p) /\ Removes(p)
<1>1. /\ objects' = objects \ {call[p].uri}
      /\ UNCHANGED <<assets, stored, actions>>
  BY DEF Remove, WithoutObject
<1>2. CASE At(p, "discard") /\ Become(p, Persisted(p))
  BY <1>1, <1>2, BecomeMoves, PersistedMoves DEF Removes, At
<1>3. CASE At(p, "remove") /\ Become(p, Escaped(p))
  BY <1>1, <1>3, BecomeMoves, EscapedRests DEF Removes, At
<1>4. QED
  BY <1>2, <1>3 DEF Remove, At

LEMMA FaultEffects ==
    ASSUME TypeOK, NEW p \in Requests, Throw(p) \/ Crash(p)
    PROVE  Alone(p) /\ (Leaves(p) \/ Keeps(p))
<1>1. UNCHANGED Facts /\ Alone(p) /\ Failed /\ (call'[p] = Thrown(p) \/ call'[p] = IdleCall)
  BY FailMoves DEF Throw, Crash, Facts
<1>2. CASE call'[p] = Thrown(p)
  BY <1>1, <1>2, ThrownMoves DEF Leaves, Keeps
<1>3. CASE call'[p] = IdleCall
  BY <1>1, <1>3, IdleRests DEF Leaves
<1>4. QED
  BY <1>1, <1>2, <1>3

LEMMA OutsideEffects ==
    ASSUME TypeOK,
           \/ Commit \/ Abort \/ StartEvaluation \/ Evaluate \/ EvaluationFails
           \/ StoreOutcome \/ Decide \/ UNCHANGED vars
    PROVE  Outside
<1>1. CASE Commit
  BY <1>1 DEF Commit, Outside, Lands
<1>2. CASE Abort
  BY <1>2 DEF Abort, Outside, Aborts
<1>3. CASE StoreOutcome
  <2>1. UNCHANGED <<assets, objects, stored, failures, call>>
    BY <1>3 DEF StoreOutcome
  <2>2. CASE UNCHANGED actions
    BY <2>1, <2>2 DEF Outside, Proposes
  <2>3. CASE /\ evaluation.action # NoAction
             /\ actions[evaluation.action] = "NONE"
             /\ actions' = [actions EXCEPT ![evaluation.action] = "PROPOSED"]
    <3>1. evaluation.action \in ActionKeys
      BY <2>3 DEF TypeOK, EvaluationRecords
    <3>2. QED
      BY <2>1, <2>3, <3>1, SetsAction DEF Outside, Proposes
  <2>4. QED
    BY <1>3, <2>2, <2>3 DEF StoreOutcome
<1>4. CASE StartEvaluation \/ Evaluate \/ EvaluationFails \/ Decide \/ UNCHANGED vars
  BY <1>4 DEF StartEvaluation, Evaluate, EvaluationFails, Decide, vars, Outside, Proposes
<1>5. QED
  BY <1>1, <1>2, <1>3, <1>4

LEMMA RequestEffects ==
    ASSUME TypeOK, NEW p \in Requests,
           StartUpload(p) \/ Progress(p) \/ Throw(p) \/ Crash(p)
           \/ \E k \in ActionKeys : ClaimAction(p, k)
    PROVE  Alone(p) /\ Effect(p)
<1>1. CASE Progress(p)
  BY <1>1, ReadEffects, SettleEffects, StoreEffect, InspectEffect, RegisterEffects,
     VerifyEffects, RemoveEffect DEF Progress, Effect
<1>2. CASE StartUpload(p) \/ Throw(p) \/ Crash(p)
  BY <1>2, ReadEffects, FaultEffects DEF Effect
<1>3. ASSUME NEW k \in ActionKeys, ClaimAction(p, k) PROVE Alone(p) /\ Effect(p)
  BY <1>3, ClaimEffect DEF Effect
<1>4. QED
  BY <1>1, <1>2, <1>3

LEMMA Effects ==
    TypeOK /\ [Next]_vars => Outside \/ \E p \in Requests : Alone(p) /\ Effect(p)
BY RequestEffects, OutsideEffects DEF Next

-----------------------------------------------------------------------------
(* Types                                                                   *)

LEMMA ActionParts ==
    \A k \in ActionKeys \cup {NoAction} : k[2] \in Uris \cup {0}
BY DEF ActionKeys, NoAction

LEMMA RowType ==
    ASSUME TypeOK, NEW p \in Requests, call[p].uri \in Uris
    PROVE  Row(p) \in RowRecords
<1>1. call[p] \in CallRecords
  BY DEF TypeOK
<1>2. call[p].action \in ActionKeys \cup {NoAction} /\ call[p].content \in Contents
  BY <1>1 DEF CallRecords
<1>3. call[p].action[2] \in Uris \cup {0}
  BY <1>2, ActionParts
<1>4. QED
  BY <1>2, <1>3 DEF Row, RowRecords

LEMMA InsertType ==
    ASSUME TypeOK, NEW row \in RowRecords, Insert(row)
    PROVE  rows' \subseteq RowRecords /\ latest' \in Uris \cup {0}
BY DEF TypeOK, Insert, RowRecords

LEMMA BecomeType ==
    ASSUME TypeOK, NEW p \in Requests, NEW f \in CallRecords, Become(p, f)
    PROVE  call' \in [Requests -> CallRecords] /\ failures' \in Nat
BY DEF TypeOK, Become

LEMMA FailType ==
    ASSUME TypeOK, NEW p \in Requests, NEW f \in CallRecords, NEW fault, Fail(fault, p, f)
    PROVE  call' \in [Requests -> CallRecords] /\ failures' \in Nat
BY DEF TypeOK, Fail

LEMMA GotoType ==
    ASSUME TypeOK, NEW p \in Requests, NEW s \in Steps
    PROVE  Goto(p, s) \in CallRecords
<1>1. call[p] \in CallRecords
  BY DEF TypeOK
<1>2. QED
  BY <1>1 DEF Goto, CallRecords

LEMMA ReturnedType ==
    ASSUME TypeOK, NEW p \in Requests
    PROVE  /\ Escaped(p) \in CallRecords
           /\ Persisted(p) \in CallRecords
           /\ Thrown(p) \in CallRecords
<1>1. \A s \in {"fail", "complete", "remove", "giveUp", "block"} : Goto(p, s) \in CallRecords
  BY GotoType DEF Steps
<1>2. Escaped(p) \in CallRecords /\ Persisted(p) \in CallRecords
  BY <1>1, IdleType DEF Escaped, Persisted
<1>3. Thrown(p) \in CallRecords
  BY <1>1, <1>2, IdleType DEF Thrown
<1>4. QED
  BY <1>2, <1>3

LEMMA ReturnType ==
    ASSUME TypeOK, NEW p \in Requests, NEW f \in CallRecords, Return(p, f)
    PROVE  call' \in [Requests -> CallRecords] /\ failures' \in Nat
<1>1. CASE Become(p, f)
  BY <1>1, BecomeType
<1>2. CASE Fail("lostReply", p, Thrown(p))
  BY <1>2, FailType, ReturnedType
<1>3. QED
  BY <1>1, <1>2 DEF Return

\* The variables other than the frames and the failure count.
data == <<release, assets, objects, stored, actions, evaluation>>

DataOK ==
    /\ release \in ReleaseStates
    /\ rows \subseteq RowRecords
    /\ latest \in Uris \cup {0}
    /\ pending \subseteq RowRecords
    /\ objects \subseteq Uris
    /\ stored \in Nat
    /\ actions \in [ActionKeys -> ActionStatuses]
    /\ evaluation \in EvaluationRecords

FramesOK == call \in [Requests -> CallRecords] /\ failures \in Nat

LEMMA TypeParts == TypeOK <=> DataOK /\ FramesOK
BY DEF TypeOK, DataOK, FramesOK

LEMMA DataKept == DataOK /\ UNCHANGED data => DataOK'
BY DEF DataOK, data, assets

LEMMA RunType ==
    ASSUME DataOK, Claimed
    PROVE  release' \in ReleaseStates /\ evaluation' \in EvaluationRecords
<1>1. evaluation' = [NoEvaluation EXCEPT !.step = "load", !.from = release]
      /\ release' = "VALIDATING" /\ release \in ReleaseStates
  BY DEF Claimed, DataOK
<1>2. QED
  BY <1>1 DEF NoEvaluation, EvaluationRecords, ReleaseStates

LEMMA ProposedType ==
    ASSUME DataOK
    PROVE  Proposed \in ActionKeys \cup {NoAction}
<1>1. latest \in Uris \cup {0}
  BY DEF DataOK
<1>2. QED
  BY <1>1 DEF Proposed, ActionKeys

LEMMA EvaluateType ==
    ASSUME DataOK, Evaluate
    PROVE  evaluation' \in EvaluationRecords
<1>1. evaluation \in EvaluationRecords
  BY DEF DataOK
<1>2. CASE evaluation' = [evaluation EXCEPT !.step = "store", !.state = "BLOCKED"]
  BY <1>1, <1>2 DEF EvaluationRecords, ReleaseStates
<1>3. CASE evaluation' = [evaluation EXCEPT !.step = "store", !.state = "REMEDIATING",
                                            !.action = Proposed]
  <2>1. Proposed \in ActionKeys \cup {NoAction}
    BY ProposedType
  <2> HIDE DEF Proposed
  <2>2. QED
    BY <1>1, <1>3, <2>1 DEF EvaluationRecords, ReleaseStates
<1>4. CASE evaluation' = [evaluation EXCEPT !.step = "store", !.state = "READY_FOR_APPROVAL"]
  BY <1>1, <1>4 DEF EvaluationRecords, ReleaseStates
<1>5. QED
  BY <1>2, <1>3, <1>4 DEF Evaluate

LEMMA TypeStep == TypeOK /\ ObjectInv /\ [Next]_vars => TypeOK'
<1> SUFFICES ASSUME TypeOK, ObjectInv, [Next]_vars PROVE DataOK' /\ FramesOK'
  BY DEF TypeOK, DataOK, FramesOK
<1>0. DataOK /\ FramesOK
  BY TypeParts
<1>1. ASSUME NEW p \in Requests PROVE call[p] \in CallRecords
  BY DEF TypeOK
<1>2. ASSUME NEW p \in Requests, NEW s \in Steps, Return(p, Goto(p, s)) PROVE FramesOK'
  BY <1>2, GotoType, ReturnType DEF FramesOK
<1>3. ASSUME NEW p \in Requests, NEW s \in Steps, Become(p, Goto(p, s)) PROVE FramesOK'
  BY <1>3, GotoType, BecomeType DEF FramesOK
<1>4. ASSUME NEW k, NEW s \in ActionStatuses, actions' = [actions EXCEPT ![k] = s]
      PROVE  actions' \in [ActionKeys -> ActionStatuses]
  BY <1>0, <1>4 DEF DataOK
<1>5. ASSUME NEW p \in Requests, NEW k \in ActionKeys, ClaimAction(p, k)
      PROVE  DataOK' /\ FramesOK'
  <2>1. [IdleCall EXCEPT !.pc = "load", !.action = k] \in CallRecords
    BY IdleType DEF CallRecords, Steps
  <2>2. FramesOK'
    BY <1>5, <2>1, ReturnType DEF ClaimAction, FramesOK
  <2>3. DataOK'
    BY <1>0, <1>4, <1>5 DEF ClaimAction, DataOK, assets, ActionStatuses
  <2>4. QED
    BY <2>2, <2>3
<1>6. ASSUME NEW p \in Requests, StartUpload(p) PROVE DataOK' /\ FramesOK'
  <2>1. PICK c \in Contents : Become(p, [IdleCall EXCEPT !.pc = "store", !.content = c])
    BY <1>6 DEF StartUpload
  <2>2. [IdleCall EXCEPT !.pc = "store", !.content = c] \in CallRecords
    BY IdleType DEF CallRecords, Steps
  <2>3. QED
    BY <1>0, <1>6, <2>1, <2>2, BecomeType, DataKept DEF StartUpload, data, FramesOK
<1>7. ASSUME NEW p \in Requests, LoadRelease(p) PROVE DataOK' /\ FramesOK'
  <2>1. [call[p] EXCEPT !.pc = "derive", !.source = latest] \in CallRecords
    BY <1>0, <1>1 DEF CallRecords, Steps, DataOK
  <2>2. QED
    BY <1>0, <1>7, <2>1, BecomeType, DataKept DEF LoadRelease, data, FramesOK
<1>8. ASSUME NEW p \in Requests, Derive(p) PROVE DataOK' /\ FramesOK'
  <2>1. UNCHANGED data
    BY <1>8 DEF Derive, data
  <2>2. CASE Become(p, [call[p] EXCEPT !.pc = "precheck", !.content = "clean"])
    <3>1. [call[p] EXCEPT !.pc = "precheck", !.content = "clean"] \in CallRecords
      BY <1>1 DEF CallRecords, Steps, Contents
    <3>2. QED
      BY <1>0, <2>1, <2>2, <3>1, BecomeType, DataKept DEF FramesOK
  <2>3. CASE Become(p, Goto(p, "fail"))
    BY <1>0, <1>3, <2>1, <2>3, DataKept DEF Steps
  <2>4. QED
    BY <1>8, <2>2, <2>3 DEF Derive
<1>9. ASSUME NEW p \in Requests, Precheck(p) \/ Inspect(p) PROVE DataOK' /\ FramesOK'
  <2>1. UNCHANGED data
    BY <1>9 DEF Precheck, Inspect, data
  <2>2. PICK s \in {"store", "fail", "register", "remove"} : Become(p, Goto(p, s))
    BY <1>9 DEF Precheck, Inspect
  <2>3. QED
    BY <1>0, <1>3, <2>1, <2>2, DataKept DEF Steps
<1>10. ASSUME NEW p \in Requests, CompleteAction(p) \/ FailAction(p) PROVE DataOK' /\ FramesOK'
  <2>1. FramesOK'
    BY <1>2, <1>10 DEF CompleteAction, FailAction, Steps
  <2>2. DataOK'
    BY <1>0, <1>4, <1>10 DEF CompleteAction, FailAction, DataOK, assets, ActionStatuses
  <2>3. QED
    BY <2>1, <2>2
<1>11. ASSUME NEW p \in Requests, BlockRelease(p) PROVE DataOK' /\ FramesOK'
  <2>1. FramesOK'
    BY <1>11, IdleType, ReturnType DEF BlockRelease, FramesOK
  <2>2. DataOK'
    BY <1>0, <1>11 DEF BlockRelease, DataOK, assets, ReleaseStates
  <2>3. QED
    BY <2>1, <2>2
<1>12. ASSUME NEW p \in Requests, Store(p) PROVE DataOK' /\ FramesOK'
  <2>1. stored + 1 \in Uris /\ stored + 1 \in Nat
    BY <1>0, <1>12, BoundsAssumption DEF DataOK, Store, Uris
  <2>2. [call[p] EXCEPT !.pc = "inspect", !.uri = stored + 1] \in CallRecords
    BY <1>1, <2>1 DEF CallRecords, Steps
  <2>3. FramesOK'
    BY <1>12, <2>2, BecomeType DEF Store, FramesOK
  <2>4. DataOK'
    BY <1>0, <1>12, <2>1 DEF Store, DataOK, assets
  <2>5. QED
    BY <2>3, <2>4
<1>13. ASSUME NEW p \in Requests, Register(p) PROVE DataOK' /\ FramesOK'
  <2>1. At(p, "register") /\ UNCHANGED <<release, objects, stored, actions, evaluation>>
    BY <1>13 DEF Register
  <2>2. PICK s \in {"remove", "discard", "verify"} :
            Become(p, Goto(p, s)) \/ Become(p, Persisted(p)) \/ Fail("commit", p, Goto(p, s))
    BY <1>13 DEF Register
  <2>3. FramesOK'
    BY <1>3, <2>2, GotoType, ReturnedType, BecomeType, FailType DEF Steps, FramesOK
  <2>4. Row(p) \in RowRecords
    <3>1. call[p].uri \in Uris
      BY <1>0, <2>1 DEF ObjectInv, At, DataOK
    <3>2. QED
      BY <3>1, RowType
  <2>5. rows' \subseteq RowRecords /\ latest' \in Uris \cup {0} /\ pending' \subseteq RowRecords
    BY <1>0, <1>13, <2>4, InsertType DEF Register, DataOK, assets
  <2>6. DataOK'
    BY <1>0, <2>1, <2>5 DEF DataOK
  <2>7. QED
    BY <2>3, <2>6
<1>14. ASSUME NEW p \in Requests, Verify(p) PROVE DataOK' /\ FramesOK'
  <2>1. PICK f : Become(p, f) /\ f \in {Persisted(p), Goto(p, "discard"), Escaped(p)}
    BY <1>14 DEF Verify, KeepUnconfirmed
  <2>2. f \in CallRecords
    BY <2>1, GotoType, ReturnedType DEF Steps
  <2>3. QED
    BY <1>0, <1>14, <2>1, <2>2, BecomeType, DataKept DEF Verify, data, FramesOK
<1>15. ASSUME NEW p \in Requests, Remove(p) PROVE DataOK' /\ FramesOK'
  <2>1. PICK f : Become(p, f) /\ f \in {Persisted(p), Escaped(p)}
    BY <1>15 DEF Remove
  <2>2. FramesOK'
    BY <2>1, ReturnedType, BecomeType DEF FramesOK
  <2>3. DataOK'
    BY <1>0, <1>15 DEF Remove, WithoutObject, DataOK, assets
  <2>4. QED
    BY <2>2, <2>3
<1>16. ASSUME NEW p \in Requests, Rerun(p) PROVE DataOK' /\ FramesOK'
  <2>1. FramesOK'
    BY <1>16, IdleType, BecomeType DEF Rerun, FramesOK
  <2>2. release' \in ReleaseStates /\ evaluation' \in EvaluationRecords
    <3>1. CASE Claimed
      BY <1>0, <3>1, RunType
    <3>2. CASE UNCHANGED <<release, evaluation>>
      BY <1>0, <3>2 DEF DataOK
    <3>3. QED
      BY <1>16, <3>1, <3>2 DEF Rerun
  <2>3. DataOK'
    BY <1>0, <1>16, <2>2 DEF Rerun, DataOK, assets
  <2>4. QED
    BY <2>1, <2>3
<1>17. ASSUME NEW p \in Requests, Throw(p) \/ Crash(p) PROVE DataOK' /\ FramesOK'
  <2>1. FramesOK'
    BY <1>17, IdleType, ReturnedType, FailType DEF Throw, Crash, FramesOK
  <2>2. QED
    BY <1>0, <1>17, <2>1, DataKept DEF Throw, Crash, data
<1>18. ASSUME NEW p \in Requests, Progress(p) PROVE DataOK' /\ FramesOK'
  BY <1>7, <1>8, <1>9, <1>10, <1>11, <1>12, <1>13, <1>14, <1>15, <1>16, <1>18 DEF Progress
<1>19. CASE Commit \/ Abort
  <2>1. FramesOK'
    BY <1>0, <1>19 DEF Commit, Abort, FramesOK
  <2>2. rows' \subseteq RowRecords /\ latest' \in Uris \cup {0} /\ pending' = {}
    <3>1. CASE Commit
      <4>1. PICK row \in pending : Insert(row)
        BY <3>1 DEF Commit
      <4>2. row \in RowRecords
        BY <1>0, <4>1 DEF DataOK
      <4>3. QED
        BY <3>1, <4>1, <4>2, InsertType DEF Commit
    <3>2. CASE Abort
      BY <1>0, <3>2 DEF Abort, DataOK
    <3>3. QED
      BY <1>19, <3>1, <3>2
  <2>3. DataOK'
    BY <1>0, <1>19, <2>2 DEF Commit, Abort, DataOK
  <2>4. QED
    BY <2>1, <2>3
<1>20. CASE StartEvaluation \/ Evaluate
  <2>1. release' \in ReleaseStates /\ evaluation' \in EvaluationRecords
    <3>1. CASE StartEvaluation
      BY <1>0, <3>1, RunType DEF StartEvaluation
    <3>2. CASE Evaluate
      <4>1. UNCHANGED release
        BY <3>2 DEF Evaluate
      <4>2. QED
        BY <1>0, <3>2, <4>1, EvaluateType DEF DataOK
    <3>3. QED
      BY <1>20, <3>1, <3>2
  <2>2. UNCHANGED <<assets, objects, stored, actions, failures, call>>
    BY <1>20 DEF StartEvaluation, Evaluate
  <2>3. QED
    BY <1>0, <2>1, <2>2 DEF DataOK, FramesOK, assets
<1>21. CASE EvaluationFails \/ StoreOutcome \/ Decide
  <2>1. NoEvaluation \in EvaluationRecords
    BY DEF NoEvaluation, EvaluationRecords, ReleaseStates
  <2>2. evaluation.from \in ReleaseStates /\ evaluation.state \in ReleaseStates
    BY <1>0 DEF DataOK, EvaluationRecords
  <2>3. release' \in ReleaseStates /\ evaluation' \in EvaluationRecords
    <3>1. CASE EvaluationFails
      BY <1>0, <2>1, <2>2, <3>1 DEF EvaluationFails, DataOK
    <3>2. CASE StoreOutcome
      BY <1>0, <2>1, <2>2, <3>2 DEF StoreOutcome, DataOK
    <3>3. CASE Decide
      BY <1>0, <3>3 DEF Decide, DataOK, ReleaseStates
    <3>4. QED
      BY <1>21, <3>1, <3>2, <3>3
  <2>4. actions' \in [ActionKeys -> ActionStatuses]
    <3>1. CASE UNCHANGED actions
      BY <1>0, <3>1 DEF DataOK
    <3>2. CASE actions' = [actions EXCEPT ![evaluation.action] = "PROPOSED"]
      BY <1>4, <3>2 DEF ActionStatuses
    <3>3. QED
      BY <1>21, <3>1, <3>2 DEF EvaluationFails, StoreOutcome, Decide
  <2>5. UNCHANGED <<assets, objects, stored, failures, call>>
    BY <1>21 DEF EvaluationFails, StoreOutcome, Decide
  <2>6. QED
    BY <1>0, <2>3, <2>4, <2>5 DEF DataOK, FramesOK, assets
<1>22. CASE UNCHANGED vars
  BY <1>0, <1>22 DEF vars, DataOK, FramesOK, assets
<1>23. QED
  BY <1>5, <1>6, <1>17, <1>18, <1>19, <1>20, <1>21, <1>22 DEF Next

-----------------------------------------------------------------------------
(* Rows and objects                                                        *)

LEMMA RowKept ==
    ASSUME NEW p, call'[p] = call[p] \/ \E s \in Steps : Moves(p, s)
    PROVE  Row(p)' = Row(p)
BY DEF Row, Moves

LEMMA RowFields ==
    ASSUME NEW p
    PROVE  /\ Row(p).uri = call[p].uri
           /\ Row(p).parent = call[p].action[2]
           /\ Row(p).format = IF call[p].action[1] = "GENERATE_TTML" THEN "TTML" ELSE "SRT"
BY DEF Row

\* While a row of the handler p is in flight, the table has no equivalent one.
LEMMA NoTwin ==
    ASSUME PendingInv, NEW p, Row(p) \in pending
    PROVE  Equivalent(p) = {}
<1>1. \A other \in rows : ~ Same(Row(p), other)
  BY DEF PendingInv
<1>2. QED
  BY <1>1 DEF Equivalent, Same

LEMMA ObjectStep == TypeOK /\ ObjectInv /\ PendingInv /\ [Next]_vars => ObjectInv'
<1> SUFFICES ASSUME TypeOK, ObjectInv, PendingInv, [Next]_vars PROVE ObjectInv'
  OBVIOUS
<1>0. /\ stored \in Nat /\ objects \subseteq Nat
      /\ \A p \in Requests : call[p].uri \in Nat
  <2>1. \A p \in Requests : call[p] \in CallRecords
    BY DEF TypeOK
  <2>2. \A p \in Requests : call[p].uri \in Uris \cup {0}
    BY <2>1 DEF CallRecords
  <2>3. QED
    BY <2>2, UrisAreNumbers DEF TypeOK
<1>1. CASE Outside
  <2>1. \A q \in Requests : call'[q] = call[q] /\ Row(q)' = Row(q)
    BY <1>1, RowKept DEF Outside
  <2>2. /\ rows' \cup pending' \subseteq rows \cup pending
        /\ UNCHANGED <<objects, stored>>
    BY <1>1 DEF Outside, Lands, Aborts, Proposes, Insert, assets
  <2>3. QED
    BY <2>1, <2>2 DEF ObjectInv, RowsHaveObjects, At
<1>2. ASSUME NEW p \in Requests, Alone(p), Effect(p) PROVE ObjectInv'
  <2>1. \A q \in Requests : q # p => call'[q] = call[q] /\ Row(q)' = Row(q)
    BY <1>2, RowKept DEF Alone
  <2>2. CASE Leaves(p) \/ Starts(p) \/ Reads(p) \/ Claims(p) \/ Settles(p)
    <3>1. UNCHANGED <<rows, pending, objects, stored>>
      BY <2>2 DEF Leaves, Starts, Reads, Claims, Settles, Facts, assets
    <3>2. call'[p].pc \notin Holding
      BY <2>2 DEF Leaves, Starts, Reads, Claims, Settles, Rests, Holding, Caring
    <3>3. QED
      BY <2>1, <3>1, <3>2 DEF ObjectInv, RowsHaveObjects, Holding, Caring, At
  <2>3. CASE Keeps(p)
    <3>1. UNCHANGED <<rows, pending, objects, stored>> /\ call[p].pc \in Holding
      BY <2>3 DEF Keeps, Facts, assets, At, Holding, Caring
    <3>2. call'[p].uri = call[p].uri
      BY <2>3 DEF Keeps, Moves
    <3>3. call'[p].pc \in {"register", "remove", "discard", "complete"}
      BY <2>3 DEF Keeps, Moves
    <3>4. call'[p].pc = "register" => At(p, "inspect")
      BY <2>3 DEF Keeps, Moves
    <3>5. call'[p].pc \in Caring => \A row \in rows \cup pending : row.uri # call[p].uri
      <4>1. CASE call[p].pc \in Caring
        BY <4>1 DEF ObjectInv
      <4>2. CASE At(p, "verify") /\ Equivalent(p) # {} /\ Row(p) \notin rows
        <5>1. Row(p) \notin pending
          BY <4>2, NoTwin
        <5>2. QED
          BY <4>2, <5>1 DEF ObjectInv
      <4>3. CASE Moves(p, "complete")
        BY <4>3 DEF Moves, Caring
      <4>4. QED
        BY <2>3, <4>1, <4>2, <4>3 DEF Keeps, At, Caring
    <3>6. QED
      BY <2>1, <3>1, <3>2, <3>3, <3>4, <3>5 DEF ObjectInv, RowsHaveObjects, Holding, Caring, At
  <2>4. CASE Stores(p)
    <3>1. /\ stored' = stored + 1 /\ objects' = objects \cup {stored + 1}
          /\ UNCHANGED <<rows, pending>>
          /\ call'[p].pc = "inspect" /\ call'[p].uri = stored + 1
      BY <2>4 DEF Stores, assets
    <3>2. \A row \in rows \cup pending : row.uri \in objects
      BY DEF ObjectInv, RowsHaveObjects
    <3>3. \A row \in rows \cup pending : row.uri # stored + 1
      BY <1>0, <3>2 DEF ObjectInv
    <3>4. \A uri \in objects' : uri <= stored'
      BY <1>0, <3>1 DEF ObjectInv
    <3>5. RowsHaveObjects'
      BY <3>1, <3>2 DEF RowsHaveObjects
    <3>6. \A q \in Requests : call'[q].pc \in Holding => call'[q].uri <= stored'
      BY <1>0, <2>1, <3>1 DEF ObjectInv
    <3>7. \A q, r \in Requests :
            q # r /\ call'[q].pc \in Holding /\ call'[r].pc \in Holding
              => call'[q].uri # call'[r].uri
      <4>1. \A q \in Requests : q # p /\ call[q].pc \in Holding => call[q].uri # stored + 1
        BY <1>0 DEF ObjectInv
      <4>2. QED
        BY <2>1, <3>1, <4>1 DEF ObjectInv
    <3>8. QED
      BY <2>1, <3>1, <3>3, <3>4, <3>5, <3>6, <3>7 DEF ObjectInv, At
  <2>5. CASE Registers(p)
    <3>1. /\ At(p, "register") /\ UNCHANGED <<objects, stored>>
          /\ rows' \cup pending' \subseteq rows \cup pending \cup {Row(p)}
      BY <2>5 DEF Registers, Insert
    <3>2. call'[p].pc \notin Caring
      BY <2>5 DEF Registers, Moves, Rests, Caring
    <3>3. call'[p].pc \in Holding => At(p, "verify")' /\ call'[p].uri = call[p].uri /\ Row(p)' = Row(p)
      BY <2>5, <3>2, RowKept DEF Registers, Moves, Rests, Holding, Caring, At, Steps
    <3>4. \A row \in rows \cup pending : row.uri # call[p].uri
      BY <3>1 DEF ObjectInv, At, Caring
    <3>5. \A q \in Requests : q # p /\ call[q].pc \in Holding => call[q].uri # call[p].uri
      BY <3>1 DEF ObjectInv, At, Holding, Caring
    <3>6. RowsHaveObjects'
      BY <3>1, RowFields DEF ObjectInv, RowsHaveObjects, At
    <3>7. \A q \in Requests : call'[q].pc \in Holding => call'[q].uri <= stored'
      BY <2>1, <3>1, <3>3 DEF ObjectInv, At, Holding, Caring
    <3>8. \A q, r \in Requests :
            q # r /\ call'[q].pc \in Holding /\ call'[r].pc \in Holding
              => call'[q].uri # call'[r].uri
      BY <2>1, <3>3, <3>5 DEF ObjectInv
    <3>9. \A q \in Requests : call'[q].pc \in {"inspect", "register"} => call'[q].uri \in objects'
      BY <2>1, <3>1, <3>2 DEF ObjectInv, Caring
    <3>10. \A q \in Requests : call'[q].pc \in Caring =>
             \A row \in rows' \cup pending' : row.uri # call'[q].uri
      BY <2>1, <3>1, <3>2, <3>5, RowFields DEF ObjectInv, Holding
    <3>11. \A q \in Requests : At(q, "verify")' =>
             \A row \in rows' \cup pending' : row.uri = call'[q].uri => row = Row(q)'
      <4>1. ASSUME At(p, "verify")', NEW row \in rows' \cup pending', row.uri = call'[p].uri
            PROVE  row = Row(p)'
        BY <3>1, <3>3, <3>4, <4>1 DEF At, Holding
      <4>2. ASSUME NEW q \in Requests, q # p, At(q, "verify")', NEW row \in rows' \cup pending',
                   row.uri = call'[q].uri
            PROVE  row = Row(q)'
        BY <2>1, <3>1, <3>5, <4>2, RowFields DEF ObjectInv, At, Holding
      <4>3. QED
        BY <4>1, <4>2
    <3>12. \A uri \in objects' : uri <= stored'
      BY <3>1 DEF ObjectInv
    <3>13. QED
      BY <3>6, <3>7, <3>8, <3>9, <3>10, <3>11, <3>12 DEF ObjectInv
  <2>6. CASE Removes(p)
    <3>1. /\ objects' = objects \ {call[p].uri} /\ UNCHANGED <<rows, pending, stored>>
          /\ call[p].pc \in Caring
      BY <2>6 DEF Removes, assets, At, Caring
    <3>2. call'[p].pc \notin Holding
      BY <2>6 DEF Removes, Moves, Rests, Holding, Caring
    <3>3. RowsHaveObjects'
      BY <3>1 DEF ObjectInv, RowsHaveObjects
    <3>4. \A q \in Requests : call'[q].pc \in {"inspect", "register"} => call'[q].uri \in objects'
      <4>1. \A q \in Requests : q # p /\ call[q].pc \in Holding => call[q].uri # call[p].uri
        BY <3>1 DEF ObjectInv, Holding
      <4>2. QED
        BY <2>1, <3>1, <3>2, <4>1 DEF ObjectInv, Holding, Caring
    <3>5. QED
      BY <2>1, <3>1, <3>2, <3>3, <3>4 DEF ObjectInv, Holding, Caring, At
  <2>7. QED
    BY <1>2, <2>2, <2>3, <2>4, <2>5, <2>6 DEF Effect
<1>3. QED
  BY <1>1, <1>2, Effects

-----------------------------------------------------------------------------
(* Actions and the subtitle they work on                                   *)

\* Whoever may add an asset while an action is RUNNING is that action's handler.
LEMMA OnlyItsHandler ==
    ASSUME TypeOK, ActionInv, NEW p \in Requests, NEW q \in Requests, q # p, Admits(p)
    PROVE  call[q].action # NoAction => call[q].pc \notin Early
<1>1. SUFFICES ASSUME call[q].action # NoAction, call[q].pc \in Early PROVE FALSE
  OBVIOUS
<1>2. call[q].action \in ActionKeys
  <2>1. call[q] \in CallRecords
    BY DEF TypeOK
  <2>2. QED
    BY <1>1, <2>1 DEF CallRecords
<1>3. call[q].action \in Running
  BY <1>1, <1>2 DEF ActionInv, Running
<1>4. call[q].action = call[p].action
  BY <1>3 DEF Admits
<1>5. QED
  BY <1>1, <1>4 DEF ActionInv

LEMMA ActionStep == TypeOK /\ ActionInv /\ [Next]_vars => ActionInv'
<1> SUFFICES ASSUME TypeOK, ActionInv, [Next]_vars PROVE ActionInv'
  OBVIOUS
<1>0. \A p \in Requests : call[p].action = NoAction \/ call[p].action \in ActionKeys
  <2>1. \A p \in Requests : call[p] \in CallRecords
    BY DEF TypeOK
  <2>2. QED
    BY <2>1 DEF CallRecords
<1>1. CASE Outside
  <2>1. UNCHANGED call
    BY <1>1 DEF Outside
  <2>2. pending # {} \/ pending' = pending
    BY <1>1 DEF Outside, Lands, Aborts, Proposes, assets
  <2>3. \A k \in ActionKeys : actions'[k] # actions[k] => actions[k] = "NONE" /\ actions'[k] = "PROPOSED"
    <3>1. CASE UNCHANGED actions
      BY <3>1
    <3>2. ASSUME NEW k \in ActionKeys, actions[k] = "NONE" /\ Sets(k, "PROPOSED")
          PROVE  \A j \in ActionKeys : actions'[j] # actions[j] => actions[j] = "NONE" /\ actions'[j] = "PROPOSED"
      BY <3>2 DEF Sets
    <3>3. QED
      BY <1>1, <3>1, <3>2 DEF Outside, Lands, Aborts, Proposes
  <2>4. OneRunning'
    BY <2>3 DEF ActionInv, OneRunning, Running
  <2>5. \A p \in Requests : call[p].action # NoAction =>
          actions'[call[p].action] = actions[call[p].action]
    BY <1>0, <2>3 DEF ActionInv
  <2>6. \A p \in Requests : call[p].action # NoAction /\ call[p].pc \in Early => pending' = {}
    BY <2>2 DEF ActionInv
  <2>7. QED
    BY <2>1, <2>4, <2>5, <2>6 DEF ActionInv
<1>2. ASSUME NEW p \in Requests, Alone(p), Effect(p) PROVE ActionInv'
  <2>1. \A q \in Requests : q # p => call'[q] = call[q]
    BY <1>2 DEF Alone
  <2>2. CASE Leaves(p) \/ Starts(p) \/ Reads(p) \/ Keeps(p) \/ Stores(p) \/ Removes(p)
    <3>1. UNCHANGED <<actions, pending>>
      BY <2>2 DEF Leaves, Starts, Reads, Keeps, Stores, Removes, Facts, assets
    <3>2. call'[p].action \in {call[p].action, NoAction}
      BY <2>2 DEF Leaves, Starts, Reads, Keeps, Stores, Removes, Rests, Moves
    <3>3. call'[p].action # NoAction /\ call'[p].pc \in Early => call[p].pc \in Early
      BY <2>2 DEF Leaves, Starts, Reads, Keeps, Stores, Removes, Rests, Moves, Early, At
    <3>4. OneRunning'
      BY <3>1 DEF ActionInv, OneRunning, Running
    <3>5. QED
      BY <2>1, <3>1, <3>2, <3>3, <3>4 DEF ActionInv
  <2>3. CASE Claims(p)
    <3>1. PICK k \in ActionKeys :
            /\ Unlocked /\ actions[k] = "PROPOSED" /\ Running = {}
            /\ Sets(k, "RUNNING")
            /\ \/ call'[p].pc = "load" /\ call'[p].action = k
               \/ Rests(p)
      BY <2>3 DEF Claims
    <3>2. pending = {} /\ pending' = {} /\ call[p].pc = "idle"
      BY <2>3, <3>1 DEF Claims, assets, Unlocked, At
    <3>3. \A q \in Requests : call[q].action # NoAction => call[q].action # k
      BY <3>1 DEF ActionInv
    <3>4. actions'[k] = "RUNNING" /\ \A j \in ActionKeys : j # k => actions'[j] = actions[j]
      BY <3>1 DEF Sets
    <3>5. OneRunning'
      BY <3>1, <3>4 DEF OneRunning, Running
    <3>6. \A q \in Requests : call[q].action # NoAction =>
            actions'[call[q].action] = actions[call[q].action]
      BY <1>0, <3>3, <3>4
    <3>7. \/ call'[p].action = k /\ call'[p].pc = "load"
          \/ call'[p].action \in {call[p].action, NoAction} /\ call'[p].pc \notin Early
      BY <3>1 DEF Rests, Early
    <3>8. k # NoAction
      BY KeysAreActions
    <3>9. \A q, r \in Requests :
            q # r /\ call'[q].action = call'[r].action => call'[q].action = NoAction
      BY <2>1, <3>3, <3>7, <3>8 DEF ActionInv
    <3>10. \A q \in Requests : call'[q].action # NoAction =>
             actions'[call'[q].action] \notin {"NONE", "PROPOSED"}
      BY <2>1, <3>4, <3>6, <3>7 DEF ActionInv
    <3>11. \A q \in Requests : call'[q].action # NoAction /\ call'[q].pc \in Early =>
             actions'[call'[q].action] = "RUNNING"
      BY <2>1, <3>4, <3>6, <3>7 DEF ActionInv
    <3>12. QED
      BY <3>2, <3>5, <3>9, <3>10, <3>11 DEF ActionInv
  <2>4. CASE Settles(p)
    <3>1. UNCHANGED pending /\ Rests(p)
      BY <2>4 DEF Settles, assets
    <3>2. PICK s \in {"COMPLETED", "FAILED"} : Sets(call[p].action, s)
      BY <2>4 DEF Settles
    <3>3. \A j \in ActionKeys : actions'[j] \in {actions[j], "COMPLETED", "FAILED"}
      BY <3>2 DEF Sets
    <3>4. \A j \in ActionKeys : j # call[p].action => actions'[j] = actions[j]
      BY <3>2 DEF Sets
    <3>5. OneRunning'
      BY <3>3 DEF ActionInv, OneRunning, Running
    <3>6. \A q \in Requests : q # p /\ call[q].action # NoAction =>
            actions'[call[q].action] = actions[call[q].action]
      BY <1>0, <3>4 DEF ActionInv
    <3>7. call[p].action # NoAction => actions'[call[p].action] \notin {"NONE", "PROPOSED"}
      BY <1>0, <3>3 DEF ActionInv
    <3>8. call'[p].action \in {call[p].action, NoAction} /\ call'[p].pc \notin Early
      BY <3>1 DEF Rests, Early
    <3>9. QED
      BY <2>1, <3>1, <3>5, <3>6, <3>7, <3>8 DEF ActionInv
  <2>5. CASE Registers(p)
    <3>1. /\ UNCHANGED actions /\ At(p, "register") /\ Admits(p)
          /\ call'[p].action \in {call[p].action, NoAction}
          /\ call'[p].pc \notin Early
      BY <2>5 DEF Registers, Moves, Rests, Early
    <3>2. \A q \in Requests : q # p /\ call[q].action # NoAction => call[q].pc \notin Early
      BY <3>1, OnlyItsHandler
    <3>3. OneRunning'
      BY <3>1 DEF ActionInv, OneRunning, Running
    <3>4. QED
      BY <2>1, <3>1, <3>2, <3>3 DEF ActionInv
  <2>6. QED
    BY <1>2, <2>2, <2>3, <2>4, <2>5 DEF Effect
<1>3. QED
  BY <1>1, <1>2, Effects

LEMMA SourceStep == TypeOK /\ ActionInv /\ SourceInv /\ [Next]_vars => SourceInv'
<1> SUFFICES ASSUME TypeOK, ActionInv, SourceInv, [Next]_vars PROVE SourceInv'
  OBVIOUS
<1> DEFINE Past == {"precheck", "store", "inspect", "register"}
<1>1. CASE Outside
  <2>1. UNCHANGED call
    BY <1>1 DEF Outside
  <2>2. UNCHANGED latest \/ pending # {}
    BY <1>1 DEF Outside, Lands, Aborts, Proposes, assets
  <2>3. CASE UNCHANGED latest
    BY <2>1, <2>3 DEF SourceInv, At
  <2>4. CASE pending # {}
    <3>1. \A p \in Requests : call[p].action # NoAction => call[p].pc \notin Early
      BY <2>4 DEF ActionInv
    <3>2. QED
      BY <2>1, <3>1 DEF SourceInv, At, Early
  <2>5. QED
    BY <2>2, <2>3, <2>4
<1>2. ASSUME NEW p \in Requests, Alone(p), Effect(p) PROVE SourceInv'
  <2>1. \A q \in Requests : q # p => call'[q] = call[q]
    BY <1>2 DEF Alone
  <2>2. CASE Leaves(p) \/ Claims(p) \/ Settles(p) \/ Removes(p)
    <3>1. UNCHANGED latest /\ call'[p].pc \notin Past \cup {"derive"}
      BY <2>2 DEF Leaves, Claims, Settles, Removes, Facts, assets, Rests, Moves
    <3>2. QED
      BY <2>1, <3>1 DEF SourceInv, At
  <2>3. CASE Starts(p)
    <3>1. UNCHANGED latest /\ call'[p].action = NoAction
      BY <2>3 DEF Starts, Facts, assets
    <3>2. QED
      BY <2>1, <3>1 DEF SourceInv, At
  <2>4. CASE Reads(p)
    <3>1. UNCHANGED latest /\ call'[p].action = call[p].action
      BY <2>4 DEF Reads, Facts, assets
    <3>2. \/ call'[p].pc = "derive" /\ call'[p].source = latest
          \/ /\ At(p, "derive") /\ call'[p].pc = "precheck"
             /\ call[p].action[2] = call[p].source
          \/ At(p, "precheck") /\ call'[p].pc = "store"
      BY <2>4 DEF Reads
    <3>3. QED
      BY <2>1, <3>1, <3>2 DEF SourceInv, At
  <2>5. CASE Keeps(p) \/ Stores(p)
    <3>1. UNCHANGED latest /\ call'[p].action = call[p].action /\ call'[p].pc # "derive"
      BY <2>5 DEF Keeps, Stores, Facts, assets, Moves
    <3>2. call'[p].pc \in Past => call[p].pc \in Past
      BY <2>5 DEF Keeps, Stores, Moves, At
    <3>3. QED
      BY <2>1, <3>1, <3>2 DEF SourceInv, At
  <2>6. CASE Registers(p)
    <3>1. call'[p].pc \notin Past \cup {"derive"}
      BY <2>6 DEF Registers, Moves, Rests
    <3>2. \A q \in Requests : q # p /\ call[q].action # NoAction => call[q].pc \notin Early
      BY <2>6, OnlyItsHandler DEF Registers
    <3>3. QED
      BY <2>1, <3>1, <3>2 DEF SourceInv, Early, At
  <2>7. QED
    BY <1>2, <2>2, <2>3, <2>4, <2>5, <2>6 DEF Effect
<1>3. QED
  BY <1>1, <1>2, Effects

LEMMA PendingStep ==
    TypeOK /\ ActionInv /\ SourceInv /\ PendingInv /\ [Next]_vars => PendingInv'
<1> SUFFICES ASSUME TypeOK, ActionInv, SourceInv, PendingInv, [Next]_vars PROVE PendingInv'
  OBVIOUS
<1>1. ASSUME UNCHANGED assets, Running' \subseteq Running PROVE PendingInv'
  BY <1>1 DEF PendingInv, assets
<1>2. CASE Outside
  <2>1. CASE Lands \/ Aborts
    BY <2>1 DEF Lands, Aborts, PendingInv
  <2>2. CASE Proposes
    <3>1. Running' \subseteq Running
      BY <2>2 DEF Proposes, Running, Sets
    <3>2. QED
      BY <1>1, <2>2, <3>1 DEF Proposes
  <2>3. QED
    BY <1>2, <2>1, <2>2 DEF Outside
<1>3. ASSUME NEW p \in Requests, Alone(p), Effect(p) PROVE PendingInv'
  <2>1. CASE Leaves(p) \/ Starts(p) \/ Reads(p) \/ Keeps(p) \/ Stores(p) \/ Removes(p)
    <3>1. UNCHANGED <<assets, actions>>
      BY <2>1 DEF Leaves, Starts, Reads, Keeps, Stores, Removes, Facts
    <3>2. QED
      BY <1>1, <3>1 DEF Running
  <2>2. CASE Claims(p)
    BY <2>2 DEF Claims, Unlocked, assets, PendingInv
  <2>3. CASE Settles(p)
    <3>1. Running' \subseteq Running
      BY <2>3 DEF Settles, Running, Sets
    <3>2. QED
      BY <1>1, <2>3, <3>1 DEF Settles
  <2>4. CASE Registers(p)
    <3>1. pending = {} /\ At(p, "register") /\ Admits(p) /\ Equivalent(p) = {}
      BY <2>4 DEF Registers, Unlocked
    <3>2. CASE UNCHANGED pending
      BY <3>1, <3>2 DEF PendingInv
    <3>3. CASE pending' = {Row(p)} /\ UNCHANGED <<rows, latest, actions>>
      <4>1. \A other \in rows : ~ Same(Row(p), other)
        BY <3>1 DEF Equivalent, Same
      <4>2. Row(p).parent # 0 => Row(p).parent = latest
        BY <3>1, RowFields DEF SourceInv, At, NoAction
      <4>3. \A k \in Running : Row(p).parent = k[2]
        BY <3>1, RowFields DEF Admits
      <4>4. Running' = Running
        BY <3>3 DEF Running
      <4>5. QED
        BY <3>3, <4>1, <4>2, <4>3, <4>4 DEF PendingInv
    <3>4. QED
      BY <2>4, <3>2, <3>3 DEF Registers
  <2>5. QED
    BY <1>3, <2>1, <2>2, <2>3, <2>4 DEF Effect
<1>4. QED
  BY <1>2, <1>3, Effects

LEMMA AssetStep == TypeOK /\ AssetInv /\ [Next]_vars => AssetInv'
<1> SUFFICES ASSUME TypeOK, AssetInv, [Next]_vars PROVE AssetInv'
  OBVIOUS
<1>0. \A p \in Requests : call[p].action = NoAction \/ call[p].action \in ActionKeys
  <2>1. \A p \in Requests : call[p] \in CallRecords
    BY DEF TypeOK
  <2>2. QED
    BY <2>1 DEF CallRecords
<1>1. ASSUME rows \subseteq rows', NEW k, HasAsset(rows, k) PROVE HasAsset(rows', k)
  BY <1>1 DEF HasAsset
<1>2. CASE Outside
  <2>1. UNCHANGED call /\ rows \subseteq rows'
    BY <1>2 DEF Outside, Lands, Aborts, Proposes, Insert, assets
  <2>2. \A k \in ActionKeys : actions'[k] = "COMPLETED" => actions[k] = "COMPLETED"
    BY <1>2 DEF Outside, Lands, Aborts, Proposes, Sets
  <2>3. QED
    BY <1>1, <2>1, <2>2 DEF AssetInv
<1>3. ASSUME NEW p \in Requests, Alone(p), Effect(p) PROVE AssetInv'
  <2>1. \A q \in Requests : q # p => call'[q] = call[q]
    BY <1>3 DEF Alone
  <2>2. rows \subseteq rows'
    BY <1>3 DEF Effect, Leaves, Starts, Reads, Keeps, Claims, Settles, Stores, Registers, Removes,
       Insert, Facts, assets
  <2>3. \A k \in ActionKeys : actions'[k] = "COMPLETED" => HasAsset(rows', k)
    <3>1. CASE Settles(p)
      <4>1. \A k \in ActionKeys : actions'[k] = "COMPLETED" =>
              actions[k] = "COMPLETED" \/ (At(p, "complete") /\ k = call[p].action)
        BY <3>1 DEF Settles, Sets
      <4>2. QED
        BY <1>1, <2>2, <4>1, KeysAreActions DEF AssetInv, At
    <3>2. CASE ~ Settles(p)
      <4>1. \A k \in ActionKeys : actions'[k] = "COMPLETED" => actions[k] = "COMPLETED"
        BY <1>3, <3>2 DEF Effect, Leaves, Starts, Reads, Keeps, Claims, Stores, Registers, Removes,
           Facts, Sets
      <4>2. QED
        BY <1>1, <2>2, <4>1 DEF AssetInv
    <3>3. QED
      BY <3>1, <3>2
  <2>4. call'[p].action # NoAction /\ call'[p].pc \in {"discard", "complete"} =>
          HasAsset(rows', call'[p].action)
    <3>1. CASE Leaves(p) \/ Starts(p) \/ Reads(p) \/ Claims(p) \/ Settles(p) \/ Stores(p)
      BY <3>1 DEF Leaves, Starts, Reads, Claims, Settles, Stores, Rests
    <3>2. CASE Keeps(p)
      <4>1. CASE Equivalent(p) # {} /\ Moves(p, "discard")
        <5>1. HasAsset(rows, call[p].action)
          BY <4>1, RowFields DEF Equivalent, HasAsset
        <5>2. QED
          BY <1>1, <2>2, <4>1, <5>1 DEF Moves
      <4>2. CASE Row(p) \in rows /\ Moves(p, "complete")
        <5>1. HasAsset(rows, call[p].action)
          BY <4>2, RowFields DEF HasAsset
        <5>2. QED
          BY <1>1, <2>2, <4>2, <5>1 DEF Moves
      <4>3. CASE Moves(p, "register") \/ Moves(p, "remove")
        BY <4>3 DEF Moves
      <4>4. QED
        BY <3>2, <4>1, <4>2, <4>3 DEF Keeps
    <3>3. CASE Registers(p)
      <4>1. CASE Moves(p, "complete") /\ Insert(Row(p))
        <5>1. Row(p) \in rows'
          BY <4>1 DEF Insert
        <5>2. HasAsset(rows', call[p].action)
          BY <5>1, RowFields DEF HasAsset
        <5>3. QED
          BY <4>1, <5>2 DEF Moves
      <4>2. CASE Rests(p) \/ Moves(p, "verify")
        BY <4>2 DEF Rests, Moves
      <4>3. QED
        BY <3>3, <4>1, <4>2 DEF Registers
    <3>4. CASE Removes(p)
      <4>1. CASE At(p, "discard") /\ Moves(p, "complete")
        BY <1>1, <2>2, <4>1 DEF AssetInv, Moves, At
      <4>2. CASE Rests(p)
        BY <4>2 DEF Rests
      <4>3. QED
        BY <3>4, <4>1, <4>2 DEF Removes
    <3>5. QED
      BY <1>3, <3>1, <3>2, <3>3, <3>4 DEF Effect
  <2>5. \A q \in Requests : q # p /\ call'[q].action # NoAction /\ call'[q].pc \in {"discard", "complete"} =>
          HasAsset(rows', call'[q].action)
    BY <1>1, <2>1, <2>2 DEF AssetInv
  <2>6. QED
    BY <2>3, <2>4, <2>5 DEF AssetInv
<1>4. QED
  BY <1>2, <1>3, Effects

-----------------------------------------------------------------------------
(* Objects nobody cares for                                                *)

LEMMA ObjectsFinite == TypeOK => IsFiniteSet(objects)
<1>1. IsFiniteSet(Uris)
  BY BoundsAssumption, FS_Interval DEF Uris
<1>2. QED
  BY <1>1, FS_Subset DEF TypeOK

\* A step that fails may leave one object behind, others leave none.
LEMMA LeakStep == TypeOK /\ LeakInv /\ [Next]_vars => LeakInv'
<1> SUFFICES ASSUME TypeOK, LeakInv, [Next]_vars PROVE LeakInv'
  OBVIOUS
<1>0. /\ IsFiniteSet(Unclaimed)
      /\ Cardinality(Unclaimed) \in Nat
      /\ failures \in Nat
  <2>1. Unclaimed \in SUBSET objects
    BY DEF Unclaimed
  <2>2. IsFiniteSet(Unclaimed)
    BY <2>1, ObjectsFinite, FS_Subset
  <2>3. QED
    BY <2>2, FS_CardinalityType DEF TypeOK
<1>1. ASSUME Unclaimed' \subseteq Unclaimed, failures' \in {failures, failures + 1} PROVE LeakInv'
  <2>1. Cardinality(Unclaimed') <= Cardinality(Unclaimed) /\ Cardinality(Unclaimed') \in Nat
    BY <1>0, <1>1, FS_Subset, FS_CardinalityType
  <2>2. QED
    BY <1>0, <1>1, <2>1 DEF LeakInv
<1>2. ASSUME NEW uri, Unclaimed' \subseteq Unclaimed \cup {uri}, failures' = failures + 1
      PROVE  LeakInv'
  <2>1. /\ IsFiniteSet(Unclaimed \cup {uri})
        /\ Cardinality(Unclaimed \cup {uri}) <= Cardinality(Unclaimed) + 1
        /\ Cardinality(Unclaimed \cup {uri}) \in Nat
    <3>1. IsFiniteSet(Unclaimed \cup {uri})
          /\ Cardinality(Unclaimed \cup {uri}) =
               IF uri \in Unclaimed THEN Cardinality(Unclaimed) ELSE Cardinality(Unclaimed) + 1
      BY <1>0, FS_AddElement
    <3>2. QED
      BY <1>0, <3>1
  <2>2. Cardinality(Unclaimed') <= Cardinality(Unclaimed \cup {uri}) /\ Cardinality(Unclaimed') \in Nat
    BY <1>2, <2>1, FS_Subset, FS_CardinalityType
  <2>3. QED
    BY <1>0, <1>2, <2>1, <2>2 DEF LeakInv
<1>3. CASE Outside
  <2>1. UNCHANGED <<objects, failures, call>> /\ rows \subseteq rows'
    BY <1>3 DEF Outside, Lands, Aborts, Proposes, Insert, assets
  <2>2. Unclaimed' \subseteq Unclaimed
    BY <2>1 DEF Unclaimed
  <2>3. QED
    BY <1>1, <2>1, <2>2
<1>4. ASSUME NEW p \in Requests, Alone(p), Effect(p) PROVE LeakInv'
  <2>1. \A q \in Requests : q # p => call'[q] = call[q]
    BY <1>4 DEF Alone
  <2>2. rows \subseteq rows'
    BY <1>4 DEF Effect, Leaves, Starts, Reads, Keeps, Claims, Settles, Stores, Registers, Removes,
       Insert, Facts, assets
  <2>3. failures' \in {failures, failures + 1}
    BY <1>4 DEF Effect, Leaves, Starts, Reads, Keeps, Claims, Settles, Stores, Registers, Removes,
       Calm, Failed
  <2>4. CASE Stores(p) /\ call'[p].uri = stored + 1
    <3>1. /\ objects' = objects \cup {stored + 1}
          /\ call'[p].pc \in Caring
          /\ call[p].pc \notin Caring
      BY <2>4 DEF Stores, At, Caring
    <3>2. Unclaimed' \subseteq Unclaimed
      BY <2>1, <2>2, <2>4, <3>1 DEF Unclaimed
    <3>3. QED
      BY <1>1, <2>3, <3>2
  <2>5. CASE Removes(p)
    <3>1. Unclaimed' \subseteq Unclaimed
      BY <2>1, <2>2, <2>5 DEF Removes, Unclaimed
    <3>2. QED
      BY <1>1, <2>3, <3>1
  <2>6. CASE Registers(p) /\ Insert(Row(p))
    <3>1. objects' = objects /\ rows' = rows \cup {Row(p)} /\ Row(p).uri = call[p].uri
      BY <2>6, RowFields DEF Registers, Insert
    <3>2. Unclaimed' \subseteq Unclaimed
      BY <2>1, <2>2, <3>1 DEF Unclaimed
    <3>3. QED
      BY <1>1, <2>3, <3>2
  <2>7. CASE UNCHANGED objects /\ Failed
    <3>1. Unclaimed' \subseteq Unclaimed \cup {call[p].uri}
      BY <2>1, <2>2, <2>7 DEF Unclaimed
    <3>2. QED
      BY <1>2, <2>7, <3>1 DEF Failed
  <2>8. CASE UNCHANGED objects /\ (call[p].pc \in Caring => call'[p].pc \in Caring /\ call'[p].uri = call[p].uri)
    <3>1. Unclaimed' \subseteq Unclaimed
      BY <2>1, <2>2, <2>8 DEF Unclaimed
    <3>2. QED
      BY <1>1, <2>3, <3>1
  <2>9. CASE Leaves(p)
    BY <2>7, <2>8, <2>9 DEF Leaves, Facts
  <2>10. CASE Starts(p) \/ Reads(p) \/ Claims(p) \/ Settles(p)
    <3>1. UNCHANGED objects /\ call[p].pc \notin Caring
      BY <2>10 DEF Starts, Reads, Claims, Settles, Facts, At, Caring
    <3>2. QED
      BY <2>8, <3>1
  <2>11. CASE Keeps(p)
    <3>1. UNCHANGED objects
      BY <2>11 DEF Keeps, Facts
    <3>2. call[p].pc \in Caring => call'[p].pc \in Caring /\ call'[p].uri = call[p].uri
      BY <2>11 DEF Keeps, Moves, At, Caring
    <3>3. QED
      BY <2>8, <3>1, <3>2
  <2>12. CASE Registers(p)
    BY <2>6, <2>7, <2>12 DEF Registers
  <2>13. QED
    BY <1>4, <2>4, <2>5, <2>9, <2>10, <2>11, <2>12 DEF Effect, Stores
<1>5. QED
  BY <1>3, <1>4, Effects

-----------------------------------------------------------------------------
(* The theorems                                                            *)

LEMMA Inductive == IInv /\ [Next]_vars => IInv'
BY TypeStep, ObjectStep, ActionStep, SourceStep, PendingStep, AssetStep, LeakStep DEF IInv

THEOREM Invariance == Spec => []IInv
BY InitIInv, Inductive, PTL DEF Spec

\* Every reachable state is well typed.
THEOREM TypeCorrect == Spec => []TypeOK
<1>1. IInv => TypeOK
  BY DEF IInv
<1>2. QED
  BY <1>1, Invariance, PTL

\* persist and registerAsset never leave a row, or a COMMIT in flight, whose
\* object has been removed.
THEOREM RowsKeepTheirObjects == Spec => []RowsHaveObjects
<1>1. IInv => RowsHaveObjects
  BY DEF IInv, ObjectInv
<1>2. QED
  BY <1>1, Invariance, PTL

\* claimAction lets one action of a release run at a time.
THEOREM OneActionRuns == Spec => []OneRunning
<1>1. IInv => OneRunning
  BY DEF IInv, ActionInv
<1>2. QED
  BY <1>1, Invariance, PTL

\* executeAction completes an action only when the table has its asset.
THEOREM CompletedActionsHaveAssets == Spec => []CompletedHasAsset
<1>1. IInv => CompletedHasAsset
  BY DEF IInv, AssetInv, CompletedHasAsset, HasAsset
<1>2. QED
  BY <1>1, Invariance, PTL

\* The objects without a row and without a handler are at most as many as the
\* calls that failed.
THEOREM LeaksPaidFor == Spec => []LeaksArePaidFor
<1>1. ASSUME IInv PROVE LeaksArePaidFor
  <2>1. objects \ (Referenced \cup InHand) \in SUBSET Unclaimed
    BY DEF Referenced, InHand, Unclaimed, Caring
  <2>2. IsFiniteSet(Unclaimed)
    <3>1. Unclaimed \in SUBSET objects
      BY DEF Unclaimed
    <3>2. QED
      BY <1>1, <3>1, ObjectsFinite, FS_Subset DEF IInv
  <2>3. /\ Cardinality(objects \ (Referenced \cup InHand)) <= Cardinality(Unclaimed)
        /\ Cardinality(objects \ (Referenced \cup InHand)) \in Nat
        /\ Cardinality(Unclaimed) \in Nat
    BY <2>1, <2>2, FS_Subset, FS_CardinalityType
  <2>4. QED
    BY <1>1, <2>3 DEF IInv, TypeOK, LeakInv, LeaksArePaidFor
<1>2. QED
  BY <1>1, Invariance, PTL

\* registerAsset adds no asset beside a running action but the action's own,
\* and a derived asset only while the subtitle it is derived from is the latest.
THEOREM AssetsFrozen == Spec => FrozenWhileRunning
<1> DEFINE A == \A row \in rows' \ rows :
                  /\ \A k \in Running : row.parent = k[2]
                  /\ row.parent # 0 => row.parent = latest
<1>1. ASSUME IInv, [Next]_vars PROVE [A]_vars
  <2>1. CASE Outside
    BY <1>1, <2>1 DEF IInv, PendingInv, Outside, Lands, Aborts, Proposes, Insert, assets
  <2>2. ASSUME NEW p \in Requests, Effect(p) PROVE A
    <3>1. CASE Registers(p) /\ Insert(Row(p))
      <4>1. At(p, "register") /\ Admits(p) /\ rows' = rows \cup {Row(p)}
        BY <3>1 DEF Registers, Insert
      <4>2. Row(p).parent # 0 => Row(p).parent = latest
        BY <1>1, <4>1, RowFields DEF IInv, SourceInv, At, NoAction
      <4>3. \A k \in Running : Row(p).parent = k[2]
        BY <4>1, RowFields DEF Admits
      <4>4. QED
        BY <4>1, <4>2, <4>3
    <3>2. CASE UNCHANGED rows
      BY <3>2
    <3>3. QED
      BY <2>2, <3>1, <3>2 DEF Effect, Leaves, Starts, Reads, Keeps, Claims, Settles, Stores,
         Registers, Removes, Facts, assets
  <2>3. QED
    BY <1>1, <2>1, <2>2, Effects DEF IInv
<1>2. QED
  BY <1>1, Invariance, PTL DEF Spec, FrozenWhileRunning

-----------------------------------------------------------------------------
(* Who settles a running action                                            *)

\* The steps from the claim of an action to the write that settles it.
Settling ==
    {"load", "derive", "precheck", "store", "inspect", "register", "verify", "remove",
     "discard", "complete", "fail", "giveUp"}

Handles(p, k) == call[p].pc \in Settling /\ call[p].action = k

\* RunningHasHandler, with the steps at which the handler is.
HandlerInv == failures = 0 => \A k \in Running : \E p \in Requests : Handles(p, k)

\* p still has its action in hand, or has settled it.
GoesOn(p) ==
    \/ call'[p].pc \in Settling /\ call'[p].action = call[p].action
    \/ actions'[call[p].action] # "RUNNING"

LEMMA CalmIsNoFailure == TypeOK => ~ (Calm /\ Failed)
BY DEF TypeOK, Calm, Failed

\* As long as no call has failed, no step is a failure.
LEMMA NoFailureIsCalm == TypeOK /\ [Next]_vars /\ failures' = 0 => Calm
<1> SUFFICES ASSUME TypeOK, [Next]_vars, failures' = 0 PROVE Calm
  OBVIOUS
<1>1. Outside => Calm
  BY DEF Outside, Calm
<1>2. ASSUME NEW p \in Requests, Effect(p) PROVE Calm \/ Failed
  BY <1>2 DEF Effect, Leaves, Starts, Reads, Keeps, Claims, Settles, Stores, Registers, Removes
<1>3. ~ Failed
  BY DEF TypeOK, Failed
<1>4. QED
  BY <1>1, <1>2, <1>3, Effects

LEMMA MovesGoesOn ==
    ASSUME NEW p, NEW s \in Settling, Moves(p, s)
    PROVE  GoesOn(p)
BY DEF Moves, GoesOn

\* What persist throws and what it returns, executeAction takes up.
LEMMA FramesGoOn ==
    ASSUME TypeOK, NEW p \in Requests, call[p].action # NoAction,
           call'[p] = Escaped(p) \/ call'[p] = Persisted(p)
    PROVE  GoesOn(p)
<1>1. Moves(p, "fail") \/ Moves(p, "complete")
  BY GotoMoves DEF Escaped, Persisted
<1>2. QED
  BY <1>1, MovesGoesOn DEF Settling

LEMMA ReadsGoOn ==
    ASSUME TypeOK, NEW p \in Requests, LoadRelease(p) \/ Derive(p) \/ Precheck(p) \/ Store(p)
    PROVE  GoesOn(p)
<1>0. call[p] \in CallRecords
  BY DEF TypeOK
<1>1. CASE LoadRelease(p)
  <2>1. call'[p] = [call[p] EXCEPT !.pc = "derive", !.source = latest]
    BY <1>1, BecomeMoves DEF LoadRelease
  <2>2. QED
    BY <1>0, <2>1 DEF CallRecords, GoesOn, Settling
<1>2. CASE Derive(p)
  <2>1. CASE Become(p, [call[p] EXCEPT !.pc = "precheck", !.content = "clean"])
    <3>1. call'[p] = [call[p] EXCEPT !.pc = "precheck", !.content = "clean"]
      BY <2>1, BecomeMoves
    <3>2. QED
      BY <1>0, <3>1 DEF CallRecords, GoesOn, Settling
  <2>2. CASE Become(p, Goto(p, "fail"))
    BY <2>2, BecomeMoves, GotoMoves, MovesGoesOn DEF Settling
  <2>3. QED
    BY <1>2, <2>1, <2>2 DEF Derive
<1>3. CASE Precheck(p)
  <2>1. call'[p] = Goto(p, "store") \/ call'[p] = Goto(p, "fail")
    BY <1>3, BecomeMoves DEF Precheck
  <2>2. QED
    BY <2>1, GotoMoves, MovesGoesOn DEF Settling
<1>4. CASE Store(p)
  <2>1. call'[p] = [call[p] EXCEPT !.pc = "inspect", !.uri = stored + 1]
    BY <1>4, BecomeMoves DEF Store
  <2>2. QED
    BY <1>0, <2>1 DEF CallRecords, GoesOn, Settling
<1>5. QED
  BY <1>1, <1>2, <1>3, <1>4

LEMMA PersistGoesOn ==
    ASSUME TypeOK, NEW p \in Requests, call[p].action # NoAction, Calm,
           Inspect(p) \/ Register(p) \/ Verify(p) \/ Remove(p)
    PROVE  GoesOn(p)
<1>1. CASE Inspect(p)
  <2>1. call'[p] = Goto(p, "register") \/ call'[p] = Goto(p, "remove")
    BY <1>1, BecomeMoves DEF Inspect
  <2>2. QED
    BY <2>1, GotoMoves, MovesGoesOn DEF Settling
<1>2. CASE Register(p)
  <2>1. ~ Fail("commit", p, Goto(p, "verify"))
    BY FailMoves, CalmIsNoFailure
  <2>2. \/ Become(p, Goto(p, "remove")) \/ Become(p, Goto(p, "discard"))
        \/ Become(p, Persisted(p))
    BY <1>2, <2>1 DEF Register
  <2>3. \/ call'[p] = Goto(p, "remove") \/ call'[p] = Goto(p, "discard")
        \/ call'[p] = Persisted(p)
    BY <2>2, BecomeMoves
  <2>4. QED
    BY <2>3, GotoMoves, MovesGoesOn, FramesGoOn DEF Settling
<1>3. CASE Verify(p)
  <2>1. \/ call'[p] = Persisted(p) \/ call'[p] = Goto(p, "discard")
        \/ call'[p] = Escaped(p)
    BY <1>3, BecomeMoves DEF Verify, KeepUnconfirmed
  <2>2. QED
    BY <2>1, GotoMoves, MovesGoesOn, FramesGoOn DEF Settling
<1>4. CASE Remove(p)
  <2>1. call'[p] = Persisted(p) \/ call'[p] = Escaped(p)
    BY <1>4, BecomeMoves DEF Remove
  <2>2. QED
    BY <2>1, FramesGoOn
<1>5. QED
  BY <1>1, <1>2, <1>3, <1>4

LEMMA SettledGoesOn ==
    ASSUME TypeOK, NEW p \in Requests, call[p].action \in ActionKeys,
           CompleteAction(p) \/ FailAction(p)
    PROVE  GoesOn(p)
BY DEF TypeOK, CompleteAction, FailAction, GoesOn

\* A handler that has an action goes on with it until it is settled.
LEMMA HandlerGoesOn ==
    ASSUME TypeOK, NEW p \in Requests, NEW k \in ActionKeys, Handles(p, k), Calm,
           Progress(p) \/ StartUpload(p) \/ Throw(p) \/ Crash(p)
           \/ \E l \in ActionKeys : ClaimAction(p, l)
    PROVE  GoesOn(p)
<1>1. call[p].action = k /\ call[p].action # NoAction
  BY KeysAreActions DEF Handles
<1>2. ~ At(p, "idle") /\ ~ At(p, "block") /\ ~ At(p, "rerun")
  BY DEF Handles, Settling, At
<1>3. ~ Throw(p) /\ ~ Crash(p)
  BY FailMoves, CalmIsNoFailure DEF Throw, Crash
<1>4. Progress(p) /\ ~ BlockRelease(p) /\ ~ Rerun(p)
  BY <1>2, <1>3 DEF StartUpload, ClaimAction, BlockRelease, Rerun
<1>5. QED
  BY <1>1, <1>4, ReadsGoOn, PersistGoesOn, SettledGoesOn DEF Progress

\* Only a claim makes an action RUNNING, and the claiming handler has it.
LEMMA ClaimsHaveHandlers ==
    ASSUME TypeOK, NEW p \in Requests, NEW k \in ActionKeys, ClaimAction(p, k), Calm
    PROVE  Handles(p, k)' /\ \A l \in Running' : l \in Running \/ l = k
<1>1. Claims(p)
  BY ClaimEffect
<1>2. ~ Fail("lostReply", p, Thrown(p))
  BY FailMoves, CalmIsNoFailure
<1>3. call'[p] = [IdleCall EXCEPT !.pc = "load", !.action = k]
  BY <1>2, BecomeMoves DEF ClaimAction, Return
<1>4. Handles(p, k)'
  BY <1>3 DEF Handles, Settling, IdleCall
<1>5. \A l \in Running' : l \in Running \/ l = k
  BY DEF TypeOK, ClaimAction, Running
<1>6. QED
  BY <1>4, <1>5

LEMMA RunningShrinks ==
    ASSUME TypeOK, Next, ~ \E p \in Requests, k \in ActionKeys : ClaimAction(p, k)
    PROVE  Running' \subseteq Running
<1>1. ASSUME NEW k, NEW s \in {"COMPLETED", "FAILED", "PROPOSED"},
             actions' = [actions EXCEPT ![k] = s]
      PROVE  Running' \subseteq Running
  BY <1>1 DEF TypeOK, Running
<1>2. CASE UNCHANGED actions
  BY <1>2 DEF Running
<1>3. ASSUME NEW p \in Requests, CompleteAction(p) \/ FailAction(p)
      PROVE  Running' \subseteq Running
  BY <1>1, <1>3 DEF CompleteAction, FailAction
<1>4. CASE StoreOutcome
  BY <1>1, <1>2, <1>4 DEF StoreOutcome
<1>5. ASSUME NEW p \in Requests,
             StartUpload(p) \/ Progress(p) \/ Throw(p) \/ Crash(p)
      PROVE  Running' \subseteq Running
  <2>1. CASE CompleteAction(p) \/ FailAction(p)
    BY <1>3, <2>1
  <2>2. CASE ~ (CompleteAction(p) \/ FailAction(p))
    BY <1>2, <1>5, <2>2 DEF StartUpload, Progress, LoadRelease, Derive, Precheck, BlockRelease,
       Store, Inspect, Register, Verify, Remove, Rerun, Throw, Crash
  <2>3. QED
    BY <2>1, <2>2
<1>6. CASE Commit \/ Abort \/ StartEvaluation \/ Evaluate \/ EvaluationFails \/ Decide
  BY <1>2, <1>6 DEF Commit, Abort, StartEvaluation, Evaluate, EvaluationFails, Decide
<1>7. QED
  BY <1>4, <1>5, <1>6 DEF Next

LEMMA HandlerStep == TypeOK /\ HandlerInv /\ [Next]_vars => HandlerInv'
<1> SUFFICES ASSUME TypeOK, HandlerInv, [Next]_vars, failures' = 0, NEW k \in Running'
             PROVE  \E p \in Requests : Handles(p, k)'
  BY DEF HandlerInv
<1>0. k \in ActionKeys /\ actions'[k] = "RUNNING"
  BY DEF Running
<1>1. CASE UNCHANGED vars
  BY <1>1 DEF vars, HandlerInv, Running, Handles
<1>2. CASE Next
  <2>1. Calm
    BY NoFailureIsCalm
  <2>2. failures = 0
    BY <2>1 DEF Calm
  <2>3. CASE \E p \in Requests, l \in ActionKeys : ClaimAction(p, l) /\ l = k
    BY <2>1, <2>3, ClaimsHaveHandlers
  <2>4. CASE k \in Running
    <3>1. PICK p \in Requests : Handles(p, k)
      BY <2>2, <2>4 DEF HandlerInv
    <3>2. CASE call'[p] = call[p]
      BY <3>1, <3>2 DEF Handles
    <3>3. CASE GoesOn(p)
      BY <1>0, <3>1, <3>3 DEF GoesOn, Handles
    <3>4. CASE Commit \/ Abort \/ StartEvaluation \/ Evaluate \/ EvaluationFails
               \/ StoreOutcome \/ Decide
      BY <3>2, <3>4 DEF Commit, Abort, StartEvaluation, Evaluate, EvaluationFails,
         StoreOutcome, Decide
    <3>5. ASSUME NEW q \in Requests,
                 Progress(q) \/ StartUpload(q) \/ Throw(q) \/ Crash(q)
                 \/ \E l \in ActionKeys : ClaimAction(q, l)
          PROVE  \E r \in Requests : Handles(r, k)'
      <4>1. CASE q = p
        <5>1. GoesOn(p)
          BY <1>0, <2>1, <3>1, <3>5, <4>1, HandlerGoesOn
        <5>2. QED
          BY <5>1, <3>3
      <4>2. CASE q # p
        <5>1. Alone(q)
          BY <3>5, RequestEffects
        <5>2. QED
          BY <3>2, <4>2, <5>1 DEF Alone
      <4>3. QED
        BY <4>1, <4>2
    <3>6. QED
      BY <1>2, <3>4, <3>5 DEF Next
  <2>5. CASE k \notin Running
    <3>1. PICK p \in Requests, l \in ActionKeys : ClaimAction(p, l)
      BY <1>2, <2>5, RunningShrinks
    <3>2. k = l
      BY <2>1, <2>5, <3>1, ClaimsHaveHandlers
    <3>3. QED
      BY <2>3, <3>1, <3>2
  <2>6. QED
    BY <2>4, <2>5
<1>3. QED
  BY <1>1, <1>2

\* Without a failure, executeAction settles whatever action it has claimed.
THEOREM RunningActionsHaveHandlers == Spec => []RunningHasHandler
<1>1. Init => HandlerInv
  BY DEF Init, HandlerInv, Running
<1>2. HandlerInv => RunningHasHandler
  BY DEF HandlerInv, RunningHasHandler, Handles, Settling, At
<1>3. QED
  BY <1>1, <1>2, HandlerStep, TypeCorrect, PTL DEF Spec
=============================================================================
