------------------------- MODULE AssetStorageProofs -------------------------
(***************************************************************************)
(* Proofs about AssetStorage, for any requests, contents and limits and    *)
(* any number of files, failures, crashes and power failures.              *)
(*                                                                         *)
(* The argument is one inductive invariant, IInv.  A file that is in the   *)
(* hands of a handler is in no other handler's hands and no row refers to  *)
(* it (HandlersInv, RowsInv), so what a handler writes, renames or unlinks *)
(* is its own.  Where the handler is tells how far the file has come       *)
(* (Stage): it is synced before it gets its place under objects, and from  *)
(* there on a power failure may take it away but not shorten it (FileOk).  *)
(* One step of a handler then has one of the few effects on its file that  *)
(* Effect lists.                                                           *)
(***************************************************************************)
EXTENDS AssetStorage, FiniteSetTheorems, TLAPS

Busy(p) == ~ At(p, "idle")

\* A file under objects.
Whole(file) ==
    /\ file.written = file.content.size
    /\ file.synced = file.written
    /\ AssertSize(file.written)

FileOk(file) ==
    \/ file = NoFile
    \/ file \in FileRecords /\ (file.place = "objects" => Whole(file))

\* The steps with a file in .incoming and with an object; those after the
\* last byte was written, after its size was taken, and with its hash.
Stored == {"inspect", "register", "remove"}
Complete == {"recheck", "adopt", "sync", "hash", "rename", "inspect", "register"}
Sized == {"sync", "hash", "rename", "inspect", "register"}
Hashed == {"rename", "inspect", "register"}

\* What the frame of a handler says of its file.
Stage(frame, file) ==
    /\ file \in FileRecords
    /\ frame.pc \in Stored <=> file.place = "objects"
    /\ frame.pc \in Complete => file.written = file.content.size
    /\ frame.pc \in Sized => frame.size = file.written /\ AssertSize(file.written)
    /\ frame.pc \in {"hash", "rename"} => file.synced = file.written
    /\ frame.pc \in Hashed => frame.hash = DataOf(file)
    /\ frame.pc = "register" => Accepted(frame.kind, frame.hash)

FilesInv ==
    /\ \A i \in FileIds : FileOk(files[i])
    /\ \A i \in FileIds : i > created => files[i] = NoFile

HandlersInv ==
    /\ \A p \in Requests : Busy(p) => call[p].file <= created /\ Stage(call[p], FileOf(p))
    /\ \A p, q \in Requests :
        p # q /\ Busy(p) /\ Busy(q) => call[p].file # call[q].file

RowsInv ==
    /\ RowsAreServed
    /\ \A row \in rows :
        /\ Accepted(row.kind, row.hash)
        /\ row.file <= created
        /\ \A p \in Requests : Busy(p) => call[p].file # row.file

IInv == TypeOK /\ FilesInv /\ HandlersInv /\ RowsInv

-----------------------------------------------------------------------------
(* Frames and files                                                        *)

LEMMA NoFileIsNone == NoFile \notin FileRecords /\ NoFile.place = "none"
BY DEF NoFile, FileRecords

LEMMA IdleIsIdle == IdleCall \notin CallRecords /\ IdleCall.pc = "idle"
BY DEF IdleCall, CallRecords, Steps

LEMMA Going ==
    ASSUME NEW frame \in CallRecords, NEW step \in Steps \ {"idle"}
    PROVE  /\ [frame EXCEPT !.pc = step] \in CallRecords
           /\ [frame EXCEPT !.pc = step].pc = step
           /\ [frame EXCEPT !.pc = step].file = frame.file
           /\ [frame EXCEPT !.pc = step].kind = frame.kind
           /\ [frame EXCEPT !.pc = step].size = frame.size
           /\ [frame EXCEPT !.pc = step].hash = frame.hash
BY DEF CallRecords

LEMMA Fields ==
    ASSUME NEW file \in FileRecords
    PROVE  /\ file.place \in {"incoming", "objects"}
           /\ file.content \in Contents
           /\ file.content.size \in Nat
           /\ file.written \in Nat
           /\ file.synced \in Nat
           /\ DataOf(file) \in Data
           /\ DataOf(file) = <<file.content, file.written>>
BY ContentsAssumption DEF FileRecords, ContentsAssumption, DataOf, Data

\* What is known of a handler that works on a file.
LEMMA InHands ==
    ASSUME IInv, NEW p \in Requests, Busy(p)
    PROVE  /\ call[p] \in CallRecords
           /\ call[p].file \in FileIds
           /\ call[p].file <= created
           /\ FileOf(p) \in FileRecords
           /\ Stage(call[p], FileOf(p))
           /\ FileOk(FileOf(p))
<1>1. call[p] \in CallRecords
  BY DEF IInv, TypeOK, Busy, At, IdleCall
<1>2. call[p].file \in FileIds
  BY <1>1 DEF CallRecords
<1>3. QED
  BY <1>1, <1>2 DEF IInv, HandlersInv, FilesInv, FileOf, Stage

-----------------------------------------------------------------------------
(* The initial state                                                       *)

LEMMA InitIInv == Init => IInv
<1> SUFFICES ASSUME Init PROVE IInv
  OBVIOUS
<1>1. TypeOK
  BY BoundsAssumption DEF Init, TypeOK, BoundsAssumption
<1>2. \A p \in Requests : ~ Busy(p)
  BY IdleIsIdle DEF Init, Busy, At
<1>3. FilesInv
  BY DEF Init, FilesInv, FileOk
<1>4. HandlersInv
  BY <1>2 DEF HandlersInv
<1>5. RowsInv
  BY DEF Init, RowsInv, RowsAreServed
<1>6. QED
  BY <1>1, <1>3, <1>4, <1>5 DEF IInv

-----------------------------------------------------------------------------
(* What a step of a handler does to its file                               *)

\* The handler goes on with its file.
GoesOn(p, file) ==
    /\ call'[p] \in CallRecords
    /\ call'[p].pc # "idle"
    /\ call'[p].file = call[p].file
    /\ Stage(call'[p], file)

\* The handler ends, and leaves no stray file behind unless its call failed.
Ends(p) ==
    /\ call'[p] = IdleCall
    /\ rows' = rows
    /\ \/ files'[call[p].file] = NoFile
       \/ files' = files /\ failures' = failures + 1

\* The handler ends when its row is in the table.
Inserts(p) ==
    /\ call'[p] = IdleCall
    /\ At(p, "register")
    /\ files' = files
    /\ rows' = rows \cup {Row(p)}

\* How the visible data of a file may change.
Seen(file, after) ==
    \/ after = NoFile
    \/ file.place = "incoming" /\ after.place = "objects" /\ Whole(after)
    \/ file.place = "incoming" /\ after.place = "incoming"
    \/ after = file

Effect(p) ==
    LET file == files'[call[p].file] IN
    /\ call' = [call EXCEPT ![p] = call'[p]]
    /\ files' = [files EXCEPT ![call[p].file] = file]
    /\ created' = created /\ crashes' = crashes /\ outages' = outages
    /\ failures' = failures \/ failures' = failures + 1
    /\ FileOk(file)
    /\ Seen(FileOf(p), file)
    /\ (rows' = rows /\ GoesOn(p, file)) \/ Ends(p) \/ Inserts(p)

LEMMA AfterThrow ==
    ASSUME IInv, NEW p \in Requests, Busy(p), ~ At(p, "stream")
    PROVE  \/ Thrown(p) = IdleCall /\ call[p].pc \in {"cleanUp", "remove"}
           \/ /\ Thrown(p) \in CallRecords
              /\ Thrown(p).pc \in {"discard", "cleanUp", "remove"}
              /\ Thrown(p).file = call[p].file
              /\ Stage(Thrown(p), FileOf(p))
<1>1. /\ call[p] \in CallRecords
      /\ Stage(call[p], FileOf(p))
  BY InHands
<1>2. ASSUME NEW step \in {"discard", "cleanUp"}, FileOf(p).place # "objects"
      PROVE  /\ Goto(p, step) \in CallRecords
             /\ Goto(p, step).pc = step
             /\ Goto(p, step).file = call[p].file
             /\ Stage(Goto(p, step), FileOf(p))
  BY <1>1, <1>2, Going DEF Goto, Steps, Stage, Stored, Complete, Sized, Hashed
<1>3. ASSUME FileOf(p).place = "objects"
      PROVE  /\ Goto(p, "remove") \in CallRecords
             /\ Goto(p, "remove").pc = "remove"
             /\ Goto(p, "remove").file = call[p].file
             /\ Stage(Goto(p, "remove"), FileOf(p))
  BY <1>1, <1>3, Going DEF Goto, Steps, Stage, Stored, Complete, Sized, Hashed
<1>4. CASE call[p].pc \in {"adopt", "sync", "hash", "rename"}
  <2>1. Thrown(p) = Goto(p, "discard") /\ FileOf(p).place # "objects"
    BY <1>1, <1>4 DEF Thrown, Stage, Stored
  <2>2. QED
    BY <1>2, <2>1
<1>5. CASE call[p].pc \in {"recheck", "write", "discard"}
  <2>1. Thrown(p) = Goto(p, "cleanUp") /\ FileOf(p).place # "objects"
    BY <1>1, <1>5 DEF Thrown, Stage, Stored
  <2>2. QED
    BY <1>2, <2>1
<1>6. CASE call[p].pc \in {"inspect", "register"}
  <2>1. Thrown(p) = Goto(p, "remove") /\ FileOf(p).place = "objects"
    BY <1>1, <1>6 DEF Thrown, Stage, Stored
  <2>2. QED
    BY <1>3, <2>1
<1>7. CASE call[p].pc \in {"cleanUp", "remove"}
  BY <1>7 DEF Thrown
<1>8. call[p].pc \in Steps \ {"idle", "stream"}
  BY <1>1 DEF CallRecords, Busy, At
<1>9. QED
  BY <1>4, <1>5, <1>6, <1>7, <1>8 DEF Steps

\* A frame that keeps the files as they are.
LEMMA Unmoved ==
    ASSUME IInv, NEW p \in Requests, Busy(p),
           call' = [call EXCEPT ![p] = call'[p]],
           UNCHANGED <<files, created, crashes, outages>>,
           failures' = failures \/ failures' = failures + 1,
           (rows' = rows /\ GoesOn(p, FileOf(p))) \/ Ends(p) \/ Inserts(p)
    PROVE  Effect(p)
<1>1. call[p].file \in FileIds /\ FileOk(FileOf(p))
  BY InHands
<1>2. files \in [FileIds -> FileRecords \cup {NoFile}]
  BY DEF IInv, TypeOK
<1>3. files'[call[p].file] = FileOf(p) /\ files' = [files EXCEPT ![call[p].file] = FileOf(p)]
  BY <1>1, <1>2 DEF FileOf
<1>4. QED
  BY <1>1, <1>3 DEF Effect, Seen

\* A file that is unlinked by the handler that has it.
LEMMA Unlinks ==
    ASSUME IInv, NEW p \in Requests, Busy(p),
           files' = Unlinked(p), Become(p, IdleCall),
           UNCHANGED <<created, rows, crashes, outages>>
    PROVE  Effect(p)
<1>1. call[p].file \in FileIds
  BY InHands
<1>2. /\ files'[call[p].file] = NoFile
      /\ files' = [files EXCEPT ![call[p].file] = files'[call[p].file]]
  BY <1>1 DEF IInv, TypeOK, Unlinked
<1>3. /\ call'[p] = IdleCall /\ call' = [call EXCEPT ![p] = call'[p]]
      /\ failures' = failures
  BY DEF IInv, TypeOK, Become
<1>4. Ends(p) /\ FileOk(files'[call[p].file]) /\ Seen(FileOf(p), files'[call[p].file])
  BY <1>2, <1>3 DEF Ends, FileOk, Seen
<1>5. QED
  BY <1>2, <1>3, <1>4 DEF Effect

LEMMA ThrowEffect ==
    ASSUME IInv, NEW p \in Requests, Throw(p)
    PROVE  Busy(p) /\ Effect(p)
<1>1. Busy(p) /\ ~ At(p, "stream")
  BY DEF Throw, Busy
<1>2. /\ call'[p] = Thrown(p)
      /\ call' = [call EXCEPT ![p] = call'[p]]
      /\ UNCHANGED <<files, created, rows, crashes, outages>>
      /\ failures' = failures + 1
  BY DEF Throw, Fail, IInv, TypeOK
<1>3. GoesOn(p, FileOf(p)) \/ Ends(p)
  BY <1>1, <1>2, AfterThrow DEF GoesOn, Ends
<1>4. QED
  BY <1>1, <1>2, <1>3, Unmoved

\* Steps that refuse a request and let it clean up.
LEMMA RefusedEffect ==
    ASSUME IInv, NEW p \in Requests, call[p].pc \in {"recheck", "adopt", "inspect", "register"},
           Become(p, Thrown(p)), UNCHANGED <<files, created, rows, crashes, outages>>
    PROVE  Effect(p)
<1>1. Busy(p) /\ ~ At(p, "stream")
  BY DEF Busy, At
<1>2. /\ call'[p] = Thrown(p)
      /\ call' = [call EXCEPT ![p] = call'[p]]
      /\ failures' = failures
  BY DEF Become, IInv, TypeOK
<1>3. GoesOn(p, FileOf(p))
  BY <1>1, <1>2, AfterThrow DEF GoesOn
<1>4. QED
  BY <1>1, <1>2, <1>3, Unmoved

LEMMA WriteEffect ==
    ASSUME IInv, NEW p \in Requests, Write(p)
    PROVE  Busy(p) /\ Effect(p)
<1> DEFINE after == [FileOf(p) EXCEPT !.written = @ + 1]
<1>1. Busy(p) /\ call[p].pc \in {"stream", "write"}
  BY DEF Write, Busy, At
<1>2. /\ call[p] \in CallRecords /\ call[p].file \in FileIds
      /\ FileOf(p) \in FileRecords /\ Stage(call[p], FileOf(p))
  BY <1>1, InHands
<1>3. /\ files'[call[p].file] = after
      /\ files' = [files EXCEPT ![call[p].file] = files'[call[p].file]]
  BY <1>2 DEF Write, FileOf, IInv, TypeOK
<1>4. FileOf(p).place = "incoming"
  BY <1>1, <1>2, Fields DEF Stage, Stored
<1>5. after \in FileRecords /\ after.place = "incoming"
  BY <1>2, <1>4 DEF FileRecords
<1>6. Stage(call[p], after)
  BY <1>1, <1>5 DEF Stage, Stored, Complete, Sized, Hashed
<1>7. call' = call /\ call' = [call EXCEPT ![p] = call'[p]] /\ rows' = rows /\ failures' = failures
  BY DEF Write, IInv, TypeOK
<1>8. GoesOn(p, after)
  BY <1>1, <1>2, <1>6, <1>7 DEF GoesOn
<1>9. FileOk(after) /\ Seen(FileOf(p), after)
  BY <1>4, <1>5 DEF FileOk, Seen
<1> HIDE DEF after
<1>10. QED
  BY <1>1, <1>3, <1>7, <1>8, <1>9 DEF Effect, Write

\* A handler that goes on to another step and leaves its file as it is.
LEMMA StepEffect ==
    ASSUME IInv, NEW p \in Requests, Busy(p), NEW step \in Steps \ {"idle"},
           Become(p, Goto(p, step)), Stage(Goto(p, step), FileOf(p)),
           UNCHANGED <<files, created, rows, crashes, outages>>
    PROVE  Effect(p)
<1>1. call[p] \in CallRecords
  BY InHands
<1>2. /\ call'[p] = Goto(p, step)
      /\ call' = [call EXCEPT ![p] = call'[p]]
      /\ failures' = failures
  BY DEF Become, IInv, TypeOK
<1>3. GoesOn(p, FileOf(p))
  BY <1>1, <1>2, Going DEF GoesOn, Goto
<1>4. QED
  BY <1>2, <1>3, Unmoved

LEMMA WrittenEffect ==
    ASSUME IInv, NEW p \in Requests, Written(p)
    PROVE  Busy(p) /\ Effect(p)
<1>1. Busy(p) /\ call[p].pc \in {"stream", "write"}
  BY DEF Written, Busy, At
<1>2. /\ call[p] \in CallRecords
      /\ FileOf(p).written = FileOf(p).content.size
      /\ Stage(call[p], FileOf(p))
  BY <1>1, InHands DEF Written
<1>3. ASSUME NEW step \in {"recheck", "adopt"} PROVE Stage(Goto(p, step), FileOf(p))
  BY <1>1, <1>2, Going DEF Goto, Steps, Stage, Stored, Complete, Sized, Hashed
<1>4. PICK step \in {"recheck", "adopt"} : Become(p, Goto(p, step))
  BY DEF Written
<1>5. QED
  BY <1>1, <1>3, <1>4, StepEffect DEF Steps, Written

LEMMA RecheckEffect ==
    ASSUME IInv, NEW p \in Requests, Recheck(p)
    PROVE  Busy(p) /\ Effect(p)
<1>1. Busy(p) /\ call[p].pc = "recheck"
  BY DEF Recheck, Busy, At
<1>2. CASE Become(p, Thrown(p))
  BY <1>1, <1>2, RefusedEffect DEF Recheck
<1>3. CASE Become(p, Goto(p, "adopt"))
  <2>1. call[p] \in CallRecords /\ Stage(call[p], FileOf(p))
    BY <1>1, InHands
  <2>2. Stage(Goto(p, "adopt"), FileOf(p))
    BY <1>1, <2>1, Going DEF Goto, Steps, Stage, Stored, Complete, Sized, Hashed
  <2>3. QED
    BY <1>1, <1>3, <2>2, StepEffect DEF Steps, Recheck
<1>4. QED
  BY <1>1, <1>2, <1>3 DEF Recheck

LEMMA AdoptEffect ==
    ASSUME IInv, NEW p \in Requests, Adopt(p)
    PROVE  Busy(p) /\ Effect(p)
<1> DEFINE frame == [call[p] EXCEPT !.pc = "sync", !.size = FileOf(p).written]
<1>1. Busy(p) /\ call[p].pc = "adopt"
  BY DEF Adopt, Busy, At
<1>2. /\ call[p] \in CallRecords /\ FileOf(p) \in FileRecords
      /\ Stage(call[p], FileOf(p))
  BY <1>1, InHands
<1>3. CASE ~ AssertSize(FileOf(p).written)
  BY <1>1, <1>3, RefusedEffect DEF Adopt
<1>4. CASE AssertSize(FileOf(p).written)
  <2>1. /\ call'[p] = frame
        /\ call' = [call EXCEPT ![p] = call'[p]]
        /\ failures' = failures
    BY <1>4 DEF Adopt, Become, IInv, TypeOK
  <2>2. /\ frame \in CallRecords
        /\ frame.pc = "sync"
        /\ frame.file = call[p].file
        /\ frame.size = FileOf(p).written
    BY <1>2, Fields DEF CallRecords, Steps
  <2>3. Stage(frame, FileOf(p))
    BY <1>1, <1>2, <1>4, <2>2 DEF Stage, Stored, Complete, Sized, Hashed
  <2> HIDE DEF frame
  <2>4. GoesOn(p, FileOf(p))
    BY <2>1, <2>2, <2>3 DEF GoesOn
  <2>5. QED
    BY <1>1, <2>1, <2>4, Unmoved DEF Adopt
<1>5. QED
  BY <1>1, <1>3, <1>4

LEMMA SyncEffect ==
    ASSUME IInv, NEW p \in Requests, Sync(p)
    PROVE  Busy(p) /\ Effect(p)
<1> DEFINE after == [FileOf(p) EXCEPT !.synced = FileOf(p).written]
<1>1. Busy(p) /\ call[p].pc = "sync"
  BY DEF Sync, Busy, At
<1>2. /\ call[p] \in CallRecords /\ call[p].file \in FileIds
      /\ FileOf(p) \in FileRecords /\ Stage(call[p], FileOf(p))
  BY <1>1, InHands
<1>3. /\ files'[call[p].file] = after
      /\ files' = [files EXCEPT ![call[p].file] = files'[call[p].file]]
  BY <1>2 DEF Sync, Synced, FileOf, IInv, TypeOK
<1>4. FileOf(p).place = "incoming"
  BY <1>1, <1>2, Fields DEF Stage, Stored
<1>5. /\ after \in FileRecords /\ after.place = "incoming"
      /\ after.written = FileOf(p).written /\ after.synced = after.written
      /\ after.content = FileOf(p).content
  BY <1>2, <1>4, Fields DEF FileRecords
<1> HIDE DEF after
<1>6. /\ call'[p] = Goto(p, "hash")
      /\ call' = [call EXCEPT ![p] = call'[p]]
      /\ failures' = failures
  BY DEF Sync, Become, IInv, TypeOK
<1>7. Stage(Goto(p, "hash"), after)
  BY <1>1, <1>2, <1>5, Going DEF Goto, Steps, Stage, Stored, Complete, Sized, Hashed
<1>8. GoesOn(p, after)
  BY <1>2, <1>6, <1>7, Going DEF GoesOn, Goto, Steps
<1>9. FileOk(after) /\ Seen(FileOf(p), after)
  BY <1>4, <1>5 DEF FileOk, Seen
<1>10. QED
  BY <1>1, <1>3, <1>6, <1>8, <1>9 DEF Effect, Sync

LEMMA HashEffect ==
    ASSUME IInv, NEW p \in Requests, HashFile(p)
    PROVE  Busy(p) /\ Effect(p)
<1> DEFINE frame == [call[p] EXCEPT !.pc = "rename", !.hash = DataOf(FileOf(p))]
<1>1. Busy(p) /\ call[p].pc = "hash"
  BY DEF HashFile, Busy, At
<1>2. /\ call[p] \in CallRecords /\ FileOf(p) \in FileRecords
      /\ Stage(call[p], FileOf(p))
  BY <1>1, InHands
<1>3. /\ call'[p] = frame
      /\ call' = [call EXCEPT ![p] = call'[p]]
      /\ failures' = failures
  BY DEF HashFile, Become, IInv, TypeOK
<1>4. /\ frame \in CallRecords
      /\ frame.pc = "rename"
      /\ frame.file = call[p].file
      /\ frame.size = call[p].size
      /\ frame.hash = DataOf(FileOf(p))
  BY <1>2, Fields DEF CallRecords, Steps
<1>5. Stage(frame, FileOf(p))
  BY <1>1, <1>2, <1>4 DEF Stage, Stored, Complete, Sized, Hashed
<1> HIDE DEF frame
<1>6. GoesOn(p, FileOf(p))
  BY <1>3, <1>4, <1>5 DEF GoesOn
<1>7. QED
  BY <1>1, <1>3, <1>6, Unmoved DEF HashFile

LEMMA RenameEffect ==
    ASSUME IInv, NEW p \in Requests, Rename(p)
    PROVE  Busy(p) /\ Effect(p)
<1> DEFINE after == [FileOf(p) EXCEPT !.place = "objects"]
<1>1. Busy(p) /\ call[p].pc = "rename"
  BY DEF Rename, Busy, At
<1>2. /\ call[p] \in CallRecords /\ call[p].file \in FileIds
      /\ FileOf(p) \in FileRecords /\ Stage(call[p], FileOf(p))
  BY <1>1, InHands
<1>3. /\ files'[call[p].file] = after
      /\ files' = [files EXCEPT ![call[p].file] = files'[call[p].file]]
  BY <1>2 DEF Rename, FileOf, IInv, TypeOK
<1>4. FileOf(p).place = "incoming"
  BY <1>1, <1>2, Fields DEF Stage, Stored
<1>5. /\ after \in FileRecords /\ after.place = "objects"
      /\ after.written = FileOf(p).written /\ after.synced = FileOf(p).synced
      /\ after.content = FileOf(p).content
      /\ DataOf(after) = DataOf(FileOf(p))
  BY <1>2 DEF FileRecords, DataOf
<1> HIDE DEF after
<1>6. /\ call'[p] = Goto(p, "inspect")
      /\ call' = [call EXCEPT ![p] = call'[p]]
      /\ failures' = failures
  BY DEF Rename, Become, IInv, TypeOK
<1>7. Stage(Goto(p, "inspect"), after)
  BY <1>1, <1>2, <1>5, Going DEF Goto, Steps, Stage, Stored, Complete, Sized, Hashed
<1>8. GoesOn(p, after)
  BY <1>2, <1>6, <1>7, Going DEF GoesOn, Goto, Steps
<1>9. Whole(after)
  BY <1>1, <1>2, <1>5 DEF Stage, Whole, Complete, Sized
<1>10. FileOk(after) /\ Seen(FileOf(p), after)
  BY <1>4, <1>5, <1>9 DEF FileOk, Seen
<1>11. QED
  BY <1>1, <1>3, <1>6, <1>8, <1>10 DEF Effect, Rename

LEMMA InspectEffect ==
    ASSUME IInv, NEW p \in Requests, Inspect(p)
    PROVE  Busy(p) /\ Effect(p)
<1>1. Busy(p) /\ ~ At(p, "stream") /\ call[p].pc = "inspect"
  BY DEF Inspect, Busy, At
<1>2. call[p] \in CallRecords /\ Stage(call[p], FileOf(p))
  BY <1>1, InHands
<1>3. CASE Become(p, Thrown(p))
  BY <1>1, <1>3, RefusedEffect DEF Inspect
<1>4. CASE Accepted(call[p].kind, DataOf(FileOf(p))) /\ Become(p, Goto(p, "register"))
  <2>1. Stage(Goto(p, "register"), FileOf(p))
    <3>1. call[p].hash = DataOf(FileOf(p))
      BY <1>1, <1>2 DEF Stage, Hashed
    <3>2. QED
      BY <1>1, <1>2, <1>4, <3>1, Going DEF Goto, Steps, Stage, Stored, Complete, Sized, Hashed
  <2>2. QED
    BY <1>1, <1>4, <2>1, StepEffect DEF Steps, Inspect
<1>5. CASE Fail("throw", p, Unavailable(p))
  <2>1. /\ call'[p] = Thrown(p)
        /\ call' = [call EXCEPT ![p] = call'[p]]
        /\ failures' = failures + 1
    BY <1>5 DEF Fail, Unavailable, IInv, TypeOK
  <2>2. GoesOn(p, FileOf(p))
    BY <1>1, <2>1, AfterThrow DEF GoesOn
  <2>3. QED
    BY <1>1, <2>1, <2>2, Unmoved DEF Inspect
<1>6. QED
  BY <1>1, <1>3, <1>4, <1>5 DEF Inspect

LEMMA RegisterEffect ==
    ASSUME IInv, NEW p \in Requests, Register(p)
    PROVE  Busy(p) /\ Effect(p)
<1>1. Busy(p) /\ call[p].pc = "register" /\ At(p, "register")
  BY DEF Register, Busy, At
<1>2. call[p] \in CallRecords /\ Stage(call[p], FileOf(p))
  BY <1>1, InHands
<1>3. CASE Become(p, Goto(p, "remove")) /\ UNCHANGED rows
  <2>1. Stage(Goto(p, "remove"), FileOf(p))
    BY <1>1, <1>2, Going DEF Goto, Steps, Stage, Stored, Complete, Sized, Hashed
  <2>2. QED
    BY <1>1, <1>3, <2>1, StepEffect DEF Steps, Register
<1>4. CASE /\ rows' = rows \cup {Row(p)}
           /\ Become(p, IdleCall) \/ Fail("commit", p, KeptInDoubt(p))
  <2>1. /\ call'[p] = IdleCall
        /\ call' = [call EXCEPT ![p] = call'[p]]
        /\ failures' = failures \/ failures' = failures + 1
    BY <1>4 DEF Become, Fail, KeptInDoubt, IInv, TypeOK
  <2>2. Inserts(p)
    BY <1>1, <1>4, <2>1 DEF Inserts, Register
  <2>3. QED
    BY <1>1, <2>1, <2>2, Unmoved DEF Register
<1>5. CASE Fail("commit", p, KeptInDoubt(p)) /\ UNCHANGED rows
  <2>1. /\ call'[p] = IdleCall
        /\ call' = [call EXCEPT ![p] = call'[p]]
        /\ failures' = failures + 1
    BY <1>5 DEF Fail, KeptInDoubt, IInv, TypeOK
  <2>2. Ends(p)
    BY <1>5, <2>1 DEF Ends, Register
  <2>3. QED
    BY <1>1, <2>1, <2>2, Unmoved DEF Register
<1>6. QED
  BY <1>1, <1>3, <1>4, <1>5 DEF Register

LEMMA Effects ==
    ASSUME IInv, NEW p \in Requests, Progress(p) \/ Throw(p)
    PROVE  Busy(p) /\ Effect(p)
<1>1. CASE Abandon(p) \/ Discard(p) \/ Remove(p)
  <2>1. Busy(p)
    BY <1>1 DEF Abandon, Discard, Remove, Busy, At
  <2>2. QED
    BY <1>1, <2>1, Unlinks DEF Abandon, Discard, Remove
<1>2. QED
  BY <1>1, ThrowEffect, WriteEffect, WrittenEffect, RecheckEffect, AdoptEffect, SyncEffect,
     HashEffect, RenameEffect, InspectEffect, RegisterEffect DEF Progress

-----------------------------------------------------------------------------
(* The invariant                                                           *)

\* The row of a handler at the registration describes its object.
LEMMA RowOfRegister ==
    ASSUME IInv, NEW p \in Requests, At(p, "register")
    PROVE  /\ Row(p) \in RowRecords
           /\ Row(p).file = call[p].file
           /\ Row(p).hash = DataOf(FileOf(p)) /\ Row(p).size = FileOf(p).written
           /\ FileOf(p).place = "objects"
           /\ Accepted(Row(p).kind, Row(p).hash)
<1>1. Busy(p) /\ call[p].pc = "register"
  BY DEF Busy, At
<1>2. /\ call[p] \in CallRecords /\ FileOf(p) \in FileRecords
      /\ Stage(call[p], FileOf(p))
  BY <1>1, InHands
<1>3. /\ call[p].hash = DataOf(FileOf(p)) /\ call[p].size = FileOf(p).written
      /\ FileOf(p).place = "objects" /\ Accepted(call[p].kind, call[p].hash)
  BY <1>1, <1>2 DEF Stage, Stored, Sized, Hashed
<1>4. Row(p) \in RowRecords
  BY <1>2, <1>3, Fields DEF Row, RowRecords, CallRecords
<1>5. QED
  BY <1>3, <1>4 DEF Row

LEMMA EffectKeeps ==
    ASSUME IInv, NEW p \in Requests, Busy(p), Effect(p)
    PROVE  IInv'
<1> DEFINE f == call[p].file
<1>1. /\ call[p] \in CallRecords /\ f \in FileIds /\ f <= created
  BY InHands
<1>2. /\ \A i \in FileIds : i # f => files'[i] = files[i]
      /\ FileOk(files'[f])
      /\ created' = created /\ outages' = outages
  BY <1>1 DEF Effect, IInv, TypeOK
<1>3. /\ \A q \in Requests : q # p => call'[q] = call[q]
      /\ call'[p] = IdleCall
         \/ (call'[p] \in CallRecords /\ call'[p].file = f /\ Stage(call'[p], files'[f]))
  BY DEF Effect, GoesOn, Ends, Inserts, IInv, TypeOK
<1>4. \A q \in Requests : Busy(q)' => Busy(q) /\ call'[q].file = call[q].file
  BY <1>3, IdleIsIdle DEF Busy, At
<1>5. \/ rows' = rows
      \/ At(p, "register") /\ call'[p] = IdleCall /\ files' = files /\ rows' = rows \cup {Row(p)}
  BY DEF Effect, Ends, Inserts
<1>6. TypeOK'
  <2>1. files' \in [FileIds -> FileRecords \cup {NoFile}]
    BY <1>2 DEF Effect, FileOk, IInv, TypeOK
  <2>2. call' \in [Requests -> CallRecords \cup {IdleCall}]
    BY <1>3 DEF Effect, IInv, TypeOK
  <2>3. rows' \subseteq RowRecords
    BY <1>5, RowOfRegister DEF IInv, TypeOK
  <2>4. /\ created' \in 0 .. MaxFiles
        /\ failures' \in Nat /\ crashes' \in Nat /\ outages' \in Nat
    BY DEF Effect, IInv, TypeOK
  <2>5. QED
    BY <2>1, <2>2, <2>3, <2>4 DEF TypeOK
<1>7. FilesInv'
  <2>1. \A i \in FileIds : FileOk(files'[i])
    BY <1>2 DEF IInv, FilesInv
  <2>2. ASSUME NEW i \in FileIds, i > created' PROVE files'[i] = NoFile
    <3>1. i # f
      BY <1>1, <1>2, <2>2 DEF FileIds, IInv, TypeOK
    <3>2. QED
      BY <1>2, <2>2, <3>1 DEF IInv, FilesInv
  <2>3. QED
    BY <2>1, <2>2 DEF FilesInv
<1>8. HandlersInv'
  <2>1. ASSUME NEW q \in Requests, Busy(q)'
        PROVE  call'[q].file <= created' /\ Stage(call'[q], files'[call'[q].file])
    <3>1. CASE q = p
      BY <1>1, <1>2, <1>3, <2>1, <3>1, IdleIsIdle DEF Busy, At
    <3>2. CASE q # p
      <4>1. call'[q] = call[q] /\ Busy(q) /\ call[q].file # f
        BY <1>3, <1>4, <2>1, <3>2 DEF IInv, HandlersInv
      <4>2. call[q].file \in FileIds /\ Stage(call[q], FileOf(q)) /\ call[q].file <= created
        BY <4>1, InHands
      <4>3. QED
        BY <1>2, <4>1, <4>2 DEF FileOf
    <3>3. QED
      BY <3>1, <3>2
  <2>2. \A q, r \in Requests :
            q # r /\ Busy(q)' /\ Busy(r)' => call'[q].file # call'[r].file
    BY <1>4 DEF IInv, HandlersInv
  <2>3. QED
    BY <2>1, <2>2 DEF HandlersInv, FileOf
<1>9. RowsInv'
  <2>1. ASSUME NEW row \in rows, row \in rows'
        PROVE  /\ row.file <= created'
               /\ Accepted(row.kind, row.hash)
               /\ \A q \in Requests : Busy(q)' => call'[q].file # row.file
               /\ files'[row.file] = files[row.file]
    <3>1. row.file \in FileIds /\ row.file # f
      BY DEF IInv, TypeOK, RowRecords, RowsInv
    <3>2. QED
      BY <1>2, <1>4, <3>1 DEF IInv, RowsInv
  <2>2. ASSUME At(p, "register"), call'[p] = IdleCall, files' = files
        PROVE  /\ Row(p).file <= created'
               /\ Accepted(Row(p).kind, Row(p).hash)
               /\ \A q \in Requests : Busy(q)' => call'[q].file # Row(p).file
               /\ files'[Row(p).file].place = "objects"
               /\ Row(p).hash = DataOf(files'[Row(p).file])
               /\ Row(p).size = files'[Row(p).file].written
    <3>1. ASSUME NEW q \in Requests, Busy(q)' PROVE call'[q].file # f
      <4>1. q # p
        BY <2>2, <3>1, IdleIsIdle DEF Busy, At
      <4>2. QED
        BY <1>4, <3>1, <4>1 DEF IInv, HandlersInv
    <3>2. QED
      BY <1>1, <1>2, <2>2, <3>1, RowOfRegister DEF FileOf
  <2>3. \A row \in rows' : row \in rows \/ (row = Row(p) /\ At(p, "register")
                              /\ call'[p] = IdleCall /\ files' = files)
    BY <1>5
  <2>4. RowsAreServed'
    BY <1>2, <2>1, <2>2, <2>3 DEF IInv, RowsInv, RowsAreServed
  <2>5. QED
    BY <2>1, <2>2, <2>3, <2>4 DEF RowsInv
<1>10. QED
  BY <1>6, <1>7, <1>8, <1>9 DEF IInv

\* A request that opens its temporary file.
LEMMA OpenKeeps ==
    ASSUME IInv, NEW p \in Requests, At(p, "idle"), NEW step \in {"stream", "write"},
           NEW kind \in Kinds, NEW content \in Contents,
           Open(p, step, kind, content), UNCHANGED <<rows, crashes, outages>>
    PROVE  IInv'
<1> DEFINE file == [place |-> "incoming", content |-> content, written |-> 0, synced |-> 0]
           frame == [pc |-> step, kind |-> kind, file |-> created + 1, size |-> 0,
                     hash |-> NoData]
<1>1. created \in Nat /\ created + 1 \in FileIds /\ created' = created + 1
  BY BoundsAssumption DEF Open, IInv, TypeOK, FileIds, BoundsAssumption
<1>2. /\ file \in FileRecords /\ file.place = "incoming"
      /\ frame \in CallRecords /\ frame.file = created + 1 /\ frame.pc = step
  BY <1>1 DEF FileRecords, CallRecords, Steps
<1>3. Stage(frame, file) /\ FileOk(file)
  BY <1>2 DEF Stage, Stored, Complete, Sized, Hashed, FileOk
<1>4. /\ call' = [call EXCEPT ![p] = frame]
      /\ files' = [files EXCEPT ![created + 1] = file]
      /\ failures' = failures
  BY DEF Open, Become
<1> HIDE DEF file, frame
<1>5. /\ call'[p] = frame /\ \A q \in Requests : q # p => call'[q] = call[q]
      /\ files'[created + 1] = file
      /\ \A i \in FileIds : i # created + 1 => files'[i] = files[i]
  BY <1>1, <1>4 DEF IInv, TypeOK
<1>6. ASSUME NEW q \in Requests, Busy(q)', q # p
      PROVE  Busy(q) /\ call'[q] = call[q] /\ call[q].file \in FileIds
             /\ call[q].file <= created /\ call[q].file # created + 1
  <2>1. Busy(q) /\ call'[q] = call[q]
    BY <1>5, <1>6 DEF Busy, At
  <2>2. call[q].file \in FileIds /\ call[q].file <= created
    BY <2>1, InHands
  <2>3. QED
    BY <1>1, <2>1, <2>2 DEF FileIds
<1>7. TypeOK'
  BY <1>1, <1>2, <1>4 DEF IInv, TypeOK, FileIds
<1>8. FilesInv'
  BY <1>1, <1>3, <1>5 DEF IInv, FilesInv, FileIds
<1>9. HandlersInv'
  <2>1. ASSUME NEW q \in Requests, Busy(q)'
        PROVE  call'[q].file <= created' /\ Stage(call'[q], files'[call'[q].file])
    <3>1. CASE q = p
      BY <1>1, <1>2, <1>3, <1>5, <3>1
    <3>2. CASE q # p
      <4>1. Stage(call[q], FileOf(q))
        BY <1>6, <2>1, <3>2, InHands
      <4>2. QED
        BY <1>1, <1>5, <1>6, <2>1, <3>2, <4>1 DEF FileOf, FileIds
    <3>3. QED
      BY <3>1, <3>2
  <2>2. ASSUME NEW q \in Requests, NEW r \in Requests, q # r, Busy(q)', Busy(r)'
        PROVE  call'[q].file # call'[r].file
    BY <1>2, <1>5, <1>6, <2>2 DEF IInv, HandlersInv
  <2>3. QED
    BY <2>1, <2>2 DEF HandlersInv, FileOf
<1>10. RowsInv'
  <2>1. ASSUME NEW row \in rows
        PROVE  /\ row.file <= created'
               /\ \A q \in Requests : Busy(q)' => call'[q].file # row.file
               /\ files'[row.file] = files[row.file]
    <3>1. row.file \in FileIds /\ row.file <= created /\ row.file # created + 1
      BY <1>1 DEF IInv, TypeOK, RowRecords, RowsInv, FileIds
    <3>2. QED
      BY <1>1, <1>2, <1>5, <1>6, <3>1 DEF IInv, RowsInv, FileIds
  <2>2. QED
    BY <2>1 DEF IInv, RowsInv, RowsAreServed
<1>11. QED
  BY <1>7, <1>8, <1>9, <1>10 DEF IInv

LEMMA CrashKeeps ==
    ASSUME IInv, Crash
    PROVE  IInv'
<1>1. \A p \in Requests : ~ Busy(p)'
  BY IdleIsIdle DEF Crash, Busy, At
<1>2. UNCHANGED <<files, created, rows, failures, outages>> /\ crashes' = crashes + 1
  BY DEF Crash
<1>3. TypeOK'
  BY <1>2 DEF Crash, IInv, TypeOK
<1>4. FilesInv' /\ HandlersInv'
  BY <1>1, <1>2 DEF IInv, FilesInv, HandlersInv
<1>5. RowsInv'
  BY <1>1, <1>2 DEF IInv, RowsInv, RowsAreServed
<1>6. QED
  BY <1>3, <1>4, <1>5 DEF IInv

\* What a power failure leaves of a file.
LEMMA Survival ==
    ASSUME NEW file, FileOk(file), NEW after \in Survivors(file)
    PROVE  /\ FileOk(after) /\ after \in FileRecords \cup {NoFile}
           /\ file = NoFile => after = NoFile
           /\ after = NoFile \/ after.place = "incoming" \/ after = file
<1>1. CASE after = NoFile
  BY <1>1 DEF FileOk
<1>2. CASE file = NoFile
  BY <1>2 DEF Survivors, FileOk
<1>3. CASE file # NoFile /\ after # NoFile
  <2>1. file \in FileRecords /\ (file.place = "objects" => Whole(file))
    BY <1>3 DEF FileOk
  <2>2. ASSUME NEW left \in Prefixes(file)
        PROVE  /\ left \in FileRecords /\ left.place = file.place
               /\ file.place = "objects" => left = file
    <3>1. PICK n \in file.synced .. file.written :
              left = [file EXCEPT !.written = n, !.synced = n]
      BY <2>2 DEF Prefixes
    <3>2. n \in Nat
      BY <2>1, <3>1, Fields
    <3>3. file.place = "objects" => n = file.written /\ n = file.synced
      BY <2>1, <3>1, <3>2, Fields DEF Whole
    <3>4. QED
      BY <2>1, <3>1, <3>2, <3>3 DEF FileRecords
  <2>3. CASE after \in Prefixes(file)
    BY <1>3, <2>1, <2>2, <2>3, Fields DEF FileOk
  <2>4. CASE \E left \in Prefixes(file) : after = [left EXCEPT !.place = "incoming"]
    <3>1. after \in FileRecords /\ after.place = "incoming"
      BY <2>2, <2>4 DEF FileRecords
    <3>2. QED
      BY <1>3, <3>1 DEF FileOk
  <2>5. QED
    BY <1>3, <2>3, <2>4 DEF Survivors
<1>4. QED
  BY <1>1, <1>2, <1>3

LEMMA OutageKeeps ==
    ASSUME IInv, Outage
    PROVE  IInv'
<1>1. \A p \in Requests : ~ Busy(p)'
  BY IdleIsIdle DEF Outage, Busy, At
<1>2. UNCHANGED <<created, rows, failures, crashes>> /\ outages' = outages + 1
  BY DEF Outage
<1>3. ASSUME NEW i \in FileIds
      PROVE  /\ FileOk(files'[i]) /\ files'[i] \in FileRecords \cup {NoFile}
             /\ files[i] = NoFile => files'[i] = NoFile
             /\ files'[i] = NoFile \/ files'[i].place = "incoming" \/ files'[i] = files[i]
  <2>1. FileOk(files[i]) /\ files'[i] \in Survivors(files[i])
    BY DEF Outage, IInv, FilesInv
  <2>2. QED
    BY <2>1, Survival
<1>4. TypeOK'
  <2>1. files' \in [FileIds -> FileRecords \cup {NoFile}]
    BY <1>3 DEF Outage
  <2>2. QED
    BY <1>2, <2>1 DEF Outage, IInv, TypeOK
<1>5. FilesInv' /\ HandlersInv'
  BY <1>1, <1>2, <1>3 DEF IInv, FilesInv, HandlersInv
<1>6. RowsInv'
  <2>1. outages' > 0
    BY <1>2 DEF IInv, TypeOK
  <2>2. RowsAreServed'
    <3> SUFFICES ASSUME NEW row \in rows
                 PROVE  \/ /\ files'[row.file].place = "objects"
                           /\ row.hash = DataOf(files'[row.file])
                           /\ row.size = files'[row.file].written
                        \/ files'[row.file].place # "objects" /\ outages' > 0
      BY <1>2 DEF RowsAreServed
    <3>1. row.file \in FileIds
      BY DEF IInv, TypeOK, RowRecords
    <3>2. CASE files'[row.file] = files[row.file]
      BY <2>1, <3>2 DEF IInv, RowsInv, RowsAreServed
    <3>3. CASE files'[row.file] # files[row.file]
      BY <1>3, <2>1, <3>1, <3>3, NoFileIsNone
    <3>4. QED
      BY <3>2, <3>3
  <2>3. QED
    BY <1>1, <1>2, <2>2 DEF IInv, RowsInv
<1>7. QED
  BY <1>4, <1>5, <1>6 DEF IInv

\* The steps there are.
LEMMA StepKinds ==
    ASSUME IInv, Next
    PROVE  \/ \E p \in Requests : Busy(p) /\ Effect(p)
           \/ \E p \in Requests, step \in {"stream", "write"}, kind \in Kinds, content \in Contents :
                /\ At(p, "idle") /\ Open(p, step, kind, content)
                /\ UNCHANGED <<rows, crashes, outages>>
           \/ Crash \/ Outage
<1>1. CASE Crash \/ Outage
  BY <1>1
<1>2. CASE \E p \in Requests : Progress(p) \/ Throw(p)
  BY <1>2, Effects
<1>3. CASE \E p \in Requests : StartUpload(p) \/ StartContent(p)
  BY <1>3 DEF StartUpload, StartContent, Posted
<1>4. QED
  BY <1>1, <1>2, <1>3 DEF Next

\* What the frames, the files and the rows say of one another holds in every
\* reachable state; the theorems below follow from it.
THEOREM Invariance == Spec => []IInv
<1>1. Init => IInv
  BY InitIInv
<1>2. ASSUME IInv, [Next]_vars PROVE IInv'
  <2>1. CASE Next
    <3>1. CASE \E p \in Requests : Busy(p) /\ Effect(p)
      BY <1>2, <3>1, EffectKeeps
    <3>2. CASE \E p \in Requests, step \in {"stream", "write"}, kind \in Kinds, content \in Contents :
                    /\ At(p, "idle") /\ Open(p, step, kind, content)
                    /\ UNCHANGED <<rows, crashes, outages>>
      BY <1>2, <3>2, OpenKeeps
    <3>3. CASE Crash \/ Outage
      BY <1>2, <3>3, CrashKeeps, OutageKeeps
    <3>4. QED
      BY <1>2, <2>1, <3>1, <3>2, <3>3, StepKinds
  <2>2. CASE UNCHANGED vars
    <3>1. TypeOK' /\ FilesInv'
      BY <1>2, <2>2 DEF vars, IInv, TypeOK, FilesInv
    <3>2. HandlersInv'
      BY <1>2, <2>2 DEF vars, IInv, HandlersInv, Busy, At, FileOf
    <3>3. RowsInv'
      BY <1>2, <2>2 DEF vars, IInv, RowsInv, RowsAreServed, Busy, At
    <3>4. QED
      BY <3>1, <3>2, <3>3 DEF IInv
  <2>3. QED
    BY <1>2, <2>1, <2>2
<1>3. QED
  BY <1>1, <1>2, PTL DEF Spec

-----------------------------------------------------------------------------
(* The theorems                                                            *)

\* Every reachable state is well typed.
THEOREM TypeCorrect == Spec => []TypeOK
<1>1. IInv => TypeOK
  BY DEF IInv
<1>2. QED
  BY <1>1, Invariance, PTL

\* The object a row refers to has the row's hash and size, whichever requests
\* run beside it and whatever fails; only a power failure may take it away.
THEOREM RowsServed == Spec => []RowsAreServed
<1>1. IInv => RowsAreServed
  BY DEF IInv, RowsInv
<1>2. QED
  BY <1>1, Invariance, PTL

\* No content gets a row that its inspection did not accept, also when the
\* inspection fails.
THEOREM RowsUsable == Spec => []RowsAreUsable
<1>1. ASSUME IInv PROVE RowsAreUsable
  BY <1>1 DEF IInv, RowsInv, RowsAreUsable, Accepted, HasStream, IsText
<1>2. QED
  BY <1>1, Invariance, PTL

\* A step of a handler puts one object, removes one, or shows nothing.
LEMMA EffectSeen ==
    ASSUME IInv, NEW p \in Requests, Busy(p), Effect(p)
    PROVE  Objects!Next \/ Visible' = Visible
<1> DEFINE f == call[p].file
           after == files'[f]
<1>1. f \in FileIds /\ FileOf(p) \in FileRecords /\ FileOf(p) = files[f]
  BY InHands DEF FileOf
<1>2. \A i \in FileIds : i # f => files'[i] = files[i]
  BY <1>1 DEF Effect, IInv, TypeOK
<1>3. FileOk(after) /\ Seen(files[f], after)
  BY <1>1 DEF Effect
<1> HIDE DEF f
<1>4. CASE after = NoFile
  <2>1. Visible' = [i \in FileIds |-> IF i \in {f} THEN NoData ELSE Visible[i]]
    BY <1>1, <1>2, <1>4, NoFileIsNone DEF Visible
  <2>2. QED
    BY <1>1, <2>1 DEF Objects!Next, Objects!Lose
<1>5. CASE files[f].place = "incoming" /\ after.place = "objects" /\ Whole(after)
  <2>1. after \in FileRecords
    BY <1>3, <1>5, NoFileIsNone DEF FileOk
  <2>2. /\ DataOf(after) = <<after.content, after.content.size>>
        /\ after.content \in {c \in Contents : AssertSize(c.size)}
    BY <1>5, <2>1, Fields DEF Whole
  <2>3. Visible[f] = NoData
    BY <1>1, <1>5 DEF Visible
  <2>4. Visible' = [Visible EXCEPT ![f] = DataOf(after)]
    BY <1>1, <1>2, <1>5 DEF Visible
  <2>5. DataOf(after) \in {<<content, content.size>> :
                              content \in {c \in Contents : AssertSize(c.size)}}
    BY <2>2
  <2>6. Objects!Put(f, DataOf(after))
    BY <2>3, <2>4 DEF Objects!Put
  <2>7. QED
    BY <1>1, <2>5, <2>6 DEF Objects!Next
<1>6. CASE files[f].place = "incoming" /\ after.place = "incoming"
  BY <1>1, <1>2, <1>6 DEF Visible
<1>7. CASE after = files[f]
  BY <1>1, <1>2, <1>7 DEF Visible
<1>8. QED
  BY <1>3, <1>4, <1>5, <1>6, <1>7 DEF Seen

LEMMA ObjectSteps ==
    ASSUME IInv, [Next]_vars
    PROVE  Objects!Next \/ Visible' = Visible
<1>1. CASE UNCHANGED vars
  BY <1>1 DEF vars, Visible
<1>2. CASE \E p \in Requests : Busy(p) /\ Effect(p)
  BY <1>2, EffectSeen
<1>3. CASE \E p \in Requests, step \in {"stream", "write"}, kind \in Kinds, content \in Contents :
                /\ At(p, "idle") /\ Open(p, step, kind, content)
                /\ UNCHANGED <<rows, crashes, outages>>
  <2>1. created + 1 \in FileIds /\ files[created + 1] = NoFile
    BY <1>3, BoundsAssumption DEF Open, IInv, TypeOK, FilesInv, FileIds, BoundsAssumption
  <2>2. /\ files'[created + 1].place = "incoming"
        /\ \A i \in FileIds : i # created + 1 => files'[i] = files[i]
    BY <1>3, <2>1 DEF Open, IInv, TypeOK
  <2>3. QED
    BY <2>1, <2>2, NoFileIsNone DEF Visible
<1>4. CASE Crash
  BY <1>4 DEF Crash, Visible
<1>5. CASE Outage
  <2> DEFINE lost == {i \in FileIds : files'[i].place # "objects"}
  <2>1. ASSUME NEW i \in FileIds, files'[i].place = "objects"
        PROVE  files'[i] = files[i]
    <3>1. FileOk(files[i]) /\ files'[i] \in Survivors(files[i])
      BY <1>5 DEF Outage, IInv, FilesInv
    <3>2. QED
      BY <2>1, <3>1, Survival, NoFileIsNone
  <2>2. Visible' = [i \in FileIds |-> IF i \in lost THEN NoData ELSE Visible[i]]
    BY <2>1 DEF Visible
  <2>3. QED
    BY <2>2 DEF Objects!Next, Objects!Lose
<1>6. QED
  BY <1>1, <1>2, <1>3, <1>4, <1>5, StepKinds

\* What is under objects comes into being whole and never changes: storing,
\* removing and losing power implement the abstract object store.
THEOREM StorageImplementsStore == Spec => StoreIsAtomic
<1>1. Init => Objects!Init
  BY NoFileIsNone DEF Init, Objects!Init, Visible
<1>2. IInv /\ [Next]_vars => [Objects!Next]_Visible
  BY ObjectSteps
<1>3. QED
  BY <1>1, <1>2, Invariance, PTL DEF Spec, StoreIsAtomic, Objects!Spec

-----------------------------------------------------------------------------
(* Stray files                                                             *)

LEMMA StraysFinite == IsFiniteSet(Strays) /\ Cardinality(Strays) \in Nat
<1>1. IsFiniteSet(FileIds)
  BY BoundsAssumption, FS_Interval DEF FileIds, BoundsAssumption
<1>2. Strays \in SUBSET FileIds
  BY DEF Strays
<1>3. QED
  BY <1>1, <1>2, FS_Subset, FS_CardinalityType

LEMMA StraysFiniteNext == IsFiniteSet(Strays') /\ Cardinality(Strays') \in Nat
<1>1. IsFiniteSet(FileIds)
  BY BoundsAssumption, FS_Interval DEF FileIds, BoundsAssumption
<1>2. Strays' \in SUBSET FileIds
  BY DEF Strays
<1>3. QED
  BY <1>1, <1>2, FS_Subset, FS_CardinalityType

\* Handlers have a file each.
LEMMA HandsFull ==
    /\ IsFiniteSet(InHand)
    /\ Cardinality(InHand) \in Nat
    /\ Cardinality(Requests) \in Nat
    /\ Cardinality(InHand) <= Cardinality(Requests)
<1> DEFINE busy == {q \in Requests : ~ At(q, "idle")}
           fileOf == [p \in busy |-> call[p].file]
<1>1. IsFiniteSet(Requests)
  BY RequestsAssumption DEF RequestsAssumption
<1>2. busy \in SUBSET Requests
  OBVIOUS
<1>3. IsFiniteSet(busy) /\ Cardinality(busy) <= Cardinality(Requests)
  BY <1>1, <1>2, FS_Subset
<1>4. fileOf \in Surjection(busy, InHand)
  BY DEF InHand, Surjection
<1> HIDE DEF busy, fileOf
<1>5. IsFiniteSet(InHand) /\ Cardinality(InHand) <= Cardinality(busy)
  BY <1>3, <1>4, FS_Surjection
<1>6. /\ Cardinality(Requests) \in Nat /\ Cardinality(busy) \in Nat
      /\ Cardinality(InHand) \in Nat
  BY <1>1, <1>3, <1>5, FS_CardinalityType
<1>7. QED
  BY <1>3, <1>5, <1>6

\* A handler leaves a stray file only when its call has failed.
LEMMA EffectStrays ==
    ASSUME IInv, NEW p \in Requests, Busy(p), Effect(p)
    PROVE  Cardinality(Strays') - failures' <= Cardinality(Strays) - failures
<1> DEFINE f == call[p].file
<1>1. f \in FileIds
  BY InHands
<1>2. /\ \A i \in FileIds : i # f => files'[i] = files[i]
      /\ \A q \in Requests : q # p => call'[q] = call[q]
      /\ rows \subseteq rows'
      /\ failures \in Nat
      /\ failures' = failures \/ failures' = failures + 1
  BY <1>1 DEF Effect, Ends, Inserts, IInv, TypeOK
<1>3. ASSUME NEW i \in Strays', i # f PROVE i \in Strays
  <2>1. i \in FileIds /\ files[i] # NoFile /\ \A row \in rows : row.file # i
    BY <1>2, <1>3 DEF Strays
  <2>2. ASSUME NEW q \in Requests, ~ At(q, "idle") PROVE call[q].file # i
    <3>1. CASE q = p
      BY <1>3, <3>1
    <3>2. CASE q # p
      BY <1>2, <1>3, <2>2, <3>2 DEF Strays, InHand, At
    <3>3. QED
      BY <3>1, <3>2
  <2>3. QED
    BY <2>1, <2>2 DEF Strays, InHand
<1>4. ASSUME f \in Strays' PROVE failures' = failures + 1
  <2>1. files'[f] # NoFile /\ (\A row \in rows' : row.file # f)
    BY <1>4 DEF Strays
  <2>2. ASSUME GoesOn(p, files'[f]) PROVE FALSE
    <3>1. p \in {q \in Requests : ~ At(q, "idle")}'
      BY <2>2 DEF GoesOn, At
    <3>2. call'[p].file \in InHand'
      BY <3>1 DEF InHand
    <3>3. QED
      BY <1>4, <2>2, <3>2 DEF GoesOn, Strays
  <2>3. ~ Inserts(p)
    <3>1. Row(p).file = f
      BY DEF Row
    <3>2. Inserts(p) => Row(p) \in rows'
      BY DEF Inserts
    <3>3. QED
      BY <2>1, <3>1, <3>2
  <2>4. Ends(p)
    BY <2>2, <2>3 DEF Effect
  <2>5. QED
    BY <2>1, <2>4 DEF Ends
<1>5. IsFiniteSet(Strays) /\ Cardinality(Strays) \in Nat /\ Cardinality(Strays') \in Nat
  BY StraysFinite, StraysFiniteNext
<1> HIDE DEF f
<1>6. CASE f \notin Strays'
  <2>1. Strays' \in SUBSET Strays
    BY <1>3, <1>6
  <2>2. Cardinality(Strays') <= Cardinality(Strays)
    BY <1>5, <2>1, FS_Subset
  <2>3. QED
    BY <1>2, <1>5, <2>2
<1>7. CASE f \in Strays'
  <2>1. Strays' \in SUBSET (Strays \cup {f})
    BY <1>3
  <2>2. IsFiniteSet(Strays \cup {f}) /\ Cardinality(Strays \cup {f}) <= Cardinality(Strays) + 1
        /\ Cardinality(Strays \cup {f}) \in Nat
    BY <1>5, FS_AddElement, FS_CardinalityType
  <2>3. Cardinality(Strays') <= Cardinality(Strays \cup {f})
    BY <2>1, <2>2, FS_Subset
  <2>4. QED
    BY <1>2, <1>4, <1>5, <1>7, <2>2, <2>3
<1>8. QED
  BY <1>6, <1>7

LEMMA OpenStrays ==
    ASSUME IInv, NEW p \in Requests, At(p, "idle"), NEW step \in {"stream", "write"},
           NEW kind \in Kinds, NEW content \in Contents,
           Open(p, step, kind, content), UNCHANGED <<rows, crashes, outages>>
    PROVE  Cardinality(Strays') <= Cardinality(Strays)
<1>1. created + 1 \in FileIds
  BY BoundsAssumption DEF Open, IInv, TypeOK, FileIds, BoundsAssumption
<1>2. /\ call'[p].file = created + 1 /\ call'[p].pc # "idle"
      /\ \A q \in Requests : q # p => call'[q] = call[q]
      /\ \A i \in FileIds : i # created + 1 => files'[i] = files[i]
      /\ rows' = rows
  BY <1>1 DEF Open, Become, IInv, TypeOK
<1>3. ASSUME NEW i \in Strays' PROVE i \in Strays
  <2>1. i \in FileIds /\ i # created + 1
    BY <1>2 DEF Strays, InHand, At
  <2>2. files[i] # NoFile /\ \A row \in rows : row.file # i
    BY <1>2, <2>1 DEF Strays
  <2>3. ASSUME NEW q \in Requests, ~ At(q, "idle") PROVE call[q].file # i
    BY <1>2, <2>3 DEF Strays, InHand, At
  <2>4. QED
    BY <2>1, <2>2, <2>3 DEF Strays, InHand
<1>4. Strays' \in SUBSET Strays
  BY <1>3
<1>5. QED
  BY <1>4, StraysFinite, FS_Subset

\* A process that dies leaves what its handlers had in hand.
LEMMA CrashStrays ==
    ASSUME IInv, Crash
    PROVE  Cardinality(Strays') <= Cardinality(Strays) + Cardinality(Requests)
<1>1. Strays' \in SUBSET (Strays \cup InHand)
  BY DEF Crash, Strays
<1>2. /\ IsFiniteSet(Strays) /\ Cardinality(Strays) \in Nat /\ Cardinality(Strays') \in Nat
      /\ IsFiniteSet(InHand) /\ Cardinality(InHand) \in Nat
      /\ Cardinality(InHand) <= Cardinality(Requests) /\ Cardinality(Requests) \in Nat
  BY StraysFinite, StraysFiniteNext, HandsFull
<1>3. /\ IsFiniteSet(Strays \cup InHand)
      /\ Cardinality(Strays \cup InHand)
            = Cardinality(Strays) + Cardinality(InHand) - Cardinality(Strays \cap InHand)
  BY <1>2, FS_Union
<1>4. Cardinality(Strays \cap InHand) \in Nat
  <2>1. Strays \cap InHand \in SUBSET Strays
    OBVIOUS
  <2>2. QED
    BY <1>2, <2>1, FS_Subset, FS_CardinalityType
<1>5. Cardinality(Strays') <= Cardinality(Strays \cup InHand)
  BY <1>1, <1>3, FS_Subset
<1>6. QED
  BY <1>2, <1>3, <1>4, <1>5

LEMMA StraysStep ==
    ASSUME IInv, StraysArePaidFor, [Next]_vars
    PROVE  StraysArePaidFor'
<1> DEFINE n == Cardinality(Requests)
<1>1. /\ n \in Nat /\ Cardinality(Strays) \in Nat /\ Cardinality(Strays') \in Nat
      /\ failures \in Nat /\ crashes \in Nat /\ outages \in Nat
  BY HandsFull, StraysFinite, StraysFiniteNext DEF IInv, TypeOK
<1>2. CASE UNCHANGED vars
  BY <1>2 DEF vars, StraysArePaidFor, Strays, InHand, At
<1>3. CASE \E p \in Requests : Busy(p) /\ Effect(p)
  <2>1. Cardinality(Strays') - failures' <= Cardinality(Strays) - failures
    BY <1>3, EffectStrays
  <2>2. /\ crashes' = crashes /\ outages' = outages
        /\ failures' = failures \/ failures' = failures + 1
    BY <1>3 DEF Effect
  <2>3. crashes * n \in Nat
    BY <1>1
  <2> HIDE DEF n
  <2>4. QED
    BY <1>1, <2>1, <2>2, <2>3 DEF StraysArePaidFor, n
<1>4. CASE \E p \in Requests, step \in {"stream", "write"}, kind \in Kinds, content \in Contents :
                /\ At(p, "idle") /\ Open(p, step, kind, content)
                /\ UNCHANGED <<rows, crashes, outages>>
  <2>1. Cardinality(Strays') <= Cardinality(Strays)
    BY <1>4, OpenStrays
  <2>2. UNCHANGED <<failures, crashes, outages>>
    BY <1>4 DEF Open, Become
  <2>3. crashes * n \in Nat
    BY <1>1
  <2>4. QED
    BY <1>1, <2>1, <2>2, <2>3 DEF StraysArePaidFor
<1>5. CASE Crash
  <2>1. Cardinality(Strays') <= Cardinality(Strays) + n
    BY <1>5, CrashStrays
  <2>2. crashes' = crashes + 1 /\ UNCHANGED <<failures, outages>>
    BY <1>5 DEF Crash
  <2>3. (crashes + 1) * n = crashes * n + n /\ crashes * n \in Nat
    BY <1>1
  <2>4. QED
    BY <1>1, <2>1, <2>2, <2>3 DEF StraysArePaidFor
<1>6. CASE Outage
  BY <1>1, <1>6 DEF Outage, StraysArePaidFor
<1>7. QED
  BY <1>2, <1>3, <1>4, <1>5, <1>6, StepKinds

\* Every file that neither a row nor a handler owns was left by a call that
\* failed or by a handler that died.
THEOREM StraysPaidFor == Spec => []StraysArePaidFor
<1>1. Init => StraysArePaidFor
  <2>1. ASSUME Init PROVE Strays = {} /\ failures = 0 /\ crashes = 0
    BY <2>1 DEF Init, Strays
  <2>2. Cardinality({}) = 0 /\ Cardinality(Requests) \in Nat
    BY FS_EmptySet, HandsFull
  <2>3. QED
    BY <2>1, <2>2 DEF StraysArePaidFor
<1>2. IInv /\ StraysArePaidFor /\ [Next]_vars => StraysArePaidFor'
  BY StraysStep
<1>3. QED
  BY <1>1, <1>2, Invariance, PTL DEF Spec

=============================================================================
