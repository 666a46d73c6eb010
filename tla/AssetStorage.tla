---------------------------- MODULE AssetStorage ----------------------------
(***************************************************************************)
(* The files of assets: how an uploaded stream or a posted content gets    *)
(* into .incoming, is checked, synced, hashed and renamed into objects,    *)
(* inspected, registered as a row, or cleaned away again.  Remediation     *)
(* takes all of this for one step, Store.                                  *)
(*                                                                         *)
(* call[p] is the frame of the request p, and one action is one awaited    *)
(* call on the file system, the inspection or the repository.  The process *)
(* may die between any two of them and be started again; the machine may   *)
(* lose power, and with it whatever was not synced.  The state of the      *)
(* release is Remediation's matter: here any check of it may turn a        *)
(* request away.                                                           *)
(***************************************************************************)
EXTENDS Naturals, FiniteSets

CONSTANTS
    Requests,      \* concurrent API requests
    Kinds,         \* kinds of asset that are sent
    Contents,      \* what is sent: a size, and what the bytes are
    MaxBytes,      \* ASSET_MAX_BYTES
    PostLimit,     \* of a content in the body of a request
    TextLimit,     \* STRUCTURED_TEXT_LIMIT
    Faults,        \* the faults that may happen in this instance
    MaxFailures,   \* bound: how many calls fail
    MaxRestarts,   \* bound: how often the process dies or the power fails
    MaxFiles       \* bound: files ever created

AssetKinds ==
    {"VIDEO", "SUBTITLE", "AUDIO", "POSTER", "METADATA", "RIGHTS", "DELIVERY_PACKAGE"}

\* movie and sound are media with those streams, rights, json and text are
\* UTF-8, noise is none of it.
Bodies == {"movie", "sound", "rights", "json", "text", "noise"}

ASSUME RequestsAssumption == IsFiniteSet(Requests)
ASSUME KindsAssumption == Kinds \subseteq AssetKinds
ASSUME ContentsAssumption == Contents \subseteq [size : Nat, is : Bodies]
ASSUME LimitsAssumption ==
    MaxBytes \in Nat /\ PostLimit \in Nat /\ TextLimit \in Nat /\ PostLimit <= TextLimit
ASSUME BoundsAssumption ==
    MaxFailures \in Nat /\ MaxRestarts \in Nat /\ MaxFiles \in Nat
ASSUME FaultsAssumption == Faults \subseteq {"throw", "commit", "crash", "outage"}

FileIds == 1 .. MaxFiles

\* Bytes on the disk: so many of a content.
Data == Contents \X Nat
NoData == << >>

\* written counts the bytes a reader sees, synced those a power loss spares.
FileRecords ==
    [place : {"incoming", "objects"}, content : Contents, written : Nat, synced : Nat]
NoFile == [place |-> "none"]

DataOf(file) == <<file.content, file.written>>

RowRecords == [file : FileIds, kind : Kinds, hash : Data, size : Nat]

Steps ==
    {"idle", "stream", "recheck", "write", "adopt", "sync", "hash", "rename",
     "discard", "cleanUp", "inspect", "register", "remove"}

\* size and hash are what adoptTemporaryFile found.
CallRecords ==
    [pc : Steps \ {"idle"}, kind : Kinds, file : FileIds, size : Nat,
     hash : Data \cup {NoData}]
IdleCall == [pc |-> "idle"]

VARIABLES
    files,       \* the files under the storage root
    created,     \* how many there ever were
    rows,        \* the rows of the assets table
    failures,    \* failed calls so far
    crashes,     \* how often the process died
    outages,     \* how often the power failed
    call         \* what each request is doing

vars == <<files, created, rows, failures, crashes, outages, call>>

TypeOK ==
    /\ files \in [FileIds -> FileRecords \cup {NoFile}]
    /\ created \in 0 .. MaxFiles
    /\ rows \subseteq RowRecords
    /\ failures \in Nat /\ crashes \in Nat /\ outages \in Nat
    /\ call \in [Requests -> CallRecords \cup {IdleCall}]

Init ==
    /\ files = [i \in FileIds |-> NoFile]
    /\ created = 0
    /\ rows = {}
    /\ failures = 0 /\ crashes = 0 /\ outages = 0
    /\ call = [p \in Requests |-> IdleCall]

-----------------------------------------------------------------------------
(* How a handler goes on.                                                  *)

At(p, step) == call[p].pc = step
Goto(p, step) == [call[p] EXCEPT !.pc = step]
FileOf(p) == files[call[p].file]

Become(p, frame) ==
    /\ call' = [call EXCEPT ![p] = frame]
    /\ UNCHANGED failures

Fail(fault, p, frame) ==
    /\ fault \in Faults
    /\ failures < MaxFailures
    /\ failures' = failures + 1
    /\ call' = [call EXCEPT ![p] = frame]

\* Seeded fault: addUpload has no finally.
ThrownWithoutFinally(p) ==
    CASE call[p].pc \in {"adopt", "sync", "hash", "rename"} -> Goto(p, "discard")
      [] call[p].pc \in {"write", "discard"} -> Goto(p, "cleanUp")
      [] call[p].pc \in {"inspect", "register"} -> Goto(p, "remove")
      [] OTHER -> IdleCall

\* The frame after the current call threw.  adoptTemporaryFile discards what
\* it has not moved, and its callers discard once more; persist removes the
\* object when inspection or registration fails.
Thrown(p) ==
    CASE call[p].pc \in {"adopt", "sync", "hash", "rename"} -> Goto(p, "discard")
      [] call[p].pc \in {"recheck", "write", "discard"} -> Goto(p, "cleanUp")
      [] call[p].pc \in {"inspect", "register"} -> Goto(p, "remove")
      [] OTHER -> IdleCall

\* A new temporary file, named by a UUID.
Open(p, step, kind, content) ==
    /\ created < MaxFiles
    /\ created' = created + 1
    /\ files' = [files EXCEPT ![created + 1] =
                    [place |-> "incoming", content |-> content, written |-> 0, synced |-> 0]]
    /\ Become(p, [pc |-> step, kind |-> kind, file |-> created + 1, size |-> 0,
                  hash |-> NoData])

Unlinked(p) == [files EXCEPT ![call[p].file] = NoFile]

AssertSize(size) == 0 < size /\ size <= MaxBytes

-----------------------------------------------------------------------------
(* Into .incoming                                                          *)

\* UploadAssetGuard lets the request through, and multer opens a file.
StartUpload(p) ==
    /\ At(p, "idle")
    /\ \E kind \in Kinds, content \in Contents : Open(p, "stream", kind, content)
    /\ UNCHANGED <<rows, crashes, outages>>

Posted == {content \in Contents : content.is \in {"rights", "json", "text"}}

\* addContent: the body is a non-empty string of limited length, and
\* storeContent looks at its size before it writes.
StartContent(p) ==
    /\ At(p, "idle")
    /\ \E kind \in Kinds, content \in Posted :
        /\ content.size <= PostLimit
        /\ AssertSize(content.size)
        /\ Open(p, "write", kind, content)
    /\ UNCHANGED <<rows, crashes, outages>>

Write(p) ==
    /\ At(p, "stream") \/ At(p, "write")
    /\ FileOf(p).written < FileOf(p).content.size
    /\ files' = [files EXCEPT ![call[p].file].written = @ + 1]
    /\ UNCHANGED <<created, rows, failures, crashes, outages, call>>

\* The stream has ended within the limit, or writeFile has returned.
Written(p) ==
    /\ At(p, "stream") \/ At(p, "write")
    /\ FileOf(p).written = FileOf(p).content.size
    /\ \/ At(p, "stream") /\ FileOf(p).written <= MaxBytes /\ Become(p, Goto(p, "recheck"))
       \/ At(p, "write") /\ Become(p, Goto(p, "adopt"))
    /\ UNCHANGED <<files, created, rows, crashes, outages>>

\* The client went away or sent too much: multer deletes its file.
Abandon(p) ==
    /\ At(p, "stream")
    /\ files' = Unlinked(p)
    /\ Become(p, IdleCall)
    /\ UNCHANGED <<created, rows, crashes, outages>>

\* addUpload: the fields may be malformed, and the release is looked at once
\* more, since it may have moved on while the stream came in.
Recheck(p) ==
    /\ At(p, "recheck")
    /\ Become(p, Goto(p, "adopt")) \/ Become(p, Thrown(p))
    /\ UNCHANGED <<files, created, rows, crashes, outages>>

-----------------------------------------------------------------------------
(* adoptTemporaryFile                                                      *)

Adopt(p) ==
    /\ At(p, "adopt")
    /\ Become(p, IF AssertSize(FileOf(p).written)
                 THEN [call[p] EXCEPT !.pc = "sync", !.size = FileOf(p).written]
                 ELSE Thrown(p))
    /\ UNCHANGED <<files, created, rows, crashes, outages>>

\* Seeded fault: the file is closed without a sync.
Unsynced(p) == files

Synced(p) == [files EXCEPT ![call[p].file].synced = FileOf(p).written]

Sync(p) ==
    /\ At(p, "sync")
    /\ files' = Synced(p)
    /\ Become(p, Goto(p, "hash"))
    /\ UNCHANGED <<created, rows, crashes, outages>>

HashFile(p) ==
    /\ At(p, "hash")
    /\ Become(p, [call[p] EXCEPT !.pc = "rename", !.hash = DataOf(FileOf(p))])
    /\ UNCHANGED <<files, created, rows, crashes, outages>>

\* The directories are not synced: see Survivors.
Rename(p) ==
    /\ At(p, "rename")
    /\ files' = [files EXCEPT ![call[p].file].place = "objects"]
    /\ Become(p, Goto(p, "inspect"))
    /\ UNCHANGED <<created, rows, crashes, outages>>

\* discardTemporaryFile, in adoptTemporaryFile and then in its callers.
Discard(p) ==
    /\ At(p, "discard") \/ At(p, "cleanUp")
    /\ files' = Unlinked(p)
    /\ Become(p, IdleCall)
    /\ UNCHANGED <<created, rows, crashes, outages>>

-----------------------------------------------------------------------------
(* persist                                                                 *)

IsText(data) == data[2] = data[1].size /\ data[1].is \in {"rights", "json", "text"}

\* ffprobe finds a stream of the required type.
HasStream(kind, data) ==
    data[1].is \in IF kind = "VIDEO" THEN {"movie"} ELSE {"movie", "sound"}

\* AssetInspectionService.inspect, when nothing goes wrong with it.  A
\* subtitle needs to be text only: its findings are stored with it.
Accepted(kind, data) ==
    CASE kind \in {"VIDEO", "AUDIO"} -> HasStream(kind, data)
      [] kind = "SUBTITLE" -> data[2] <= TextLimit /\ IsText(data)
      [] kind = "RIGHTS" -> data[2] <= TextLimit /\ IsText(data) /\ data[1].is = "rights"
      [] kind = "METADATA" -> data[2] <= TextLimit /\ IsText(data)
                              /\ data[1].is \in {"rights", "json"}
      [] OTHER -> TRUE

\* Seeded fault: an ffprobe that times out passes.
PassedOnTimeout(p) == Goto(p, "register")

\* Killed at its time limit, or not there: the request fails with a 503.
Unavailable(p) == Thrown(p)

Inspect(p) ==
    /\ At(p, "inspect")
    /\ \/ Become(p, IF Accepted(call[p].kind, DataOf(FileOf(p)))
                    THEN Goto(p, "register") ELSE Thrown(p))
       \/ call[p].kind \in {"VIDEO", "AUDIO"} /\ Fail("throw", p, Unavailable(p))
    /\ UNCHANGED <<files, created, rows, crashes, outages>>

Row(p) ==
    [file |-> call[p].file, kind |-> call[p].kind, hash |-> call[p].hash,
     size |-> call[p].size]

Existing(p) == {row \in rows : row.kind = call[p].kind /\ row.hash = call[p].hash}

\* Seeded fault: an object whose row is in doubt is removed.
RemovedInDoubt(p) == Goto(p, "remove")

KeptInDoubt(p) == IdleCall

\* registerAsset: refused or there already, inserted, or in doubt for good.
Register(p) ==
    /\ At(p, "register")
    /\ \/ /\ Become(p, Goto(p, "remove"))
          /\ UNCHANGED rows
       \/ /\ Existing(p) = {}
          /\ rows' = rows \cup {Row(p)}
          /\ Become(p, IdleCall) \/ Fail("commit", p, KeptInDoubt(p))
       \/ /\ Existing(p) = {}
          /\ Fail("commit", p, KeptInDoubt(p))
          /\ UNCHANGED rows
    /\ UNCHANGED <<files, created, crashes, outages>>

\* storage.remove
Remove(p) ==
    /\ At(p, "remove")
    /\ files' = Unlinked(p)
    /\ Become(p, IdleCall)
    /\ UNCHANGED <<created, rows, crashes, outages>>

-----------------------------------------------------------------------------
(* The environment                                                         *)

Throw(p) ==
    /\ ~ At(p, "idle") /\ ~ At(p, "stream")
    /\ Fail("throw", p, Thrown(p))
    /\ UNCHANGED <<files, created, rows, crashes, outages>>

Crash ==
    /\ "crash" \in Faults
    /\ crashes + outages < MaxRestarts
    /\ crashes' = crashes + 1
    /\ call' = [p \in Requests |-> IdleCall]
    /\ UNCHANGED <<files, created, rows, failures, outages>>

\* What may be left of a file's data: any prefix that holds the synced bytes.
Prefixes(file) ==
    {[file EXCEPT !.written = n, !.synced = n] : n \in file.synced .. file.written}

\* Its directory entry, or a rename of it, may not have reached the disk.
Survivors(file) ==
    {NoFile} \cup
        IF file = NoFile THEN {}
        ELSE Prefixes(file) \cup {[left EXCEPT !.place = "incoming"] : left \in Prefixes(file)}

\* The database is on a machine of its own and keeps what it committed.
Outage ==
    /\ "outage" \in Faults
    /\ crashes + outages < MaxRestarts
    /\ outages' = outages + 1
    /\ call' = [p \in Requests |-> IdleCall]
    /\ files' \in {after \in [FileIds -> UNION {Survivors(files[i]) : i \in FileIds}] :
                    \A i \in FileIds : after[i] \in Survivors(files[i])}
    /\ UNCHANGED <<created, rows, failures, crashes>>

Progress(p) ==
    \/ Write(p) \/ Written(p) \/ Abandon(p) \/ Recheck(p)
    \/ Adopt(p) \/ Sync(p) \/ HashFile(p) \/ Rename(p) \/ Discard(p)
    \/ Inspect(p) \/ Register(p) \/ Remove(p)

Next ==
    \/ \E p \in Requests : StartUpload(p) \/ StartContent(p) \/ Progress(p) \/ Throw(p)
    \/ Crash \/ Outage

Spec == Init /\ [][Next]_vars

-----------------------------------------------------------------------------
(* Properties                                                              *)

\* What can be read under objects.
Visible ==
    [i \in FileIds |-> IF files[i].place = "objects" THEN DataOf(files[i]) ELSE NoData]

Objects == INSTANCE ObjectStore WITH
    Ids <- FileIds,
    Wholes <- {<<content, content.size>> : content \in {c \in Contents : AssertSize(c.size)}},
    Nothing <- NoData,
    contents <- Visible

\* Whatever is under objects is whole, within the limits and never changes,
\* over aborted uploads, half-written files, deaths of the process and loss of
\* power: the steps of adoptTemporaryFile implement one atomic Put.
StoreIsAtomic == Objects!Spec

\* What a row says of its object, hash and size, is what a reader of its URI
\* gets; only a power failure can take the object away, since the rename is
\* not synced, and then it is gone and not cut short.
RowsAreServed ==
    \A row \in rows :
        LET file == files[row.file] IN
        \/ file.place = "objects" /\ row.hash = DataOf(file) /\ row.size = file.written
        \/ file.place # "objects" /\ outages > 0

\* What the evaluation takes for granted when it reads an asset: readText must
\* decode subtitles and rights, a video has the video stream whose duration
\* repairs go by, and rights give a window.
RowsAreUsable ==
    \A row \in rows :
        LET content == row.hash[1] IN
        /\ row.kind = "VIDEO" => content.is = "movie"
        /\ row.kind = "SUBTITLE" => content.is \in {"rights", "json", "text"}
        /\ row.kind = "RIGHTS" => content.is = "rights"

InHand == {call[p].file : p \in {q \in Requests : ~ At(q, "idle")}}
Strays ==
    {i \in FileIds : files[i] # NoFile} \ (InHand \cup {row.file : row \in rows})

\* Nothing sweeps the storage, so every handler must: a file that no row and no
\* handler owns was left by a failed call or by a handler that died.
StraysArePaidFor ==
    outages = 0 => Cardinality(Strays) <= failures + crashes * Cardinality(Requests)
=============================================================================
