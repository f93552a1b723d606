---------------------------- MODULE FileStorage -----------------------------
(***************************************************************************)
(* The files of one organization: index rows, the objects behind them and  *)
(* the storage_bytes gauge.                                                *)
(*                                                                         *)
(* Objects change at once; rows and gauge change together when the request *)
(* commits.  A request that has moved the gauge holds its counter row      *)
(* until then, and writes its index row after it; the nightly purge marks  *)
(* the index rows first and moves the gauge afterwards, so that the two    *)
(* can wait for each other until the database gives one of them up.        *)
(***************************************************************************)
EXTENDS Gauges, FiniteSetsExt

CONSTANTS
    Keys,           \* names of uploads; scoped_key maps equal names to one object
    Sizes,          \* sizes of uploads
    Clients,        \* requests the server works on at the same time
    StorageLimit,   \* effective_for_org(org).limit_value("storage_bytes")
    MaxFiles        \* bound: index rows ever created

ASSUME FileStorageAssumption ==
    /\ Sizes \subseteq Nat \ {0} /\ Sizes # {} /\ IsFiniteSet(Sizes) /\ IsFiniteSet(Clients)
    /\ StorageLimit \in Nat /\ MaxFiles \in Nat

NoObject == -1      \* head() answers None

StoredFile == [key : Keys, size_bytes : Sizes, status : {"pending", "ready"},
               deleted : BOOLEAN, old : BOOLEAN]

VARIABLES
    files,          \* stored_files, in the order of creation
    bucket,         \* size of the object under each key
    level,          \* the level of the storage_bytes gauge
    work,           \* what each client's request is doing
    purge,          \* rows the running purge has marked
    givenTwice,     \* history: bytes given back for rows that were deleted already
    halfDeleted     \* history: rows whose object went in a delete that failed, while undeleted

fileVars == <<files, bucket, level, work, purge, givenTwice, halfDeleted>>

Idle == [op |-> "none"]

FilesInit ==
    /\ files = << >>
    /\ bucket = [k \in Keys |-> NoObject]
    /\ level = 0
    /\ work = [c \in Clients |-> Idle]
    /\ purge = {}
    /\ givenTwice = 0
    /\ halfDeleted = {}

\* put, delete and head of either backend.
BucketPut(key, size) == bucket' = [bucket EXCEPT ![key] = size]
BucketDelete(key) == bucket' = [bucket EXCEPT ![key] = NoObject]
BucketHead(key) == bucket[key]

\* _get_scoped: what a request finds under an id.
GetScoped(i, statuses) == ~files[i].deleted /\ files[i].status \in statuses

\* A request between its gauge statement and its commit holds the counter row.
GaugeFree == \A c \in Clients : work[c].op # "none" => work[c].step # "moved"
\* The purge holds the index rows it marked.
RowFree(i) == i \notin purge

Step(c, fields) == work' = [work EXCEPT ![c] = fields]
Moved(c) == [work[c] EXCEPT !.step = "moved"]

----------------------------------------------------------------------------
(* upload_file and presign_upload: check, move the gauge, insert the row.  *)

\* adjust_gauge reads the level and checks it; presigned or direct.
BeginUpload(c) ==
    \E k \in Keys, z \in Sizes, op \in {"upload", "presign"} :
        /\ work[c] = Idle
        /\ Len(files) + Cardinality({d \in Clients : work[d].op \in {"upload", "presign"}}) < MaxFiles
        /\ HasCapacity(level, z, StorageLimit)
        /\ Step(c, [op |-> op, row |-> 0, key |-> k, size |-> z, step |-> "checked"])
        /\ UNCHANGED <<files, bucket, level, purge, givenTwice, halfDeleted>>

\* A direct upload moves the level and stores its bytes before the row exists.
MoveUp(c) ==
    /\ work[c].op = "upload" /\ work[c].step = "checked" /\ GaugeFree
    /\ BucketPut(work[c].key, work[c].size)
    /\ Step(c, Moved(c))
    /\ UNCHANGED <<files, level, purge, givenTwice, halfDeleted>>

\* The row is there and the level has moved.
Index(c, status) ==
    /\ files' = Append(files, [key |-> work[c].key, size_bytes |-> work[c].size, status |-> status,
                               deleted |-> FALSE, old |-> FALSE])
    /\ level' = AdjustGauge(level, work[c].size)
    /\ Step(c, Idle)
    /\ UNCHANGED <<bucket, purge, givenTwice, halfDeleted>>

CommitUpload(c) == work[c].op = "upload" /\ work[c].step = "moved" /\ Index(c, "ready")

\* A presigned upload moves the level and commits; nothing happens in between.
CommitPresign(c) == work[c].op = "presign" /\ GaugeFree /\ Index(c, "pending")

\* The client uses the URL while it is valid, with a body of any size, whatever has
\* become of the row.
ClientPut ==
    \E i \in DOMAIN files, z \in Sizes :
        /\ files[i].status = "pending" /\ ~files[i].old
        /\ BucketPut(files[i].key, z)
        /\ UNCHANGED <<files, level, work, purge, givenTwice, halfDeleted>>

----------------------------------------------------------------------------
(* complete_upload and delete_file.                                        *)

\* The object exists and has the size that was reserved.
Verified(i) == BucketHead(files[i].key) = files[i].size_bytes

\* complete_upload loads a pending row and asks for the object.
BeginComplete(c) ==
    \E i \in DOMAIN files :
        /\ work[c] = Idle /\ GetScoped(i, {"pending"})
        /\ Step(c, [op |-> IF Verified(i) THEN "ready" ELSE "mismatch", row |-> i, key |-> files[i].key,
                    size |-> files[i].size_bytes, step |-> "checked"])
        /\ UNCHANGED <<files, bucket, level, purge, givenTwice, halfDeleted>>

\* The row becomes ready.
CommitReady(c) ==
    /\ work[c].op = "ready" /\ RowFree(work[c].row)
    /\ files' = [files EXCEPT ![work[c].row].status = "ready"]
    /\ Step(c, Idle)
    /\ UNCHANGED <<bucket, level, purge, givenTwice, halfDeleted>>

\* delete_file loads the row and removes the object.
BeginDelete(c) ==
    \E i \in DOMAIN files :
        /\ work[c] = Idle /\ GetScoped(i, {"pending", "ready"})
        /\ BucketDelete(files[i].key)
        /\ Step(c, [op |-> "delete", row |-> i, key |-> files[i].key,
                    size |-> files[i].size_bytes, step |-> "checked"])
        /\ UNCHANGED <<files, level, purge, givenTwice, halfDeleted>>

\* Both give the bytes back ...
MoveDown(c) ==
    /\ work[c].op \in {"mismatch", "delete"} /\ work[c].step = "checked" /\ GaugeFree
    /\ Step(c, Moved(c))
    /\ UNCHANGED <<files, bucket, level, purge, givenTwice, halfDeleted>>

\* Mutant: the bytes of a refused upload are not given back.
ReleaseDeletedOnly(w) == AdjustGauge(level, IF w.op = "mismatch" THEN 0 ELSE -w.size)
Release(w) == AdjustGauge(level, -w.size)

\* ... and mark the row as deleted, whatever its state has become.
CommitRelease(c) ==
    LET w == work[c] IN
    /\ w.op \in {"mismatch", "delete"} /\ w.step = "moved" /\ RowFree(w.row)
    /\ level' = Release(w)
    /\ files' = [files EXCEPT ![w.row].deleted = TRUE]
    /\ givenTwice' = givenTwice + IF files[w.row].deleted THEN w.size ELSE 0
    /\ halfDeleted' = halfDeleted \ {w.row}
    /\ Step(c, Idle)
    /\ UNCHANGED <<bucket, purge>>

\* A request fails, or the deadlock detector ends it; the object stays as it is.
Fail(c) ==
    /\ work[c] # Idle
    /\ halfDeleted' = halfDeleted \cup
          {i \in DOMAIN files : work[c].op = "delete" /\ work[c].row = i /\ ~files[i].deleted}
    /\ Step(c, Idle)
    /\ UNCHANGED <<files, bucket, level, purge, givenTwice>>

----------------------------------------------------------------------------
(* purge_expired: presigned uploads that were never completed.             *)

\* Two lifetimes of the URL have passed since the row was created.
Age ==
    \E i \in DOMAIN files :
        /\ files[i].status = "pending" /\ ~files[i].old
        /\ files' = [files EXCEPT ![i].old = TRUE]
        /\ UNCHANGED <<bucket, level, work, purge, givenTwice, halfDeleted>>

Stale == {i \in DOMAIN files : GetScoped(i, {"pending"}) /\ files[i].old}

\* UPDATE stored_files SET deleted_at ... RETURNING.
PurgeMark ==
    /\ purge = {} /\ Stale # {}
    /\ purge' = Stale
    /\ UNCHANGED <<files, bucket, level, work, givenTwice, halfDeleted>>

\* The bytes a set of rows stands for.
BytesOf(rows) == SumFunctionOnSet([i \in DOMAIN files |-> files[i].size_bytes], rows)

\* adjust_gauge for every row, and the commit.
PurgeCommit ==
    /\ purge # {} /\ GaugeFree
    /\ files' = [i \in DOMAIN files |-> [files[i] EXCEPT !.deleted = @ \/ i \in purge]]
    /\ halfDeleted' = halfDeleted \ purge
    /\ level' = AdjustGauge(level, -BytesOf(purge))
    /\ purge' = {}
    /\ UNCHANGED <<bucket, work, givenTwice>>

\* A request that holds the counter row waits for a row of the purge, which waits
\* for the counter row: the deadlock detector may choose either.  (A purge that dies
\* at another moment has only delayed itself.)
PurgeFail ==
    /\ \E c \in Clients : work[c].op \in {"mismatch", "delete"} /\ work[c].step = "moved" /\ ~RowFree(work[c].row)
    /\ purge' = {}
    /\ UNCHANGED <<files, bucket, level, work, givenTwice, halfDeleted>>

FilesNext ==
    \/ ClientPut \/ Age \/ PurgeMark \/ PurgeCommit \/ PurgeFail
    \/ \E c \in Clients :
          \/ BeginUpload(c) \/ MoveUp(c) \/ CommitUpload(c) \/ CommitPresign(c)
          \/ BeginComplete(c) \/ CommitReady(c)
          \/ BeginDelete(c) \/ MoveDown(c) \/ CommitRelease(c) \/ Fail(c)

FilesSpec == FilesInit /\ [][FilesNext]_fileVars

\* Every request ends, by itself or in a rollback, and not always in a rollback; time
\* passes; the nightly job runs again and again, and gets the counter row in its turn.
FilesFairness ==
    /\ \A c \in Clients :
          /\ WF_fileVars(CommitReady(c) \/ CommitUpload(c) \/ CommitPresign(c) \/ CommitRelease(c) \/ Fail(c))
          /\ SF_fileVars(CommitRelease(c))
    /\ WF_fileVars(Age) /\ WF_fileVars(PurgeMark) /\ SF_fileVars(PurgeCommit)

----------------------------------------------------------------------------
\* The index rows, the objects and the gauge have their types.
FilesOK ==
    /\ files \in Seq(StoredFile) /\ Len(files) <= MaxFiles
    /\ bucket \in [Keys -> Sizes \cup {NoObject}]
    /\ level \in Nat /\ purge \subseteq DOMAIN files

Undeleted == {i \in DOMAIN files : ~files[i].deleted}
Stored == BytesOf(Undeleted)

\* The gauge never charges an organization for bytes it does not store, and is
\* exact as long as no row was released by two overlapping requests.
StorageGaugeExact == level <= Stored /\ (givenTwice = 0 => level = Stored)

\* Uploads that were checked at the same time exceed the limit by one upload each
\* beyond the first, and double releases by their bytes; nothing else does.
CapacityOvershoot ==
    Stored <= StorageLimit + (Cardinality(Clients) - 1) * Min({Max(Sizes), StorageLimit}) + givenTwice

\* A file that is listed can be downloaded, unless another upload had its name or
\* a deletion of it failed half way.
ReadyHasObject ==
    \A i \in Undeleted :
        \/ files[i].status # "ready"
        \/ bucket[files[i].key] # NoObject
        \/ \E j \in DOMAIN files \ {i} : files[j].key = files[i].key
        \/ i \in halfDeleted
        \/ \E c \in Clients : work[c].op = "delete" /\ work[c].row = i

\* A reservation is not kept forever: every pending upload is completed, deleted or
\* purged, even though requests and the purge wait for each other's locks.
PendingEnds ==
    \A i \in 1..MaxFiles :
        LET Pending == i \in DOMAIN files /\ GetScoped(i, {"pending"}) IN Pending ~> ~Pending

\* Rows, objects and the gauge agree, apart from the overlaps and the failed
\* deletions named above.
StorageSound == FilesOK /\ StorageGaugeExact /\ CapacityOvershoot /\ ReadyHasObject
====
