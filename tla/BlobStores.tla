----------------------------- MODULE BlobStores -----------------------------
(* rb-blob: one content stored by several tenants, in a directory or in S3.  *)
(* A put writes an ownership marker and then the blob, a delete removes the  *)
(* blob and then the marker, a miss looks at the markers of the others.      *)
(*                                                                           *)
(* Bounds: Ops, each of which does one call.                                 *)
EXTENDS Naturals, FiniteSets

CONSTANTS Owners,      \* tenants
          Ops          \* calls in progress

ASSUME BlobAssumption == "nofile" \notin Ops

VARIABLES
    backend,    \* "fs" or "s3"
    op,         \* call -> kind, tenant, step, answer
    path,       \* tenant -> file under its final name, NoFile if there is none
    tmp,        \* tenant -> file under the name with .tmp
    whole,      \* files whose content is complete
    fd,         \* call -> file it writes to
    markers,    \* tenants with a marker in the index
    mixed       \* tenants with a put that overlapped another put or a delete

blobVars == <<backend, op, path, tmp, whole, fd, markers, mixed>>

NoFile == "nofile"
Kinds == {"put", "get", "delete"}
NoCall == [kind |-> "none", of |-> "none", at |-> "idle", answer |-> "none"]

BlobInit ==
    /\ backend \in {"fs", "s3"}
    /\ op = [o \in Ops |-> NoCall]
    /\ path = [t \in Owners |-> NoFile] /\ tmp = [t \in Owners |-> NoFile]
    /\ whole = {} /\ fd = [o \in Ops |-> NoFile] /\ markers = {} /\ mixed = {}

Goes(o, s) == op' = [op EXCEPT ![o].at = s]
Answer(o, a) == op' = [op EXCEPT ![o].at = "done", ![o].answer = a]
Ongoing(k, t) == {o \in Ops : op[o].kind = k /\ op[o].of = t /\ op[o].at \notin {"idle", "done"}}

\* put has checked size and digest of what it got when it begins.
BlobBegin(o, k, t) ==
    /\ op[o].at = "idle"
    /\ op' = [op EXCEPT ![o] = [kind |-> k, of |-> t, at |-> "begin", answer |-> "none"]]
    /\ mixed' = IF k # "get" /\ (Ongoing("put", t) # {} \/ (k = "put" /\ Ongoing("delete", t) # {}))
                THEN mixed \cup {t} ELSE mixed
    /\ UNCHANGED <<backend, path, tmp, whole, fd, markers>>

----------------------------------------------------------------------------
(* put.                                                                      *)

PutMarker(o) ==
    /\ op[o].kind = "put" /\ op[o].at = "begin"
    /\ markers' = markers \cup {op[o].of}
    /\ Goes(o, "marked")
    /\ UNCHANGED <<backend, path, tmp, whole, fd, mixed>>
PutObject(o) ==
    /\ backend = "s3" /\ op[o].kind = "put" /\ op[o].at = "marked"
    /\ path' = [path EXCEPT ![op[o].of] = o] /\ whole' = whole \cup {o}
    /\ Answer(o, "ok")
    /\ UNCHANGED <<backend, tmp, fd, markers, mixed>>
\* File::create truncates the file that has the name.
CreateTmp(o) ==
    /\ backend = "fs" /\ op[o].kind = "put" /\ op[o].at = "marked"
    /\ LET f == IF tmp[op[o].of] = NoFile THEN o ELSE tmp[op[o].of] IN
       /\ tmp' = [tmp EXCEPT ![op[o].of] = f] /\ fd' = [fd EXCEPT ![o] = f]
       /\ whole' = whole \ {f}
    /\ Goes(o, "created")
    /\ UNCHANGED <<backend, path, markers, mixed>>
\* Mutant: the file gets its name before it is written.
RenameEarly(o) == op[o].at = "created"
Synced(o) == op[o].at = "written"
WriteTmp(o) ==
    /\ op[o].kind = "put" /\ op[o].at = "created"
    /\ whole' = whole \cup {fd[o]}
    /\ Goes(o, "written")
    /\ UNCHANGED <<backend, path, tmp, fd, markers, mixed>>
RenameTmp(o) ==
    /\ op[o].kind = "put" /\ Synced(o)
    /\ LET t == op[o].of IN
       IF tmp[t] = NoFile THEN Answer(o, "error") /\ UNCHANGED <<path, tmp>>
       ELSE /\ path' = [path EXCEPT ![t] = tmp[t]] /\ tmp' = [tmp EXCEPT ![t] = NoFile]
            /\ Answer(o, "ok")
    /\ UNCHANGED <<backend, whole, fd, markers, mixed>>

----------------------------------------------------------------------------
(* delete and get; the marker goes last.                                     *)

\* Mutant: the marker goes first.
UnmarkFirst(o) ==
    /\ op[o].kind = "delete" /\ op[o].at = "begin"
    /\ IF op[o].of \in markers
       THEN markers' = markers \ {op[o].of} /\ UNCHANGED <<op, path>>
       ELSE path' = [path EXCEPT ![op[o].of] = NoFile] /\ Answer(o, "ok") /\ UNCHANGED markers
    /\ UNCHANGED <<backend, tmp, whole, fd, mixed>>
\* S3 is asked for the object first, and told to delete it in a second call,
\* which succeeds without an object too; removing a file is one call.
HeadObject(o) ==
    /\ backend = "s3" /\ op[o].kind = "delete" /\ op[o].at = "begin"
    /\ IF path[op[o].of] = NoFile THEN Goes(o, "missed") ELSE Goes(o, "headed")
    /\ UNCHANGED <<backend, path, tmp, whole, fd, markers, mixed>>
RemoveBlob(o) ==
    /\ op[o].kind = "delete" /\ op[o].at = (IF backend = "s3" THEN "headed" ELSE "begin")
    /\ IF backend = "fs" /\ path[op[o].of] = NoFile THEN Goes(o, "missed") ELSE Goes(o, "removed")
    /\ path' = [path EXCEPT ![op[o].of] = NoFile]
    /\ UNCHANGED <<backend, tmp, whole, fd, markers, mixed>>
RemoveMarker(o) ==
    /\ op[o].kind = "delete" /\ op[o].at = "removed"
    /\ markers' = markers \ {op[o].of}
    /\ Answer(o, "ok")
    /\ UNCHANGED <<backend, path, tmp, whole, fd, mixed>>
ReadBlob(o) ==
    /\ op[o].kind = "get" /\ op[o].at = "begin"
    /\ IF path[op[o].of] = NoFile THEN Goes(o, "missed")
       ELSE Answer(o, IF path[op[o].of] \in whole THEN "data" ELSE "partial")
    /\ UNCHANGED <<backend, path, tmp, whole, fd, markers, mixed>>
\* Mutant: any marker counts, the tenant's own too.
AnyMarker(t) == markers # {}
ExistsUnderOther(t) == markers \ {t} # {}
Missed(o) ==
    /\ op[o].at = "missed"
    /\ Answer(o, IF ExistsUnderOther(op[o].of) THEN "mismatch"
                 ELSE IF op[o].kind = "get" THEN "notfound" ELSE "ok")
    /\ UNCHANGED <<backend, path, tmp, whole, fd, markers, mixed>>
(* A call that fails on the way, or whose process dies, leaves what it did.  *)
Abandon(o) ==
    /\ op[o].at \notin {"idle", "done"}
    /\ Answer(o, "error")
    /\ UNCHANGED <<backend, path, tmp, whole, fd, markers, mixed>>

BlobNext ==
    \E o \in Ops :
        \/ (\E k \in Kinds, t \in Owners : BlobBegin(o, k, t))
        \/ PutMarker(o) \/ PutObject(o) \/ CreateTmp(o) \/ WriteTmp(o) \/ RenameTmp(o)
        \/ HeadObject(o) \/ RemoveBlob(o) \/ RemoveMarker(o) \/ ReadBlob(o) \/ Missed(o) \/ Abandon(o)
BlobSpec == BlobInit /\ [][BlobNext]_blobVars

----------------------------------------------------------------------------
(* "A crash mid-write leaves only a .tmp file": a blob under its final name  *)
(* is complete, whatever dies, as long as no two writers share the .tmp.     *)
VisibleIsWhole == \A t \in Owners : (t \notin mixed /\ path[t] # NoFile) => path[t] \in whole

(* A blob has its marker, whatever fails, as long as no delete overlaps a    *)
(* put of the tenant.                                                        *)
VisibleIsMarked == \A t \in Owners : (t \notin mixed /\ path[t] # NoFile) => t \in markers

(* A tenant that is alone with a content is never told that it is another    *)
(* one's.                                                                    *)
MismatchHasOther ==
    \A o \in Ops : op[o].answer = "mismatch" =>
        \E p \in Ops : op[p].kind = "put" /\ op[p].of # op[o].of

(* What is visible is whole, has its owner, and a refusal has its reason.    *)
BlobsAreOwned == VisibleIsWhole /\ VisibleIsMarked /\ MismatchHasOther

(* "we must never reach that state": a blob without its manifest.            *)
NoOrphanBlob == \A t \in Owners : path[t] # NoFile => t \in markers
=============================================================================
