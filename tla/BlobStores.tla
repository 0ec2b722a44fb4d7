----------------------------- MODULE BlobStores -----------------------------
(***************************************************************************)
(* Blob storage behind /{tenant}/{package}/blob: the memory, filesystem    *)
(* and S3 backends of src/blob and the requests BlobRouteHandler makes of  *)
(* them.  One backend is chosen when the daemon starts.                    *)
(*                                                                         *)
(* A file is a pair <<n, t>>: the n-th name with t times the suffix ".tmp" *)
(* the filesystem backend appends to its temporary files.  A blob key may  *)
(* carry that suffix itself, so keys and temporary files can meet.  The    *)
(* content of a file is the number of the upload that made it (its content *)
(* type is named by the same number), NoBlob or Torn.  A behaviour starts  *)
(* with upload 1 under every key but the first.                            *)
(***************************************************************************)
EXTENDS Naturals, FiniteSets

CONSTANTS Backends,      \* the backends a behaviour may start with
          BProcs,        \* requests under way at once
          Stems,         \* number of names
          MaxUploads,    \* bound on uploads, which number the contents
          MaxBlobOps,    \* bound on requests
          PageSize,      \* maxKeys of a listing
          BlobFaults     \* TRUE: failed writes, lost answers, crashes

ASSUME BlobAssumption ==
    /\ Backends \subseteq {"memory", "fs", "s3"} /\ "free" \notin BProcs
    /\ Stems \in Nat \ {0} /\ MaxUploads \in Nat \ {0}
    /\ MaxBlobOps \in Nat /\ PageSize \in Nat \ {0} /\ BlobFaults \in BOOLEAN

BlobKeys == ((1..Stems) \X {0}) \cup {<<1, 1>>}
BlobFiles == (1..Stems) \X (0..2)
NoKey == <<0, 0>>
NoBlob == 0
Torn == MaxUploads + 1
Contents == NoBlob..Torn

VARIABLES backend,   \* the BlobStorage the factory made
          bfiles,    \* MemoryStorage::store_, the files under root_dir, or the bucket
          block,     \* holder of mutex_ (memory and filesystem)
          breq,      \* the requests
          uploads,   \* number of uploads so far
          bops,      \* number of requests so far
          backed,    \* history: what the acknowledged requests leave under each key
          bdirty     \* history: keys a request that was not acknowledged may have written

blobVars == <<backend, bfiles, block, breq, uploads, bops, backed, bdirty>>

(***************************************************************************)
(* A request: what it does, its key and content, whether it may overwrite, *)
(* what it read first, whether its key was written since, what was under   *)
(* the key when its own create-only write landed, and for a listing the    *)
(* token, the keys seen so far, those present all along (for a download:   *)
(* those with no unanswered write) and the tokens received.                *)
(***************************************************************************)
IdleBlob == [pc |-> "idle", key |-> NoKey, body |-> NoBlob, over |-> TRUE, got |-> NoBlob,
             raced |-> FALSE, prior |-> NoBlob, token |-> NoKey, seen |-> {}, stable |-> {},
             tokens |-> {}, twice |-> FALSE, n |-> 0]

Stored(k) == bfiles[k] # NoBlob
StoredKeys == {k \in BlobKeys : Stored(k)}
Less(a, b) == a[1] < b[1] \/ (a[1] = b[1] /\ a[2] < b[2])
TempOf(f) == <<f[1], f[2] + 1>>

Unlocked == block = "free"
Answered == {"idle", "created", "sent", "walked", "counted"}
Free(p) == breq[p].pc \in Answered

(* The requests under way learn that k was written.                        *)
Touch(reqs, k, present) ==
    [q \in BProcs |->
        IF Free(q) THEN reqs[q]
        ELSE [reqs[q] EXCEPT !.raced = @ \/ reqs[q].key = k \/ reqs[q].pc = "count",
                             !.stable = IF present THEN @ ELSE @ \ {k}]]

NewBlobOp(p) == Free(p) /\ bops < MaxBlobOps /\ bops' = bops + 1
Quiet == UNCHANGED <<backend, block, backed, bdirty, uploads>>

(***************************************************************************)
(* Write v under k and acknowledge it, or land it without an answer.       *)
(***************************************************************************)
Land(p, k, v, pc) ==
    /\ bfiles' = [bfiles EXCEPT ![k] = v]
    /\ backed' = [backed EXCEPT ![k] = v]
    /\ bdirty' = IF v = Torn THEN bdirty \cup {k} ELSE bdirty \ {k}
    /\ breq' = [Touch(breq, k, v # NoBlob) EXCEPT ![p] =
                  [IdleBlob EXCEPT !.pc = pc, !.over = breq[p].over, !.raced = breq[p].raced,
                                   !.prior = IF breq[p].over THEN NoBlob ELSE bfiles[k]]]

LandUnanswered(p, k, v) ==
    /\ bfiles' = [bfiles EXCEPT ![k] = v]
    /\ bdirty' = bdirty \cup {k}
    /\ breq' = [Touch(breq, k, v # NoBlob) EXCEPT ![p] = IdleBlob]
    /\ UNCHANGED backed

(* The request ends: not found, conflict, an error, or a plain success.    *)
Done(p) == breq' = [breq EXCEPT ![p] = IdleBlob]

Asked(p, pc, k, over) ==
    [IdleBlob EXCEPT !.pc = pc, !.key = k, !.over = over, !.body = uploads + 1]

InitBlobs ==
    /\ backend \in Backends
    /\ backed = [k \in BlobKeys |-> IF k = <<1, 0>> THEN NoBlob ELSE 1]
    /\ bfiles = [f \in BlobFiles |-> IF f \in BlobKeys \ {<<1, 0>>} THEN 1 ELSE NoBlob]
    /\ block = "free"
    /\ breq = [p \in BProcs |-> IdleBlob]
    /\ uploads = 1 /\ bops = 0
    /\ bdirty = {}

(***************************************************************************)
(* Upload                                                                  *)
(***************************************************************************)
(* handleUpload: the request body and the X-Blob-Overwrite header.         *)
AskUpload(p) ==
    /\ NewBlobOp(p)
    /\ uploads < MaxUploads /\ uploads' = uploads + 1
    /\ \E k \in BlobKeys, over \in BOOLEAN :
          breq' = [breq EXCEPT ![p] = Asked(p, IF backend = "s3" /\ over THEN "put" ELSE "upload", k, over)]
    /\ UNCHANGED <<backend, bfiles, block, backed, bdirty>>

(* The overwrite check of all three backends finds the key taken.          *)
UploadConflicts(p) ==
    /\ breq[p].pc = "upload" /\ Unlocked
    /\ ~breq[p].over /\ Stored(breq[p].key)
    /\ Done(p)
    /\ UNCHANGED <<bfiles, bops>> /\ Quiet

MayWrite(p) == breq[p].pc = "upload" /\ Unlocked /\ (breq[p].over \/ ~Stored(breq[p].key))

MemoryUpload(p) ==
    /\ backend = "memory" /\ MayWrite(p)
    /\ Land(p, breq[p].key, breq[p].body, "created")
    /\ UNCHANGED <<backend, block, uploads, bops>>

(* Wrong: the blob is written in place.                                    *)
FsOpenInPlace(p) ==
    /\ backend = "fs" /\ MayWrite(p)
    /\ block' = p
    /\ bfiles' = [bfiles EXCEPT ![breq[p].key] = Torn]
    /\ breq' = [breq EXCEPT ![p].pc = "rename"]
    /\ UNCHANGED <<backend, backed, bdirty, uploads, bops>>

(* fs_upload opens <key>.tmp with trunc, which a blob of that name shares. *)
FsOpenTemp(p) ==
    /\ backend = "fs" /\ MayWrite(p)
    /\ block' = p
    /\ bfiles' = [bfiles EXCEPT ![TempOf(breq[p].key)] = Torn]
    /\ bdirty' = bdirty \cup ({TempOf(breq[p].key)} \cap BlobKeys)
    /\ breq' = [Touch(breq, TempOf(breq[p].key), FALSE) EXCEPT
                  ![p] = [breq[p] EXCEPT !.pc = "rename"]]
    /\ UNCHANGED <<backend, backed, uploads, bops>>

(* The temporary file is complete and takes the blob's name.               *)
FsRename(p) ==
    LET k == breq[p].key IN
    /\ breq[p].pc = "rename"
    /\ bfiles' = [bfiles EXCEPT ![TempOf(k)] = NoBlob, ![k] = breq[p].body]
    /\ backed' = [backed EXCEPT ![k] = breq[p].body]
    /\ bdirty' = bdirty \ {k}
    /\ breq' = [Touch(breq, k, TRUE) EXCEPT ![p] =
                  [IdleBlob EXCEPT !.pc = "created", !.over = breq[p].over,
                                   !.prior = IF breq[p].over THEN NoBlob ELSE bfiles[k]]]
    /\ block' = "free"
    /\ UNCHANGED <<backend, uploads, bops>>

(* The write or the rename fails: the temporary file is removed.           *)
FsUploadFails(p) ==
    /\ BlobFaults /\ breq[p].pc = "rename"
    /\ bfiles' = [bfiles EXCEPT ![TempOf(breq[p].key)] = NoBlob]
    /\ Done(p)
    /\ block' = "free"
    /\ UNCHANGED <<backend, backed, bdirty, uploads, bops>>

(* s3_upload without overwrite: a HEAD that is not a success, an error     *)
(* included, lets the PUT go ahead.                                        *)
S3HeadForUpload(p) ==
    /\ backend = "s3" /\ breq[p].pc = "upload"
    /\ \/ ~Stored(breq[p].key) /\ breq' = [breq EXCEPT ![p].pc = "put"]
       \/ BlobFaults /\ breq' = [breq EXCEPT ![p].pc = "put", ![p].raced = TRUE]
    /\ UNCHANGED <<bfiles, bops>> /\ Quiet

S3Put(p) ==
    /\ breq[p].pc = "put"
    /\ Land(p, breq[p].key, breq[p].body, "created")
    /\ UNCHANGED <<backend, block, uploads, bops>>

(* The answer of the PUT is lost, or the PUT is refused.                   *)
S3PutUnanswered(p) ==
    /\ BlobFaults /\ breq[p].pc = "put"
    /\ LandUnanswered(p, breq[p].key, breq[p].body)
    /\ UNCHANGED <<backend, block, uploads, bops>>

S3CallFails(p) ==
    /\ BlobFaults /\ breq[p].pc \in {"put", "head", "delete", "copy", "meta", "walk", "count"}
    /\ backend = "s3"
    /\ Done(p)
    /\ UNCHANGED <<bfiles, bops>> /\ Quiet

(***************************************************************************)
(* Delete                                                                  *)
(***************************************************************************)
AskDelete(p) ==
    /\ NewBlobOp(p)
    /\ \E k \in BlobKeys : breq' = [breq EXCEPT ![p] =
          [IdleBlob EXCEPT !.pc = IF backend = "s3" THEN "head" ELSE "delete", !.key = k]]
    /\ UNCHANGED bfiles /\ Quiet

DeleteMisses(p) ==
    /\ breq[p].pc \in {"delete", "head"} /\ Unlocked
    /\ backend = "s3" => breq[p].pc = "head"
    /\ ~Stored(breq[p].key)
    /\ Done(p)
    /\ UNCHANGED <<bfiles, bops>> /\ Quiet

(* memory_delete and fs_delete look and remove under the lock.             *)
LocalDelete(p) ==
    /\ backend # "s3" /\ breq[p].pc = "delete" /\ Unlocked /\ Stored(breq[p].key)
    /\ Land(p, breq[p].key, NoBlob, "idle")
    /\ UNCHANGED <<backend, block, uploads, bops>>

(* s3_delete: HEAD, then DELETE whatever is there by then; only a 404 or   *)
(* no answer at all stops it.                                              *)
S3HeadForDelete(p) ==
    /\ breq[p].pc = "head" /\ (BlobFaults \/ Stored(breq[p].key))
    /\ breq' = [breq EXCEPT ![p].pc = "delete"]
    /\ UNCHANGED <<bfiles, bops>> /\ Quiet

S3Delete(p) ==
    /\ backend = "s3" /\ breq[p].pc = "delete"
    /\ Land(p, breq[p].key, NoBlob, "idle")
    /\ UNCHANGED <<backend, block, uploads, bops>>

(* The DELETE is carried out and its answer is lost.                       *)
S3DeleteUnanswered(p) ==
    /\ BlobFaults /\ backend = "s3" /\ breq[p].pc = "delete"
    /\ LandUnanswered(p, breq[p].key, NoBlob)
    /\ UNCHANGED <<backend, block, uploads, bops>>

(***************************************************************************)
(* Copy                                                                    *)
(***************************************************************************)
(* handleCopy; token carries the source.                                   *)
AskCopy(p) ==
    /\ NewBlobOp(p)
    /\ \E k, from \in BlobKeys : k # from /\ breq' = [breq EXCEPT ![p] =
          [IdleBlob EXCEPT !.pc = "copy", !.key = k, !.token = from]]
    /\ UNCHANGED bfiles /\ Quiet

CopyMisses(p) ==
    /\ breq[p].pc = "copy" /\ Unlocked /\ ~Stored(breq[p].token)
    /\ Done(p)
    /\ UNCHANGED <<bfiles, bops>> /\ Quiet

MemoryCopy(p) ==
    /\ backend = "memory" /\ breq[p].pc = "copy" /\ Stored(breq[p].token)
    /\ Land(p, breq[p].key, bfiles[breq[p].token], "created")
    /\ UNCHANGED <<backend, block, uploads, bops>>

(* One PUT that names its source, and a HEAD behind it that finds the copy *)
S3Copy(p) ==
    /\ backend = "s3" /\ breq[p].pc = "copy" /\ Stored(breq[p].token)
    /\ Land(p, breq[p].key, bfiles[breq[p].token], "created")
    /\ UNCHANGED <<backend, block, uploads, bops>>

(* The copy is made, but the answer of the PUT is lost or the HEAD behind  *)
(* it fails or finds the key deleted: the caller is told of an error.      *)
S3CopyUnanswered(p) ==
    /\ BlobFaults /\ backend = "s3" /\ breq[p].pc = "copy" /\ Stored(breq[p].token)
    /\ LandUnanswered(p, breq[p].key, bfiles[breq[p].token])
    /\ UNCHANGED <<backend, block, uploads, bops>>

(* fs_copy copies over the destination in place.                           *)
FsCopyStart(p) ==
    /\ backend = "fs" /\ breq[p].pc = "copy" /\ Unlocked /\ Stored(breq[p].token)
    /\ block' = p
    /\ bfiles' = [bfiles EXCEPT ![breq[p].key] = Torn]
    /\ bdirty' = bdirty \cup {breq[p].key}
    /\ breq' = [Touch(breq, breq[p].key, TRUE) EXCEPT ![p] =
                  [breq[p] EXCEPT !.pc = "copying", !.body = bfiles[breq[p].token]]]
    /\ UNCHANGED <<backend, backed, uploads, bops>>

FsCopyEnd(p) ==
    /\ breq[p].pc = "copying"
    /\ Land(p, breq[p].key, breq[p].body, "created")
    /\ block' = "free"
    /\ UNCHANGED <<backend, uploads, bops>>

(* copy_file reports an error: the destination stays as it is.             *)
FsCopyFails(p) ==
    /\ BlobFaults /\ breq[p].pc = "copying"
    /\ Done(p)
    /\ block' = "free"
    /\ UNCHANGED <<backend, bfiles, backed, bdirty, uploads, bops>>

(***************************************************************************)
(* Download: the type is read first, the content in a second call.         *)
(***************************************************************************)
(* The content type getMetadata reports: fs_get_metadata guesses it from   *)
(* the key, the others kept the uploaded one.  The download goes on under  *)
(* the plain type when the metadata cannot be read.                        *)
PlainType == NoBlob
TypesOf(k) ==
    IF backend = "fs" THEN {PlainType}
    ELSE {bfiles[k]} \cup (IF BlobFaults /\ backend = "s3" THEN {PlainType} ELSE {})

AskDownload(p) ==
    /\ NewBlobOp(p) /\ Unlocked
    /\ \E k \in BlobKeys : \E type \in TypesOf(k) : breq' = [breq EXCEPT ![p] =
          [IdleBlob EXCEPT !.pc = "meta", !.key = k, !.got = type]]
    /\ UNCHANGED bfiles /\ Quiet

SendBlob(p) ==
    /\ breq[p].pc = "meta" /\ Unlocked
    /\ IF Stored(breq[p].key)
       THEN breq' = [breq EXCEPT ![p].pc = "sent", ![p].body = bfiles[breq[p].key],
                                 ![p].stable = {breq[p].key} \ bdirty]
       ELSE Done(p)
    /\ UNCHANGED <<bfiles, bops>> /\ Quiet

(***************************************************************************)
(* Listing: the client asks for page after page until one is not truncated *)
(***************************************************************************)
AskList(p) ==
    /\ NewBlobOp(p)
    /\ breq' = [breq EXCEPT ![p] = [IdleBlob EXCEPT !.pc = "walk", !.stable = StoredKeys]]
    /\ UNCHANGED bfiles /\ Quiet

Hidden(k) == k[2] > 0

(* Wrong: the token is not looked at.                                      *)
FsListableRepeats(token) == {k \in StoredKeys : ~Hidden(k)}

(* fs_list passes over the temporary files and every key up to the token.  *)
FsListable(token) == {k \in StoredKeys : ~Hidden(k) /\ (token = NoKey \/ Less(token, k))}

(* S3 starts at its token.                                                 *)
S3Listable(token) == {k \in StoredKeys : ~Less(k, token)}

(* memory_list knows no token.                                             *)
Listable(token) ==
    CASE backend = "memory" -> StoredKeys
      [] backend = "fs" -> FsListable(token)
      [] backend = "s3" -> S3Listable(token)

FirstOf(keys) == {k \in keys : Cardinality({j \in keys : Less(j, k)}) < PageSize}
NextToken(keys) == {k \in keys : Cardinality({j \in keys : Less(j, k)}) = PageSize}

ListPage(p) ==
    LET keys == Listable(breq[p].token)
        items == FirstOf(keys)
        r == [breq[p] EXCEPT !.seen = @ \cup items, !.twice = @ \/ breq[p].seen \cap items # {}]
    IN
    /\ breq[p].pc = "walk" /\ Unlocked
    /\ breq' = [breq EXCEPT ![p] =
          IF NextToken(keys) = {} THEN [r EXCEPT !.pc = "walked"]
          ELSE [r EXCEPT !.token = CHOOSE k \in NextToken(keys) : TRUE,
                         !.tokens = @ \cup NextToken(keys)]]
    /\ UNCHANGED <<bfiles, bops>> /\ Quiet

(***************************************************************************)
(* Statistics: objectCount, in one pass under the lock or page by page     *)
(***************************************************************************)
AskStats(p) ==
    /\ NewBlobOp(p)
    /\ breq' = [breq EXCEPT ![p] = [IdleBlob EXCEPT !.pc = "count"]]
    /\ UNCHANGED bfiles /\ Quiet

Countable == {k \in StoredKeys : backend = "fs" => ~Hidden(k)}

CountLocal(p) ==
    /\ backend # "s3" /\ breq[p].pc = "count" /\ Unlocked
    /\ breq' = [breq EXCEPT ![p].pc = "counted", ![p].n = Cardinality(Countable),
                            ![p].stable = Countable, ![p].raced = FALSE]
    /\ UNCHANGED <<bfiles, bops>> /\ Quiet

CountPage(p) ==
    LET keys == Listable(breq[p].token)
        r == [breq[p] EXCEPT !.n = @ + Cardinality(FirstOf(keys))]
    IN
    /\ backend = "s3" /\ breq[p].pc = "count"
    /\ breq' = [breq EXCEPT ![p] =
          IF NextToken(keys) = {} THEN [r EXCEPT !.pc = "counted", !.stable = StoredKeys]
          ELSE [r EXCEPT !.token = CHOOSE k \in NextToken(keys) : TRUE]]
    /\ UNCHANGED <<bfiles, bops>> /\ Quiet

(***************************************************************************)
(* The daemon dies and starts again: requests end without an answer, the   *)
(* lock is new, blobs held in memory are gone.                             *)
(***************************************************************************)
CrashDaemon ==
    /\ BlobFaults /\ \E p \in BProcs : ~Free(p)
    /\ breq' = [p \in BProcs |-> IdleBlob]
    /\ block' = "free"
    /\ IF backend = "memory"
       THEN /\ bfiles' = [f \in BlobFiles |-> NoBlob]
            /\ backed' = [k \in BlobKeys |-> NoBlob]
       ELSE UNCHANGED <<bfiles, backed>>
    /\ UNCHANGED <<backend, bdirty, uploads, bops>>

BlobStep(p) ==
    \/ UploadConflicts(p) \/ MemoryUpload(p) \/ FsOpenTemp(p) \/ FsRename(p) \/ S3HeadForUpload(p)
    \/ S3Put(p) \/ DeleteMisses(p) \/ LocalDelete(p) \/ S3HeadForDelete(p) \/ S3Delete(p)
    \/ CopyMisses(p) \/ MemoryCopy(p) \/ S3Copy(p) \/ FsCopyStart(p) \/ FsCopyEnd(p) \/ SendBlob(p)
    \/ ListPage(p) \/ CountLocal(p) \/ CountPage(p)

(* Which request a method and an action of the URL are.                    *)
handleBlobWithKey(p) == AskUpload(p) \/ AskDownload(p) \/ AskDelete(p)
handleBlobAction(p) == AskCopy(p)

NextBlobs ==
    \/ \E p \in BProcs :
          \/ handleBlobWithKey(p) \/ handleBlobAction(p) \/ AskList(p) \/ AskStats(p)
          \/ BlobStep(p)
          \/ FsUploadFails(p) \/ S3PutUnanswered(p) \/ S3DeleteUnanswered(p) \/ S3CopyUnanswered(p)
          \/ S3CallFails(p) \/ FsCopyFails(p)
    \/ CrashDaemon

(* A request thread runs on: every request takes its next step eventually. *)
FairBlobs == \A p \in BProcs : WF_blobVars(breq[p].pc \notin Answered /\ BlobStep(p))
SpecBlobs == InitBlobs /\ [][NextBlobs]_blobVars /\ FairBlobs

-----------------------------------------------------------------------------
(* The state is well formed, and the lock is held exactly by a request in  *)
(* the middle of a filesystem upload or copy.                              *)
TypeOKBlobs ==
    /\ backend \in Backends
    /\ bfiles \in [BlobFiles -> Contents]
    /\ \A p \in BProcs : breq[p].pc \in {"rename", "copying"} <=> block = p
    /\ uploads \in 0..MaxUploads /\ bops \in 0..MaxBlobOps
    /\ backed \in [BlobKeys -> Contents] /\ bdirty \subseteq BlobKeys

(* What was acknowledged is what is stored, through failed writes, lost    *)
(* answers and restarts: only a key an unanswered request wrote, a         *)
(* half-done copy left, or an upload took for its temporary file, differs. *)
(* (The memory backend forgets everything in a restart.)                   *)
AcknowledgedIsStored ==
    \A k \in BlobKeys : k \notin bdirty => bfiles[k] = backed[k]

(* An upload that was asked not to overwrite and was acknowledged found    *)
(* the key free; on S3, unless the check failed or the key was written     *)
(* between the check and the PUT.                                          *)
CreateOnlyReplacesNothing ==
    \A p \in BProcs :
        /\ breq[p].pc = "created" /\ ~breq[p].over /\ breq[p].prior # NoBlob
        => backend = "s3" /\ breq[p].raced

(* A download pairs the content with the type it was uploaded with, unless *)
(* the key was written between the two reads; a filesystem type is guessed *)
(* from the key, and on S3 a failed metadata read leaves the plain type.   *)
(* Half-written content is served only under a key whose last writer was   *)
(* not acknowledged.                                                       *)
DownloadIsOneVersion ==
    \A p \in BProcs : breq[p].pc = "sent" =>
        /\ backend # "fs" /\ ~breq[p].raced =>
              breq[p].got = breq[p].body \/ (backend = "s3" /\ breq[p].got = PlainType)
        /\ breq[p].body = Torn => breq[p].stable = {}

(* A client that follows the tokens to the end has seen every blob that    *)
(* was there all along - on the filesystem except the blob each token      *)
(* names, which no page returns, and the keys that end in .tmp.            *)
WalkMissesOnlyTokens ==
    \A p \in BProcs : breq[p].pc = "walked" =>
        breq[p].stable \ breq[p].seen \subseteq
            IF backend = "fs" THEN breq[p].tokens \cup {k \in BlobKeys : Hidden(k)} ELSE {}

(* No blob is on two pages of one walk, on the backends that honour tokens *)
PagesAreDisjoint == \A p \in BProcs : breq[p].twice => backend = "memory"

(* With no write in between, the count reported is the number of blobs.    *)
CountIsExact ==
    \A p \in BProcs : breq[p].pc = "counted" /\ ~breq[p].raced =>
        breq[p].n = Cardinality(breq[p].stable)

(* Every walk over the filesystem or S3 ends, whatever is written during   *)
(* it (over memory a truncated walk starts again with every page).         *)
WalksEnd == \A p \in BProcs : (breq[p].pc = "walk" /\ backend # "memory") ~> breq[p].pc # "walk"

(* What users of the blob stores rely on through failed writes, lost       *)
(* answers and restarts, but for the exceptions each part names: what was  *)
(* acknowledged is what is stored, an upload without overwrite replaces    *)
(* nothing, a download is of one version, a walk over the pages misses and *)
(* repeats no blob that was there all along, and the statistics count each *)
(* blob once.                                                              *)
BlobsAreKept ==
    /\ TypeOKBlobs
    /\ AcknowledgedIsStored
    /\ CreateOnlyReplacesNothing
    /\ DownloadIsOneVersion
    /\ WalkMissesOnlyTokens
    /\ PagesAreDisjoint
    /\ CountIsExact
=============================================================================
