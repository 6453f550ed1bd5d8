------------------------------- MODULE PutUpload -------------------------------
(***************************************************************************)
(* The upload of one put: put_file of the Rust client with its drivers     *)
(* (R2 and AWS S3 through signed URLs, single PUT or multipart; Aliyun     *)
(* Drive; a local directory), the grants of the control plane and the cron *)
(* cleanup of multipart uploads.                                           *)
(*                                                                         *)
(* One intent (one idempotency key) is tried by several client processes   *)
(* that share a staging directory, hence the encoded file and the          *)
(* multipart journal.  A process may stop anywhere; a request and its      *)
(* effect at the provider are one step, so a lost answer is a stop after   *)
(* the step.  The provider is external: it keeps an object per key, open   *)
(* uploads with their parts, and refuses a URL after its expiry.           *)
(***************************************************************************)
EXTENDS Integers, FiniteSets, Sequences

CONSTANTS
  Clients,      \* processes that run put_file with one idempotency key
  Runs,         \* overlapping cron invocations
  Contents,     \* what the source file may hold
  InitialContent,
  PartCount,    \* parts of the encoded object
  Batch,        \* parts per multipart grant (64 in the code)
  Kinds,        \* "put": single signed PUT; "r2", "s3": multipart; or a driver
  MaxAttempts,  \* bound on the calls of put_file, all processes together
  MaxEdits,     \* bound on the edits of the source
  MaxFaults     \* bound on failed provider calls, deaths and stalls of cron runs

None == "none"
Mixed == "mixed"

ASSUME PutUploadAssumption ==
  /\ PartCount \in Nat \ {0} /\ Batch \in Nat \ {0}
  /\ Kinds \subseteq {"put", "r2", "s3", "aliyun", "local"}
  /\ {None, Mixed} \cap Contents = {} /\ InitialContent \in Contents
  /\ MaxAttempts \in Nat /\ MaxEdits \in Nat /\ MaxFaults \in Nat

Parts == 1..PartCount

VARIABLES
  kind,         \* driver and size class of the object
  source,       \* content of the local source file
  edits,        \* how often it was edited
  intent,       \* vfs_put_intents: state and file_root
  late,         \* has expires_at passed?
  evidence,     \* vfs_put_upload_evidence: encoded_sha256, or None
  task,         \* vfs_r2_upload_cleanup_tasks
  staged,       \* {intent_id}.encoded in the staging directory, or None
  journal,      \* .r2-multipart-{intent_id}.json, or None
  copied,       \* part files of the local driver, .skydriver/uploads/{intent_id}
  object,       \* content of the provider object, or None
  uploads,      \* multipart uploads of the key at the provider
  client,       \* a call of put_file per process
  run,          \* cron invocations in cleanup_one_r2_upload
  attempts,
  faults

server == <<intent, evidence, task>>
disk == <<staged, journal>>
provider == <<copied, object, uploads>>
bounds == <<edits, attempts, faults>>
vars == <<kind, source, intent, late, evidence, task, staged, journal, copied, object,
          uploads, client, run, bounds>>

-----------------------------------------------------------------------------
(* Records *)

NoParts == [p \in Parts |-> None]

Intent(state, root) == [state |-> state, root |-> root]
Task(state, upload, fence, lapsed) ==
  [state |-> state, upload |-> upload, fence |-> fence, lapsed |-> lapsed]
NoTask == Task("none", 0, 0, FALSE)
Journal(upload, sha, etags) == [upload |-> upload, sha |-> sha, etags |-> etags]
NoJournal == Journal(0, None, NoParts)
Upload(open, parts) == [open |-> open, parts |-> parts]

\* A call of put_file: root is file_root, sha the digest of the encoded bytes;
\* drop says that the multipart journal goes once the readback has succeeded.
Client(pc, root, sha, upload, etags, first, todo, err, drop) ==
  [pc |-> pc, root |-> root, sha |-> sha, upload |-> upload, etags |-> etags,
   first |-> first, todo |-> todo, err |-> err, drop |-> drop]
Ended(pc, root) == Client(pc, root, None, 0, NoParts, 1, {}, FALSE, FALSE)
Idle == Ended("idle", None)

Run(pc, upload, fence, ok) == [pc |-> pc, upload |-> upload, fence |-> fence, ok |-> ok]
NoRun == Run("idle", 0, 0, FALSE)

Goto(c, pc) == [client EXCEPT ![c].pc = pc]
At(c, pc) == client[c].pc = pc
\* The call returns an error; "refused" marks a conflict the control plane
\* reported for a grant.
Fail(c) == client' = [client EXCEPT ![c] = Idle]
Refuse(c) == client' = [client EXCEPT ![c] = Ended("refused", client[c].root)]

\* The bytes of an object completed from parts.
Assembled(parts) ==
  IF \E v \in Contents : \A p \in Parts : parts[p] = v THEN parts[1] ELSE Mixed

Signed == kind \in {"put", "r2", "s3"}
Multipart == kind \in {"r2", "s3"}

\* project_access_grant and project_multipart_grant sign for at most the rest
\* of the intent's life; an Aliyun access token and a local path do not end.
UrlLive == Signed => ~late

\* Mutation: the readback is skipped.
ReadBackSkipped(c) == TRUE
\* verify_readback: the object is read in full and hashed.
ReadBack(c) == UrlLive /\ object = client[c].sha

-----------------------------------------------------------------------------
(* put_file up to the staged file *)

\* The target is resolved and integrity::build_file hashes the source.
BuildFile(c) ==
  /\ client[c].pc \in {"idle", "refused"} /\ attempts < MaxAttempts
  /\ attempts' = attempts + 1
  /\ client' = [client EXCEPT ![c] = Ended("prepare", source)]
  /\ UNCHANGED <<kind, source, edits, server, late, disk, provider, run, faults>>

\* replay_response: the key pins one request, and the intent must be alive.
Replays(root) == intent.root = root /\ intent.state \in {"prepared", "committed"}

\* prepare inserts the intent, or replays the one with this request identity.
Prepare(c) ==
  /\ At(c, "prepare")
  /\ \/ /\ intent.state = "none"
        /\ intent' = Intent("prepared", client[c].root)
        /\ client' = Goto(c, "grants")
     \/ /\ intent.state # "none"
        /\ IF Replays(client[c].root) THEN client' = Goto(c, "grants") ELSE Fail(c)
        /\ UNCHANGED intent
  /\ UNCHANGED <<kind, source, late, evidence, task, disk, provider, run, bounds>>

\* grant_allowed: the caller's own intent, not expired.
GrantAllowed == intent.state \in {"prepared", "committed"} /\ ~late

\* grant_put_key and grant_put_driver.  A signed object needs a prepared
\* intent, and its cleanup row is inserted once.
Grants(c) ==
  /\ At(c, "grants")
  /\ IF GrantAllowed /\ (Signed => intent.state = "prepared")
     THEN /\ task' = IF Signed /\ task.state = "none" THEN Task("active", 0, 0, FALSE)
                     ELSE task
          /\ client' = Goto(c, "stage")
     ELSE Refuse(c) /\ UNCHANGED task
  /\ UNCHANGED <<kind, source, intent, late, evidence, disk, provider, run, bounds>>

\* stage encodes the source into a temporary file and renames it over the
\* staged file of the intent.
Stage(c) ==
  /\ At(c, "stage")
  /\ staged' = source
  /\ client' = [client EXCEPT ![c].pc = "recheck", ![c].sha = source]
  /\ UNCHANGED <<kind, source, late, server, journal, provider, run, bounds>>

\* stage_block_manifest takes the manifest of a live or committed intent.
ManifestAccepted == intent.state = "committed" \/ (intent.state = "prepared" /\ ~late)

\* The source is hashed again after the encoding, while stage_manifest stores
\* the block manifest; if either fails the staged file is removed.
Recheck(c) ==
  /\ At(c, "recheck")
  /\ IF source = client[c].root /\ ManifestAccepted
     THEN client' = Goto(c, "upload") /\ UNCHANGED staged
     ELSE staged' = None /\ Fail(c)
  /\ UNCHANGED <<kind, source, late, server, journal, provider, run, bounds>>

-----------------------------------------------------------------------------
(* The Aliyun and the local driver *)

\* openFile/create refuses a name that is taken; the object there is then read
\* back instead.
AliyunCreate(c) ==
  /\ At(c, "upload") /\ kind = "aliyun"
  /\ client' = Goto(c, IF object = None THEN "send" ELSE "verify")
  /\ UNCHANGED <<kind, source, late, server, disk, provider, run, bounds>>

\* The staged file is opened once and its parts are sent.
AliyunSend(c) ==
  /\ At(c, "send")
  /\ IF staged = None THEN Fail(c)
     ELSE client' = [client EXCEPT ![c].pc = "publish",
                                   ![c].etags = [p \in Parts |-> staged]]
  /\ UNCHANGED <<kind, source, late, server, disk, provider, run, bounds>>

\* openFile/complete; it fails when another process has published the name.
AliyunComplete(c) ==
  /\ At(c, "publish")
  /\ IF object = None
     THEN object' = Assembled(client[c].etags) /\ client' = Goto(c, "verify")
     ELSE Fail(c) /\ UNCHANGED object
  /\ UNCHANGED <<kind, source, late, server, disk, copied, uploads, run, bounds>>

\* upload_parts of the local driver keeps a part file that has the right length
\* and copies the others from the staged file, one by one.
CopyPart(c) ==
  /\ At(c, "upload") /\ kind = "local"
  /\ \E p \in Parts :
       /\ copied[p] = None
       /\ IF staged = None THEN Fail(c) /\ UNCHANGED copied
          ELSE copied' = [copied EXCEPT ![p] = staged] /\ UNCHANGED client
  /\ UNCHANGED <<kind, source, late, server, disk, object, uploads, run, bounds>>

\* The part files are assembled and hard-linked under the key, which does not
\* replace an object.
LinkObject(c) ==
  /\ At(c, "upload") /\ kind = "local" /\ \A p \in Parts : copied[p] # None
  /\ object' = IF object = None THEN Assembled(copied) ELSE object
  /\ client' = Goto(c, "local_verify")
  /\ UNCHANGED <<kind, source, late, server, disk, copied, uploads, run, bounds>>

\* The object is read back and the part files are removed; a missing one is an
\* error.
LocalVerify(c) ==
  /\ At(c, "local_verify")
  /\ copied' = IF ReadBack(c) THEN NoParts ELSE copied
  /\ IF ReadBack(c) /\ \A p \in Parts : copied[p] # None
     THEN client' = Goto(c, "commit")
     ELSE Fail(c)
  /\ UNCHANGED <<kind, source, late, server, disk, object, uploads, run, bounds>>

-----------------------------------------------------------------------------
(* The signed-object drivers *)

\* One conditional PUT of the staged file; 412 means that an object is there.
PutObject(c) ==
  /\ At(c, "upload") /\ kind = "put"
  /\ IF staged # None /\ UrlLive
     THEN /\ object' = IF object = None THEN staged ELSE object
          /\ client' = Goto(c, "verify")
     ELSE Fail(c) /\ UNCHANGED object
  /\ UNCHANGED <<kind, source, late, server, disk, copied, uploads, run, bounds>>

\* multipart_upload resumes from a journal of the same staged bytes only.
LoadJournal(c) ==
  /\ At(c, "upload") /\ Multipart
  /\ \/ /\ journal = NoJournal /\ client' = Goto(c, "create")
     \/ /\ journal # NoJournal /\ journal.sha = client[c].sha
        /\ client' = [client EXCEPT ![c].pc = "resume", ![c].upload = journal.upload,
                                    ![c].etags = journal.etags]
     \/ journal # NoJournal /\ journal.sha # client[c].sha /\ Fail(c)
  /\ UNCHANGED <<kind, source, late, server, disk, provider, run, bounds>>

\* The grant of S3 does not ask for If-None-Match at the initiation.
CreateNoReplace == kind = "r2"

\* multipart_create_url; with If-None-Match the provider answers 412 when the
\* object is there.
CreateMultipart(c) ==
  /\ At(c, "create")
  /\ \/ ~UrlLive /\ Fail(c) /\ UNCHANGED uploads
     \/ /\ UrlLive /\ CreateNoReplace /\ object # None
        /\ client' = Goto(c, "verify") /\ UNCHANGED uploads
     \/ /\ UrlLive /\ (CreateNoReplace => object = None)
        /\ uploads' = Append(uploads, Upload(TRUE, NoParts))
        /\ client' = [client EXCEPT ![c].pc = "save", ![c].upload = Len(uploads) + 1]
  /\ UNCHANGED <<kind, source, late, server, disk, copied, object, run, bounds>>

\* store_journal, with the etags gathered so far.
SaveCreated(c) ==
  /\ At(c, "save")
  /\ journal' = Journal(client[c].upload, client[c].sha, NoParts)
  /\ client' = Goto(c, "resume")
  /\ UNCHANGED <<kind, source, late, server, staged, provider, run, bounds>>

\* A journal with every etag may be of a completed upload: read back first.
Resume(c) ==
  /\ At(c, "resume")
  /\ IF (\A p \in Parts : client[c].etags[p] # None) /\ ReadBack(c)
     THEN /\ journal' = NoJournal
          /\ IF journal = NoJournal THEN Fail(c) ELSE client' = Goto(c, "commit")
     ELSE client' = Goto(c, "grant") /\ UNCHANGED journal
  /\ UNCHANGED <<kind, source, late, server, staged, provider, run, bounds>>

\* grant_put_r2_multipart, first half: the context is loaded and checked, and
\* the URLs of one batch are signed.
MultipartGrant(c) ==
  /\ At(c, "grant")
  /\ IF intent.state = "prepared" /\ ~late THEN client' = Goto(c, "bind") ELSE Refuse(c)
  /\ UNCHANGED <<kind, source, late, server, disk, provider, run, bounds>>

\* multipart_grant_from_plaintext signs the parts of one batch.
BatchFrom(first) == {p \in Parts : p >= first /\ p < first + Batch}

\* Mutation: the latest upload wins.
MayBindLatest(upload) == task.state = "active"
MayBind(upload) == task.state = "active" /\ task.upload \in {0, upload}

\* Second half: the upload is bound to the cleanup row, or refused.
Bind(c) ==
  /\ At(c, "bind")
  /\ IF MayBind(client[c].upload)
     THEN /\ task' = [task EXCEPT !.upload = client[c].upload]
          /\ client' = [client EXCEPT ![c].pc = "parts",
                          ![c].todo = {p \in BatchFrom(client[c].first) :
                                         client[c].etags[p] = None}]
     ELSE Refuse(c) /\ UNCHANGED task
  /\ UNCHANGED <<kind, source, intent, late, evidence, disk, provider, run, bounds>>

\* upload_part opens the staged file anew and sends its range; the parts of a
\* batch are sent in any order, and a failure does not stop the others.
PutPart(c) == \E p \in client[c].todo :
  /\ At(c, "parts")
  /\ \/ /\ staged # None /\ UrlLive /\ uploads[client[c].upload].open
        /\ uploads' = [uploads EXCEPT ![client[c].upload].parts[p] = staged]
        /\ client' = [client EXCEPT ![c].todo = @ \ {p}, ![c].etags[p] = staged]
     \/ /\ client' = [client EXCEPT ![c].todo = @ \ {p}, ![c].err = TRUE]
        /\ UNCHANGED uploads
  /\ UNCHANGED <<kind, source, late, server, disk, copied, object, run, bounds>>

\* After a batch the journal is stored, errors or not.
SaveBatch(c) ==
  /\ At(c, "parts") /\ client[c].todo = {}
  /\ journal' = Journal(client[c].upload, client[c].sha, client[c].etags)
  /\ LET next == client[c].first + Batch IN
     IF client[c].err THEN Fail(c)
     ELSE IF next > PartCount THEN client' = Goto(c, "complete")
     ELSE client' = [client EXCEPT ![c].pc = "grant", ![c].first = next]
  /\ UNCHANGED <<kind, source, late, server, staged, provider, run, bounds>>

\* Completion names the etags of the journal and does not replace an object.
Complete(c) ==
  /\ At(c, "complete")
  /\ LET u == client[c].upload IN
     IF UrlLive /\ uploads[u].open /\ uploads[u].parts = client[c].etags
     THEN /\ object' = IF object = None THEN Assembled(uploads[u].parts) ELSE object
          /\ uploads' = [uploads EXCEPT ![u] = Upload(FALSE, NoParts)]
          /\ client' = [client EXCEPT ![c].pc = "verify", ![c].drop = TRUE]
     ELSE Fail(c) /\ UNCHANGED <<object, uploads>>
  /\ UNCHANGED <<kind, source, late, server, disk, copied, run, bounds>>

\* verify_readback, then the journal of a completed upload is removed.
Verify(c) ==
  /\ At(c, "verify")
  /\ journal' = IF ReadBack(c) /\ client[c].drop THEN NoJournal ELSE journal
  /\ IF ReadBack(c) /\ (client[c].drop => journal # NoJournal)
     THEN client' = Goto(c, "commit")
     ELSE Fail(c)
  /\ UNCHANGED <<kind, source, late, server, staged, provider, run, bounds>>

-----------------------------------------------------------------------------
(* Publication *)

\* commit pins the evidence and publishes, which a changed entry or contended
\* roots may refuse; the receipt of an earlier commit is replayed.  The receipt
\* supersedes the cleanup row.
Commit(c) ==
  /\ At(c, "commit")
  /\ \/ /\ intent.state = "committed" /\ evidence = client[c].sha
        /\ client' = Goto(c, "finish") /\ UNCHANGED server
     \/ /\ intent.state = "prepared" /\ ~late /\ evidence \in {None, client[c].sha}
        /\ evidence' = client[c].sha
        /\ \/ /\ intent' = [intent EXCEPT !.state = "committed"]
              /\ task' = IF task.state \in {"active", "cleaning", "failed"}
                         THEN [task EXCEPT !.state = "superseded", !.lapsed = FALSE]
                         ELSE task
              /\ client' = Goto(c, "finish")
           \/ Fail(c) /\ UNCHANGED <<intent, task>>
     \/ /\ \/ intent.state = "expired" \/ (intent.state = "prepared" /\ late)
           \/ evidence \notin {None, client[c].sha}
        /\ Fail(c) /\ UNCHANGED server
  /\ UNCHANGED <<kind, source, late, disk, provider, run, bounds>>

\* The staged file is removed; one that is gone already is an error.
Finish(c) ==
  /\ At(c, "finish")
  /\ staged' = None
  /\ client' = IF staged = None THEN [client EXCEPT ![c] = Idle] ELSE Goto(c, "done")
  /\ UNCHANGED <<kind, source, late, server, journal, provider, run, bounds>>

\* The process dies, or a request fails or loses its answer.
Stop(c) ==
  /\ client[c].pc \notin {"idle", "refused", "done"}
  /\ Fail(c)
  /\ UNCHANGED <<kind, source, late, server, disk, provider, run, bounds>>

\* Someone writes the source file.
Edit ==
  /\ edits < MaxEdits
  /\ edits' = edits + 1
  /\ \E v \in Contents \ {source} : source' = v
  /\ UNCHANGED <<kind, late, server, disk, provider, client, run, attempts, faults>>

-----------------------------------------------------------------------------
(* Time and the cron *)

\* expires_at passes.
Late ==
  /\ intent.state # "none" /\ ~late
  /\ late' = TRUE
  /\ UNCHANGED <<kind, source, server, disk, provider, client, run, bounds>>

\* The hygiene batch expires the intent.
Expire ==
  /\ intent.state = "prepared" /\ late
  /\ intent' = [intent EXCEPT !.state = "expired"]
  /\ UNCHANGED <<kind, source, late, evidence, task, disk, provider, client, run, bounds>>

\* Mutation: a lapsed lease is not taken over.
ClaimableOnce(t) == t.state \in {"active", "failed"}
\* safe_vfs_r2_upload_cleanup_tasks and the states cleanup_one_r2_upload takes
\* (a failed task once its retry_at has passed).
Claimable(t) == \/ t.state \in {"active", "failed"}
                \/ t.state = "cleaning" /\ t.lapsed

\* The claim and the reload of the claimed row.
Claim(r) ==
  /\ run[r].pc = "idle"
  /\ intent.state = "expired" /\ Claimable(task)
  /\ task' = Task("cleaning", task.upload, task.fence + 1, FALSE)
  /\ run' = [run EXCEPT ![r] = Run("abort", task.upload, task.fence + 1, FALSE)]
  /\ UNCHANGED <<kind, source, intent, late, evidence, disk, provider, client, bounds>>

\* The lease of a claim passes after its run is gone.
Lapse ==
  /\ task.state = "cleaning" /\ ~task.lapsed
  /\ \A r \in Runs : run[r].pc = "idle" \/ run[r].fence # task.fence
  /\ task' = [task EXCEPT !.lapsed = TRUE]
  /\ UNCHANGED <<kind, source, intent, late, evidence, disk, provider, client, run, bounds>>

\* Or its run stalls until the lease has passed.
Stall ==
  /\ task.state = "cleaning" /\ ~task.lapsed
  /\ faults < MaxFaults /\ faults' = faults + 1
  /\ task' = [task EXCEPT !.lapsed = TRUE]
  /\ UNCHANGED <<kind, source, edits, intent, late, evidence, disk, provider, client,
                 run, attempts>>

\* cleanup_upload_from_plaintext: the upload is gone, and so are its parts.
Aborted(upload) ==
  [u \in DOMAIN uploads |-> IF u = upload THEN Upload(FALSE, NoParts) ELSE uploads[u]]

\* cleanup_multipart_upload aborts the bound upload; one that is gone, or none,
\* is a success.  Or the provider call fails.
Abort(r) ==
  /\ run[r].pc = "abort"
  /\ \/ /\ uploads' = Aborted(run[r].upload)
        /\ run' = [run EXCEPT ![r].pc = "record", ![r].ok = TRUE]
        /\ UNCHANGED faults
     \/ /\ faults < MaxFaults /\ faults' = faults + 1
        /\ run' = [run EXCEPT ![r].pc = "record"]
        /\ UNCHANGED uploads
  /\ UNCHANGED <<kind, source, edits, server, late, disk, copied, object, client, attempts>>

Holds(r) == task.state = "cleaning" /\ task.fence = run[r].fence

\* The outcome is recorded under the fence of the claim.
Record(r) ==
  /\ run[r].pc = "record"
  /\ task' = IF Holds(r)
             THEN Task(IF run[r].ok THEN "cleaned" ELSE "failed", task.upload, task.fence, FALSE)
             ELSE task
  /\ run' = [run EXCEPT ![r] = NoRun]
  /\ UNCHANGED <<kind, source, intent, late, evidence, disk, provider, client, bounds>>

\* A cron invocation dies.
Die(r) ==
  /\ run[r].pc # "idle" /\ faults < MaxFaults
  /\ faults' = faults + 1
  /\ run' = [run EXCEPT ![r] = NoRun]
  /\ UNCHANGED <<kind, source, edits, server, late, disk, provider, client, attempts>>

\* delete_expired_r2_cleanup_evidence removes a row settled long ago.
Retire ==
  /\ task.state \in {"cleaned", "superseded"}
  /\ task' = NoTask
  /\ UNCHANGED <<kind, source, intent, late, evidence, disk, provider, client, run, bounds>>

-----------------------------------------------------------------------------
Init ==
  /\ kind \in Kinds
  /\ source = InitialContent
  /\ intent = Intent("none", None) /\ late = FALSE /\ evidence = None
  /\ task = NoTask
  /\ staged = None /\ journal = NoJournal
  /\ copied = NoParts /\ object = None /\ uploads = << >>
  /\ client = [c \in Clients |-> Idle]
  /\ run = [r \in Runs |-> NoRun]
  /\ edits = 0 /\ attempts = 0 /\ faults = 0

PutFile(c) ==
  \/ BuildFile(c) \/ Prepare(c) \/ Grants(c) \/ Stage(c) \/ Recheck(c)
  \/ AliyunCreate(c) \/ AliyunSend(c) \/ AliyunComplete(c)
  \/ CopyPart(c) \/ LinkObject(c) \/ LocalVerify(c)
  \/ PutObject(c) \/ LoadJournal(c) \/ CreateMultipart(c) \/ SaveCreated(c)
  \/ Resume(c) \/ MultipartGrant(c) \/ Bind(c) \/ PutPart(c) \/ SaveBatch(c)
  \/ Complete(c) \/ Verify(c) \/ Commit(c) \/ Finish(c) \/ Stop(c)

Cleanup(r) == Claim(r) \/ Abort(r) \/ Record(r)

Next ==
  \/ \E c \in Clients : PutFile(c)
  \/ \E r \in Runs : Cleanup(r) \/ Die(r)
  \/ Edit \/ Late \/ Expire \/ Lapse \/ Stall \/ Retire

\* Time passes, the cron comes back and its invocations make progress; nothing
\* is assumed of the clients.
Spec == /\ Init /\ [][Next]_vars
        /\ WF_vars(Late) /\ WF_vars(Expire) /\ WF_vars(Lapse)
        /\ \A r \in Runs : WF_vars(Cleanup(r))

-----------------------------------------------------------------------------
(* Properties *)

Bytes == Contents \cup {None, Mixed}
Encoded == Contents \cup {None}
PartMap == [Parts -> Encoded]

\* Types of every variable, and the states the code writes: an upload that a
\* client, a journal or a cleanup row names was created at the provider.
TypeOK ==
  /\ kind \in Kinds /\ source \in Contents /\ late \in BOOLEAN
  /\ intent \in [state : {"none", "prepared", "committed", "expired"}, root : Encoded]
  /\ evidence \in Encoded /\ staged \in Encoded
  /\ task \in [state : {"none", "active", "cleaning", "failed", "cleaned", "superseded"},
               upload : Nat, fence : Nat, lapsed : BOOLEAN]
  /\ journal \in [upload : Nat, sha : Encoded, etags : PartMap]
  /\ object \in Bytes /\ copied \in PartMap
  /\ uploads \in Seq([open : BOOLEAN, parts : PartMap])
  /\ client \in [Clients ->
       [pc : {"idle", "refused", "prepare", "grants", "stage", "recheck", "upload", "send",
              "publish", "local_verify", "create", "save", "resume", "grant", "bind", "parts",
              "complete", "verify", "commit", "finish", "done"},
        root : Encoded, sha : Encoded, upload : Nat, etags : PartMap, first : Nat,
        todo : SUBSET Parts, err : BOOLEAN, drop : BOOLEAN]]
  /\ run \in [Runs -> [pc : {"idle", "abort", "record"}, upload : Nat, fence : Nat, ok : BOOLEAN]]
  /\ {task.upload, journal.upload} \cup {client[c].upload : c \in Clients}
       \cup {run[r].upload : r \in Runs} \subseteq 0..Len(uploads)
  /\ edits \in 0..MaxEdits /\ attempts \in 0..MaxAttempts /\ faults \in 0..MaxFaults

\* Evidence the control plane holds of an upload names the bytes that are at
\* the provider, whatever processes shared the staged file and the journal, and
\* those bytes are the file the intent was prepared for unless the source was
\* edited and then restored while it was encoded (verify_readback, put_file).
\* With the types.
EvidenceExact ==
  /\ TypeOK
  /\ evidence # None => /\ object = evidence
                        /\ edits < 2 => evidence = intent.root

\* A cleanup row that reports success leaves no part behind at the provider:
\* every upload that ever got a part is the one bound to the row
\* (grant_put_r2_multipart, cleanup_one_r2_upload).
CleanedReclaims ==
  task.state = "cleaned" => \A u \in DOMAIN uploads : uploads[u].parts = NoParts

\* Every upload that was granted is in the end published or cleaned up, though
\* clients vanish and cron runs die (vfs_r2_upload_cleanup_tasks).
GrantedSettles ==
  task.state = "active" ~> task.state \in {"cleaned", "superseded"}

\* Calling put_file again for a committed intent, with the same source and
\* before it expires, is not refused: an idempotent replay returns its receipt.
ReplayIsServed ==
  \A c \in Clients : At(c, "refused") =>
    ~(intent.state = "committed" /\ intent.root = client[c].root /\ ~late)

=============================================================================
