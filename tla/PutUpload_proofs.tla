---------------------------- MODULE PutUpload_proofs ----------------------------
(***************************************************************************)
(* Proofs about PutUpload, for every set of client processes, cron runs,   *)
(* contents and parts:                                                     *)
(*   - evidence names the bytes at the provider, and these are the file    *)
(*     the intent was prepared for;                                        *)
(*   - a cleanup that reports success left no part behind.                 *)
(*                                                                         *)
(* Nothing the processes share is trusted: not the staged file, not the    *)
(* journal.  The first result rests on the readback of an object that is   *)
(* never replaced (ObjectInv) and on the order in which one process hashes *)
(* its source (SourceInv); the second on the one upload that may be bound  *)
(* to the cleanup row (BoundInv) and on URLs that end with the intent.     *)
(***************************************************************************)
EXTENDS PutUpload, TLAPS, SequenceTheorems

-----------------------------------------------------------------------------
(* The inductive invariant *)

\* Places in put_file: after the intent is prepared, after the encoding,
\* after the source was hashed again, and in a multipart upload.
Prepared == {"grants", "stage", "recheck", "upload", "send", "publish", "local_verify",
             "create", "save", "resume", "grant", "bind", "parts", "complete", "verify",
             "commit"}
Rechecked == Prepared \ {"grants", "stage", "recheck"}
InMultipart == {"create", "save", "resume", "grant", "bind", "parts", "complete"}
HasUpload == InMultipart \ {"create"}

\* What one process hashed: its intent's file, before and after it encoded it.
SourceInv ==
  /\ intent.state = "none" => intent.root = None /\ evidence = None
  /\ \A c \in Clients :
       LET k == client[c] IN
       /\ k.pc \in Prepared => intent.state # "none" /\ intent.root = k.root
       /\ k.pc \in Rechecked \cup {"recheck"} => k.sha \in Contents
       /\ edits = 0 /\ k.pc \in Prepared \cup {"prepare"} => k.root = source
       /\ edits < 2 /\ k.pc = "recheck" /\ k.root = source => k.sha = source
       /\ edits < 2 /\ k.pc \in Rechecked => k.sha = k.root

\* Whoever commits has read back what it encoded.
ObjectInv ==
  /\ \A c \in Clients : client[c].pc = "commit" => object = client[c].sha
  /\ evidence # None => object = evidence
  /\ evidence # None /\ edits < 2 => evidence = intent.root

\* Multipart uploads are of the signed drivers, and were created.
MultipartInv ==
  /\ \A c \in Clients :
       /\ client[c].pc \in InMultipart => Multipart
       /\ client[c].pc \in HasUpload => client[c].upload > 0
  /\ journal # NoJournal => journal.upload > 0

\* The cleanup follows the end of the intent.
ExpiryInv ==
  /\ intent.state = "expired" => late
  /\ intent.state \in {"none", "prepared"} => task.state \in {"none", "active"}
  /\ task.state \in {"cleaning", "failed", "cleaned"} => intent.state = "expired"
  /\ \A r \in Runs : run[r].pc # "idle" => intent.state = "expired"

\* A row that is still to be cleaned is bound to upload u; or the row is gone.
Bound(u) == task.upload = u /\ task.state \in {"active", "cleaning", "failed", "cleaned"}
Over == intent.state \in {"committed", "expired"} /\ task.state \in {"none", "superseded"}

\* Parts are sent to the bound upload only.
BoundInv ==
  /\ \A u \in 1..Len(uploads) : uploads[u].parts # NoParts => Bound(u) \/ Over
  /\ \A c \in Clients : client[c].pc = "parts" => Bound(client[c].upload) \/ Over

\* A run that still holds the row aborts the bound upload.
RunInv ==
  \A r \in Runs : run[r].pc # "idle" =>
    /\ task.state = "none" \/ run[r].fence <= task.fence
    /\ Holds(r) => run[r].upload = task.upload
    /\ run[r].pc = "abort" => ~run[r].ok
    /\ run[r].ok /\ run[r].pc = "record" /\ run[r].upload > 0
         => uploads[run[r].upload].parts = NoParts

IInv ==
  /\ TypeOK /\ SourceInv /\ ObjectInv /\ MultipartInv /\ ExpiryInv /\ BoundInv /\ RunInv
  /\ CleanedReclaims

-----------------------------------------------------------------------------
(* Types *)

States == {"idle", "refused", "prepare", "grants", "stage", "recheck", "upload", "send",
           "publish", "local_verify", "create", "save", "resume", "grant", "bind", "parts",
           "complete", "verify", "commit", "finish", "done"}
ClientSet == [pc : States, root : Encoded, sha : Encoded, upload : Nat, etags : PartMap,
              first : Nat, todo : SUBSET Parts, err : BOOLEAN, drop : BOOLEAN]
RunSet == [pc : {"idle", "abort", "record"}, upload : Nat, fence : Nat, ok : BOOLEAN]
TaskSet == [state : {"none", "active", "cleaning", "failed", "cleaned", "superseded"},
            upload : Nat, fence : Nat, lapsed : BOOLEAN]
IntentSet == [state : {"none", "prepared", "committed", "expired"}, root : Encoded]
JournalSet == [upload : Nat, sha : Encoded, etags : PartMap]
UploadSet == [open : BOOLEAN, parts : PartMap]

Typed ==
  /\ kind \in Kinds /\ source \in Contents /\ late \in BOOLEAN
  /\ intent \in IntentSet /\ evidence \in Encoded /\ staged \in Encoded
  /\ task \in TaskSet /\ journal \in JournalSet
  /\ object \in Bytes /\ copied \in PartMap /\ uploads \in Seq(UploadSet)
  /\ client \in [Clients -> ClientSet] /\ run \in [Runs -> RunSet]
  /\ edits \in 0..MaxEdits /\ attempts \in 0..MaxAttempts /\ faults \in 0..MaxFaults

\* Only uploads that were created are named.
Created ==
  /\ task.upload <= Len(uploads) /\ journal.upload <= Len(uploads)
  /\ \A c \in Clients : client[c].upload <= Len(uploads)
  /\ \A r \in Runs : run[r].upload <= Len(uploads)

LEMMA TypesSplit == TypeOK => Typed /\ Created
<1> SUFFICES ASSUME TypeOK PROVE Typed /\ Created
  OBVIOUS
<1>1. Typed
  BY DEF TypeOK, Typed, States, ClientSet, RunSet, TaskSet, IntentSet, JournalSet, UploadSet
<1>2. Len(uploads) \in Nat
  BY <1>1, LenProperties DEF Typed
<1>3. {task.upload, journal.upload} \cup {client[c].upload : c \in Clients}
        \cup {run[r].upload : r \in Runs} \subseteq 0..Len(uploads)
  BY DEF TypeOK
<1>4. Created
  BY <1>2, <1>3 DEF Created
<1> QED BY <1>1, <1>4

LEMMA TypesJoin == Typed' /\ Created' => TypeOK'
<1> SUFFICES ASSUME Typed', Created' PROVE TypeOK'
  OBVIOUS
<1>1. Len(uploads') \in Nat
  BY LenProperties DEF Typed
<1>2. task'.upload \in 0..Len(uploads') /\ journal'.upload \in 0..Len(uploads')
  BY <1>1 DEF Typed, Created, TaskSet, JournalSet
<1>3. \A c \in Clients : client'[c].upload \in 0..Len(uploads')
  BY <1>1 DEF Typed, Created, ClientSet
<1>4. \A r \in Runs : run'[r].upload \in 0..Len(uploads')
  BY <1>1 DEF Typed, Created, RunSet
<1> QED
  BY <1>2, <1>3, <1>4
  DEF TypeOK, Typed, States, ClientSet, RunSet, TaskSet, IntentSet, JournalSet, UploadSet

LEMMA NoPartsType == NoParts \in PartMap /\ NoJournal \in JournalSet /\ NoJournal.upload = 0
BY DEF NoParts, PartMap, Encoded, NoJournal, Journal, JournalSet

LEMMA UploadType ==
  ASSUME NEW open \in BOOLEAN, NEW parts \in PartMap
  PROVE  Upload(open, parts) \in UploadSet /\ Upload(open, parts).parts = parts
BY DEF Upload, UploadSet

LEMMA NoRunType == NoRun \in RunSet /\ NoRun.pc = "idle" /\ NoRun.upload = 0
BY DEF NoRun, Run, RunSet

LEMMA EndedType ==
  ASSUME NEW pc \in States, NEW root \in Encoded
  PROVE  /\ Ended(pc, root) \in ClientSet /\ Ended(pc, root).pc = pc
         /\ Ended(pc, root).upload = 0 /\ Ended(pc, root).root = root
BY NoPartsType DEF Ended, Client, ClientSet, Encoded

LEMMA AssembledType ==
  ASSUME NEW parts \in PartMap
  PROVE  Assembled(parts) \in Bytes
BY PutUploadAssumption DEF Assembled, PartMap, Encoded, Bytes, Parts

-----------------------------------------------------------------------------
(* What one step of put_file makes of the call *)

\* Only this call moves.
Moved(c) == /\ client' \in [Clients -> ClientSet]
            /\ \A d \in Clients \ {c} : client'[d] = client[d]

Kept(c) == /\ client'[c].root = client[c].root /\ client'[c].sha = client[c].sha
           /\ client'[c].upload = client[c].upload

LEMMA GotoEffect ==
  ASSUME Typed, NEW c \in Clients, NEW pc \in States, client' = Goto(c, pc)
  PROVE  Moved(c) /\ client'[c].pc = pc /\ Kept(c)
<1>1. client[c] \in ClientSet
  BY DEF Typed
<1>2. [client[c] EXCEPT !.pc = pc] \in ClientSet
  BY <1>1 DEF ClientSet
<1>3. client' = [client EXCEPT ![c] = [client[c] EXCEPT !.pc = pc]]
  BY DEF Goto
<1>4. client'[c] = [client[c] EXCEPT !.pc = pc]
  BY <1>3 DEF Typed
<1>5. Moved(c)
  BY <1>2, <1>3 DEF Typed, Moved
<1> QED BY <1>1, <1>4, <1>5 DEF Kept, ClientSet

LEMMA FailEffect ==
  ASSUME Typed, NEW c \in Clients, Fail(c)
  PROVE  Moved(c) /\ client'[c].pc = "idle" /\ client'[c].upload = 0
<1>1. Idle \in ClientSet /\ Idle.pc = "idle" /\ Idle.upload = 0
  BY EndedType DEF Idle, Encoded, States
<1> QED BY <1>1 DEF Fail, Typed, Moved

LEMMA RefuseEffect ==
  ASSUME Typed, NEW c \in Clients, Refuse(c)
  PROVE  Moved(c) /\ client'[c].pc = "refused" /\ client'[c].upload = 0
<1>1. client[c].root \in Encoded
  BY DEF Typed, ClientSet
<1>2. /\ Ended("refused", client[c].root) \in ClientSet
      /\ Ended("refused", client[c].root).pc = "refused"
      /\ Ended("refused", client[c].root).upload = 0
  BY <1>1, EndedType DEF States
<1> QED BY <1>2 DEF Refuse, Typed, Moved

\* What the hashes of the source are, and whether the object was read back.
SourceStep(c) ==
  \/ client'[c].pc \notin Prepared \cup {"prepare"}
  \/ client'[c].pc = "prepare" /\ client'[c].root = source
  \/ /\ client[c].pc = "prepare" /\ client'[c].pc = "grants" /\ Kept(c)
     /\ intent'.state # "none" /\ intent'.root = client[c].root
  \/ client[c].pc = "grants" /\ client'[c].pc = "stage" /\ Kept(c)
  \/ /\ client[c].pc = "stage" /\ client'[c].pc = "recheck"
     /\ client'[c].root = client[c].root /\ client'[c].sha = source
  \/ /\ client[c].pc = "recheck" /\ client'[c].pc = "upload" /\ Kept(c)
     /\ source = client[c].root
  \/ /\ client[c].pc \in Rechecked /\ client'[c].pc \in Rechecked
     /\ client'[c].root = client[c].root /\ client'[c].sha = client[c].sha
     /\ client'[c].pc = "commit" => object = client[c].sha

\* Where the upload of a call comes from.
UploadStep(c) ==
  /\ \/ client'[c].upload \in {0, client[c].upload, journal.upload}
     \/ client'[c].upload = Len(uploads) + 1 /\ Len(uploads') = Len(uploads) + 1
  /\ client'[c].pc \in InMultipart => Multipart \/ client[c].pc \in InMultipart
  /\ client'[c].pc \in HasUpload =>
       \/ client[c].pc \in HasUpload /\ client'[c].upload = client[c].upload
       \/ journal # NoJournal /\ client'[c].upload = journal.upload
       \/ client'[c].upload = Len(uploads) + 1

Effect(c) == Moved(c) /\ SourceStep(c) /\ UploadStep(c)

LEMMA StopsEffect ==
  ASSUME Typed, NEW c \in Clients, Fail(c) \/ Refuse(c)
  PROVE  Effect(c)
<1>1. Moved(c) /\ client'[c].pc \in {"idle", "refused"} /\ client'[c].upload = 0
  BY FailEffect, RefuseEffect
<1> QED BY <1>1 DEF Effect, SourceStep, UploadStep, Prepared, InMultipart, HasUpload

\* A step to another place with the same hashes and upload.
LEMMA GoesOnEffect ==
  ASSUME Typed, NEW c \in Clients, NEW pc \in States, client' = Goto(c, pc),
         client[c].pc \in Rechecked, pc \in Rechecked \cup {"finish", "done"},
         pc = "commit" => object = client[c].sha,
         pc \in InMultipart => client[c].pc \in InMultipart \/ Multipart,
         pc \in HasUpload => client[c].pc \in HasUpload
  PROVE  Effect(c)
<1>1. Moved(c) /\ client'[c].pc = pc /\ Kept(c)
  BY GotoEffect
<1>2. SourceStep(c)
  BY <1>1 DEF SourceStep, Kept, Rechecked, Prepared
<1>3. UploadStep(c)
  BY <1>1 DEF UploadStep, Kept
<1> QED BY <1>1, <1>2, <1>3 DEF Effect

\* A step that changes fields of the call besides its place, and keeps the hashes.
LEMMA ChangesEffect ==
  ASSUME Typed, NEW c \in Clients, NEW k \in ClientSet,
         client' = [client EXCEPT ![c] = k],
         client[c].pc \in Rechecked, k.pc \in Rechecked \ {"commit"},
         k.root = client[c].root, k.sha = client[c].sha,
         k.upload = client[c].upload,
         k.pc \in InMultipart => client[c].pc \in InMultipart,
         k.pc \in HasUpload => client[c].pc \in HasUpload
  PROVE  Effect(c)
<1>1. Moved(c) /\ client'[c] = k
  BY DEF Typed, Moved
<1> QED BY <1>1 DEF Effect, SourceStep, UploadStep, Kept

LEMMA FirstEffects ==
  ASSUME Typed, NEW c \in Clients,
         BuildFile(c) \/ Prepare(c) \/ Grants(c) \/ Stage(c) \/ Recheck(c) \/ Finish(c)
  PROVE  Effect(c)
<1>1. ASSUME BuildFile(c) PROVE Effect(c)
  <2>1. /\ Ended("prepare", source) \in ClientSet /\ Ended("prepare", source).pc = "prepare"
        /\ Ended("prepare", source).upload = 0 /\ Ended("prepare", source).root = source
    BY EndedType DEF Typed, Encoded, States
  <2>2. client' = [client EXCEPT ![c] = Ended("prepare", source)]
    BY <1>1 DEF BuildFile
  <2>3. Moved(c) /\ client'[c] = Ended("prepare", source)
    BY <2>1, <2>2 DEF Moved, Typed
  <2> QED BY <2>1, <2>3 DEF Effect, SourceStep, UploadStep, InMultipart, HasUpload
<1>2. ASSUME Prepare(c) PROVE Effect(c)
  <2>1. client[c].pc = "prepare" /\ (Fail(c) \/ client' = Goto(c, "grants"))
    BY <1>2 DEF Prepare, At
  <2>2. ASSUME client' = Goto(c, "grants") PROVE Effect(c)
    <3>1. Moved(c) /\ client'[c].pc = "grants" /\ Kept(c)
      BY <2>2, GotoEffect DEF States
    <3>2. ~Fail(c)
      BY <3>1, FailEffect
    <3>3. intent'.state # "none" /\ intent'.root = client[c].root
      BY <1>2, <3>2 DEF Prepare, Intent, Replays
    <3> QED
      BY <2>1, <3>1, <3>3 DEF Effect, SourceStep, UploadStep, Kept, InMultipart, HasUpload
  <2> QED BY <2>1, <2>2, StopsEffect
<1>3. ASSUME Grants(c) PROVE Effect(c)
  <2>1. client[c].pc = "grants" /\ (Refuse(c) \/ client' = Goto(c, "stage"))
    BY <1>3 DEF Grants, At
  <2>2. ASSUME client' = Goto(c, "stage") PROVE Effect(c)
    <3>1. Moved(c) /\ client'[c].pc = "stage" /\ Kept(c)
      BY <2>2, GotoEffect DEF States
    <3> QED BY <2>1, <3>1 DEF Effect, SourceStep, UploadStep, Kept, InMultipart, HasUpload
  <2> QED BY <2>1, <2>2, StopsEffect
<1>4. ASSUME Stage(c) PROVE Effect(c)
  <2> DEFINE k == [client[c] EXCEPT !.pc = "recheck", !.sha = source]
  <2>1. client[c].pc = "stage" /\ client[c] \in ClientSet /\ source \in Encoded
    BY <1>4 DEF Stage, At, Typed, Encoded
  <2>2. /\ k \in ClientSet /\ k.pc = "recheck" /\ k.root = client[c].root /\ k.sha = source
        /\ k.upload = client[c].upload
    BY <2>1 DEF ClientSet, States
  <2>3. client' = [client EXCEPT ![c] = k]
    BY <1>4 DEF Stage
  <2>4. Moved(c) /\ client'[c] = k
    BY <2>2, <2>3 DEF Moved, Typed
  <2> HIDE DEF k
  <2> QED BY <2>1, <2>2, <2>4 DEF Effect, SourceStep, UploadStep, InMultipart, HasUpload
<1>5. ASSUME Recheck(c) PROVE Effect(c)
  <2>1. /\ client[c].pc = "recheck"
        /\ Fail(c) \/ (source = client[c].root /\ client' = Goto(c, "upload"))
    BY <1>5 DEF Recheck, At
  <2>2. ASSUME source = client[c].root, client' = Goto(c, "upload") PROVE Effect(c)
    <3>1. Moved(c) /\ client'[c].pc = "upload" /\ Kept(c)
      BY <2>2, GotoEffect DEF States
    <3> QED BY <2>1, <2>2, <3>1 DEF Effect, SourceStep, UploadStep, Kept, InMultipart, HasUpload
  <2> QED BY <2>1, <2>2, StopsEffect
<1>6. ASSUME Finish(c) PROVE Effect(c)
  <2>1. Fail(c) \/ client' = Goto(c, "done")
    BY <1>6 DEF Finish, Fail
  <2>2. ASSUME client' = Goto(c, "done") PROVE Effect(c)
    <3>1. Moved(c) /\ client'[c].pc = "done" /\ Kept(c)
      BY <2>2, GotoEffect DEF States
    <3> QED
      BY <3>1 DEF Effect, SourceStep, UploadStep, Kept, Prepared, InMultipart, HasUpload
  <2> QED BY <2>1, <2>2, StopsEffect
<1> QED BY <1>1, <1>2, <1>3, <1>4, <1>5, <1>6

LEMMA DriverEffects ==
  ASSUME Typed, NEW c \in Clients,
         \/ AliyunCreate(c) \/ AliyunSend(c) \/ AliyunComplete(c) \/ CopyPart(c)
         \/ LinkObject(c) \/ LocalVerify(c) \/ PutObject(c) \/ Verify(c) \/ Commit(c) \/ Stop(c)
  PROVE  Effect(c)
<1> USE DEF States, Rechecked, Prepared, InMultipart, HasUpload
<1>1. ASSUME AliyunCreate(c) PROVE Effect(c)
  <2>1. /\ client[c].pc = "upload"
        /\ client' = Goto(c, "send") \/ client' = Goto(c, "verify")
    BY <1>1 DEF AliyunCreate, At
  <2> QED BY <2>1, GoesOnEffect
<1>2. ASSUME AliyunSend(c) PROVE Effect(c)
  <2> DEFINE e == [p \in Parts |-> staged]
             k == [client[c] EXCEPT !.pc = "publish", !.etags = e]
  <2>1. /\ client[c].pc = "send"
        /\ Fail(c) \/ client' = [client EXCEPT ![c] = k]
    BY <1>2 DEF AliyunSend, At
  <2>2. client[c] \in ClientSet /\ e \in PartMap
    BY DEF Typed, PartMap
  <2> HIDE DEF e
  <2>3. /\ k \in ClientSet /\ k.pc = "publish" /\ k.root = client[c].root
        /\ k.sha = client[c].sha /\ k.upload = client[c].upload
    BY <2>2 DEF ClientSet
  <2> HIDE DEF k
  <2>4. CASE client' = [client EXCEPT ![c] = k]
    BY <2>1, <2>3, <2>4, ChangesEffect
  <2> QED BY <2>1, <2>4, StopsEffect
<1>3. ASSUME AliyunComplete(c) PROVE Effect(c)
  <2>1. client[c].pc = "publish" /\ (Fail(c) \/ client' = Goto(c, "verify"))
    BY <1>3 DEF AliyunComplete, At
  <2> QED BY <2>1, StopsEffect, GoesOnEffect
<1>4. ASSUME CopyPart(c) PROVE Effect(c)
  <2>1. client[c].pc = "upload" /\ (Fail(c) \/ client' = client)
    BY <1>4 DEF CopyPart, At
  <2>2. CASE client' = client
    BY <2>1, <2>2 DEF Effect, Moved, SourceStep, UploadStep, Typed
  <2> QED BY <2>1, <2>2, StopsEffect
<1>5. ASSUME LinkObject(c) PROVE Effect(c)
  <2>1. client[c].pc = "upload" /\ client' = Goto(c, "local_verify")
    BY <1>5 DEF LinkObject, At
  <2> QED BY <2>1, GoesOnEffect
<1>6. ASSUME LocalVerify(c) PROVE Effect(c)
  <2>1. /\ client[c].pc = "local_verify"
        /\ Fail(c) \/ (object = client[c].sha /\ client' = Goto(c, "commit"))
    BY <1>6 DEF LocalVerify, At, ReadBack
  <2> QED BY <2>1, StopsEffect, GoesOnEffect
<1>7. ASSUME PutObject(c) PROVE Effect(c)
  <2>1. client[c].pc = "upload" /\ (Fail(c) \/ client' = Goto(c, "verify"))
    BY <1>7 DEF PutObject, At
  <2> QED BY <2>1, StopsEffect, GoesOnEffect
<1>8. ASSUME Verify(c) PROVE Effect(c)
  <2>1. /\ client[c].pc = "verify"
        /\ Fail(c) \/ (object = client[c].sha /\ client' = Goto(c, "commit"))
    BY <1>8 DEF Verify, At, ReadBack
  <2> QED BY <2>1, StopsEffect, GoesOnEffect
<1>9. ASSUME Commit(c) PROVE Effect(c)
  <2>1. client[c].pc = "commit" /\ (Fail(c) \/ client' = Goto(c, "finish"))
    BY <1>9 DEF Commit, At
  <2> QED BY <2>1, StopsEffect, GoesOnEffect
<1>10. ASSUME Stop(c) PROVE Effect(c)
  BY <1>10, StopsEffect DEF Stop
<1> QED BY <1>1, <1>2, <1>3, <1>4, <1>5, <1>6, <1>7, <1>8, <1>9, <1>10

LEMMA MultipartEffects ==
  ASSUME Typed, NEW c \in Clients,
         \/ LoadJournal(c) \/ CreateMultipart(c) \/ SaveCreated(c) \/ Resume(c)
         \/ MultipartGrant(c) \/ Bind(c) \/ PutPart(c) \/ SaveBatch(c) \/ Complete(c)
  PROVE  Effect(c)
<1> USE DEF States, Rechecked, Prepared, InMultipart, HasUpload
<1>0. client[c] \in ClientSet
  BY DEF Typed
<1>1. ASSUME LoadJournal(c) PROVE Effect(c)
  <2> DEFINE k == [client[c] EXCEPT !.pc = "resume", !.upload = journal.upload,
                                    !.etags = journal.etags]
  <2>1. /\ client[c].pc = "upload" /\ Multipart
        /\ \/ Fail(c)
           \/ client' = Goto(c, "create")
           \/ journal # NoJournal /\ client' = [client EXCEPT ![c] = k]
    BY <1>1 DEF LoadJournal, At
  <2>2. /\ k \in ClientSet /\ k.pc = "resume" /\ k.root = client[c].root
        /\ k.sha = client[c].sha /\ k.upload = journal.upload
    BY <1>0 DEF ClientSet, Typed, JournalSet
  <2> HIDE DEF k
  <2>3. CASE journal # NoJournal /\ client' = [client EXCEPT ![c] = k]
    <3>1. Moved(c) /\ client'[c] = k
      BY <2>2, <2>3 DEF Typed, Moved
    <3> QED BY <2>1, <2>2, <2>3, <3>1 DEF Effect, SourceStep, UploadStep
  <2> QED BY <2>1, <2>3, StopsEffect, GoesOnEffect
<1>2. ASSUME CreateMultipart(c) PROVE Effect(c)
  <2> DEFINE k == [client[c] EXCEPT !.pc = "save", !.upload = Len(uploads) + 1]
  <2>1. /\ client[c].pc = "create"
        /\ \/ Fail(c)
           \/ client' = Goto(c, "verify")
           \/ /\ uploads' = Append(uploads, Upload(TRUE, NoParts))
              /\ client' = [client EXCEPT ![c] = k]
    BY <1>2 DEF CreateMultipart, At
  <2>2. Len(uploads) + 1 \in Nat
    BY LenProperties DEF Typed
  <2>3. /\ k \in ClientSet /\ k.pc = "save" /\ k.root = client[c].root
        /\ k.sha = client[c].sha /\ k.upload = Len(uploads) + 1
    <3>1. \A x \in ClientSet, n \in Nat :
            LET y == [x EXCEPT !.pc = "save", !.upload = n] IN
            y \in ClientSet /\ y.pc = "save" /\ y.root = x.root /\ y.sha = x.sha /\ y.upload = n
      BY ZenonT(60) DEF ClientSet
    <3> QED BY <1>0, <2>2, <3>1
  <2> HIDE DEF k
  <2>4. CASE /\ uploads' = Append(uploads, Upload(TRUE, NoParts))
             /\ client' = [client EXCEPT ![c] = k]
    <3>1. Moved(c) /\ client'[c] = k
      BY <2>3, <2>4 DEF Typed, Moved
    <3>2. Len(uploads') = Len(uploads) + 1
      BY <2>4, UploadType, NoPartsType DEF Typed
    <3> QED BY <2>1, <2>3, <3>1, <3>2 DEF Effect, SourceStep, UploadStep
  <2> QED BY <2>1, <2>4, StopsEffect, GoesOnEffect
<1>3. ASSUME SaveCreated(c) PROVE Effect(c)
  <2>1. client[c].pc = "save" /\ client' = Goto(c, "resume")
    BY <1>3 DEF SaveCreated, At
  <2> QED BY <2>1, GoesOnEffect
<1>4. ASSUME Resume(c) PROVE Effect(c)
  <2>1. /\ client[c].pc = "resume"
        /\ \/ Fail(c)
           \/ client' = Goto(c, "grant")
           \/ object = client[c].sha /\ client' = Goto(c, "commit")
    BY <1>4 DEF Resume, At, ReadBack
  <2> QED BY <2>1, StopsEffect, GoesOnEffect
<1>5. ASSUME MultipartGrant(c) PROVE Effect(c)
  <2>1. client[c].pc = "grant" /\ (Refuse(c) \/ client' = Goto(c, "bind"))
    BY <1>5 DEF MultipartGrant, At
  <2> QED BY <2>1, StopsEffect, GoesOnEffect
<1>6. ASSUME Bind(c) PROVE Effect(c)
  <2> DEFINE t == {p \in BatchFrom(client[c].first) : client[c].etags[p] = None}
             k == [client[c] EXCEPT !.pc = "parts", !.todo = t]
  <2>1. client[c].pc = "bind" /\ (Refuse(c) \/ client' = [client EXCEPT ![c] = k])
    BY <1>6 DEF Bind, At
  <2>2. t \in SUBSET Parts
    BY DEF BatchFrom
  <2> HIDE DEF t
  <2>3. /\ k \in ClientSet /\ k.pc = "parts" /\ k.root = client[c].root
        /\ k.sha = client[c].sha /\ k.upload = client[c].upload
    BY <1>0, <2>2 DEF ClientSet
  <2> HIDE DEF k
  <2>4. CASE client' = [client EXCEPT ![c] = k]
    BY <2>1, <2>3, <2>4, ChangesEffect
  <2> QED BY <2>1, <2>4, StopsEffect
<1>7. ASSUME PutPart(c) PROVE Effect(c)
  <2>1. PICK p \in client[c].todo :
          /\ client[c].pc = "parts"
          /\ \/ client' = [client EXCEPT ![c].todo = @ \ {p}, ![c].etags[p] = staged]
             \/ client' = [client EXCEPT ![c].todo = @ \ {p}, ![c].err = TRUE]
    BY <1>7 DEF PutPart, At
  <2> DEFINE t == client[c].todo \ {p}
             e == [client[c].etags EXCEPT ![p] = staged]
             k == [client[c] EXCEPT !.todo = t, !.etags = e]
             f == [client[c] EXCEPT !.todo = t, !.err = TRUE]
  <2>2. t \in SUBSET Parts /\ e \in PartMap
    BY <1>0 DEF ClientSet, Typed, PartMap
  <2>3. client' = [client EXCEPT ![c] = k] \/ client' = [client EXCEPT ![c] = f]
    <3>1. CASE client' = [client EXCEPT ![c].todo = @ \ {p}, ![c].etags[p] = staged]
      BY <1>0, <3>1, Zenon DEF ClientSet, Typed
    <3>2. CASE client' = [client EXCEPT ![c].todo = @ \ {p}, ![c].err = TRUE]
      BY <3>2
    <3> QED BY <2>1, <3>1, <3>2
  <2> HIDE DEF t, e
  <2>4. /\ k \in ClientSet /\ k.pc = client[c].pc /\ k.root = client[c].root
        /\ k.sha = client[c].sha /\ k.upload = client[c].upload
    BY <1>0, <2>2 DEF ClientSet
  <2>5. /\ f \in ClientSet /\ f.pc = client[c].pc /\ f.root = client[c].root
        /\ f.sha = client[c].sha /\ f.upload = client[c].upload
    BY <1>0, <2>2 DEF ClientSet
  <2> HIDE DEF k, f
  <2>6. CASE client' = [client EXCEPT ![c] = k]
    BY <2>1, <2>4, <2>6, ChangesEffect
  <2>7. CASE client' = [client EXCEPT ![c] = f]
    BY <2>1, <2>5, <2>7, ChangesEffect
  <2> QED BY <2>3, <2>6, <2>7
<1>8. ASSUME SaveBatch(c) PROVE Effect(c)
  <2> DEFINE k == [client[c] EXCEPT !.pc = "grant", !.first = client[c].first + Batch]
  <2>1. /\ client[c].pc = "parts"
        /\ Fail(c) \/ client' = Goto(c, "complete") \/ client' = [client EXCEPT ![c] = k]
    BY <1>8 DEF SaveBatch, At
  <2>2. client[c].first + Batch \in Nat
    BY <1>0, PutUploadAssumption DEF ClientSet
  <2>3. /\ k \in ClientSet /\ k.pc = "grant" /\ k.root = client[c].root
        /\ k.sha = client[c].sha /\ k.upload = client[c].upload
    BY <1>0, <2>2 DEF ClientSet
  <2> HIDE DEF k
  <2>4. CASE client' = [client EXCEPT ![c] = k]
    BY <2>1, <2>3, <2>4, ChangesEffect
  <2> QED BY <2>1, <2>4, StopsEffect, GoesOnEffect
<1>9. ASSUME Complete(c) PROVE Effect(c)
  <2> DEFINE k == [client[c] EXCEPT !.pc = "verify", !.drop = TRUE]
  <2>1. client[c].pc = "complete" /\ (Fail(c) \/ client' = [client EXCEPT ![c] = k])
    BY <1>9 DEF Complete, At
  <2>2. /\ k \in ClientSet /\ k.pc = "verify" /\ k.root = client[c].root
        /\ k.sha = client[c].sha /\ k.upload = client[c].upload
    BY <1>0 DEF ClientSet
  <2> HIDE DEF k
  <2>3. CASE client' = [client EXCEPT ![c] = k]
    BY <2>1, <2>2, <2>3, ChangesEffect
  <2> QED BY <2>1, <2>3, StopsEffect
<1> QED BY <1>1, <1>2, <1>3, <1>4, <1>5, <1>6, <1>7, <1>8, <1>9

LEMMA PutFileEffect ==
  ASSUME Typed, NEW c \in Clients, PutFile(c)
  PROVE  Effect(c)
BY FirstEffects, DriverEffects, MultipartEffects DEF PutFile

-----------------------------------------------------------------------------
(* What a step makes of the uploads at the provider *)

\* Uploads are never forgotten, and parts come from a process that sends them
\* through a live URL to the upload it named.
UploadsStep ==
  /\ uploads' \in Seq(UploadSet) /\ Len(uploads) <= Len(uploads')
  /\ \A u \in 1..Len(uploads') :
       \/ uploads'[u].parts = NoParts
       \/ u \in 1..Len(uploads) /\ uploads'[u] = uploads[u]
       \/ \E c \in Clients : client[c].pc = "parts" /\ UrlLive /\ u = client[c].upload

LEMMA SameUploads ==
  ASSUME Typed, uploads' = uploads
  PROVE  UploadsStep
<1>1. Len(uploads) \in Nat
  BY LenProperties DEF Typed
<1> QED BY <1>1 DEF UploadsStep, Typed

\* One upload changes.
LEMMA OneUpload ==
  ASSUME Typed, NEW u \in 1..Len(uploads), NEW x \in UploadSet,
         uploads' = [uploads EXCEPT ![u] = x]
  PROVE  /\ uploads' \in Seq(UploadSet) /\ Len(uploads') = Len(uploads)
         /\ uploads'[u] = x /\ \A v \in 1..Len(uploads) \ {u} : uploads'[v] = uploads[v]
<1>1. uploads \in Seq(UploadSet) /\ DOMAIN uploads = 1..Len(uploads)
  BY LenProperties DEF Typed
<1>2. uploads' \in Seq(UploadSet) /\ Len(uploads') = Len(uploads)
  BY <1>1, ExceptSeq
<1> QED BY <1>1, <1>2

LEMMA CreateUploads ==
  ASSUME Typed, NEW c \in Clients, CreateMultipart(c)
  PROVE  UploadsStep
<1>1. uploads' = uploads \/ uploads' = Append(uploads, Upload(TRUE, NoParts))
  BY DEF CreateMultipart
<1>2. Upload(TRUE, NoParts) \in UploadSet /\ Upload(TRUE, NoParts).parts = NoParts
  BY UploadType, NoPartsType
<1>3. ASSUME uploads' = Append(uploads, Upload(TRUE, NoParts)) PROVE UploadsStep
  <2>1. uploads \in Seq(UploadSet) /\ Len(uploads) \in Nat
    BY LenProperties DEF Typed
  <2>2. /\ uploads' \in Seq(UploadSet) /\ Len(uploads') = Len(uploads) + 1
        /\ \A u \in 1..Len(uploads) : uploads'[u] = uploads[u]
        /\ uploads'[Len(uploads) + 1] = Upload(TRUE, NoParts)
    <3> DEFINE e == Upload(TRUE, NoParts)
    <3>1. uploads' = Append(uploads, e) /\ e \in UploadSet
      BY <1>2, <1>3
    <3> HIDE DEF e
    <3>2. /\ Append(uploads, e) \in Seq(UploadSet) /\ Len(Append(uploads, e)) = Len(uploads) + 1
          /\ \A u \in 1..Len(uploads) : Append(uploads, e)[u] = uploads[u]
          /\ Append(uploads, e)[Len(uploads) + 1] = e
      BY <2>1, <3>1, AppendProperties
    <3> QED BY <3>1, <3>2 DEF e
  <2>3. uploads'[Len(uploads) + 1].parts = NoParts
    BY <1>2, <2>2
  <2>4. \A u \in 1..Len(uploads') : u = Len(uploads) + 1 \/ u \in 1..Len(uploads)
    BY <2>1, <2>2
  <2>5. \A u \in 1..Len(uploads') :
          uploads'[u].parts = NoParts \/ (u \in 1..Len(uploads) /\ uploads'[u] = uploads[u])
    BY <2>1, <2>2, <2>3, <2>4
  <2>6. uploads' \in Seq(UploadSet) /\ Len(uploads) <= Len(uploads')
    BY <2>1, <2>2
  <2> QED BY <2>5, <2>6 DEF UploadsStep
<1> QED BY <1>1, <1>3, SameUploads

LEMMA PartUploads ==
  ASSUME Typed, Created, MultipartInv, NEW c \in Clients, PutPart(c)
  PROVE  UploadsStep
<1>1. PICK p \in client[c].todo :
        /\ client[c].pc = "parts"
        /\ \/ UrlLive /\ uploads' = [uploads EXCEPT ![client[c].upload].parts[p] = staged]
           \/ uploads' = uploads
  BY DEF PutPart, At
<1>2. ASSUME UrlLive, uploads' = [uploads EXCEPT ![client[c].upload].parts[p] = staged]
      PROVE  UploadsStep
  <2>1. client[c] \in ClientSet /\ staged \in Encoded
    BY DEF Typed
  <2>2. client[c].upload > 0 /\ client[c].upload <= Len(uploads) /\ client[c].upload \in Nat
    BY <1>1, <2>1 DEF MultipartInv, HasUpload, InMultipart, Created, ClientSet
  <2>3. PICK u \in 1..Len(uploads) : u = client[c].upload
    BY <2>2, LenProperties DEF Typed
  <2>4. uploads[u] \in UploadSet
    BY LenProperties DEF Typed
  <2>5. PICK x : x = [uploads[u] EXCEPT !.parts = [uploads[u].parts EXCEPT ![p] = staged]]
    OBVIOUS
  <2>6. x \in UploadSet
    <3>1. p \in Parts /\ uploads[u].parts \in PartMap
      BY <2>1, <2>4 DEF ClientSet, UploadSet
    <3>2. [uploads[u].parts EXCEPT ![p] = staged] \in PartMap
      BY <2>1, <3>1 DEF PartMap
    <3> QED BY <2>4, <2>5, <3>2 DEF UploadSet
  <2>7. uploads' = [uploads EXCEPT ![u] = x]
    BY <1>2, <2>3, <2>4, <2>5, Zenon DEF UploadSet
  <2>8. /\ uploads' \in Seq(UploadSet) /\ Len(uploads') = Len(uploads)
        /\ \A v \in 1..Len(uploads) \ {u} : uploads'[v] = uploads[v]
    BY <2>6, <2>7, OneUpload
  <2>9. Len(uploads) \in Nat
    BY LenProperties DEF Typed
  <2> QED BY <1>1, <1>2, <2>3, <2>8, <2>9 DEF UploadsStep
<1> QED BY <1>1, <1>2, SameUploads

LEMMA CompleteUploads ==
  ASSUME Typed, Created, MultipartInv, NEW c \in Clients, Complete(c)
  PROVE  UploadsStep
<1>1. /\ client[c].pc = "complete"
      /\ \/ uploads' = uploads
         \/ uploads' = [uploads EXCEPT ![client[c].upload] = Upload(FALSE, NoParts)]
  BY DEF Complete, At
<1>2. PICK u \in 1..Len(uploads) : u = client[c].upload
  BY <1>1, LenProperties DEF MultipartInv, HasUpload, InMultipart, Created, Typed, ClientSet
<1>3. Upload(FALSE, NoParts) \in UploadSet /\ Upload(FALSE, NoParts).parts = NoParts
  BY UploadType, NoPartsType
<1>4. ASSUME uploads' = [uploads EXCEPT ![u] = Upload(FALSE, NoParts)] PROVE UploadsStep
  <2>1. /\ uploads' \in Seq(UploadSet) /\ Len(uploads') = Len(uploads)
        /\ uploads'[u] = Upload(FALSE, NoParts)
        /\ \A v \in 1..Len(uploads) \ {u} : uploads'[v] = uploads[v]
    BY <1>3, <1>4, OneUpload
  <2>2. Len(uploads) \in Nat
    BY LenProperties DEF Typed
  <2>3. uploads'[u].parts = NoParts
    BY <1>3, <2>1
  <2>5. \A v \in 1..Len(uploads') :
          uploads'[v].parts = NoParts \/ (v \in 1..Len(uploads) /\ uploads'[v] = uploads[v])
    BY <2>1, <2>2, <2>3
  <2>6. uploads' \in Seq(UploadSet) /\ Len(uploads) <= Len(uploads')
    BY <2>1, <2>2
  <2> QED BY <2>5, <2>6 DEF UploadsStep
<1> QED BY <1>1, <1>2, <1>4, SameUploads

LEMMA AbortUploads ==
  ASSUME Typed, NEW upload \in Nat, uploads' = Aborted(upload)
  PROVE  UploadsStep /\ (upload \in 1..Len(uploads) => uploads'[upload].parts = NoParts)
<1>1. /\ uploads \in Seq(UploadSet) /\ DOMAIN uploads = 1..Len(uploads) /\ Len(uploads) \in Nat
      /\ \A u \in 1..Len(uploads) : uploads[u] \in UploadSet
  BY LenProperties DEF Typed
<1>2. Upload(FALSE, NoParts) \in UploadSet /\ Upload(FALSE, NoParts).parts = NoParts
  BY UploadType, NoPartsType
<1>3. uploads' = [u \in 1..Len(uploads) |->
                    IF u = upload THEN Upload(FALSE, NoParts) ELSE uploads[u]]
  BY <1>1 DEF Aborted
<1>4. uploads' \in [1..Len(uploads) -> UploadSet]
  BY <1>1, <1>2, <1>3
<1>5. uploads' \in Seq(UploadSet) /\ Len(uploads') = Len(uploads)
  BY <1>1, <1>4, SeqDef, LenProperties
<1>6. upload \in 1..Len(uploads) => uploads'[upload].parts = NoParts
  <2>1. upload \in 1..Len(uploads) => uploads'[upload] = Upload(FALSE, NoParts)
    BY <1>3
  <2> QED BY <1>2, <2>1
<1>7. \A u \in 1..Len(uploads) : u # upload => uploads'[u] = uploads[u]
  BY <1>3
<1> QED BY <1>1, <1>5, <1>6, <1>7 DEF UploadsStep

LEMMA PutFileUploads ==
  ASSUME Typed, Created, MultipartInv, NEW c \in Clients, PutFile(c)
  PROVE  UploadsStep
<1>1. \/ uploads' = uploads \/ CreateMultipart(c) \/ PutPart(c) \/ Complete(c)
  BY DEF PutFile, BuildFile, Prepare, Grants, Stage, Recheck, AliyunCreate, AliyunSend,
         AliyunComplete, CopyPart, LinkObject, LocalVerify, PutObject, LoadJournal, SaveCreated,
         Resume, MultipartGrant, Bind, SaveBatch, Verify, Commit, Finish, Stop, provider
<1> QED BY <1>1, SameUploads, CreateUploads, PartUploads, CompleteUploads

-----------------------------------------------------------------------------
(* Types are kept *)

\* The variables besides client, run and uploads.
Rest ==
  /\ kind \in Kinds /\ source \in Contents /\ late \in BOOLEAN
  /\ intent \in IntentSet /\ evidence \in Encoded /\ staged \in Encoded
  /\ task \in TaskSet /\ journal \in JournalSet /\ object \in Bytes /\ copied \in PartMap
  /\ edits \in 0..MaxEdits /\ attempts \in 0..MaxAttempts /\ faults \in 0..MaxFaults

\* The rows and the journal name uploads that were there before the step.
Named == task'.upload <= Len(uploads) /\ journal'.upload <= Len(uploads)

LEMMA FirstRest ==
  ASSUME Typed, Created, NEW c \in Clients,
         BuildFile(c) \/ Prepare(c) \/ Grants(c) \/ Stage(c) \/ Recheck(c) \/ Finish(c) \/ Stop(c)
  PROVE  Rest' /\ Named
<1> USE DEF server, disk, provider, bounds
<1>0. /\ Rest /\ client[c] \in ClientSet
      /\ task.upload <= Len(uploads) /\ journal.upload <= Len(uploads)
  BY DEF Typed, Rest, Created
<1>1. CASE BuildFile(c)
  BY <1>0, <1>1, PutUploadAssumption DEF BuildFile, Rest, Named
<1>2. CASE Prepare(c)
  <2>1. Intent("prepared", client[c].root) \in IntentSet
    BY <1>0 DEF Intent, IntentSet, ClientSet
  <2> QED BY <1>0, <1>2, <2>1 DEF Prepare, Rest, Named
<1>3. CASE Grants(c)
  <2>1. /\ Task("active", 0, 0, FALSE) \in TaskSet /\ Task("active", 0, 0, FALSE).upload = 0
        /\ 0 <= Len(uploads)
    BY LenProperties DEF Task, TaskSet, Typed
  <2>2. task' = task \/ task' = Task("active", 0, 0, FALSE)
    BY <1>3 DEF Grants
  <2> QED BY <1>0, <1>3, <2>1, <2>2 DEF Grants, Rest, Named
<1>4. CASE Stage(c)
  BY <1>0, <1>4 DEF Stage, Rest, Named, Encoded
<1>5. CASE Recheck(c)
  BY <1>0, <1>5 DEF Recheck, Rest, Named, Encoded
<1>6. CASE Finish(c)
  BY <1>0, <1>6 DEF Finish, Rest, Named, Encoded
<1>7. CASE Stop(c)
  BY <1>0, <1>7 DEF Stop, Rest, Named
<1> QED BY <1>1, <1>2, <1>3, <1>4, <1>5, <1>6, <1>7

LEMMA DriverRest ==
  ASSUME Typed, Created, NEW c \in Clients,
         \/ AliyunCreate(c) \/ AliyunSend(c) \/ AliyunComplete(c) \/ CopyPart(c)
         \/ LinkObject(c) \/ LocalVerify(c) \/ PutObject(c) \/ Verify(c) \/ Commit(c)
  PROVE  Rest' /\ Named
<1> USE DEF server, disk, provider, bounds
<1>0. /\ Rest /\ client[c] \in ClientSet
      /\ task.upload <= Len(uploads) /\ journal.upload <= Len(uploads)
  BY DEF Typed, Rest, Created
<1>1. CASE AliyunCreate(c)
  BY <1>0, <1>1 DEF AliyunCreate, Rest, Named
<1>2. CASE AliyunSend(c)
  BY <1>0, <1>2 DEF AliyunSend, Rest, Named
<1>3. CASE AliyunComplete(c)
  <2>1. Assembled(client[c].etags) \in Bytes
    BY <1>0, AssembledType DEF ClientSet
  <2> QED BY <1>0, <1>3, <2>1 DEF AliyunComplete, Rest, Named
<1>4. CASE CopyPart(c)
  <2>1. PICK p \in Parts : copied' = copied \/ copied' = [copied EXCEPT ![p] = staged]
    BY <1>4 DEF CopyPart
  <2>2. copied' \in PartMap
    BY <1>0, <2>1 DEF Rest, PartMap
  <2> QED BY <1>0, <1>4, <2>2 DEF CopyPart, Rest, Named
<1>5. CASE LinkObject(c)
  <2>1. Assembled(copied) \in Bytes
    BY <1>0, AssembledType DEF Rest
  <2> QED BY <1>0, <1>5, <2>1 DEF LinkObject, Rest, Named
<1>6. CASE LocalVerify(c)
  BY <1>0, <1>6, NoPartsType DEF LocalVerify, Rest, Named
<1>7. CASE PutObject(c)
  BY <1>0, <1>7 DEF PutObject, Rest, Named, Encoded, Bytes
<1>8. CASE Verify(c)
  <2>1. journal' = journal \/ journal' = NoJournal
    BY <1>8 DEF Verify
  <2>2. 0 <= Len(uploads)
    BY LenProperties DEF Typed
  <2> QED BY <1>0, <1>8, <2>1, <2>2, NoPartsType DEF Verify, Rest, Named
<1>9. CASE Commit(c)
  <2>1. intent' = intent \/ intent' = [intent EXCEPT !.state = "committed"]
    BY <1>9 DEF Commit
  <2>2. task' = task \/ task' = [task EXCEPT !.state = "superseded", !.lapsed = FALSE]
    BY <1>9 DEF Commit
  <2>3. intent' \in IntentSet
    BY <1>0, <2>1 DEF Rest, IntentSet
  <2>4. task' \in TaskSet /\ task'.upload = task.upload
    <3>1. \A x \in TaskSet :
            LET y == [x EXCEPT !.state = "superseded", !.lapsed = FALSE] IN
            y \in TaskSet /\ y.upload = x.upload
      BY DEF TaskSet
    <3> QED BY <1>0, <2>2, <3>1 DEF Rest
  <2>5. evidence' \in Encoded
    BY <1>0, <1>9 DEF Commit, Rest, ClientSet
  <2> QED BY <1>0, <1>9, <2>3, <2>4, <2>5 DEF Commit, Rest, Named
<1> QED BY <1>1, <1>2, <1>3, <1>4, <1>5, <1>6, <1>7, <1>8, <1>9

LEMMA MultipartRest ==
  ASSUME Typed, Created, MultipartInv, NEW c \in Clients,
         \/ LoadJournal(c) \/ CreateMultipart(c) \/ SaveCreated(c) \/ Resume(c)
         \/ MultipartGrant(c) \/ Bind(c) \/ PutPart(c) \/ SaveBatch(c) \/ Complete(c)
  PROVE  Rest' /\ Named
<1> USE DEF server, disk, provider, bounds
<1>0. /\ Rest /\ client[c] \in ClientSet
      /\ task.upload <= Len(uploads) /\ journal.upload <= Len(uploads)
      /\ client[c].upload <= Len(uploads)
  BY DEF Typed, Rest, Created
<1>j. \A sha \in Encoded, etags \in PartMap :
        /\ Journal(client[c].upload, sha, etags) \in JournalSet
        /\ Journal(client[c].upload, sha, etags).upload = client[c].upload
  BY <1>0 DEF Journal, JournalSet, ClientSet
<1>1. CASE LoadJournal(c)
  BY <1>0, <1>1 DEF LoadJournal, Rest, Named
<1>2. CASE CreateMultipart(c)
  BY <1>0, <1>2 DEF CreateMultipart, Rest, Named
<1>3. CASE SaveCreated(c)
  <2>1. journal' \in JournalSet /\ journal'.upload = client[c].upload
    BY <1>0, <1>3, <1>j, NoPartsType DEF SaveCreated, ClientSet
  <2> QED BY <1>0, <1>3, <2>1 DEF SaveCreated, Rest, Named
<1>4. CASE Resume(c)
  <2>1. journal' = journal \/ journal' = NoJournal
    BY <1>4 DEF Resume
  <2>2. 0 <= Len(uploads)
    BY LenProperties DEF Typed
  <2> QED BY <1>0, <1>4, <2>1, <2>2, NoPartsType DEF Resume, Rest, Named
<1>5. CASE MultipartGrant(c)
  BY <1>0, <1>5 DEF MultipartGrant, Rest, Named
<1>6. CASE Bind(c)
  <2>1. task' = task \/ task' = [task EXCEPT !.upload = client[c].upload]
    BY <1>6 DEF Bind
  <2>2. task' \in TaskSet /\ task'.upload \in {task.upload, client[c].upload}
    BY <1>0, <2>1 DEF Rest, TaskSet, ClientSet
  <2> QED BY <1>0, <1>6, <2>2 DEF Bind, Rest, Named
<1>7. CASE PutPart(c)
  BY <1>0, <1>7 DEF PutPart, Rest, Named
<1>8. CASE SaveBatch(c)
  <2>1. journal' \in JournalSet /\ journal'.upload = client[c].upload
    BY <1>0, <1>8, <1>j DEF SaveBatch, ClientSet
  <2> QED BY <1>0, <1>8, <2>1 DEF SaveBatch, Rest, Named
<1>9. CASE Complete(c)
  <2>1. object' = object \/ object' = Assembled(uploads[client[c].upload].parts)
    BY <1>9 DEF Complete
  <2>2. uploads[client[c].upload] \in UploadSet
    BY <1>0, <1>9, LenProperties
    DEF Complete, At, MultipartInv, HasUpload, InMultipart, Typed, ClientSet
  <2>3. object' \in Bytes
    BY <1>0, <2>1, <2>2, AssembledType DEF Rest, UploadSet
  <2> QED BY <1>0, <1>9, <2>3 DEF Complete, Rest, Named
<1> QED BY <1>1, <1>2, <1>3, <1>4, <1>5, <1>6, <1>7, <1>8, <1>9

LEMMA PutFileTypes ==
  ASSUME TypeOK, MultipartInv, NEW c \in Clients, PutFile(c)
  PROVE  Typed' /\ Created' /\ run' = run /\ UploadsStep /\ Effect(c)
<1>0. Typed /\ Created
  BY TypesSplit
<1>1. Rest' /\ Named
  BY <1>0, FirstRest, DriverRest, MultipartRest DEF PutFile
<1>2. UploadsStep /\ Effect(c)
  BY <1>0, PutFileUploads, PutFileEffect
<1>3. run' = run
  BY ZenonT(60) DEF PutFile, BuildFile, Prepare, Grants, Stage, Recheck, AliyunCreate, AliyunSend,
         AliyunComplete, CopyPart, LinkObject, LocalVerify, PutObject, LoadJournal, SaveCreated,
         CreateMultipart, Resume, MultipartGrant, Bind, PutPart, SaveBatch, Complete, Verify,
         Commit, Finish, Stop
<1>4. Typed'
  BY <1>0, <1>1, <1>2, <1>3 DEF Typed, Rest, UploadsStep, Effect, Moved
<1>5. Len(uploads) \in Nat /\ Len(uploads') \in Nat /\ Len(uploads) <= Len(uploads')
  BY <1>0, <1>2, LenProperties DEF Typed, UploadsStep
<1>6. \A d \in Clients : client'[d].upload <= Len(uploads')
  <2>1. client'[c].upload <= Len(uploads')
    BY <1>0, <1>2, <1>5 DEF Effect, UploadStep, Created, Typed, ClientSet, JournalSet
  <2>2. \A d \in Clients \ {c} : client'[d].upload <= Len(uploads')
    BY <1>0, <1>2, <1>5 DEF Effect, Moved, Created, Typed, ClientSet
  <2> QED BY <2>1, <2>2
<1>7. \A r \in Runs : run'[r].upload <= Len(uploads')
  BY <1>0, <1>3, <1>5 DEF Created, Typed, RunSet
<1>8. task'.upload <= Len(uploads') /\ journal'.upload <= Len(uploads')
  BY <1>1, <1>4, <1>5 DEF Named, Typed, TaskSet, JournalSet
<1>9. Created'
  BY <1>6, <1>7, <1>8 DEF Created
<1> QED BY <1>2, <1>3, <1>4, <1>9

\* Time, the source's owner and the cron.
Background ==
  \/ \E r \in Runs : Cleanup(r) \/ Die(r)
  \/ Edit \/ Late \/ Expire \/ Lapse \/ Stall \/ Retire

LEMMA BackgroundTypes ==
  ASSUME TypeOK, Background
  PROVE  /\ Typed' /\ Created' /\ UploadsStep
         /\ client' = client /\ kind' = kind /\ object' = object /\ evidence' = evidence
         /\ journal' = journal
<1> USE DEF server, disk, provider, bounds
<1>0. Typed /\ Created
  BY TypesSplit
<1>1. /\ client' = client /\ kind' = kind /\ object' = object /\ evidence' = evidence
      /\ journal' = journal /\ staged' = staged /\ copied' = copied
  BY DEF Background, Cleanup, Claim, Abort, Record, Die, Edit, Late, Expire, Lapse, Stall, Retire
<1>2. UploadsStep /\ Len(uploads') = Len(uploads)
  <2>1. CASE uploads' = uploads
    BY <1>0, <2>1, SameUploads
  <2>2. CASE uploads' # uploads
    <3>1. PICK r \in Runs : uploads' = Aborted(run[r].upload)
      BY <2>2 DEF Background, Cleanup, Claim, Abort, Record, Die, Edit, Late, Expire, Lapse,
                  Stall, Retire
    <3>2. PICK u \in Nat : u = run[r].upload
      BY <1>0 DEF Typed, RunSet
    <3>3. uploads' = Aborted(u)
      BY <3>1, <3>2
    <3>4. DOMAIN uploads = 1..Len(uploads) /\ DOMAIN uploads' = DOMAIN uploads
          /\ Len(uploads) \in Nat
      BY <1>0, <3>3, LenProperties DEF Typed, Aborted
    <3>5. UploadsStep
      BY <1>0, <3>3, AbortUploads
    <3>6. Len(uploads') = Len(uploads)
      BY <3>4, <3>5, LenProperties DEF UploadsStep
    <3> QED BY <3>5, <3>6
  <2> QED BY <2>1, <2>2
<1>3. /\ source' \in Contents /\ late' \in BOOLEAN
      /\ edits' \in 0..MaxEdits /\ attempts' \in 0..MaxAttempts /\ faults' \in 0..MaxFaults
  <2>1. /\ source' = source \/ source' \in Contents
        /\ late' = late \/ late' = TRUE
        /\ attempts' = attempts
        /\ edits' = edits \/ (edits < MaxEdits /\ edits' = edits + 1)
        /\ faults' = faults \/ (faults < MaxFaults /\ faults' = faults + 1)
    BY DEF Background, Cleanup, Claim, Abort, Record, Die, Edit, Late, Expire, Lapse, Stall, Retire
  <2>2. late' \in BOOLEAN /\ source' \in Contents
    BY <1>0, <2>1, Zenon DEF Typed
  <2>3. /\ edits \in 0..MaxEdits /\ attempts \in 0..MaxAttempts /\ faults \in 0..MaxFaults
        /\ MaxEdits \in Nat /\ MaxFaults \in Nat
    BY <1>0, PutUploadAssumption DEF Typed
  <2>4. edits' \in 0..MaxEdits /\ attempts' \in 0..MaxAttempts /\ faults' \in 0..MaxFaults
    BY <2>1, <2>3
  <2> QED BY <2>2, <2>4
<1>4. intent' \in IntentSet
  <2>1. intent' = intent \/ intent' = [intent EXCEPT !.state = "expired"]
    BY DEF Background, Cleanup, Claim, Abort, Record, Die, Edit, Late, Expire, Lapse, Stall, Retire
  <2> QED BY <1>0, <2>1 DEF Typed, IntentSet
<1>5. task' \in TaskSet /\ task'.upload \in {0, task.upload}
  <2>1. \/ task' = task \/ task' = NoTask
        \/ task' = [task EXCEPT !.lapsed = TRUE]
        \/ \E s \in {"cleaning", "failed", "cleaned"}, f \in {task.fence, task.fence + 1} :
             task' = Task(s, task.upload, f, FALSE)
    BY DEF Background, Cleanup, Claim, Abort, Record, Die, Edit, Late, Expire, Lapse, Stall, Retire
  <2>2. \A s \in {"cleaning", "failed", "cleaned"}, u \in Nat, f \in Nat :
          Task(s, u, f, FALSE) \in TaskSet /\ Task(s, u, f, FALSE).upload = u
    BY DEF Task, TaskSet
  <2>3. NoTask \in TaskSet /\ NoTask.upload = 0
    BY DEF NoTask, Task, TaskSet
  <2>4. task.upload \in Nat /\ task.fence \in Nat /\ task.fence + 1 \in Nat
    BY <1>0 DEF Typed, TaskSet
  <2>5. ASSUME task' = [task EXCEPT !.lapsed = TRUE]
        PROVE  task' \in TaskSet /\ task'.upload = task.upload
    BY <1>0, <2>5 DEF Typed, TaskSet
  <2>6. ASSUME NEW s \in {"cleaning", "failed", "cleaned"},
               NEW f \in {task.fence, task.fence + 1}, task' = Task(s, task.upload, f, FALSE)
        PROVE  task' \in TaskSet /\ task'.upload = task.upload
    <3>1. f \in Nat
      BY <2>4
    <3>2. PICK u \in Nat : u = task.upload
      BY <2>4
    <3>3. task' = Task(s, u, f, FALSE)
      BY <2>6, <3>2
    <3> QED BY <2>2, <3>1, <3>2, <3>3, ZenonT(60)
  <2>7. task \in TaskSet
    BY <1>0 DEF Typed
  <2> QED BY <2>1, <2>3, <2>5, <2>6, <2>7
<1>6. run' \in [Runs -> RunSet] /\ \A r \in Runs : run'[r].upload <= Len(uploads)
  <2>0. /\ run \in [Runs -> RunSet] /\ \A r \in Runs : run[r].upload <= Len(uploads)
        /\ 0 <= Len(uploads)
    BY <1>0, LenProperties DEF Typed, Created
  <2>1. CASE run' = run
    BY <2>0, <2>1
  <2>2. CASE run' # run
    <3>1. PICK r \in Runs :
            \/ run' = [run EXCEPT ![r] = NoRun]
            \/ run' = [run EXCEPT ![r] = Run("abort", task.upload, task.fence + 1, FALSE)]
            \/ run' = [run EXCEPT ![r].pc = "record", ![r].ok = TRUE]
            \/ run' = [run EXCEPT ![r].pc = "record"]
      BY <2>2 DEF Background, Cleanup, Claim, Abort, Record, Die, Edit, Late, Expire, Lapse,
                  Stall, Retire
    <3>2. CASE run' = [run EXCEPT ![r] = NoRun]
      BY <2>0, <3>2, NoRunType
    <3>3. CASE run' = [run EXCEPT ![r] = Run("abort", task.upload, task.fence + 1, FALSE)]
      <4>1. PICK k : k = Run("abort", task.upload, task.fence + 1, FALSE)
        OBVIOUS
      <4>2. k \in RunSet /\ k.upload = task.upload
        BY <1>0, <4>1 DEF Run, RunSet, Typed, TaskSet
      <4> QED BY <1>0, <2>0, <3>3, <4>1, <4>2 DEF Created
    <3>4. CASE run' = [run EXCEPT ![r].pc = "record", ![r].ok = TRUE]
      <4>1. PICK k : k = [run[r] EXCEPT !.pc = "record", !.ok = TRUE]
        OBVIOUS
      <4>2. k \in RunSet /\ k.upload = run[r].upload
        BY <2>0, <4>1 DEF RunSet
      <4>3. run' = [run EXCEPT ![r] = k]
        BY <3>4, <4>1
      <4> QED BY <2>0, <4>2, <4>3
    <3>5. CASE run' = [run EXCEPT ![r].pc = "record"]
      <4>1. PICK k : k = [run[r] EXCEPT !.pc = "record"]
        OBVIOUS
      <4>2. k \in RunSet /\ k.upload = run[r].upload
        BY <2>0, <4>1 DEF RunSet
      <4>3. run' = [run EXCEPT ![r] = k]
        BY <3>5, <4>1
      <4> QED BY <2>0, <4>2, <4>3
    <3> QED BY <3>1, <3>2, <3>3, <3>4, <3>5
  <2> QED BY <2>1, <2>2
<1>7. Typed'
  BY <1>0, <1>1, <1>2, <1>3, <1>4, <1>5, <1>6 DEF Typed, UploadsStep
<1>8. Created'
  BY <1>0, <1>1, <1>2, <1>5, <1>6, LenProperties DEF Created, Typed
<1> QED BY <1>1, <1>2, <1>7, <1>8

\* One step of the system: a process, or everything else.
Step ==
  \/ \E c \in Clients : PutFile(c)
  \/ Background
  \/ UNCHANGED vars

LEMMA StepsSplit == [Next]_vars => Step
BY DEF Next, Step, Background

LEMMA TypesKept ==
  ASSUME TypeOK, MultipartInv, Step
  PROVE  TypeOK' /\ UploadsStep
<1>1. CASE UNCHANGED vars
  <2>1. TypeOK'
    BY <1>1 DEF vars, bounds, TypeOK, At
  <2>2. UploadsStep
    BY <1>1, SameUploads, TypesSplit DEF vars
  <2> QED BY <2>1, <2>2
<1> QED BY <1>1, PutFileTypes, BackgroundTypes, TypesJoin DEF Step

-----------------------------------------------------------------------------
(* What a process hashed *)

LEMMA PutFileFrame ==
  ASSUME NEW c \in Clients, PutFile(c)
  PROVE  source' = source /\ edits' = edits /\ kind' = kind /\ late' = late /\ run' = run
BY ZenonT(60) DEF PutFile, BuildFile, Prepare, Grants, Stage, Recheck, AliyunCreate, AliyunSend,
       AliyunComplete, CopyPart, LinkObject, LocalVerify, PutObject, LoadJournal, SaveCreated,
       CreateMultipart, Resume, MultipartGrant, Bind, PutPart, SaveBatch, Complete, Verify,
       Commit, Finish, Stop, bounds

\* The intent is prepared once, for one file, and ends once.
IntentStep ==
  \/ intent' = intent
  \/ /\ intent.state = "none" /\ intent'.state = "prepared"
     /\ UNCHANGED <<late, evidence, task, run>>
  \/ intent.state = "prepared" /\ intent'.state = "committed" /\ intent'.root = intent.root
  \/ /\ intent.state = "prepared" /\ late /\ intent'.state = "expired"
     /\ intent'.root = intent.root /\ UNCHANGED <<late, evidence, task, run>>

LEMMA IntentSteps ==
  ASSUME Typed, Step
  PROVE  IntentStep /\ (evidence' # evidence => intent.state = "prepared")
<1>0. intent \in IntentSet
  BY DEF Typed
<1>1. CASE UNCHANGED vars
  BY <1>1 DEF vars, IntentStep
<1>2. ASSUME NEW c \in Clients, PutFile(c)
      PROVE  IntentStep /\ (evidence' # evidence => intent.state = "prepared")
  <2>1. \/ intent' = intent /\ evidence' = evidence
        \/ Prepare(c) \/ Commit(c)
    BY <1>2, ZenonT(60) DEF PutFile, BuildFile, Grants, Stage, Recheck, AliyunCreate, AliyunSend,
         AliyunComplete, CopyPart, LinkObject, LocalVerify, PutObject, LoadJournal, SaveCreated,
         CreateMultipart, Resume, MultipartGrant, Bind, PutPart, SaveBatch, Complete, Verify,
         Finish, Stop, server
  <2>2. ASSUME Prepare(c) PROVE IntentStep /\ evidence' = evidence
    <3>1. \/ intent.state = "none" /\ intent' = Intent("prepared", client[c].root)
          \/ intent' = intent
      BY <2>2 DEF Prepare
    <3>2. Intent("prepared", client[c].root).state = "prepared"
      BY DEF Intent
    <3> QED BY <2>2, <3>1, <3>2 DEF Prepare, IntentStep
  <2>3. ASSUME Commit(c)
        PROVE  IntentStep /\ (evidence' # evidence => intent.state = "prepared")
    <3>1. \/ intent' = intent
          \/ intent.state = "prepared" /\ intent' = [intent EXCEPT !.state = "committed"]
      BY <2>3 DEF Commit, server
    <3>2. evidence' # evidence => intent.state = "prepared"
      BY <2>3 DEF Commit, server
    <3> QED BY <1>0, <3>1, <3>2 DEF IntentStep, IntentSet
  <2> QED BY <2>1, <2>2, <2>3 DEF IntentStep
<1>3. CASE Background
  <2>1. evidence' = evidence /\ (intent' = intent \/ Expire)
    BY <1>3 DEF Background, Cleanup, Claim, Abort, Record, Die, Edit, Late, Lapse, Stall,
                Retire, Expire, server
  <2>2. CASE Expire
    BY <1>0, <2>1, <2>2 DEF Expire, IntentStep, IntentSet
  <2> QED BY <2>1, <2>2 DEF IntentStep
<1> QED BY <1>1, <1>2, <1>3 DEF Step

LEMMA SourceKept ==
  ASSUME TypeOK, MultipartInv, SourceInv, Step
  PROVE  SourceInv'
<1>0. Typed
  BY TypesSplit
<1>1. IntentStep /\ (evidence' # evidence => intent.state = "prepared")
  BY <1>0, IntentSteps
<1>2. intent'.state = "none" => intent'.root = None /\ evidence' = None
  BY <1>1 DEF IntentStep, SourceInv
<1>3. intent.state # "none" => intent'.state # "none" /\ intent'.root = intent.root
  BY <1>1 DEF IntentStep
<1> DEFINE P(k, i, s, e) ==
      /\ k.pc \in Prepared => i.state # "none" /\ i.root = k.root
      /\ k.pc \in Rechecked \cup {"recheck"} => k.sha \in Contents
      /\ e = 0 /\ k.pc \in Prepared \cup {"prepare"} => k.root = s
      /\ e < 2 /\ k.pc = "recheck" /\ k.root = s => k.sha = s
      /\ e < 2 /\ k.pc \in Rechecked => k.sha = k.root
<1>4. \A c \in Clients : P(client[c], intent, source, edits)
  BY DEF SourceInv
<1>5. ASSUME NEW c \in Clients, PutFile(c), NEW d \in Clients
      PROVE  P(client'[d], intent', source', edits')
  <2>1. source' = source /\ edits' = edits /\ Effect(c)
    BY <1>0, <1>5, PutFileFrame, PutFileEffect
  <2>2. CASE d # c
    BY <1>3, <1>4, <2>1, <2>2 DEF Effect, Moved
  <2>3. CASE d = c
    <3>1. P(client[c], intent, source, edits)
      BY <1>4
    <3>2. source \in Contents
      BY <1>0 DEF Typed
    <3>3. SourceStep(c)
      BY <2>1 DEF Effect
    <3> QED
      BY <1>3, <2>1, <2>3, <3>1, <3>2, <3>3 DEF SourceStep, Kept, Prepared, Rechecked
  <2> QED BY <2>2, <2>3
<1>6. ASSUME Background, NEW d \in Clients
      PROVE  P(client'[d], intent', source', edits')
  <2>1. client' = client
    BY <1>6, BackgroundTypes
  <2>2. \/ source' = source /\ edits' = edits
        \/ source' # source /\ edits' = edits + 1
    BY <1>6 DEF Background, Cleanup, Claim, Abort, Record, Die, Edit, Late, Lapse, Stall,
                Retire, Expire, bounds
  <2>3. edits \in Nat
    BY <1>0, PutUploadAssumption DEF Typed
  <2>4. P(client[d], intent, source, edits)
    BY <1>4
  <2> QED BY <1>3, <2>1, <2>2, <2>3, <2>4 DEF Prepared, Rechecked
<1>7. ASSUME UNCHANGED vars, NEW d \in Clients
      PROVE  P(client'[d], intent', source', edits')
  BY <1>4, <1>7 DEF vars, bounds
<1>8. \A d \in Clients : P(client'[d], intent', source', edits')
  BY <1>5, <1>6, <1>7 DEF Step
<1> QED BY <1>2, <1>8 DEF SourceInv

-----------------------------------------------------------------------------
(* The evidence *)

\* An object is never replaced.
LEMMA ObjectStays ==
  ASSUME Step, object # None
  PROVE  object' = object
<1>1. ASSUME NEW c \in Clients, PutFile(c) PROVE object' = object
  BY <1>1, ZenonT(60) DEF PutFile, BuildFile, Prepare, Grants, Stage, Recheck, AliyunCreate, AliyunSend,
         AliyunComplete, CopyPart, LinkObject, LocalVerify, PutObject, LoadJournal, SaveCreated,
         CreateMultipart, Resume, MultipartGrant, Bind, PutPart, SaveBatch, Complete, Verify,
         Commit, Finish, Stop, provider
<1>2. CASE Background
  BY <1>2 DEF Background, Cleanup, Claim, Abort, Record, Die, Edit, Late, Expire, Lapse, Stall,
              Retire, provider
<1> QED BY <1>1, <1>2 DEF Step, vars

LEMMA ObjectKept ==
  ASSUME TypeOK, MultipartInv, SourceInv, ObjectInv, Step
  PROVE  ObjectInv'
<1>0. Typed
  BY TypesSplit
<1>1. None \notin Contents
  BY PutUploadAssumption
<1>2. IntentStep /\ (evidence' # evidence => intent.state = "prepared")
  BY <1>0, IntentSteps
<1>3. \A c \in Clients : client[c].pc = "commit" =>
        /\ object = client[c].sha /\ client[c].sha # None
        /\ edits < 2 => client[c].sha = intent.root
  BY <1>1 DEF SourceInv, ObjectInv, Rechecked, Prepared
<1>4. evidence # None => object' = evidence
  BY ObjectStays DEF ObjectInv
<1>5. evidence # None => intent.state # "none" /\ intent'.root = intent.root
  BY <1>2 DEF IntentStep, SourceInv
<1>6. ASSUME NEW c \in Clients, PutFile(c) PROVE ObjectInv'
  <2>1. edits' = edits /\ Effect(c)
    BY <1>0, <1>6, PutFileFrame, PutFileEffect
  <2>2. ASSUME NEW d \in Clients, client'[d].pc = "commit" PROVE object' = client'[d].sha
    <3>1. CASE d # c
      BY <1>3, <2>1, <2>2, <3>1, ObjectStays DEF Effect, Moved
    <3>2. CASE d = c
      <4>1. /\ client[c].pc \in Rechecked /\ client'[c].sha = client[c].sha
            /\ object = client[c].sha
        BY <2>1, <2>2, <3>2 DEF Effect, SourceStep, Prepared, Rechecked
      <4>2. client[c].sha # None
        BY <1>1, <4>1 DEF SourceInv
      <4> QED BY <3>2, <4>1, <4>2, ObjectStays
    <3> QED BY <3>1, <3>2
  <2>3. evidence' = evidence \/ (client[c].pc = "commit" /\ evidence' = client[c].sha)
    BY <1>6, ZenonT(60) DEF PutFile, BuildFile, Prepare, Grants, Stage, Recheck, AliyunCreate, AliyunSend,
         AliyunComplete, CopyPart, LinkObject, LocalVerify, PutObject, LoadJournal, SaveCreated,
         CreateMultipart, Resume, MultipartGrant, Bind, PutPart, SaveBatch, Complete, Verify,
         Commit, Finish, Stop, server, At
  <2>4. CASE evidence' = evidence
    BY <1>4, <1>5, <2>1, <2>2, <2>4 DEF ObjectInv
  <2>5. CASE evidence' # evidence
    <3>1. client[c].pc = "commit" /\ evidence' = client[c].sha /\ intent.state = "prepared"
      BY <1>2, <2>3, <2>5
    <3>2. object' = evidence'
      BY <1>3, <3>1, ObjectStays
    <3>3. intent'.root = intent.root
      BY <1>2, <3>1 DEF IntentStep
    <3> QED BY <1>3, <2>1, <2>2, <3>1, <3>2, <3>3 DEF ObjectInv
  <2> QED BY <2>4, <2>5
<1>7. CASE Background
  <2>1. client' = client /\ object' = object /\ evidence' = evidence
    BY <1>7, BackgroundTypes
  <2>2. edits' = edits \/ edits' = edits + 1
    BY <1>7 DEF Background, Cleanup, Claim, Abort, Record, Die, Edit, Late, Lapse, Stall,
                Retire, Expire, bounds
  <2>3. edits \in Nat
    BY <1>0, PutUploadAssumption DEF Typed
  <2> QED BY <1>5, <2>1, <2>2, <2>3 DEF ObjectInv
<1>8. CASE UNCHANGED vars
  BY <1>8 DEF vars, bounds, ObjectInv
<1> QED BY <1>6, <1>7, <1>8 DEF Step

-----------------------------------------------------------------------------
(* Multipart uploads and the cleanup row *)

LEMMA MultipartKept ==
  ASSUME TypeOK, MultipartInv, Step
  PROVE  MultipartInv'
<1>0. Typed /\ Len(uploads) \in Nat
  BY TypesSplit, LenProperties DEF Typed
<1>1. ASSUME NEW c \in Clients, PutFile(c) PROVE MultipartInv'
  <2>1. kind' = kind /\ Effect(c)
    BY <1>0, <1>1, PutFileFrame, PutFileEffect
  <2>2. ASSUME NEW d \in Clients
        PROVE  /\ client'[d].pc \in InMultipart => Multipart'
               /\ client'[d].pc \in HasUpload => client'[d].upload > 0
    <3>1. CASE d # c
      BY <2>1, <3>1 DEF Effect, Moved, MultipartInv, Multipart
    <3>2. CASE d = c
      BY <1>0, <2>1, <3>2 DEF Effect, UploadStep, MultipartInv, Multipart
    <3> QED BY <3>1, <3>2
  <2>3. \/ journal' \in {journal, NoJournal} \/ SaveCreated(c) \/ SaveBatch(c)
    BY <1>1, ZenonT(60) DEF PutFile, BuildFile, Prepare, Grants, Stage, Recheck, AliyunCreate, AliyunSend,
         AliyunComplete, CopyPart, LinkObject, LocalVerify, PutObject, LoadJournal,
         CreateMultipart, Resume, MultipartGrant, Bind, PutPart, Complete, Verify,
         Commit, Finish, Stop, disk
  <2>4. journal' # NoJournal => journal'.upload > 0
    <3>1. ASSUME SaveCreated(c) \/ SaveBatch(c) PROVE journal'.upload > 0
      <4>1. client[c].pc \in HasUpload /\ journal'.upload = client[c].upload
        BY <3>1 DEF SaveCreated, SaveBatch, Journal, At, HasUpload, InMultipart
      <4> QED BY <4>1 DEF MultipartInv
    <3> QED BY <2>3, <3>1 DEF MultipartInv
  <2> QED BY <2>2, <2>4 DEF MultipartInv
<1>2. CASE Background
  <2>1. client' = client /\ kind' = kind /\ journal' = journal
    BY <1>2, BackgroundTypes
  <2> QED BY <2>1 DEF MultipartInv, Multipart
<1>3. CASE UNCHANGED vars
  BY <1>3 DEF vars, MultipartInv, Multipart
<1> QED BY <1>1, <1>2, <1>3 DEF Step

\* What a process makes of the cleanup row.
RowStep(c) ==
  \/ task' = task
  \/ /\ task.state = "none" /\ intent.state = "prepared" /\ intent' = intent
     /\ task'.state = "active"
  \/ /\ client[c].pc = "bind" /\ task.state = "active" /\ task.upload \in {0, client[c].upload}
     /\ task'.state = "active" /\ task'.upload = client[c].upload
     /\ task'.fence = task.fence /\ intent' = intent
  \/ /\ task.state \in {"active", "cleaning", "failed"} /\ task'.state = "superseded"
     /\ intent.state = "prepared" /\ intent'.state = "committed"

LEMMA RowSteps ==
  ASSUME Typed, NEW c \in Clients, PutFile(c)
  PROVE  RowStep(c)
<1>0. task \in TaskSet /\ intent \in IntentSet
  BY DEF Typed
<1>1. task' = task \/ Grants(c) \/ Bind(c) \/ Commit(c)
  BY ZenonT(60) DEF PutFile, BuildFile, Prepare, Stage, Recheck, AliyunCreate, AliyunSend,
         AliyunComplete, CopyPart, LinkObject, LocalVerify, PutObject, LoadJournal, SaveCreated,
         CreateMultipart, Resume, MultipartGrant, PutPart, SaveBatch, Complete, Verify,
         Finish, Stop, server
<1>2. CASE Grants(c)
  <2>1. \/ task' = task
        \/ /\ task.state = "none" /\ intent.state = "prepared" /\ intent' = intent
           /\ task' = Task("active", 0, 0, FALSE)
    BY <1>2 DEF Grants
  <2>2. Task("active", 0, 0, FALSE).state = "active"
    BY DEF Task
  <2> QED BY <2>1, <2>2 DEF RowStep
<1>3. CASE Bind(c)
  <2>1. \/ task' = task
        \/ /\ client[c].pc = "bind" /\ task.state = "active" /\ intent' = intent
           /\ task.upload \in {0, client[c].upload}
           /\ task' = [task EXCEPT !.upload = client[c].upload]
    BY <1>3 DEF Bind, At, MayBind
  <2> QED BY <1>0, <2>1 DEF RowStep, TaskSet
<1>4. CASE Commit(c)
  <2>1. \/ task' = task
        \/ /\ task.state \in {"active", "cleaning", "failed"} /\ intent.state = "prepared"
           /\ task' = [task EXCEPT !.state = "superseded", !.lapsed = FALSE]
           /\ intent' = [intent EXCEPT !.state = "committed"]
    BY <1>4 DEF Commit, server
  <2> QED BY <1>0, <2>1 DEF RowStep, TaskSet, IntentSet
<1> QED BY <1>1, <1>2, <1>3, <1>4 DEF RowStep

\* What the cron makes of it.
CronStep ==
  \/ task'.state = task.state /\ task'.upload = task.upload /\ task'.fence = task.fence
  \/ /\ intent.state = "expired" /\ intent' = intent
     /\ task.state \in {"active", "failed", "cleaning"} /\ task'.state = "cleaning"
     /\ task'.upload = task.upload /\ task'.fence = task.fence + 1
  \/ /\ task.state = "cleaning" /\ task'.state \in {"failed", "cleaned"} /\ intent' = intent
     /\ task'.upload = task.upload /\ task'.fence = task.fence
  \/ task.state \in {"cleaned", "superseded"} /\ task'.state = "none" /\ intent' = intent

LEMMA CronSteps ==
  ASSUME Typed, Background
  PROVE  CronStep
<1>0. task \in TaskSet
  BY DEF Typed
<1>1. \/ task' = task
      \/ Lapse \/ Stall \/ Retire \/ \E r \in Runs : Claim(r) \/ Record(r)
  BY DEF Background, Cleanup, Abort, Die, Edit, Late, Expire, server
<1>2. CASE Lapse \/ Stall
  <2>1. task' = [task EXCEPT !.lapsed = TRUE]
    BY <1>2 DEF Lapse, Stall
  <2> QED BY <1>0, <2>1 DEF CronStep, TaskSet
<1>3. CASE Retire
  <2>1. task' = NoTask
    BY <1>3 DEF Retire
  <2>2. NoTask.state = "none"
    BY DEF NoTask, Task
  <2> QED BY <1>3, <2>1, <2>2 DEF Retire, CronStep
<1>4. ASSUME NEW r \in Runs, Claim(r) PROVE CronStep
  <2>1. /\ intent.state = "expired" /\ intent' = intent
        /\ task.state \in {"active", "failed", "cleaning"}
        /\ task' = Task("cleaning", task.upload, task.fence + 1, FALSE)
    BY <1>4 DEF Claim, Claimable
  <2>2. task'.state = "cleaning" /\ task'.upload = task.upload /\ task'.fence = task.fence + 1
    BY <2>1 DEF Task
  <2> QED BY <2>1, <2>2 DEF CronStep
<1>5. ASSUME NEW r \in Runs, Record(r) PROVE CronStep
  <2>1. intent' = intent /\ (Holds(r) => task.state = "cleaning")
    BY <1>5 DEF Record, Holds
  <2>2. \/ task' = task
        \/ /\ Holds(r)
           /\ \E s \in {"failed", "cleaned"} : task' = Task(s, task.upload, task.fence, FALSE)
    BY <1>5 DEF Record
  <2>3. ASSUME Holds(r), NEW s \in {"failed", "cleaned"},
               task' = Task(s, task.upload, task.fence, FALSE)
        PROVE  CronStep
    <3>1. task'.state = s /\ task'.upload = task.upload /\ task'.fence = task.fence
      BY <2>3 DEF Task
    <3> QED BY <2>1, <2>3, <3>1 DEF CronStep
  <2> QED BY <2>2, <2>3 DEF CronStep
<1> QED BY <1>1, <1>2, <1>3, <1>4, <1>5 DEF CronStep

LEMMA ExpiryKept ==
  ASSUME TypeOK, ExpiryInv, Step
  PROVE  ExpiryInv'
<1>0. Typed
  BY TypesSplit
<1>1. IntentStep
  BY <1>0, IntentSteps
<1>2. ASSUME NEW c \in Clients, PutFile(c) PROVE ExpiryInv'
  <2>1. run' = run /\ late' = late /\ RowStep(c)
    BY <1>0, <1>2, PutFileFrame, RowSteps
  <2>2. task \in TaskSet /\ intent \in IntentSet
    BY <1>0 DEF Typed
  <2> QED BY <1>1, <2>1, <2>2 DEF IntentStep, RowStep, ExpiryInv, TaskSet, IntentSet
<1>3. CASE Background
  <2>0. late' = late \/ late' = TRUE
    BY <1>3
    DEF Background, Cleanup, Claim, Abort, Record, Die, Edit, Late, Lapse, Stall, Retire, Expire
  <2>1. CronStep
    BY <1>0, <1>3, CronSteps
  <2>5. late => late'
    BY <2>0, Zenon
  <2>2. /\ intent'.state = "expired" => late'
        /\ intent'.state \in {"none", "prepared"} => task'.state \in {"none", "active"}
        /\ task'.state \in {"cleaning", "failed", "cleaned"} => intent'.state = "expired"
    BY <1>1, <2>1, <2>5 DEF IntentStep, CronStep, ExpiryInv
  <2>3. \A r \in Runs : run'[r].pc # "idle" => intent.state = "expired"
    <3>1. CASE run' = run
      BY <3>1 DEF ExpiryInv
    <3>2. CASE run' # run
      <4>1. PICK r \in Runs :
              \/ intent.state = "expired"
              \/ run' = [run EXCEPT ![r] = NoRun]
              \/ run[r].pc # "idle"
        BY <1>3, <3>2 DEF Background, Cleanup, Claim, Abort, Record, Die, Edit, Late, Lapse,
                          Stall, Retire, Expire
      <4>2. ASSUME run' = [run EXCEPT ![r] = NoRun], NEW q \in Runs, run'[q].pc # "idle"
            PROVE  intent.state = "expired"
        BY <1>0, <4>2, NoRunType DEF Typed, ExpiryInv
      <4> QED BY <4>1, <4>2 DEF ExpiryInv
    <3> QED BY <3>1, <3>2
  <2>4. intent.state = "expired" => intent'.state = "expired"
    BY <1>1 DEF IntentStep
  <2> QED BY <2>2, <2>3, <2>4 DEF ExpiryInv
<1>4. CASE UNCHANGED vars
  BY <1>4 DEF vars, ExpiryInv
<1> QED BY <1>2, <1>3, <1>4 DEF Step

\* The one upload that got parts stays the one bound to the row, or the row is
\* gone for good.
LEMMA BoundStays ==
  ASSUME TypeOK, ExpiryInv, Step, NEW u \in Nat, u > 0, Bound(u) \/ Over
  PROVE  Bound(u)' \/ Over'
<1>0. Typed
  BY TypesSplit
<1>1. IntentStep
  BY <1>0, IntentSteps
<1>2. ASSUME NEW c \in Clients, PutFile(c) PROVE Bound(u)' \/ Over'
  <2>1. RowStep(c)
    BY <1>0, <1>2, RowSteps
  <2>2. task.upload \in Nat /\ client[c].upload \in Nat
    BY <1>0 DEF Typed, TaskSet, ClientSet
  <2> QED BY <1>1, <2>1, <2>2 DEF IntentStep, RowStep, Bound, Over
<1>3. CASE Background
  <2>1. CronStep
    BY <1>0, <1>3, CronSteps
  <2> QED BY <1>1, <2>1 DEF IntentStep, CronStep, Bound, Over, ExpiryInv
<1>4. CASE UNCHANGED vars
  BY <1>4 DEF vars, Bound, Over
<1> QED BY <1>2, <1>3, <1>4 DEF Step

LEMMA BoundKept ==
  ASSUME TypeOK, MultipartInv, ExpiryInv, BoundInv, Step
  PROVE  BoundInv'
<1>0. Typed /\ Len(uploads) \in Nat
  BY TypesSplit, LenProperties DEF Typed
<1>1. UploadsStep
  BY TypesKept
<1>2. \A c \in Clients : client[c].pc = "parts" =>
        client[c].upload \in Nat /\ client[c].upload > 0
  BY <1>0 DEF MultipartInv, HasUpload, InMultipart, Typed, ClientSet
<1>3. ASSUME NEW u \in 1..Len(uploads'), uploads'[u].parts # NoParts
      PROVE  Bound(u)' \/ Over'
  <2>1. u \in Nat /\ u > 0
    OBVIOUS
  <2>2. Bound(u) \/ Over
    BY <1>1, <1>3 DEF UploadsStep, BoundInv
  <2> QED BY <2>1, <2>2, BoundStays
<1>4. ASSUME NEW c \in Clients, client'[c].pc = "parts"
      PROVE  \E u \in Nat : u = client'[c].upload /\ (Bound(u)' \/ Over')
  <2>1. ASSUME client[c].pc = "parts", client'[c].upload = client[c].upload
        PROVE  \E u \in Nat : u = client'[c].upload /\ (Bound(u)' \/ Over')
    <3>1. PICK u \in Nat : u = client[c].upload
      BY <1>2, <2>1
    <3>2. u > 0 /\ (Bound(u) \/ Over)
      BY <1>2, <2>1, <3>1 DEF BoundInv
    <3> QED BY <2>1, <3>1, <3>2, BoundStays
  <2>2. ASSUME client[c].pc # "parts"
        PROVE  \E u \in Nat : u = client'[c].upload /\ (Bound(u)' \/ Over')
    <3>1. PICK d \in Clients : PutFile(d)
      BY <1>4, <2>2, BackgroundTypes DEF Step, vars
    <3>2. Effect(d)
      BY <1>0, <3>1, PutFileEffect
    <3>3. d = c
      BY <1>4, <2>2, <3>2 DEF Effect, Moved
    <3>4. Bind(c)
      <4>1. ASSUME NEW pc \in States, pc # "parts", client' = Goto(c, pc) PROVE FALSE
        BY <1>0, <1>4, <4>1, GotoEffect
      <4>2. ASSUME Fail(c) \/ Refuse(c) PROVE FALSE
        BY <1>0, <1>4, <4>2, FailEffect, RefuseEffect
      <4>3. Ended("prepare", source).pc = "prepare"
        BY DEF Ended, Client
      <4>4. client \in [Clients -> ClientSet]
        BY <1>0 DEF Typed
      <4>5. ASSUME NEW k, k.pc # "parts", client' = [client EXCEPT ![c] = k] PROVE FALSE
        BY <1>4, <4>4, <4>5
      <4>6. ~BuildFile(c) /\ ~Stage(c)
        BY <1>4, <4>3, <4>4 DEF BuildFile, Stage, ClientSet
      <4>7. ~Prepare(c) /\ ~Grants(c) /\ ~Recheck(c) /\ ~Finish(c)
        BY <4>1, <4>2 DEF Prepare, Grants, Recheck, Finish, Fail, States
      <4>8. /\ ~AliyunCreate(c) /\ ~AliyunComplete(c) /\ ~LinkObject(c) /\ ~LocalVerify(c)
            /\ ~PutObject(c) /\ ~Verify(c) /\ ~Commit(c) /\ ~Stop(c)
        BY <4>1, <4>2
        DEF AliyunCreate, AliyunComplete, LinkObject, LocalVerify, PutObject, Verify, Commit,
            Stop, States
      <4>9. ~AliyunSend(c) /\ ~CopyPart(c)
        BY <1>4, <2>2, <4>2, <4>4 DEF AliyunSend, CopyPart, ClientSet
      <4>10. ~LoadJournal(c) /\ ~CreateMultipart(c)
        <5>1. client[c] \in ClientSet
          BY <4>4
        <5>2. /\ [client[c] EXCEPT !.pc = "resume", !.upload = journal.upload,
                                   !.etags = journal.etags].pc = "resume"
              /\ [client[c] EXCEPT !.pc = "save", !.upload = Len(uploads) + 1].pc = "save"
          BY <5>1 DEF ClientSet
        <5>3. ~LoadJournal(c)
          <6>1. LoadJournal(c) =>
                  \/ Fail(c) \/ client' = Goto(c, "create")
                  \/ client' = [client EXCEPT ![c] =
                       [client[c] EXCEPT !.pc = "resume", !.upload = journal.upload,
                                         !.etags = journal.etags]]
            BY DEF LoadJournal
          <6> QED BY <4>1, <4>2, <4>5, <5>2, <6>1 DEF States
        <5>4. ~CreateMultipart(c)
          <6>1. CreateMultipart(c) =>
                  \/ Fail(c) \/ client' = Goto(c, "verify")
                  \/ client' = [client EXCEPT ![c] =
                       [client[c] EXCEPT !.pc = "save", !.upload = Len(uploads) + 1]]
            BY DEF CreateMultipart
          <6> QED BY <4>1, <4>2, <4>5, <5>2, <6>1 DEF States
        <5> QED BY <5>3, <5>4
      <4>11. ~SaveCreated(c) /\ ~Resume(c) /\ ~MultipartGrant(c)
        BY <4>1, <4>2 DEF SaveCreated, Resume, MultipartGrant, States
      <4>12. ~PutPart(c) /\ ~SaveBatch(c)
        BY <2>2 DEF PutPart, SaveBatch, At
      <4>13. ~Complete(c)
        <5>1. client[c] \in ClientSet
          BY <4>4
        <5>2. [client[c] EXCEPT !.pc = "verify", !.drop = TRUE].pc = "verify"
          BY <5>1 DEF ClientSet
        <5> QED BY <4>2, <4>5, <5>2 DEF Complete
      <4> QED
        BY <3>1, <3>3, <4>6, <4>7, <4>8, <4>9, <4>10, <4>11, <4>12, <4>13 DEF PutFile
    <3>5. ~Refuse(c)
      BY <1>0, <1>4, RefuseEffect
    <3>6. /\ task.state = "active" /\ task' = [task EXCEPT !.upload = client[c].upload]
          /\ client'[c].upload = client[c].upload
      <4>1. /\ task.state = "active" /\ task' = [task EXCEPT !.upload = client[c].upload]
            /\ client' = [client EXCEPT ![c].pc = "parts",
                 ![c].todo = {p \in BatchFrom(client[c].first) : client[c].etags[p] = None}]
        BY <3>4, <3>5 DEF Bind, MayBind
      <4>2. client[c] \in ClientSet /\ client \in [Clients -> ClientSet]
        BY <1>0 DEF Typed
      <4> QED BY <4>1, <4>2 DEF ClientSet
    <3>7. task \in TaskSet /\ client[c].upload \in Nat
      BY <1>0 DEF Typed, ClientSet
    <3>8. task'.state = "active" /\ task'.upload = client[c].upload
      BY <3>6, <3>7 DEF TaskSet
    <3> QED BY <3>6, <3>7, <3>8 DEF Bound
  <2>3. client[c].pc = "parts" => client'[c].upload = client[c].upload
    <3>1. CASE client' = client
      BY <3>1
    <3>2. CASE client' # client
      <4>1. PICK d \in Clients : PutFile(d)
        BY <3>2, BackgroundTypes DEF Step, vars
      <4>2. Effect(d)
        BY <1>0, <4>1, PutFileEffect
      <4>3. CASE d # c
        BY <4>2, <4>3 DEF Effect, Moved
      <4>4. CASE d = c
        <5>1. ASSUME client[c].pc = "parts" PROVE PutPart(c) \/ SaveBatch(c) \/ Stop(c)
          BY <4>1, <4>4, <5>1
          DEF PutFile, BuildFile, Prepare, Grants, Stage, Recheck, AliyunCreate, AliyunSend,
              AliyunComplete, CopyPart, LinkObject, LocalVerify, PutObject, LoadJournal,
              SaveCreated, CreateMultipart, Resume, MultipartGrant, Bind, Complete, Verify,
              Commit, Finish, At
        <5>2. ~Stop(c) /\ ~SaveBatch(c)
          <6>1. ASSUME NEW pc \in States, pc # "parts", client' = Goto(c, pc) PROVE FALSE
            BY <1>0, <1>4, <6>1, GotoEffect
          <6>2. ~Fail(c)
            BY <1>0, <1>4, FailEffect
          <6>3. client \in [Clients -> ClientSet]
            BY <1>0 DEF Typed
          <6> QED BY <1>4, <6>1, <6>2, <6>3 DEF Stop, SaveBatch, States, ClientSet
        <5>3. ASSUME PutPart(c) PROVE client'[c].upload = client[c].upload
          <6>1. client \in [Clients -> ClientSet]
            BY <1>0 DEF Typed
          <6>2. PICK p \in client[c].todo :
                  \/ client' = [client EXCEPT ![c].todo = @ \ {p}, ![c].etags[p] = staged]
                  \/ client' = [client EXCEPT ![c].todo = @ \ {p}, ![c].err = TRUE]
            BY <5>3 DEF PutPart
          <6> QED BY <6>1, <6>2 DEF ClientSet
        <5> QED BY <5>1, <5>2, <5>3
      <4> QED BY <4>3, <4>4
    <3> QED BY <3>1, <3>2
  <2> QED BY <2>1, <2>2, <2>3
<1>5. \A c \in Clients : client'[c].pc = "parts" =>
        \/ /\ task'.upload = client'[c].upload
           /\ task'.state \in {"active", "cleaning", "failed", "cleaned"}
        \/ Over'
  BY <1>4 DEF Bound
<1>6. \A u \in 1..Len(uploads') : uploads'[u].parts # NoParts =>
        \/ task'.upload = u /\ task'.state \in {"active", "cleaning", "failed", "cleaned"}
        \/ Over'
  BY <1>3 DEF Bound
<1> QED BY <1>5, <1>6 DEF BoundInv, Bound

\* After the expiry no URL is live, so no upload gets a part.
LEMMA NoNewParts ==
  ASSUME TypeOK, MultipartInv, late = TRUE, UploadsStep, NEW u \in 1..Len(uploads')
  PROVE  uploads'[u].parts = NoParts \/ (u \in 1..Len(uploads) /\ uploads'[u] = uploads[u])
<1>1. ASSUME NEW c \in Clients, client[c].pc = "parts", UrlLive PROVE FALSE
  <2>1. Multipart
    BY <1>1 DEF MultipartInv, InMultipart
  <2>2. Signed
    BY <2>1 DEF Multipart, Signed
  <2> QED BY <1>1, <2>2 DEF UrlLive
<1> QED BY <1>1 DEF UploadsStep

LEMMA RunKept ==
  ASSUME TypeOK, MultipartInv, ExpiryInv, RunInv, Step
  PROVE  RunInv'
<1>0. Typed /\ Created /\ UploadsStep
  BY TypesSplit, TypesKept
<1> DEFINE R(k, t, us) ==
      k.pc # "idle" =>
        /\ t.state = "none" \/ k.fence <= t.fence
        /\ t.state = "cleaning" /\ t.fence = k.fence => k.upload = t.upload
        /\ k.pc = "abort" => ~k.ok
        /\ k.ok /\ k.pc = "record" /\ k.upload > 0 => us[k.upload].parts = NoParts
<1>1. \A r \in Runs : R(run[r], task, uploads)
  BY DEF RunInv, Holds
<1>2. SUFFICES ASSUME NEW r \in Runs PROVE R(run'[r], task', uploads')
  BY DEF RunInv, Holds
<1>3. run \in [Runs -> RunSet] /\ task \in TaskSet /\ run[r] \in RunSet
  BY <1>0 DEF Typed
\* A run whose abort has succeeded finds nothing new in its upload.
<1>4. ASSUME run'[r] = run[r]
      PROVE  run[r].pc # "idle" /\ run[r].ok /\ run[r].pc = "record" /\ run[r].upload > 0
               => uploads'[run[r].upload].parts = NoParts
  <2> SUFFICES ASSUME run[r].pc # "idle", run[r].ok, run[r].pc = "record", run[r].upload > 0
               PROVE  uploads'[run[r].upload].parts = NoParts
    OBVIOUS
  <2>1. late = TRUE
    BY <1>0 DEF ExpiryInv, Typed
  <2>2. PICK u \in 1..Len(uploads) : u = run[r].upload
    BY <1>0, <1>3, LenProperties DEF Created, Typed, RunSet
  <2>3. u \in 1..Len(uploads')
    BY <1>0, LenProperties DEF Typed, UploadsStep
  <2>4. uploads[u].parts = NoParts
    BY <1>1, <2>2
  <2> QED BY <1>0, <2>1, <2>2, <2>3, <2>4, NoNewParts
<1>5. ASSUME run'[r] = run[r],
             \/ task' = task
             \/ /\ task'.state = task.state /\ task'.upload = task.upload
                /\ task'.fence = task.fence
             \/ task'.state \notin {"none", "cleaning"} /\ task'.fence = task.fence
                /\ task.state # "none"
             \/ task'.state = "none"
      PROVE  R(run'[r], task', uploads')
  BY <1>1, <1>4, <1>5
<1>6. ASSUME run'[r].pc = "idle" PROVE R(run'[r], task', uploads')
  BY <1>6
<1>7. ASSUME NEW c \in Clients, PutFile(c) PROVE R(run'[r], task', uploads')
  <2>1. run' = run /\ RowStep(c)
    BY <1>0, <1>7, PutFileFrame, RowSteps
  <2>2. CASE run[r].pc = "idle"
    BY <1>6, <2>1, <2>2
  <2>3. CASE run[r].pc # "idle"
    <3>1. intent.state = "expired"
      BY <2>3 DEF ExpiryInv
    <3> QED BY <1>5, <2>1, <3>1 DEF RowStep
  <2> QED BY <2>2, <2>3
<1>8. ASSUME NEW q \in Runs, Claim(q) PROVE R(run'[r], task', uploads')
  <2>1. /\ task.state # "none" /\ uploads' = uploads
        /\ task' = Task("cleaning", task.upload, task.fence + 1, FALSE)
        /\ run' = [run EXCEPT ![q] = Run("abort", task.upload, task.fence + 1, FALSE)]
    BY <1>8 DEF Claim, Claimable, provider
  <2>2. task'.upload = task.upload /\ task'.fence = task.fence + 1
    BY <2>1 DEF Task
  <2>3. CASE r = q
    <3>1. run'[r] = Run("abort", task.upload, task.fence + 1, FALSE)
      BY <1>3, <2>1, <2>3
    <3>2. /\ run'[r].pc = "abort" /\ run'[r].upload = task.upload
          /\ run'[r].fence = task.fence + 1 /\ ~run'[r].ok
      BY <3>1 DEF Run
    <3>3. task.fence + 1 \in Nat
      BY <1>3 DEF TaskSet
    <3> QED BY <2>2, <3>2, <3>3
  <2>4. CASE r # q
    <3>1. run'[r] = run[r]
      BY <1>3, <2>1, <2>4
    <3>2. task.fence \in Nat /\ run[r].fence \in Nat
      BY <1>3 DEF TaskSet, RunSet
    <3>3. run[r].pc # "idle" => run[r].fence <= task.fence
      BY <1>1, <2>1
    <3>4. run[r].pc # "idle" => run[r].fence <= task'.fence /\ task'.fence # run[r].fence
      BY <2>2, <3>2, <3>3
    <3> QED BY <1>1, <2>1, <3>1, <3>4
  <2> QED BY <2>3, <2>4
<1>9. ASSUME NEW q \in Runs, Abort(q) PROVE R(run'[r], task', uploads')
  <2>1. /\ task' = task /\ run[q].pc = "abort"
        /\ \/ /\ uploads' = Aborted(run[q].upload)
              /\ run' = [run EXCEPT ![q].pc = "record", ![q].ok = TRUE]
           \/ run' = [run EXCEPT ![q].pc = "record"]
    BY <1>9 DEF Abort, server
  <2>2. CASE r # q
    <3>1. run'[r] = run[r]
      BY <1>3, <2>1, <2>2
    <3> QED BY <1>5, <2>1, <3>1
  <2>3. CASE r = q
    <3>1. /\ run'[r].upload = run[r].upload /\ run'[r].fence = run[r].fence
          /\ run'[r].pc = "record"
          /\ run'[r].ok => uploads' = Aborted(run[r].upload)
      <4>1. run[r].pc = "abort" /\ ~run[r].ok
        BY <1>1, <2>1, <2>3
      <4>2. CASE run' = [run EXCEPT ![q].pc = "record"]
        BY <1>3, <2>3, <4>1, <4>2 DEF RunSet
      <4>3. CASE /\ uploads' = Aborted(run[q].upload)
                 /\ run' = [run EXCEPT ![q].pc = "record", ![q].ok = TRUE]
        <5>1. run'[r] = [run[r] EXCEPT !.pc = "record", !.ok = TRUE]
          BY <1>3, <2>3, <4>3
        <5> QED BY <1>3, <2>3, <4>3, <5>1 DEF RunSet
      <4> QED BY <2>1, <4>2, <4>3
    <3>2. PICK u \in Nat : u = run[r].upload
      BY <1>3 DEF RunSet
    <3>3. run'[r].ok /\ u > 0 => uploads'[u].parts = NoParts
      <4>1. u <= Len(uploads) /\ Len(uploads) \in Nat
        BY <1>0, <3>2, LenProperties DEF Created, Typed
      <4>2. ASSUME run'[r].ok, u > 0 PROVE uploads'[u].parts = NoParts
        <5>1. uploads' = Aborted(u) /\ u \in 1..Len(uploads)
          BY <3>1, <3>2, <4>1, <4>2
        <5> QED BY <1>0, <5>1, AbortUploads
      <4> QED BY <4>2
    <3>4. run[r].pc # "idle"
      BY <2>1, <2>3
    <3> QED BY <1>1, <2>1, <3>1, <3>2, <3>3, <3>4
  <2> QED BY <2>2, <2>3
<1>10. ASSUME NEW q \in Runs, Record(q) \/ Die(q) PROVE R(run'[r], task', uploads')
  <2>1. run' = [run EXCEPT ![q] = NoRun]
    BY <1>10 DEF Record, Die
  <2>2. CASE r = q
    BY <1>3, <1>6, <2>1, <2>2, NoRunType
  <2>3. CASE r # q
    <3>1. run'[r] = run[r]
      BY <1>3, <2>1, <2>3
    <3>2. \/ task' = task
          \/ /\ task.state = "cleaning"
             /\ \E s \in {"failed", "cleaned"} : task' = Task(s, task.upload, task.fence, FALSE)
      BY <1>10 DEF Record, Die, Holds, server
    <3>3. ASSUME NEW s \in {"failed", "cleaned"}, task' = Task(s, task.upload, task.fence, FALSE)
          PROVE  task'.state = s /\ task'.fence = task.fence
      BY <3>3 DEF Task
    <3> QED BY <1>5, <3>1, <3>2, <3>3
  <2> QED BY <2>2, <2>3
<1>11. ASSUME Edit \/ Late \/ Expire \/ Lapse \/ Stall \/ Retire \/ UNCHANGED vars
       PROVE  R(run'[r], task', uploads')
  <2>1. run' = run
    BY <1>11 DEF Edit, Late, Expire, Lapse, Stall, Retire, vars
  <2>2. task' = task \/ task' = [task EXCEPT !.lapsed = TRUE] \/ task' = NoTask
    BY <1>11 DEF Edit, Late, Expire, Lapse, Stall, Retire, vars, server
  <2>3. NoTask.state = "none"
    BY DEF NoTask, Task
  <2>4. CASE task' = [task EXCEPT !.lapsed = TRUE]
    <3>1. task'.state = task.state /\ task'.upload = task.upload /\ task'.fence = task.fence
      BY <1>3, <2>4 DEF TaskSet
    <3> QED BY <1>5, <2>1, <3>1
  <2> QED BY <1>5, <2>1, <2>2, <2>3, <2>4
<1> QED BY <1>7, <1>8, <1>9, <1>10, <1>11 DEF Step, Background, Cleanup

LEMMA CleanedKept ==
  ASSUME TypeOK, MultipartInv, ExpiryInv, BoundInv, RunInv, CleanedReclaims, Step
  PROVE  CleanedReclaims'
<1>0. Typed /\ Created /\ UploadsStep
  BY TypesSplit, TypesKept
<1>1. DOMAIN uploads = 1..Len(uploads) /\ DOMAIN uploads' = 1..Len(uploads')
  BY <1>0, LenProperties DEF Typed, UploadsStep
<1>2. SUFFICES ASSUME task'.state = "cleaned", NEW u \in 1..Len(uploads')
               PROVE  uploads'[u].parts = NoParts
  BY <1>1 DEF CleanedReclaims
<1>3. CASE task.state = "cleaned"
  <2>1. late = TRUE
    BY <1>0, <1>3 DEF ExpiryInv, Typed
  <2>2. uploads'[u].parts = NoParts \/ (u \in 1..Len(uploads) /\ uploads'[u] = uploads[u])
    BY <1>0, <2>1, NoNewParts
  <2> QED BY <1>1, <1>3, <2>2 DEF CleanedReclaims
<1>4. CASE task.state # "cleaned"
  <2>1. PICK r \in Runs : Record(r)
    <3>1. ASSUME NEW c \in Clients, PutFile(c) PROVE FALSE
      BY <1>0, <1>2, <1>4, <3>1, RowSteps DEF RowStep
    <3>2. task' # task
      BY <1>2, <1>4
    <3>3. ~Lapse /\ ~Stall /\ ~Retire
      BY <1>0, <1>2, <1>4 DEF Lapse, Stall, Retire, NoTask, Task, Typed, TaskSet
    <3>4. ASSUME NEW r \in Runs, Claim(r) PROVE FALSE
      BY <1>2, <3>4 DEF Claim, Task
    <3> QED
      BY <3>1, <3>2, <3>3, <3>4
      DEF Step, Background, Cleanup, Abort, Die, Edit, Late, Expire, vars, server
  <2>2. /\ Holds(r) /\ run[r].pc = "record" /\ uploads' = uploads
        /\ task' = Task(IF run[r].ok THEN "cleaned" ELSE "failed", task.upload, task.fence, FALSE)
    BY <1>2, <1>4, <2>1 DEF Record, provider
  <2>3. run[r].ok
    BY <1>2, <2>2 DEF Task
  <2>4. task.state = "cleaning" /\ run[r].upload = task.upload
    BY <2>2 DEF RunInv, Holds
  <2>5. ASSUME uploads[u].parts # NoParts PROVE FALSE
    <3>1. Bound(u)
      BY <2>2, <2>4, <2>5 DEF BoundInv, Over
    <3>2. run[r].upload = u /\ u > 0
      BY <2>2, <2>4, <3>1 DEF Bound
    <3> QED BY <2>2, <2>3, <2>5, <3>2 DEF RunInv
  <2> QED BY <2>2, <2>5
<1> QED BY <1>3, <1>4

-----------------------------------------------------------------------------
(* The theorems *)

LEMMA InvInit == Init => IInv
<1> SUFFICES ASSUME Init PROVE IInv
  OBVIOUS
<1> USE DEF Init
<1>1. /\ task.state = "none" /\ task.upload = 0 /\ task.fence = 0
      /\ intent.state = "none" /\ intent.root = None
      /\ journal = NoJournal /\ journal.upload = 0 /\ Len(uploads) = 0
  BY NoPartsType DEF NoTask, Task, Intent
<1>2. /\ Idle \in ClientSet /\ Idle.pc = "idle" /\ Idle.upload = 0
  BY EndedType DEF Idle, Encoded, States
<1>3. /\ \A c \in Clients : client[c].pc = "idle" /\ client[c].upload = 0
      /\ \A r \in Runs : run[r].pc = "idle" /\ run[r].upload = 0
  BY <1>2, NoRunType
<1>4. TypeOK
  <2>1. task \in TaskSet /\ intent \in IntentSet
    BY DEF NoTask, Task, TaskSet, Intent, IntentSet, Encoded
  <2>2. client \in [Clients -> ClientSet] /\ run \in [Runs -> RunSet]
    BY <1>2, NoRunType
  <2>3. uploads \in Seq(UploadSet) /\ 0 \in 0..Len(uploads)
    BY <1>1
  <2>4. {task.upload, journal.upload} \cup {client[c].upload : c \in Clients}
          \cup {run[r].upload : r \in Runs} \subseteq 0..Len(uploads)
    BY <1>1, <1>3, <2>3
  <2>5. edits \in 0..MaxEdits /\ attempts \in 0..MaxAttempts /\ faults \in 0..MaxFaults
    BY PutUploadAssumption
  <2>6. /\ kind \in Kinds /\ source \in Contents /\ late \in BOOLEAN
        /\ evidence \in Encoded /\ staged \in Encoded /\ object \in Bytes
        /\ copied \in PartMap /\ journal \in JournalSet
    BY PutUploadAssumption, NoPartsType DEF Encoded, Bytes
  <2> QED
    BY <2>1, <2>2, <2>3, <2>4, <2>5, <2>6
    DEF TypeOK, States, ClientSet, RunSet, TaskSet, IntentSet, JournalSet, UploadSet
<1>5. SourceInv /\ ObjectInv
  BY <1>1, <1>3 DEF SourceInv, ObjectInv, Prepared, Rechecked
<1>6. MultipartInv /\ ExpiryInv
  BY <1>1, <1>3 DEF MultipartInv, ExpiryInv, HasUpload, InMultipart
<1>7. BoundInv /\ RunInv /\ CleanedReclaims
  BY <1>1, <1>3 DEF BoundInv, RunInv, CleanedReclaims
<1> QED BY <1>4, <1>5, <1>6, <1>7 DEF IInv

LEMMA InvStep == IInv /\ [Next]_vars => IInv'
<1> SUFFICES ASSUME IInv, [Next]_vars PROVE IInv'
  OBVIOUS
<1>1. Step
  BY StepsSplit
<1>2. /\ TypeOK /\ SourceInv /\ ObjectInv /\ MultipartInv /\ ExpiryInv /\ BoundInv /\ RunInv
      /\ CleanedReclaims
  BY DEF IInv
<1>3. TypeOK' /\ SourceInv' /\ ObjectInv'
  BY <1>1, <1>2, TypesKept, SourceKept, ObjectKept
<1>4. MultipartInv' /\ ExpiryInv' /\ BoundInv'
  BY <1>1, <1>2, MultipartKept, ExpiryKept, BoundKept
<1>5. RunInv' /\ CleanedReclaims'
  BY <1>1, <1>2, RunKept, CleanedKept
<1> QED BY <1>3, <1>4, <1>5 DEF IInv

LEMMA Invariance == Spec => []IInv
BY InvInit, InvStep, PTL DEF Spec

\* Evidence the control plane holds of an upload names the bytes that are at
\* the provider, and they are the file the intent was prepared for unless the
\* source was edited twice while it was encoded: however many processes share
\* the staged file and the journal, whichever driver sends the bytes
\* (verify_readback, put_file, conditional writes).
THEOREM EvidenceIsExact == Spec => []EvidenceExact
<1>1. IInv => EvidenceExact
  BY DEF IInv, ObjectInv, EvidenceExact
<1> QED BY <1>1, Invariance, PTL

\* A cleanup row that reports success leaves no part behind at the provider,
\* however many processes created uploads of the key and however cron runs
\* overlap, stall or die (grant_put_r2_multipart, cleanup_one_r2_upload).
THEOREM CleanupReclaims == Spec => []CleanedReclaims
<1>1. IInv => CleanedReclaims
  BY DEF IInv
<1> QED BY <1>1, Invariance, PTL
=============================================================================
