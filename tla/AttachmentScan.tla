---------------------------- MODULE AttachmentScan ----------------------------
(***************************************************************************)
(* One attachment from its upload intent to the run that reads it: uploads *)
(* under a signed URL, requests that complete the upload, the fenced scan  *)
(* job with its retries and duplicates, the copy under the hash of what    *)
(* was scanned, and the snapshot of a run.  A content stands for its bytes *)
(* and for their hash.                                                     *)
(***************************************************************************)
EXTENDS Naturals

CONSTANTS
    Contents,     \* what may be uploaded
    Acceptable,   \* contents of the declared type the scanner finds clean
    Mismatched,   \* contents of another size than the intent declares
    Requests,     \* completeAttachmentUpload requests
    Executors,    \* executions of the scan job that may be alive at once
    MaxAttempts,  \* attempts: 3 in the queue's options
    StallBound,   \* bound: deliveries of a job whose executor went silent
    Duplicates,   \* may a silent executor be alive?
    LateUploads,  \* may an upload arrive after the upload was completed?
    ApiCrashes,   \* may the API die inside a request?
    DbFails,      \* may the last attempt's claim or failure be refused by the database?
    None

(* What the constants satisfy; the modules that instantiate this one assume it. *)
AttachmentScanAssumption ==
    /\ Acceptable \subseteq Contents \ Mismatched /\ Mismatched \subseteq Contents
    /\ None \notin Contents
    /\ MaxAttempts \in Nat \ {0} /\ StallBound \in Nat
    /\ {Duplicates, LateUploads, ApiCrashes, DbFails} \subseteq BOOLEAN

VARIABLES
    status,      \* project_attachments.status
    version,     \* project_attachments.scan_version
    cleanKey,    \* project_attachments.clean_object_key: the hash in it
    expired,     \* now >= upload_expires_at
    quarantine,  \* storage: the object under quarantine/source
    clean,       \* storage: the object under clean/<hash>
    request,     \* the requests
    job,         \* the scan job: state, version, attempts made, stalls
    exec,        \* the executions of the job
    snapshot,    \* agent_run_attachments: the hash a run was created with
    loaded       \* the bytes the run's agents received

row == <<status, version, cleanKey>>
storage == <<quarantine, clean>>
run == <<snapshot, loaded>>
vars == <<row, expired, storage, request, job, exec, run>>

Statuses == {"AWAITING_UPLOAD", "QUARANTINED", "SCANNING", "CLEAN", "REJECTED", "FAILED",
             "EXPIRED"}
Terminal == {"CLEAN", "REJECTED", "FAILED", "EXPIRED"}
Object == Contents \union {None}
NoJob == [state |-> "none", version |-> 0, attempt |-> 0, stalls |-> 0]
RequestPcs == {"idle", "head", "complete", "enqueue", "fail", "delete"}
ExecPcs == {"idle", "claim", "get", "inspect", "reject", "copy", "commit", "deleteSource",
            "deleteClean", "fail"}
IdleExec == [pc |-> "idle", version |-> 0, attempt |-> 0, lock |-> 0,
             bytes |-> None]

TypeOK ==
    /\ status \in Statuses /\ version \in 0 .. 1 /\ cleanKey \in Object
    /\ expired \in BOOLEAN
    /\ quarantine \in Object /\ clean \in [Contents -> Object]
    /\ request \in [Requests -> [pc : RequestPcs, expect : Statuses \union {None}]]
    /\ job \in [state : {"none", "waiting", "active", "done"}, version : 0 .. 1,
                attempt : 0 .. MaxAttempts, stalls : 0 .. StallBound]
    /\ exec \in [Executors -> [pc : ExecPcs, version : 0 .. 1, attempt : 0 .. MaxAttempts,
                               lock : 0 .. StallBound, bytes : Object]]
    /\ snapshot \in Object /\ loaded \in Object

IdleRequest == [pc |-> "idle", expect |-> None]

Init ==   \* after createAttachmentUploadIntent
    /\ status = "AWAITING_UPLOAD" /\ version = 0 /\ cleanKey = None
    /\ expired = FALSE
    /\ quarantine = None /\ clean = [h \in Contents |-> None]
    /\ request = [r \in Requests |-> IdleRequest]
    /\ job = NoJob
    /\ exec = [w \in Executors |-> IdleExec]
    /\ snapshot = None /\ loaded = None

-----------------------------------------------------------------------------
(* The client *)

\* PUT with the signed URL, which is good until it expires.
Upload(c) ==
    /\ ~ expired
    /\ LateUploads \/ status = "AWAITING_UPLOAD"
    /\ quarantine' = c
    /\ UNCHANGED <<row, expired, clean, request, job, exec, run>>

UploadExpires ==
    /\ ~ expired
    /\ expired' = TRUE
    /\ UNCHANGED <<row, storage, request, job, exec, run>>

-----------------------------------------------------------------------------
(* completeAttachmentUpload *)

GotoR(r, pc, expect) == request' = [request EXCEPT ![r] = [pc |-> pc, expect |-> expect]]

\* The conditional write finds the row only in this status.
Awaiting == status = "AWAITING_UPLOAD"

\* getAttachment; an overdue upload is marked and its object deleted.
BeginComplete(r) ==
    /\ request[r] = IdleRequest
    /\ Awaiting
    /\ IF expired
       THEN status' = "EXPIRED" /\ GotoR(r, "delete", None)
       ELSE GotoR(r, "head", None) /\ UNCHANGED status
    /\ UNCHANGED <<version, cleanKey, expired, storage, job, exec, run>>

\* headObject: missing or unavailable, another size or type, or as declared.
HeadObject(r) ==
    /\ request[r].pc = "head"
    /\ \/ quarantine \in Mismatched /\ GotoR(r, "fail", "AWAITING_UPLOAD")
       \/ quarantine \in Contents \ Mismatched /\ GotoR(r, "complete", None)
       \/ request' = [request EXCEPT ![r] = IdleRequest]
    /\ UNCHANGED <<row, expired, storage, job, exec, run>>

\* completeUpload, one transaction under the status and the scan version.
CompleteUpload(r) ==
    /\ request[r].pc = "complete"
    /\ \/ /\ Awaiting /\ ~ expired
          /\ status' = "QUARANTINED" /\ version' = version + 1
          /\ GotoR(r, "enqueue", None)
       \/ /\ Awaiting /\ expired
          /\ status' = "EXPIRED" /\ UNCHANGED version
          /\ GotoR(r, "delete", None)
       \/ /\ ~ Awaiting
          /\ request' = [request EXCEPT ![r] =
                           IF status = "EXPIRED" THEN [pc |-> "delete", expect |-> None]
                           ELSE IdleRequest]
          /\ UNCHANGED <<status, version>>
    /\ UNCHANGED <<cleanKey, expired, storage, job, exec, run>>

NewJob == [state |-> "waiting", version |-> version, attempt |-> 0, stalls |-> 0]

\* The job may be in the queue although the call failed.
Enqueue(r) ==
    /\ request[r].pc = "enqueue"
    /\ \/ job' = NewJob /\ request' = [request EXCEPT ![r] = IdleRequest]
       \/ job' \in {job, NewJob} /\ GotoR(r, "fail", "QUARANTINED")
    /\ UNCHANGED <<row, expired, storage, exec, run>>

\* failAttachment, only from the status the request expects.
FailAttachment(r) ==
    /\ request[r].pc = "fail"
    /\ status' = IF status = request[r].expect THEN "FAILED" ELSE status
    /\ GotoR(r, "delete", None)
    /\ UNCHANGED <<version, cleanKey, expired, storage, job, exec, run>>

\* deleteObject of the quarantine object; an error is ignored.
DeleteUpload(r) ==
    /\ request[r].pc = "delete"
    /\ quarantine' \in {quarantine, None}
    /\ request' = [request EXCEPT ![r] = IdleRequest]
    /\ UNCHANGED <<row, expired, clean, job, exec, run>>

ApiDies(r) ==
    /\ ApiCrashes
    /\ request[r] # IdleRequest
    /\ request' = [request EXCEPT ![r] = IdleRequest]
    /\ UNCHANGED <<row, expired, storage, job, exec, run>>

-----------------------------------------------------------------------------
(* AttachmentProcessor *)

Goto(w, pc) == exec' = [exec EXCEPT ![w].pc = pc]

\* The execution the queue waits for; the lock of any other was taken away.
HasLock(w) == job.state = "active" /\ exec[w].lock = job.stalls

\* Leaving process().
Return(w) ==
    /\ exec' = [exec EXCEPT ![w] = IdleExec]
    /\ job' = IF HasLock(w) THEN [job EXCEPT !.state = "done"] ELSE job

Deliver(w) ==
    /\ exec[w] = IdleExec
    /\ job.state = "waiting"
    /\ job.attempt < MaxAttempts
    /\ job' = [job EXCEPT !.state = "active", !.attempt = @ + 1]
    /\ exec' = [exec EXCEPT ![w] = [pc |-> "claim", version |-> job.version,
                                    attempt |-> job.attempt + 1, lock |-> job.stalls,
                                    bytes |-> None]]
    /\ UNCHANGED <<row, expired, storage, request, run>>

Claimable_Queued == {"QUARANTINED"}
Claimable == {"QUARANTINED", "SCANNING"}

\* QUARANTINED -> SCANNING, or SCANNING again for a redelivery.
Claims(w) == version = exec[w].version /\ status \in Claimable
ClaimRow(w) == status' = IF Claims(w) THEN "SCANNING" ELSE status

\* The queue hears of an error: it tries the job again, or it has ended.
Retried(w) == exec[w].attempt < MaxAttempts
Abandon(w) ==
    /\ exec' = [exec EXCEPT ![w] = IdleExec]
    /\ job' = IF HasLock(w) THEN [job EXCEPT !.state = IF Retried(w) THEN "waiting" ELSE "done"] ELSE job

\* claim is called before the try: when it throws, with or without its effect,
\* the last attempt ends without a verdict.
Claim(w) ==
    /\ exec[w].pc = "claim"
    /\ \/ /\ ClaimRow(w)
          /\ IF Claims(w) THEN Goto(w, "get") /\ UNCHANGED job ELSE Return(w)
       \/ /\ Retried(w) \/ DbFails
          /\ ClaimRow(w) \/ UNCHANGED status
          /\ Abandon(w)
    /\ UNCHANGED <<version, cleanKey, expired, storage, request, run>>

\* The catch: the error is thrown on, or the last attempt records the failure.
Throw(w) == IF Retried(w) THEN Abandon(w) ELSE Goto(w, "fail") /\ UNCHANGED job

GetObject(w) ==
    /\ exec[w].pc = "get"
    /\ \/ /\ quarantine # None
          /\ exec' = [exec EXCEPT ![w].pc = "inspect", ![w].bytes = quarantine]
          /\ UNCHANGED job
       \/ Throw(w)
    /\ UNCHANGED <<row, expired, storage, request, run>>

\* Size, type and malware, of the bytes that were read; the scanner may fail.
Inspect(w) ==
    /\ exec[w].pc = "inspect"
    /\ \/ Goto(w, IF exec[w].bytes \in Acceptable THEN "copy" ELSE "reject") /\ UNCHANGED job
       \/ Throw(w)
    /\ UNCHANGED <<row, expired, storage, request, run>>

\* Every commit is under SCANNING and the scan version of the claim.  It may
\* throw, before or after its effect.
Owns_Any(w) == version = exec[w].version
Owns(w) == status = "SCANNING" /\ version = exec[w].version

Reject(w) ==
    /\ exec[w].pc = "reject"
    /\ \/ /\ status' = IF Owns(w) THEN "REJECTED" ELSE status
          /\ \/ Owns(w) /\ Goto(w, "deleteSource") /\ UNCHANGED job
             \/ ~ Owns(w) /\ Return(w)
             \/ Throw(w)
       \/ UNCHANGED status /\ Throw(w)
    /\ UNCHANGED <<version, cleanKey, expired, storage, request, run>>

\* copyObject copies what is in quarantine now to the key of what was read.
CopyObject(w) ==
    /\ exec[w].pc = "copy"
    /\ \/ /\ quarantine # None
          /\ clean' = [clean EXCEPT ![exec[w].bytes] = quarantine]
          /\ (Goto(w, "commit") /\ UNCHANGED job) \/ Throw(w)
       \/ UNCHANGED clean /\ Throw(w)
    /\ UNCHANGED <<row, expired, quarantine, request, run>>

CommitClean(w) ==
    /\ status' = IF Owns(w) THEN "CLEAN" ELSE status
    /\ cleanKey' = IF Owns(w) THEN exec[w].bytes ELSE cleanKey

CompleteClean(w) ==
    /\ exec[w].pc = "commit"
    /\ \/ CommitClean(w) /\ Goto(w, IF Owns(w) THEN "deleteSource" ELSE "deleteClean") /\ UNCHANGED job
       \/ (CommitClean(w) \/ UNCHANGED <<status, cleanKey>>) /\ Throw(w)
    /\ UNCHANGED <<version, expired, storage, request, run>>

\* Best effort, both of them.
DeleteSource(w) ==
    /\ exec[w].pc = "deleteSource"
    /\ quarantine' \in {quarantine, None}
    /\ Return(w)
    /\ UNCHANGED <<row, expired, clean, request, run>>

DeleteClean(w) ==
    /\ exec[w].pc = "deleteClean"
    /\ clean' \in {clean, [clean EXCEPT ![exec[w].bytes] = None]}
    /\ Return(w)
    /\ UNCHANGED <<row, expired, quarantine, request, run>>

\* A failure that is not recorded leaves the attachment SCANNING.
FailScan(w) ==
    /\ exec[w].pc = "fail"
    /\ \/ status' = IF Owns(w) THEN "FAILED" ELSE status
       \/ DbFails /\ UNCHANGED status
    /\ Return(w)
    /\ UNCHANGED <<version, cleanKey, expired, storage, request, run>>

\* An executor dies; one death more than BullMQ forgives ends the job in
\* Redis only, and the attachment stays SCANNING: not modelled.
ExecutorDies(w) ==
    /\ exec[w] # IdleExec
    /\ HasLock(w) => job.stalls < StallBound
    /\ exec' = [exec EXCEPT ![w] = IdleExec]
    /\ UNCHANGED <<row, expired, storage, request, job, run>>

\* BullMQ takes the lock of a silent executor, dead or alive, and delivers the
\* job again under the same attempt.
Stall ==
    /\ job.state = "active"
    /\ job.stalls < StallBound
    /\ Duplicates \/ \A w \in Executors : exec[w] # IdleExec => ~ HasLock(w)
    /\ job' = [job EXCEPT !.state = "waiting", !.stalls = @ + 1, !.attempt = @ - 1]
    /\ UNCHANGED <<row, expired, storage, request, exec, run>>

-----------------------------------------------------------------------------
(* The run *)

\* createRun copies the hash and the key of a CLEAN attachment.
CreateRun ==
    /\ status = "CLEAN"
    /\ snapshot = None
    /\ snapshot' = cleanKey
    /\ UNCHANGED <<row, expired, storage, request, job, exec, loaded>>

\* load: bytes of another hash than the snapshot's are refused.
Accepts_Any(bytes) == bytes # None
Accepts(bytes) == bytes = snapshot

LoadAttachment ==
    /\ snapshot # None
    /\ Accepts(clean[snapshot])
    /\ loaded' = clean[snapshot]
    /\ UNCHANGED <<row, expired, storage, request, job, exec, snapshot>>

-----------------------------------------------------------------------------
RequestNext(r) ==
    HeadObject(r) \/ CompleteUpload(r) \/ Enqueue(r) \/ FailAttachment(r) \/ DeleteUpload(r)

ExecutorNext(w) ==
    \/ Claim(w) \/ GetObject(w) \/ Inspect(w) \/ Reject(w) \/ CopyObject(w)
    \/ CompleteClean(w) \/ DeleteSource(w) \/ DeleteClean(w) \/ FailScan(w)

Next ==
    \/ \E c \in Contents : Upload(c)
    \/ UploadExpires \/ Stall \/ CreateRun \/ LoadAttachment
    \/ \E r \in Requests : BeginComplete(r) \/ RequestNext(r) \/ ApiDies(r)
    \/ \E w \in Executors : Deliver(w) \/ ExecutorNext(w) \/ ExecutorDies(w)

Spec == Init /\ [][Next]_vars

\* Requests and executors go on, the queue delivers, stalled jobs are found.
FairSpec ==
    /\ Spec
    /\ \A r \in Requests : WF_vars(RequestNext(r))
    /\ \A w \in Executors : WF_vars(ExecutorNext(w))
    /\ WF_vars(\E w \in Executors : Deliver(w))
    /\ WF_vars(Stall)

-----------------------------------------------------------------------------
(* Properties *)

\* "The worker reloads and re-hashes each snapshot" (secure-attachments.md):
\* whatever is uploaded, copied or deleted, and however many executors scan, the
\* agents of a run receive only bytes the scanner accepted.
RunReadsScannedBytes == loaded \in Acceptable \union {None}

\* A CLEAN attachment can be downloaded and read: its object is there.
CleanObjectExists == status = "CLEAN" => clean[cleanKey] # None

\* "A clean object is copied to an immutable hash-addressed clean key" (the
\* same document): what is under the key has the hash in the key.
CleanKeyIsItsHash == \A h \in Contents : clean[h] \in {None, h}

\* A verdict is final: only one of the executions that scan an attachment, and
\* of the requests that fail it, may commit, whichever call of theirs throws
\* after it took effect.
VerdictIsFinal ==
    status \in {"CLEAN", "REJECTED", "FAILED"} => status' = status /\ cleanKey' = cleanKey

\* "the final attempt becomes FAILED": every upload that was completed gets a
\* verdict.  The claim and the record of the failure must succeed for that.
ScanIsDue == status \in {"QUARANTINED", "SCANNING"}
ScanIsSettled == status \in Terminal
ScanSettles == ScanIsDue ~> ScanIsSettled
=============================================================================
