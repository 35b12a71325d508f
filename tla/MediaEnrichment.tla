---------------------------- MODULE MediaEnrichment ----------------------------
(***************************************************************************)
(* The files of an inbound message: the row is saved with pending          *)
(* attachments, one queue job downloads each file and settles its          *)
(* attachment as ready or failed, and a settled attachment is patched over *)
(* the sockets (InboundMediaEnrichmentService).                            *)
(*                                                                         *)
(* The queue runs a job MaxAttempts times if it throws, and hands it out   *)
(* again once when its worker is dead or late, which is no attempt made; a *)
(* late worker does not know and goes on (BullMQ 5, external).  An error   *)
(* that is no answer of the provider, a database error included, counts as *)
(* retryable (classifyWhatsAppError).  The facts published for the metrics *)
(* are left out.                                                           *)
(***************************************************************************)
EXTENDS Naturals, FiniteSets

CONSTANTS
    Attachments,  \* attachments of the message with a provider file
    Workers,      \* passes of the job that may overlap
    MaxAttempts,  \* ENRICH_MEDIA_ATTEMPTS
    MaxErrors,    \* bound: retryable errors inside a pass
    MaxOutages    \* bound: statements outside its try block that fail

ASSUME MediaAssumption ==
    /\ IsFiniteSet(Attachments)
    /\ MaxAttempts \in Nat \ {0}
    /\ {MaxErrors, MaxOutages} \subseteq Nat

VARIABLES
    status,    \* message_attachments.status
    job,       \* the job of the message, "lost" if it could not be queued
    attempts,  \* its attemptsMade
    stalls,    \* times it was handed out again
    pass,      \* what each worker is doing
    patches,   \* observer: patches sent for each attachment
    spent,     \* observer: attachments failed by a retryable error
    errors, outages

mediaVars == <<status, job, attempts, stalls, pass, patches, spent, errors, outages>>

\* `todo` is what the pass read as pending and has not come to, `now` the
\* attachment it is at, `channel` what it has to download with, `last` whether
\* it runs the last attempt, `owner` whether the queue still takes its word.
Pass == [at: {"idle", "read", "lookup", "next", "download", "ready", "readyBack",
              "fail", "failBack"},
         todo: SUBSET Attachments, now: SUBSET Attachments,
         channel: {"unknown", "found", "none", "unreadable"},
         last: BOOLEAN, owner: BOOLEAN]

NoPass == [at |-> "idle", todo |-> {}, now |-> {}, channel |-> "unknown",
           last |-> FALSE, owner |-> FALSE]

MediaInit ==
    /\ status = [a \in Attachments |-> "pending"]
    /\ job = "none" /\ attempts = 0 /\ stalls = 0
    /\ pass = [w \in Workers |-> NoPass]
    /\ patches = [a \in Attachments |-> {}]
    /\ spent = {}
    /\ errors = 0 /\ outages = 0

Pending == {a \in Attachments : status[a] = "pending"}

IsLastAttemptEarly(made) == made + 2 >= MaxAttempts
IsLastAttemptLate(made) == made >= MaxAttempts

IsLastAttempt(made) == made + 1 >= MaxAttempts

-----------------------------------------------------------------------------
(* The queue.                                                               *)

\* A failed enqueue is logged and nobody tries again.
Enqueue ==
    /\ job = "none"
    /\ \/ job' = "waiting" /\ outages' = outages
       \/ job' = "lost" /\ outages < MaxOutages /\ outages' = outages + 1
    /\ UNCHANGED <<status, attempts, stalls, pass, patches, spent, errors>>

PickUp(w) ==
    /\ pass[w].at = "idle"
    /\ job = "waiting"
    /\ job' = "active"
    /\ pass' = [pass EXCEPT ![w] = [NoPass EXCEPT
            !.at = "read", !.last = IsLastAttempt(attempts), !.owner = TRUE]]
    /\ UNCHANGED <<status, attempts, stalls, patches, spent, errors, outages>>

\* The pass returns: the job is done if the queue still takes its word.
Return(w) ==
    /\ pass' = [pass EXCEPT ![w] = NoPass]
    /\ job' = IF pass[w].owner THEN "done" ELSE job
    /\ UNCHANGED attempts

\* The pass throws: the job is retried, or has failed for good.
Throw(w) ==
    /\ pass' = [pass EXCEPT ![w] = NoPass]
    /\ IF pass[w].owner
       THEN \/ attempts + 1 < MaxAttempts /\ job' = "waiting" /\ attempts' = attempts + 1
            \/ attempts + 1 >= MaxAttempts /\ job' = "failed" /\ attempts' = attempts
       ELSE UNCHANGED <<job, attempts>>

Owned == \E w \in Workers : pass[w].owner

\* The queue gives up on a worker, which may only be late.
HandOut ==
    /\ job = "active"
    /\ stalls' = stalls + 1
    /\ job' = IF stalls = 0 THEN "waiting" ELSE "failed"
    /\ pass' = [w \in Workers |-> [pass[w] EXCEPT !.owner = FALSE]]
    /\ UNCHANGED <<status, attempts, patches, spent, errors, outages>>

Crash(w) ==
    /\ pass[w].at # "idle"
    /\ pass' = [pass EXCEPT ![w] = NoPass]
    /\ UNCHANGED <<status, job, attempts, stalls, patches, spent, errors, outages>>

-----------------------------------------------------------------------------
(* enrich: one pass over the attachments that are pending.                  *)

FindPending(w) ==
    /\ pass[w].at = "read"
    /\ IF Pending = {} THEN Return(w)
       ELSE /\ pass' = [pass EXCEPT ![w].at = "lookup", ![w].todo = Pending]
            /\ UNCHANGED <<job, attempts>>
    /\ UNCHANGED <<status, stalls, patches, spent, errors, outages>>

ResolveTransmission(w) ==
    /\ pass[w].at = "lookup"
    /\ \E found \in {"found", "none"} :
            pass' = [pass EXCEPT ![w].at = "next", ![w].channel = found]
    /\ UNCHANGED <<status, job, attempts, stalls, patches, spent, errors, outages>>

NextAttachment(w) ==
    /\ pass[w].at = "next"
    /\ \E a \in pass[w].todo :
        pass' = [pass EXCEPT ![w].todo = @ \ {a}, ![w].now = {a},
                    ![w].at = IF pass[w].channel = "found" THEN "download" ELSE "fail"]
    /\ UNCHANGED <<status, job, attempts, stalls, patches, spent, errors, outages>>

\* The file comes, or it is too large, gone, or not ours to read.
Download(w) ==
    /\ pass[w].at = "download"
    /\ \E outcome \in {"ready", "fail"} : pass' = [pass EXCEPT ![w].at = outcome]
    /\ UNCHANGED <<status, job, attempts, stalls, patches, spent, errors, outages>>

\* A retryable error: rethrown while attempts are left, else the attachment,
\* or each of them, fails.
Falter(w) ==
    /\ pass[w].at \in {"lookup", "download", "ready", "readyBack"}
    /\ errors < MaxErrors
    /\ errors' = errors + 1
    /\ IF ~pass[w].last
       THEN Throw(w) /\ UNCHANGED spent
       ELSE /\ pass' = IF pass[w].at = "lookup"
                       THEN [pass EXCEPT ![w].at = "next", ![w].channel = "unreadable"]
                       ELSE [pass EXCEPT ![w].at = "fail"]
            /\ spent' = spent \cup (IF pass[w].at = "lookup" THEN pass[w].todo
                                    ELSE pass[w].now)
            /\ UNCHANGED <<job, attempts>>
    /\ UNCHANGED <<status, stalls, patches, outages>>

\* On to the next attachment, or done.
Proceed(w) ==
    IF pass[w].todo = {} THEN Return(w)
    ELSE /\ pass' = [pass EXCEPT ![w].at = "next", ![w].now = {}]
         /\ UNCHANGED <<job, attempts>>

SettleBlindly(w) ==
    /\ pass[w].at \in {"ready", "fail"}
    /\ \E a \in pass[w].now :
        /\ status' = [status EXCEPT ![a] =
                IF pass[w].at = "ready" THEN "ready" ELSE "failed"]
        /\ pass' = [pass EXCEPT ![w].at =
                IF pass[w].at = "ready" THEN "readyBack" ELSE "failBack"]
    /\ UNCHANGED <<job, attempts, stalls, patches, spent, errors, outages>>

\* markAttachmentReady and markAttachmentFailed: only a pending attachment.
Settle(w) ==
    /\ pass[w].at \in {"ready", "fail"}
    /\ \E a \in pass[w].now :
        IF status[a] = "pending"
        THEN /\ status' = [status EXCEPT ![a] =
                    IF pass[w].at = "ready" THEN "ready" ELSE "failed"]
             /\ pass' = [pass EXCEPT ![w].at =
                    IF pass[w].at = "ready" THEN "readyBack" ELSE "failBack"]
             /\ UNCHANGED <<job, attempts>>
        ELSE Proceed(w) /\ UNCHANGED status
    /\ UNCHANGED <<stalls, patches, spent, errors, outages>>

\* The row is read back and its patch emitted.
EmitPatch(w) ==
    /\ pass[w].at \in {"readyBack", "failBack"}
    /\ \E a \in pass[w].now :
        patches' = [patches EXCEPT ![a] =
            @ \cup {[status |-> status[a], nth |-> Cardinality(@) + 1]}]
    /\ Proceed(w)
    /\ UNCHANGED <<status, stalls, spent, errors, outages>>

\* A statement outside the try block fails: reading the message or its pending
\* attachments, or marking one as failed.
Outage(w) ==
    /\ pass[w].at \in {"read", "fail", "failBack"}
    /\ outages < MaxOutages
    /\ outages' = outages + 1
    /\ Throw(w)
    /\ UNCHANGED <<status, stalls, patches, spent, errors>>

Work(w) ==
    \/ PickUp(w) \/ FindPending(w) \/ ResolveTransmission(w) \/ NextAttachment(w)
    \/ Download(w) \/ Settle(w) \/ EmitPatch(w)

MediaNext ==
    \/ Enqueue
    \/ HandOut
    \/ \E w \in Workers : Work(w) \/ Falter(w) \/ Outage(w) \/ Crash(w)

\* A worker that can go on does, and the queue hands out the job of a dead one.
MediaFairness ==
    /\ WF_mediaVars(HandOut /\ ~Owned)
    /\ \A w \in Workers : WF_mediaVars(Work(w))

MediaSpec == MediaInit /\ [][MediaNext]_mediaVars /\ MediaFairness

-----------------------------------------------------------------------------
(* Attachments, the job and the passes are well formed; at most one pass    *)
(* speaks for the job, and then the job is active.                          *)
MediaTypeOK ==
    /\ status \in [Attachments -> {"pending", "ready", "failed"}]
    /\ job \in {"none", "lost", "waiting", "active", "done", "failed"}
    /\ attempts \in 0..MaxAttempts
    /\ stalls \in 0..2
    /\ pass \in [Workers -> Pass]
    /\ \A w \in Workers : pass[w].owner => job = "active"
    /\ \A v, w \in Workers : pass[v].owner /\ pass[w].owner => v = w
    /\ spent \subseteq Attachments
    /\ errors \in 0..MaxErrors /\ outages \in 0..MaxOutages

(* An attachment is patched at most once, never before it is settled, and   *)
(* with the status its row keeps: whatever passes overlap, come late or are *)
(* repeated ("no second patch is ever emitted", enrichment.service.ts).     *)
OnePatchEach ==
    \A a \in Attachments :
        patches[a] # {} => /\ status[a] # "pending"
                           /\ patches[a] = {[status |-> status[a], nth |-> 1]}

(* A finished job leaves nothing pending, and passing trouble takes all the *)
(* attempts before it fails a file or the job: a retryable error for each,  *)
(* whichever workers died meanwhile (shouldRetry, isLastAttempt).           *)
NothingGivenUpEarly ==
    /\ job = "done" => Pending = {}
    /\ spent # {} \/ (job = "failed" /\ stalls < 2) =>
            errors + outages >= MaxAttempts

(* However often the provider fails and whichever worker dies, the files of *)
(* a queued job are settled; only statements outside the try block, and a   *)
(* second stall, leave an attachment pending (enrich).                      *)
FilesSettle ==
    job = "waiting" ~> (Pending = {} \/ outages > 0 \/ stalls = 2)
================================================================================
