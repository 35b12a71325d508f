--------------------------- MODULE StagedUploads ---------------------------
(***************************************************************************)
(* A file an agent attaches: staged in the company's storage with its      *)
(* metadata in the two-tier cache (ConversationUploadsService,             *)
(* StagedUploadStore), consumed by the send that references it             *)
(* (OutgoingMediaService.prepare, AgentMessageSender.deliver), or swept    *)
(* once it is a day old (StagedUploadSweeper).  The move of the file and   *)
(* the note of it in the cache are two steps, and nothing locks an upload. *)
(*                                                                         *)
(* Each process has a memory tier of its own in front of Redis and runs    *)
(* one job of the chat queue at a time.  Which run of a message may call   *)
(* the provider is decided in module OutboundMessage; here a run prepares  *)
(* the file, saves the row and takes the file from it.                     *)
(***************************************************************************)
EXTENDS Naturals, FiniteSets

CONSTANTS Uploads,    \* files agents stage
          Messages,   \* client message ids
          UploadOf,   \* the upload a message references
          Foreign,    \* messages of another conversation, company or kind
          Processes,  \* API processes, each with one chat worker
          Nobody,     \* no process
          MaxRuns,    \* bound: runs of send jobs, retries included
          MaxCrashes, \* bound: processes that die
          MaxErrors   \* bound: file or cache operations that fail

ASSUME UploadsAssumption ==
    /\ UploadOf \in [Messages -> Uploads]
    /\ Foreign \subseteq Messages
    /\ Nobody \notin Processes
    /\ {MaxRuns, MaxCrashes, MaxErrors} \subseteq Nat

VARIABLES
    file,      \* where the file of an upload is
    old,       \* uploads older than STAGED_UPLOAD_TTL_MS
    staging,   \* the process whose request is staging an upload
    answered,  \* uploads whose id the client has
    redis,     \* upload:<id> in Redis ...
    memory,    \* ... and in the memory tier of each process
    run,       \* the send each process runs
    row,       \* messages: none, without a file, or with one
    crossed,   \* observer: uploads two runs or two tiers disagreed about
    runs, crashes, errors

stagedVars == <<file, old, staging, answered, redis, memory, run, row, crossed,
                runs, crashes, errors>>
uploadVars == <<file, old, staging, answered>>
bounds == <<runs, crashes, errors>>

Metadata == {"none", "staged", "consumed"}
NoRun == [at |-> "idle", for |-> {}, held |-> FALSE]

UploadsInit ==
    /\ file = [u \in Uploads |-> "none"]
    /\ old = {} /\ answered = {} /\ crossed = {}
    /\ staging = [u \in Uploads |-> Nobody]
    /\ redis = [u \in Uploads |-> "none"]
    /\ memory = [p \in Processes |-> [u \in Uploads |-> "none"]]
    /\ run = [p \in Processes |-> NoRun]
    /\ row = [m \in Messages |-> "none"]
    /\ runs = 0 /\ crashes = 0 /\ errors = 0

Error == errors < MaxErrors /\ errors' = errors + 1

\* The message of the run of a process, and its upload.
MessageOf(p) == CHOOSE m \in Messages : run[p].for = {m}
Upload(p) == UploadOf[MessageOf(p)]
RunsOf(u) == {p \in Processes : run[p].at # "idle" /\ Upload(p) = u
                                  /\ MessageOf(p) \notin Foreign}

Advance(p, at) == run' = [run EXCEPT ![p].at = at]
Prepared(p, got) == run' = [run EXCEPT ![p].at = "save", ![p].held = got]
-----------------------------------------------------------------------------
(* Staging: ConversationUploadsService.stage, StagedUploadStore.stage *)

\* The checked file is moved into the company's staged folder ...
Ingest(p, u) ==
    /\ file[u] = "none"
    /\ file' = [file EXCEPT ![u] = "staged"]
    /\ staging' = [staging EXCEPT ![u] = p]
    /\ UNCHANGED <<old, answered, redis, memory, run, row, crossed, bounds>>

\* ... and announced in both tiers of the cache.
AnnounceUpload(u) ==
    LET p == staging[u] IN
    /\ p # Nobody
    /\ redis' = [redis EXCEPT ![u] = "staged"]
    /\ memory' = [memory EXCEPT ![p][u] = "staged"]
    /\ answered' = answered \cup {u}
    /\ staging' = [staging EXCEPT ![u] = Nobody]
    /\ UNCHANGED <<file, old, run, row, crossed, bounds>>

\* The request fails, and the file stays.
AnnouncingFails(u) ==
    /\ staging[u] # Nobody
    /\ Error
    /\ staging' = [staging EXCEPT ![u] = Nobody]
    /\ UNCHANGED <<file, old, answered, redis, memory, run, row, crossed, runs, crashes>>
-----------------------------------------------------------------------------
(* A send: AgentMessageSender.deliver with StagedUploadStore.consume *)

\* A new send, the user's retry or a stalled job: they all come through here.
Begin(p, m) ==
    /\ run[p].at = "idle"
    /\ UploadOf[m] \in answered
    /\ runs < MaxRuns
    /\ runs' = runs + 1
    /\ run' = [run EXCEPT ![p] = [at |-> "lookup", for |-> {m}, held |-> FALSE]]
    /\ crossed' = IF m \in Foreign \/ RunsOf(UploadOf[m]) = {} THEN crossed
                  ELSE crossed \cup {UploadOf[m]}
    /\ UNCHANGED <<uploadVars, redis, memory, row, crashes, errors>>

\* The first tier that has the key answers.
Found(p, u) == IF memory[p][u] # "none" THEN memory[p][u] ELSE redis[u]

\* Mutated form, for the mutation runs: `consumed` is not looked at.
LookupForgetful(p) ==
    LET u == Upload(p)
        found == Found(p, u)
    IN
    /\ run[p].at = "lookup"
    /\ IF found = "none" \/ MessageOf(p) \in Foreign THEN Prepared(p, FALSE)
                                                     ELSE Advance(p, "move")
    /\ crossed' = IF found = "staged" /\ redis[u] = "consumed" THEN crossed \cup {u} ELSE crossed
    /\ UNCHANGED <<uploadVars, redis, memory, row, bounds>>

\* Unknown, expired or out of scope; already consumed; or to be moved now.
Lookup(p) ==
    LET u == Upload(p)
        found == Found(p, u)
    IN
    /\ run[p].at = "lookup"
    /\ CASE found = "none" \/ MessageOf(p) \in Foreign -> Prepared(p, FALSE)
         [] found = "consumed" /\ MessageOf(p) \notin Foreign -> Prepared(p, TRUE)
         [] OTHER -> Advance(p, "move")
    /\ crossed' = IF found = "staged" /\ redis[u] = "consumed" THEN crossed \cup {u} ELSE crossed
    /\ UNCHANGED <<uploadVars, redis, memory, row, bounds>>

\* rename: fails when the file is no longer in the staged folder.
Move(p) ==
    LET u == Upload(p) IN
    /\ run[p].at = "move"
    /\ IF file[u] = "staged"
       THEN file' = [file EXCEPT ![u] = "final"] /\ Advance(p, "remember")
       ELSE UNCHANGED file /\ Prepared(p, FALSE)
    /\ UNCHANGED <<old, staging, answered, redis, memory, row, crossed, bounds>>

Remember(p) ==
    LET u == Upload(p) IN
    /\ run[p].at = "remember"
    /\ redis' = [redis EXCEPT ![u] = "consumed"]
    /\ memory' = [memory EXCEPT ![p][u] = "consumed"]
    /\ Prepared(p, TRUE)
    /\ UNCHANGED <<uploadVars, row, crossed, bounds>>

\* A lookup, a move or a note that throws is caught by deliver, which goes on
\* without a file.
PrepareFails(p) ==
    /\ run[p].at \in {"lookup", "move", "remember"}
    /\ Error
    /\ Prepared(p, FALSE)
    /\ UNCHANGED <<uploadVars, redis, memory, row, crossed, runs, crashes>>

\* saveOutbound: a row that exists is taken as it is.
Save(p) ==
    LET m == MessageOf(p) IN
    /\ run[p].at = "save"
    /\ row' = IF row[m] # "none" THEN row
              ELSE [row EXCEPT ![m] = IF run[p].held THEN "attached" ELSE "bare"]
    /\ Advance(p, "provide")
    /\ UNCHANGED <<uploadVars, redis, memory, crossed, bounds>>

\* attachmentOf, toProvider: the file of the row, or a failed send.
Provide(p) ==
    /\ run[p].at = "provide"
    /\ run' = [run EXCEPT ![p] = NoRun]
    /\ UNCHANGED <<uploadVars, redis, memory, row, crossed, bounds>>
-----------------------------------------------------------------------------
(* Time, the sweeper and the processes *)

GrowOld(u) ==
    /\ file[u] # "none" /\ u \notin old
    /\ old' = old \cup {u}
    /\ UNCHANGED <<file, staging, answered, redis, memory, run, row, crossed, bounds>>

\* Only files of the staged folders are looked at.
Sweep(u) ==
    /\ u \in old /\ file[u] = "staged"
    /\ file' = [file EXCEPT ![u] = "swept"]
    /\ UNCHANGED <<old, staging, answered, redis, memory, run, row, crossed, bounds>>

Expire(u) ==
    /\ u \in old /\ redis[u] # "none"
    /\ redis' = [redis EXCEPT ![u] = "none"]
    /\ UNCHANGED <<uploadVars, memory, run, row, crossed, bounds>>

\* The memory tier holds 5000 keys, and drops those it used last.
Forget(p, u) ==
    /\ memory[p][u] # "none"
    /\ memory' = [memory EXCEPT ![p][u] = "none"]
    /\ UNCHANGED <<uploadVars, redis, run, row, crossed, bounds>>

Crash(p) ==
    /\ crashes < MaxCrashes
    /\ crashes' = crashes + 1
    /\ run' = [run EXCEPT ![p] = NoRun]
    /\ memory' = [memory EXCEPT ![p] = [u \in Uploads |-> "none"]]
    /\ staging' = [u \in Uploads |-> IF staging[u] = p THEN Nobody ELSE staging[u]]
    /\ UNCHANGED <<file, old, answered, redis, row, crossed, runs, errors>>

Send(p) == Lookup(p) \/ Move(p) \/ Remember(p) \/ Save(p) \/ Provide(p)

UploadsNext == \/ \E u \in Uploads : \/ AnnounceUpload(u) \/ AnnouncingFails(u)
                              \/ GrowOld(u) \/ Sweep(u) \/ Expire(u)
        \/ \E p \in Processes : \/ Send(p) \/ PrepareFails(p) \/ Crash(p)
                                \/ \E u \in Uploads : Ingest(p, u) \/ Forget(p, u)
                                \/ \E m \in Messages : Begin(p, m)

UploadsSpec == UploadsInit /\ [][UploadsNext]_stagedVars

-----------------------------------------------------------------------------
(* Properties. *)

\* A row is without its file only if the upload was foreign or a day old, two
\* sends crossed on the upload (or a process took an old note of it for true),
\* or an operation failed or a process died on the way.  A retry does not give
\* it the file any more.
LostFilesHaveACause ==
    \A m \in Messages \ Foreign :
        row[m] = "bare" => \/ UploadOf[m] \in old \cup crossed
                           \/ crashes + errors > 0

\* StagedUploadStore.consume: "Idempotent: a retried send gets the same file": a
\* send of an upload that is still valid and already moved is given that file.
RetriedSendGetsTheFile ==
    \A p \in Processes :
        run[p].at = "save" /\ MessageOf(p) \notin Foreign
          /\ file[Upload(p)] = "final" /\ Upload(p) \notin old /\ errors = 0
        => run[p].held

\* The same comment, of an upload that was moved for a send that never saved
\* its row: once its metadata is gone nothing refers to the file or deletes it.
MovedFilesHaveARow ==
    \A u \in Uploads :
        file[u] = "final" /\ u \in old /\ redis[u] = "none" /\ RunsOf(u) = {}
        => \E m \in Messages : UploadOf[m] = u /\ row[m] = "attached"
=============================================================================
