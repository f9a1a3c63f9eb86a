----------------------------- MODULE Broadcast -----------------------------
(***************************************************************************)
(* The broadcast and scheduled-message pipeline of kontak.                 *)
(*                                                                         *)
(* Two HTTP handlers (CreateBroadcast, ScheduleMessage) insert a job row   *)
(* and then its recipient rows, one statement each.  One background        *)
(* goroutine (BroadcastService.Start) wakes up, snapshots the due jobs,    *)
(* and walks through them job by job and recipient by recipient.  Database *)
(* and worker only meet in the rows: there is no transaction and no lock   *)
(* around any two statements, and every statement may fail.                *)
(*                                                                         *)
(* A job's id names the HTTP request that creates it.                      *)
(***************************************************************************)
EXTENDS Integers, Sequences, FiniteSets

CONSTANTS
    Jobs,         \* ids of broadcast_jobs rows
    Recipients,   \* recipient JIDs
    Users,        \* ids of users rows
    Devices,      \* ids of clients rows (WhatsApp devices)
    DeviceOwner,  \* clients.user_id
    Requests,     \* the request bodies the handlers may receive
    NoRequest,    \* a job id no request has used yet
    NoJob,        \* the worker is not inside processJob
    NoRecipient,  \* the worker is not inside sendBroadcastMessage
    Faults,       \* which of "db", "send" may go wrong
    MaxTime,      \* bound: the clock stops here
    MaxCrashes    \* bound: how often the server process may die

RequestType ==
    [kind   : {"broadcast", "schedule"},
     user   : Users,
     device : Devices,
     to     : Seq(Recipients),                      \* with repetitions
     when   : {"absent", "unparsable", "instant"},  \* the scheduled_at string
     at     : Nat]                                  \* its value, if an instant

ASSUME BroadcastAssumption ==
    /\ Requests \subseteq RequestType
    /\ \A q \in Requests : q.kind = "schedule" => Len(q.to) = 1
    /\ DeviceOwner \in [Devices -> Users]
    /\ NoRequest \notin Requests
    /\ NoJob \notin Jobs
    /\ NoRecipient \notin Recipients
    /\ Faults \subseteq {"db", "send"}
    /\ MaxTime \in Nat
    /\ MaxCrashes \in Nat

VARIABLES
    \* the database
    users,      \* users rows that exist
    request,    \* the columns of a job row that never change
    createdAt,  \* broadcast_jobs.created_at
    status,     \* broadcast_jobs.status; "none" before, "deleted" after
    rcpt,       \* broadcast_recipients.status; "none" when there is no row
    logged,     \* outgoing message_logs rows of broadcast messages
    threaded,   \* message_threads touched for a broadcast message
    \* the server process
    todo,       \* recipients a running handler has still to insert
    wpc,        \* where the worker goroutine is
    batch,      \* jobs of the current processPendingJobs call not yet begun
    cur,        \* job of the current processJob call
    queue,      \* recipients of the current processJob call not yet tried
    target,     \* recipient of the current sendBroadcastMessage call
    result,     \* its outcome: the local variable status
    \* the environment
    now,        \* the wall clock, shared by the database and the server
    online,     \* devices for which IsConnected holds
    sends,      \* how often WhatsApp accepted job j's message to r
    crashes

dbVars     == <<users, request, createdAt, status, rcpt, logged, threaded>>
handlerVars == <<todo>>
workerVars == <<wpc, batch, cur, queue, target, result>>
envVars    == <<now, online, sends, crashes>>
vars       == <<dbVars, handlerVars, workerVars, envVars>>

TypeOK ==
    /\ users \subseteq Users
    /\ request \in [Jobs -> Requests \cup {NoRequest}]
    /\ createdAt \in [Jobs -> Nat]
    /\ status \in [Jobs -> {"none", "pending", "processing", "completed", "deleted"}]
    /\ rcpt \in [Jobs -> [Recipients -> {"none", "pending", "sent", "failed"}]]
    /\ logged \subseteq Jobs \X Recipients
    /\ threaded \subseteq Jobs \X Recipients
    /\ todo \in [Jobs -> Seq(Recipients)]
    /\ wpc \in {"idle", "pick", "fetch", "loop", "log", "thread", "record"}
    /\ batch \subseteq Jobs
    /\ cur \in Jobs \cup {NoJob}
    /\ queue \subseteq Recipients
    /\ target \in Recipients \cup {NoRecipient}
    /\ result \in {"sent", "failed"}
    /\ now \in Nat
    /\ online \subseteq Devices
    /\ sends \in [Jobs -> [Recipients -> Nat]]
    /\ crashes \in Nat

Init ==
    /\ users = Users
    /\ request = [j \in Jobs |-> NoRequest]
    /\ createdAt = [j \in Jobs |-> 0]
    /\ status = [j \in Jobs |-> "none"]
    /\ rcpt = [j \in Jobs |-> [r \in Recipients |-> "none"]]
    /\ logged = {}
    /\ threaded = {}
    /\ todo = [j \in Jobs |-> <<>>]
    /\ wpc = "idle"
    /\ batch = {}
    /\ cur = NoJob
    /\ queue = {}
    /\ target = NoRecipient
    /\ result = "failed"
    /\ now = 0
    /\ online = {}
    /\ sends = [j \in Jobs |-> [r \in Recipients |-> 0]]
    /\ crashes = 0

DbMayFail == "db" \in Faults

IsScheduled(j) == request[j].when = "instant"

-----------------------------------------------------------------------------
(* Faulty variants of definitions below.  No specification uses them: each *)
(* is a bug this code could plausibly have, and one of the properties at   *)
(* the end of the module rejects it.                                       *)

\* Jobs left in "processing" by a crash are picked up again.
DueIncludesProcessing(j) ==
    /\ status[j] \in {"pending", "processing"}
    /\ IsScheduled(j) => request[j].at <= now

\* The scheduled_at condition of the query is lost.
DueIgnoresSchedule(j) == status[j] = "pending"

\* The ORDER BY of the query is lost.
OldestIsAny(j) == j \in batch

\* After its last job the worker does not go back to its ticker.
ReturnToBatchNeverIdle == wpc' = "pick" /\ cur' = NoJob

\* A job that ran is marked with the schema's unused status "failed".
SetJobStatusMarksFailed(j, s) ==
    status' = [status EXCEPT ![j] = IF s = "completed" THEN "failed" ELSE s]

\* The recipient just tried stays in the list.
NextRecipientKeepsIt(r) ==
    /\ wpc = "loop"
    /\ r \in queue
    /\ target' = r
    /\ UNCHANGED queue

\* The outcome is not looked at.
SetRecipientStatusAlwaysSent(j, r, s) ==
    rcpt' = [rcpt EXCEPT ![j][r] = IF @ = "none" THEN @ ELSE "sent"]

\* Only failures are written back.
SetRecipientStatusFailedOnly(j, r, s) ==
    rcpt' = [rcpt EXCEPT ![j][r] = IF @ = "none" \/ s = "sent" THEN @ ELSE s]

\* Only successes are written back.
SetRecipientStatusSentOnly(j, r, s) ==
    rcpt' = [rcpt EXCEPT ![j][r] = IF @ = "none" \/ s = "failed" THEN @ ELSE s]

-----------------------------------------------------------------------------
(* The HTTP handlers.                                                      *)

\* INSERT INTO broadcast_jobs.  When the statement commits but its answer is
\* lost, the handler returns 500 and never reaches the recipients.
CreateBroadcastJob(j, q) ==
    /\ request[j] = NoRequest
    /\ q.user \in users
    /\ request' = [request EXCEPT ![j] = q]
    /\ createdAt' = [createdAt EXCEPT ![j] = now]
    /\ status' = [status EXCEPT ![j] = "pending"]
    /\ \/ todo' = [todo EXCEPT ![j] = q.to]
       \/ DbMayFail /\ UNCHANGED todo
    /\ UNCHANGED <<users, rcpt, logged, threaded, workerVars, envVars>>

\* An unparsable scheduled_at is accepted here: the job is not scheduled.
CreateBroadcast(j, q) ==
    /\ q.kind = "broadcast"
    /\ DeviceOwner[q.device] = q.user
    /\ CreateBroadcastJob(j, q)

\* Here it is answered with 400, and the device's owner is not looked up.
ScheduleMessage(j, q) ==
    /\ q.kind = "schedule"
    /\ q.when = "instant"
    /\ CreateBroadcastJob(j, q)

\* INSERT INTO broadcast_recipients ... ON CONFLICT DO NOTHING; once the job
\* row is gone the foreign key refuses it.
InsertRecipient(j, r) ==
    rcpt' = [rcpt EXCEPT ![j][r] =
               IF status[j] # "deleted" /\ @ = "none" THEN "pending" ELSE @]

\* An error does not stop the loop.
CreateBroadcastRecipient(j) ==
    /\ todo[j] # <<>>
    /\ todo' = [todo EXCEPT ![j] = Tail(@)]
    /\ InsertRecipient(j, Head(todo[j])) \/ (DbMayFail /\ UNCHANGED rcpt)
    /\ UNCHANGED <<users, request, createdAt, status, logged, threaded,
                   workerVars, envVars>>

\* The administration TUI deletes a users row (of a user without API keys, whose
\* foreign key refuses it); its job and recipient rows go with it (ON DELETE
\* CASCADE), whatever the worker is doing with them.
DeleteUser(u) ==
    LET gone == {j \in Jobs : request[j] # NoRequest /\ request[j].user = u}
    IN  /\ u \in users
        /\ users' = users \ {u}
        /\ status' = [j \in Jobs |-> IF j \in gone THEN "deleted" ELSE status[j]]
        /\ rcpt' = [j \in Jobs |-> IF j \in gone THEN [r \in Recipients |-> "none"]
                                                 ELSE rcpt[j]]
        /\ UNCHANGED <<request, createdAt, logged, threaded, handlerVars,
                       workerVars, envVars>>

-----------------------------------------------------------------------------
(* The worker goroutine.                                                   *)

Due(j) == status[j] = "pending" /\ (IsScheduled(j) => request[j].at <= now)

\* GetPendingBroadcastJobs at a tick.  A tick that finds no job, or whose
\* query fails, changes nothing and is no step of the model.
GetPendingBroadcastJobs ==
    /\ wpc = "idle"
    /\ \E j \in Jobs : Due(j)
    /\ batch' = {j \in Jobs : Due(j)}
    /\ wpc' = "pick"
    /\ UNCHANGED <<dbVars, handlerVars, cur, queue, target, result, envVars>>

Oldest(j) == j \in batch /\ \A k \in batch : createdAt[j] <= createdAt[k]

\* processJob returns to the loop of processPendingJobs.
ReturnToBatch ==
    /\ wpc' = IF batch' = {} THEN "idle" ELSE "pick"
    /\ cur' = NoJob

\* UPDATE ... SET status = s WHERE id = j: no error when the row is gone.
SetJobStatus(j, s) ==
    status' = [status EXCEPT ![j] = IF @ = "deleted" THEN @ ELSE s]

\* processJob up to the answer of its first statement.
BeginJob(j) ==
    /\ wpc = "pick"
    /\ Oldest(j)
    /\ batch' = batch \ {j}
    /\ SetJobStatus(j, "processing")
    /\ cur' = j
    /\ wpc' = "fetch"
    /\ UNCHANGED <<users, request, createdAt, rcpt, logged, threaded, handlerVars,
                   queue, target, result, envVars>>

\* The statement reports an error, with or without having taken effect.
BeginJobFails(j) ==
    /\ wpc = "pick"
    /\ Oldest(j)
    /\ DbMayFail
    /\ batch' = batch \ {j}
    /\ UNCHANGED status \/ SetJobStatus(j, "processing")
    /\ ReturnToBatch
    /\ UNCHANGED <<users, request, createdAt, rcpt, logged, threaded, handlerVars,
                   queue, target, result, envVars>>

GetPendingRecipients ==
    /\ wpc = "fetch"
    /\ queue' = {r \in Recipients : rcpt[cur][r] = "pending"}
    /\ wpc' = "loop"
    /\ UNCHANGED <<dbVars, handlerVars, batch, cur, target, result, envVars>>

GetPendingRecipientsFails ==
    /\ wpc = "fetch"
    /\ DbMayFail
    /\ UNCHANGED batch
    /\ ReturnToBatch
    /\ UNCHANGED <<dbVars, handlerVars, queue, target, result, envVars>>

Device(j) == request[j].device

\* The order of the snapshot is that of random row ids: any recipient is next.
NextRecipient(r) ==
    /\ wpc = "loop"
    /\ r \in queue
    /\ queue' = queue \ {r}
    /\ target' = r

Accepted(r) == sends' = [sends EXCEPT ![cur][r] = @ + 1]

SendSucceeds(r) ==
    /\ NextRecipient(r)
    /\ Device(cur) \in online
    /\ Accepted(r)
    /\ result' = "sent"
    /\ wpc' = "log"
    /\ UNCHANGED <<dbVars, handlerVars, batch, cur, now, online, crashes>>

\* Not connected, an unparsable JID, a send error, or an answer that is lost
\* after WhatsApp accepted the message.
SendFails(r) ==
    /\ NextRecipient(r)
    /\ \/ Device(cur) \notin online /\ UNCHANGED sends
       \/ "send" \in Faults /\ UNCHANGED sends
       \/ "send" \in Faults /\ Device(cur) \in online /\ Accepted(r)
    /\ result' = "failed"
    /\ wpc' = "record"
    /\ UNCHANGED <<dbVars, handlerVars, batch, cur, now, online, crashes>>

\* LogOutgoingMessage; an error is only logged.
LogOutgoingMessage ==
    /\ wpc = "log"
    /\ logged' = logged \cup {<<cur, target>>} \/ (DbMayFail /\ UNCHANGED logged)
    /\ wpc' = "thread"
    /\ UNCHANGED <<users, request, createdAt, status, rcpt, threaded, handlerVars,
                   batch, cur, queue, target, result, envVars>>

\* UpsertThread; its error is dropped.
UpsertThread ==
    /\ wpc = "thread"
    /\ threaded' = threaded \cup {<<cur, target>>} \/ (DbMayFail /\ UNCHANGED threaded)
    /\ wpc' = "record"
    /\ UNCHANGED <<users, request, createdAt, status, rcpt, logged, handlerVars,
                   batch, cur, queue, target, result, envVars>>

\* UPDATE broadcast_recipients ...: no error when the row is gone.
SetRecipientStatus(j, r, s) ==
    rcpt' = [rcpt EXCEPT ![j][r] = IF @ = "none" THEN @ ELSE s]

UpdateBroadcastRecipientStatus ==
    /\ wpc = "record"
    /\ SetRecipientStatus(cur, target, result) \/ (DbMayFail /\ UNCHANGED rcpt)
    /\ wpc' = "loop"
    /\ target' = NoRecipient
    /\ result' = "failed"
    /\ UNCHANGED <<users, request, createdAt, status, logged, threaded, handlerVars,
                   batch, cur, queue, envVars>>

CompleteJob ==
    /\ wpc = "loop"
    /\ queue = {}
    /\ SetJobStatus(cur, "completed") \/ (DbMayFail /\ UNCHANGED status)
    /\ UNCHANGED batch
    /\ ReturnToBatch
    /\ UNCHANGED <<users, request, createdAt, rcpt, logged, threaded, handlerVars,
                   queue, target, result, envVars>>

-----------------------------------------------------------------------------
(* The environment.                                                        *)

Tick ==
    /\ now < MaxTime
    /\ now' = now + 1
    /\ UNCHANGED <<dbVars, handlerVars, workerVars, online, sends, crashes>>

GoOnline(d) ==
    /\ d \notin online
    /\ online' = online \cup {d}
    /\ UNCHANGED <<dbVars, handlerVars, workerVars, now, sends, crashes>>

GoOffline(d) ==
    /\ d \in online
    /\ online' = online \ {d}
    /\ UNCHANGED <<dbVars, handlerVars, workerVars, now, sends, crashes>>

\* The process dies (or is shut down: Run never cancels the worker's context)
\* and starts again.  Only the database survives.
Crash ==
    /\ crashes < MaxCrashes
    /\ crashes' = crashes + 1
    /\ todo' = [j \in Jobs |-> <<>>]
    /\ wpc' = "idle"
    /\ batch' = {}
    /\ cur' = NoJob
    /\ queue' = {}
    /\ target' = NoRecipient
    /\ result' = "failed"
    /\ online' = {}
    /\ UNCHANGED <<dbVars, now, sends>>

-----------------------------------------------------------------------------

Handler ==
    \/ \E j \in Jobs, q \in Requests : CreateBroadcast(j, q) \/ ScheduleMessage(j, q)
    \/ \E j \in Jobs : CreateBroadcastRecipient(j)

WorkerProgress ==
    \/ GetPendingBroadcastJobs
    \/ \E j \in Jobs : BeginJob(j)
    \/ GetPendingRecipients
    \/ \E r \in Recipients : SendSucceeds(r) \/ SendFails(r)
    \/ LogOutgoingMessage
    \/ UpsertThread
    \/ UpdateBroadcastRecipientStatus
    \/ CompleteJob

WorkerError ==
    \/ \E j \in Jobs : BeginJobFails(j)
    \/ GetPendingRecipientsFails

Environment ==
    \/ Tick
    \/ \E d \in Devices : GoOnline(d) \/ GoOffline(d)
    \/ \E u \in Users : DeleteUser(u)
    \/ Crash

Next == Handler \/ WorkerProgress \/ WorkerError \/ Environment

Spec == Init /\ [][Next]_vars

\* The worker goroutine is always scheduled again, its ticker keeps firing and
\* the clock advances; a database that fails now and then does not refuse the
\* same statement for ever.  Requests, devices, users and crashes are owed
\* nothing.
Fairness ==
    /\ WF_vars(WorkerProgress \/ WorkerError)
    /\ \A j \in Jobs : SF_vars(BeginJob(j))
    /\ WF_vars(Tick)

FairSpec == Spec /\ Fairness

-----------------------------------------------------------------------------
(* Safety.                                                                 *)

\* WhatsApp accepts a job's message to a recipient at most once, over any
\* number of ticks, failed statements and restarts (broadcast_service.go:68).
AtMostOnce == \A j \in Jobs, r \in Recipients : sends[j][r] <= 1

\* A row that says "sent" is about a message WhatsApp accepted, and so is
\* every line of the inbox history (broadcast_service.go:97-116, 152-179).
NoPhantomDelivery ==
    /\ \A j \in Jobs, r \in Recipients : rcpt[j][r] = "sent" => sends[j][r] = 1
    /\ \A p \in logged \cup threaded : sends[p[1]][p[2]] = 1

\* Nothing leaves before the instant the request asked for, and only to the
\* recipients it named (broadcast.sql:56-67, broadcast_handler.go:101).
OnlyAsRequested ==
    \A j \in Jobs, r \in Recipients :
        sends[j][r] > 0 =>
            /\ request[j] # NoRequest
            /\ IsScheduled(j) => request[j].at <= now
            /\ \E i \in DOMAIN request[j].to : request[j].to[i] = r

\* As long as no statement fails and the process lives, the rows tell the
\* truth about the worker: "processing" is the job in hand, and "pending" is a
\* recipient nobody has tried yet (broadcast_service.go:72, 108, 128).
RowsFollowWorker ==
    (~ DbMayFail /\ crashes = 0) =>
        \A j \in Jobs :
            /\ status[j] = "processing" => cur = j
            /\ \A r \in Recipients :
                 (rcpt[j][r] = "pending" /\ <<j, r>> # <<cur, target>>) => sends[j][r] = 0

\* An outcome is final: until its row is deleted, no later run, retry or late
\* insert turns it into another one (broadcast.sql:42-44, 49-55).
OutcomeIsFinal ==
    [][\A j \in Jobs, r \in Recipients :
         rcpt[j][r] \in {"sent", "failed"} =>
             rcpt'[j][r] = rcpt[j][r] \/ status'[j] = "deleted"]_<<rcpt, status>>

\* Unscheduled jobs are begun in the order of their creation: one created
\* earlier waits only if its own first statement failed (broadcast.sql:67).
NoOvertaking ==
    [][~ DbMayFail =>
         \A j, k \in Jobs :
           (/\ cur # j /\ cur' = j
            /\ status[k] = "pending" /\ ~ IsScheduled(k) /\ k # j)
           => createdAt[j] <= createdAt[k]]_cur

-----------------------------------------------------------------------------
(* Liveness.                                                               *)

\* A due job is picked up, however often statements fail and the process dies
\* before that (broadcast_service.go:34, 43).
DueJobIsPickedUp == \A j \in Jobs : Due(j) ~> status[j] # "pending"

\* Without failing statements a picked-up job is completed, and every recipient
\* of its snapshot gets an outcome, unless the process dies
\* (broadcast_service.go:87).
PickedUpJobIsSettled ==
    \A j \in Jobs, r \in Recipients :
        (cur = j /\ r \in queue) ~>
            \/ status[j] = "completed" /\ rcpt[j][r] \in {"sent", "failed"}
            \/ status[j] = "deleted"
            \/ crashes > 0

-----------------------------------------------------------------------------
(* The promise of OnceDelivery is kept.                                    *)

Phase(j) ==
    CASE request[j] = NoRequest                  -> "absent"
      [] cur = j /\ wpc = "fetch"                -> "claimed"
      [] cur = j /\ wpc # "fetch"                -> "sending"
      [] cur # j /\ (j \in batch \/ status[j] = "pending") -> "open"
      [] cur # j /\ j \notin batch /\ status[j] = "completed" -> "done"
      [] OTHER                                   -> "closed"

Once == INSTANCE OnceDelivery WITH
    phase   <- [j \in Jobs |-> Phase(j)],
    plan    <- [j \in Jobs |-> IF cur = j THEN queue ELSE {}],
    trying  <- [j \in Jobs |-> IF cur = j /\ target # NoRecipient THEN {target} ELSE {}],
    outcome <- rcpt

\* Every behaviour of the pipeline is one of OnceDelivery.
DeliversOnce == Once!Spec

-----------------------------------------------------------------------------
(* What the repository's own words say, and the code does not do.          *)

\* "Create a new broadcast job to send messages to multiple recipients"
\* (broadcast_handler.go:37): a completed job whose handler has returned has
\* tried every recipient it lists.
CompletedMeansAllTried ==
    \A j \in Jobs, r \in Recipients :
        (status[j] = "completed" /\ todo[j] = <<>>) => rcpt[j][r] # "pending"

\* "Schedule a message to be sent at a specific time" (inbox_handler.go:431):
\* a scheduled message stored in time is in the end sent or marked failed.
ScheduledMessageIsTried ==
    \A j \in Jobs, r \in Recipients :
        (/\ status[j] = "pending" /\ request[j].kind = "schedule"
         /\ rcpt[j][r] = "pending") ~> rcpt[j][r] # "pending"
=============================================================================
