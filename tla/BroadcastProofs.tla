-------------------------- MODULE BroadcastProofs --------------------------
(***************************************************************************)
(* The safety properties of the broadcast pipeline, and that it implements *)
(* OnceDelivery, for any jobs, recipients, requests, faults and number of  *)
(* crashes.                                                                *)
(*                                                                         *)
(* The inductive invariant is built in layers.  TypeInv adds to TypeOK     *)
(* where the worker's local variables are defined.  OnceInv says where a   *)
(* message may already have been accepted: never for a job that is still   *)
(* pending or waits in the batch, never for a recipient still in the queue.*)
(* PhantomInv and RequestInv relate outcomes and messages to requests,     *)
(* OutcomeInv says which rows are still pending, BatchInv that an older    *)
(* pending job waits in the batch; together they carry the refinement.     *)
(* CompleteInv says what "completed" would mean if no recipient came late, *)
(* and StepsLeft counts what the worker has still to do.                   *)
(***************************************************************************)
EXTENDS Broadcast, FiniteSetTheorems, WellFoundedInduction, TLAPS

Sending == {"log", "thread", "record"}

\* The worker's local variables are defined where its position says so.
WorkerLocals ==
    /\ wpc \in {"fetch", "loop"} \cup Sending <=> cur # NoJob
    /\ wpc \in Sending <=> target # NoRecipient
    /\ queue # {} => wpc \in {"loop"} \cup Sending

TypeInv == TypeOK /\ WorkerLocals

LEMMA TypeInit == Init => TypeInv
  BY BroadcastAssumption DEF Init, TypeInv, TypeOK, WorkerLocals, Sending

\* Every action keeps every variable in its type.
LEMMA TypeStep == TypeInv /\ [Next]_vars => TypeInv'
<1> SUFFICES ASSUME TypeInv, [Next]_vars PROVE TypeInv'
    OBVIOUS
<1> USE BroadcastAssumption
    DEF TypeInv, TypeOK, WorkerLocals, Sending, dbVars, handlerVars, workerVars, envVars
<1>1. ASSUME NEW j \in Jobs, NEW q \in Requests, CreateBroadcastJob(j, q) PROVE TypeInv'
  <2>1. q.to \in Seq(Recipients)
    BY DEF RequestType
  <2>2. QED
    BY <1>1, <2>1 DEF CreateBroadcastJob
<1>2. ASSUME NEW j \in Jobs, CreateBroadcastRecipient(j) PROVE TypeInv'
  <2> DEFINE h == Head(todo[j])
  <2>1. todo[j] \in Seq(Recipients) /\ todo[j] # <<>>
    BY <1>2 DEF CreateBroadcastRecipient
  <2>2. Tail(todo[j]) \in Seq(Recipients) /\ h \in Recipients
    BY <2>1
  <2>3. todo' \in [Jobs -> Seq(Recipients)]
    BY <1>2, <2>2 DEF CreateBroadcastRecipient
  <2>4. rcpt' \in [Jobs -> [Recipients -> {"none", "pending", "sent", "failed"}]]
    <3> HIDE DEF h
    <3>1. CASE InsertRecipient(j, h)
      BY <2>2, <3>1 DEF InsertRecipient
    <3>2. CASE UNCHANGED rcpt
      BY <3>2
    <3>3. QED
      BY <1>2, <3>1, <3>2 DEF CreateBroadcastRecipient, h
  <2>5. QED
    BY <1>2, <2>3, <2>4 DEF CreateBroadcastRecipient
<1>3. ASSUME NEW u \in Users, DeleteUser(u) PROVE TypeInv'
  BY <1>3 DEF DeleteUser
<1>4. CASE GetPendingBroadcastJobs
  BY <1>4 DEF GetPendingBroadcastJobs
<1>5. ASSUME NEW j \in Jobs, BeginJob(j) PROVE TypeInv'
  BY <1>5 DEF BeginJob, Oldest, SetJobStatus
<1>6. ASSUME NEW j \in Jobs, BeginJobFails(j) PROVE TypeInv'
  BY <1>6 DEF BeginJobFails, Oldest, SetJobStatus, ReturnToBatch
<1>7. CASE GetPendingRecipients
  BY <1>7 DEF GetPendingRecipients
<1>8. CASE GetPendingRecipientsFails
  BY <1>8 DEF GetPendingRecipientsFails, ReturnToBatch
<1>9. ASSUME NEW r \in Recipients, SendSucceeds(r) PROVE TypeInv'
  <2>1. cur \in Jobs /\ r # NoRecipient
    BY <1>9 DEF SendSucceeds, NextRecipient
  <2>2. sends' \in [Jobs -> [Recipients -> Nat]]
    BY <1>9, <2>1 DEF SendSucceeds, Accepted
  <2>3. QED
    BY <1>9, <2>1, <2>2 DEF SendSucceeds, NextRecipient
<1>10. ASSUME NEW r \in Recipients, SendFails(r) PROVE TypeInv'
  <2>1. cur \in Jobs /\ r # NoRecipient
    BY <1>10 DEF SendFails, NextRecipient
  <2>2. sends' \in [Jobs -> [Recipients -> Nat]]
    BY <1>10, <2>1 DEF SendFails, Accepted
  <2>3. QED
    BY <1>10, <2>1, <2>2 DEF SendFails, NextRecipient
<1>11. CASE LogOutgoingMessage
  <2>1. <<cur, target>> \in Jobs \X Recipients
    BY <1>11 DEF LogOutgoingMessage
  <2>2. logged' \subseteq Jobs \X Recipients
    BY <1>11, <2>1 DEF LogOutgoingMessage
  <2>3. QED
    BY <1>11, <2>2 DEF LogOutgoingMessage
<1>12. CASE UpsertThread
  BY <1>12 DEF UpsertThread
<1>13. CASE UpdateBroadcastRecipientStatus
  <2>1. cur \in Jobs /\ target \in Recipients
    BY <1>13 DEF UpdateBroadcastRecipientStatus
  <2>2. rcpt' \in [Jobs -> [Recipients -> {"none", "pending", "sent", "failed"}]]
    <3>1. CASE SetRecipientStatus(cur, target, result)
      BY <2>1, <3>1 DEF SetRecipientStatus
    <3>2. CASE UNCHANGED rcpt
      BY <3>2
    <3>3. QED
      BY <1>13, <3>1, <3>2 DEF UpdateBroadcastRecipientStatus
  <2>3. QED
    BY <1>13, <2>2 DEF UpdateBroadcastRecipientStatus
<1>14. CASE CompleteJob
  BY <1>14 DEF CompleteJob, SetJobStatus, ReturnToBatch
<1>15. CASE Tick
  BY <1>15 DEF Tick
<1>16. ASSUME NEW d \in Devices, GoOnline(d) \/ GoOffline(d) PROVE TypeInv'
  BY <1>16 DEF GoOnline, GoOffline
<1>17. CASE Crash
  BY <1>17 DEF Crash
<1>18. CASE UNCHANGED vars
  BY <1>18 DEF vars
<1>19. QED
  BY <1>1, <1>2, <1>3, <1>4, <1>5, <1>6, <1>7, <1>8, <1>9, <1>10, <1>11, <1>12,
     <1>13, <1>14, <1>15, <1>16, <1>17, <1>18
     DEF Next, Handler, WorkerProgress, WorkerError, Environment, CreateBroadcast, ScheduleMessage

LEMMA TypeInvariant == Spec => []TypeInv
  BY TypeInit, TypeStep, PTL DEF Spec

\* The type invariant of the pipeline holds in every reachable state.
THEOREM TypeCorrect == Spec => []TypeOK
  BY TypeInvariant, PTL DEF TypeInv
-----------------------------------------------------------------------------
\* No message of job j was accepted yet.
Untouched(j) == \A r \in Recipients : sends[j][r] = 0

JobsOnce ==
    /\ \A j \in Jobs : request[j] = NoRequest =>
         status[j] = "none" /\ j \notin batch /\ cur # j /\ Untouched(j)
    /\ \A j \in Jobs : status[j] = "pending" \/ j \in batch => cur # j /\ Untouched(j)
    /\ \A j \in Jobs : status[j] = "completed" => j \notin batch /\ cur # j
    /\ wpc = "fetch" => Untouched(cur)

RecipientsOnce ==
    /\ \A r \in queue : sends[cur][r] = 0
    /\ AtMostOnce

OnceInv == JobsOnce /\ RecipientsOnce

LEMMA OnceInit == Init => OnceInv
  BY BroadcastAssumption
     DEF Init, OnceInv, JobsOnce, RecipientsOnce, Untouched, AtMostOnce

\* A send touches only the job in hand and a recipient of its queue, for
\* which nothing had been accepted.
LEMMA SendOnce ==
    ASSUME TypeInv, OnceInv, NEW r \in Recipients, SendSucceeds(r) \/ SendFails(r)
    PROVE  OnceInv'
<1> USE DEF TypeInv, TypeOK, WorkerLocals, Sending
<1>1. cur \in Jobs /\ r \in queue /\ queue' = queue \ {r} /\ UNCHANGED <<request, status, batch, cur>>
  BY DEF SendSucceeds, SendFails, NextRecipient, dbVars
<1>2. wpc = "loop" /\ wpc' # "fetch" /\ queue \subseteq Recipients
  BY DEF SendSucceeds, SendFails, NextRecipient
<1>3. sends[cur][r] = 0
  BY <1>1 DEF OnceInv, RecipientsOnce
<1>4. \/ sends' = sends
      \/ sends' = [sends EXCEPT ![cur][r] = 1]
  <2>1. CASE Accepted(r)
    <3>1. sends[cur] \in [Recipients -> Nat] /\ sends[cur][r] + 1 = 1
      BY <1>1, <1>3
    <3>2. sends' = [sends EXCEPT ![cur][r] = sends[cur][r] + 1]
      BY <2>1 DEF Accepted
    <3>3. QED
      BY <3>1, <3>2
  <2>2. CASE UNCHANGED sends
    BY <2>2
  <2>3. QED
    BY <2>1, <2>2 DEF SendSucceeds, SendFails
<1>5. \A j \in Jobs, q \in Recipients : (j # cur \/ q # r) => sends'[j][q] = sends[j][q]
  BY <1>1, <1>4
<1>6. sends'[cur][r] \in {0, 1}
  BY <1>1, <1>3, <1>4
<1>7. JobsOnce'
  BY <1>1, <1>2, <1>5 DEF OnceInv, JobsOnce, Untouched
<1>8. RecipientsOnce'
  <2>1. \A q \in queue' : sends'[cur][q] = 0
    <3> TAKE q \in queue'
    <3>1. q \in queue /\ q \in Recipients /\ q # r
      BY <1>1, <1>2
    <3>2. sends[cur][q] = 0
      BY <3>1 DEF OnceInv, RecipientsOnce
    <3>3. QED
      BY <1>1, <1>5, <3>1, <3>2
  <2>2. \A j \in Jobs, q \in Recipients : sends'[j][q] <= 1
    <3> TAKE j \in Jobs, q \in Recipients
    <3>1. CASE j = cur /\ q = r
      BY <1>6, <3>1
    <3>2. CASE j # cur \/ q # r
      BY <1>5, <3>2 DEF OnceInv, RecipientsOnce, AtMostOnce
    <3>3. QED
      BY <3>1, <3>2
  <2>3. QED
    BY <1>1, <2>1, <2>2 DEF RecipientsOnce, AtMostOnce
<1>9. QED
  BY <1>7, <1>8 DEF OnceInv

LEMMA OnceStep == TypeInv /\ TypeInv' /\ OnceInv /\ [Next]_vars => OnceInv'
<1> SUFFICES ASSUME TypeInv, TypeInv', OnceInv, [Next]_vars PROVE OnceInv'
    OBVIOUS
<1> USE BroadcastAssumption
    DEF TypeInv, TypeOK, WorkerLocals, Sending, OnceInv, JobsOnce, RecipientsOnce, Untouched,
        AtMostOnce, dbVars, handlerVars, workerVars, envVars
<1>1. ASSUME NEW j \in Jobs, NEW q \in Requests, CreateBroadcastJob(j, q) PROVE OnceInv'
  BY <1>1 DEF CreateBroadcastJob
<1>2. ASSUME NEW j \in Jobs, CreateBroadcastRecipient(j) PROVE OnceInv'
  <2>1. UNCHANGED <<request, status, wpc, batch, cur, queue, sends>>
    BY <1>2 DEF CreateBroadcastRecipient
  <2>2. QED
    BY <2>1
<1>3. ASSUME NEW u \in Users, DeleteUser(u) PROVE OnceInv'
  BY <1>3 DEF DeleteUser
<1>4. CASE GetPendingBroadcastJobs
  BY <1>4 DEF GetPendingBroadcastJobs, Due
<1>5. ASSUME NEW j \in Jobs, BeginJob(j) PROVE OnceInv'
  BY <1>5 DEF BeginJob, Oldest, SetJobStatus
<1>6. ASSUME NEW j \in Jobs, BeginJobFails(j) PROVE OnceInv'
  BY <1>6 DEF BeginJobFails, Oldest, SetJobStatus, ReturnToBatch
<1>7. CASE GetPendingRecipients
  BY <1>7 DEF GetPendingRecipients
<1>8. CASE GetPendingRecipientsFails
  BY <1>8 DEF GetPendingRecipientsFails, ReturnToBatch
<1>9. ASSUME NEW r \in Recipients, SendSucceeds(r) \/ SendFails(r) PROVE OnceInv'
  BY <1>9, SendOnce
<1>10. CASE LogOutgoingMessage \/ UpsertThread
  BY <1>10 DEF LogOutgoingMessage, UpsertThread
<1>11. CASE UpdateBroadcastRecipientStatus
  BY <1>11 DEF UpdateBroadcastRecipientStatus
<1>12. CASE CompleteJob
  BY <1>12 DEF CompleteJob, SetJobStatus, ReturnToBatch
<1>13. CASE Tick
  BY <1>13 DEF Tick
<1>14. ASSUME NEW d \in Devices, GoOnline(d) \/ GoOffline(d) PROVE OnceInv'
  BY <1>14 DEF GoOnline, GoOffline
<1>15. CASE Crash
  BY <1>15 DEF Crash
<1>16. CASE UNCHANGED vars
  BY <1>16 DEF vars
<1>17. QED
  BY <1>1, <1>2, <1>3, <1>4, <1>5, <1>6, <1>7, <1>8, <1>9, <1>10, <1>11, <1>12,
     <1>13, <1>14, <1>15, <1>16
     DEF Next, Handler, WorkerProgress, WorkerError, Environment, CreateBroadcast, ScheduleMessage

LEMMA OnceInvariant == Spec => []OnceInv
  BY TypeInvariant, OnceInit, OnceStep, PTL DEF Spec

\* WhatsApp accepts a job's message to a recipient at most once, whatever
\* statements fail and however often the process restarts.
THEOREM AtMostOnceDelivery == Spec => []AtMostOnce
  BY OnceInvariant, PTL DEF OnceInv, RecipientsOnce
-----------------------------------------------------------------------------
\* What the worker holds in hand between the answer of WhatsApp and the row.
PhantomInv ==
    /\ NoPhantomDelivery
    /\ wpc \in {"log", "thread"} => result = "sent"
    /\ target # NoRecipient /\ result = "sent" => sends[cur][target] = 1

LEMMA PhantomInit == Init => PhantomInv
  BY BroadcastAssumption DEF Init, PhantomInv, NoPhantomDelivery

\* An accepted message stays accepted, and a send that is reported as a
\* success was accepted.
LEMMA SendKeeps ==
    ASSUME TypeInv, OnceInv, NEW r \in Recipients, SendSucceeds(r) \/ SendFails(r)
    PROVE  /\ cur \in Jobs
           /\ \A j \in Jobs, q \in Recipients : sends[j][q] = 1 => sends'[j][q] = 1
           /\ SendSucceeds(r) => sends'[cur][r] = 1
<1> USE DEF TypeInv, TypeOK, WorkerLocals, Sending
<1>1. cur \in Jobs /\ sends[cur][r] = 0
  BY DEF SendSucceeds, SendFails, NextRecipient, OnceInv, RecipientsOnce
<1>2. CASE Accepted(r)
  <2>1. sends' = [sends EXCEPT ![cur][r] = sends[cur][r] + 1]
    BY <1>2 DEF Accepted
  <2>2. sends[cur] \in [Recipients -> Nat] /\ sends[cur][r] + 1 = 1
    BY <1>1
  <2>3. sends' = [sends EXCEPT ![cur][r] = 1]
    BY <2>1, <2>2
  <2>4. QED
    BY <1>1, <2>3
<1>3. CASE UNCHANGED sends
  <2>1. ~ SendSucceeds(r)
    <3> SUFFICES ASSUME SendSucceeds(r) PROVE FALSE
      OBVIOUS
    <3>1. sends' = [sends EXCEPT ![cur][r] = sends[cur][r] + 1]
      BY DEF SendSucceeds, Accepted
    <3>2. sends'[cur][r] = sends[cur][r] + 1
      BY <1>1, <3>1
    <3>3. QED
      BY <1>1, <1>3, <3>2
  <2>2. QED
    BY <1>1, <1>3, <2>1
<1>4. QED
  BY <1>2, <1>3 DEF SendSucceeds, SendFails

LEMMA PhantomStep ==
    TypeInv /\ TypeInv' /\ OnceInv /\ PhantomInv /\ [Next]_vars => PhantomInv'
<1> SUFFICES ASSUME TypeInv, TypeInv', OnceInv, PhantomInv, [Next]_vars PROVE PhantomInv'
    OBVIOUS
<1> USE BroadcastAssumption
    DEF TypeInv, TypeOK, WorkerLocals, Sending, PhantomInv, NoPhantomDelivery,
        dbVars, handlerVars, workerVars, envVars
<1>1. ASSUME NEW j \in Jobs, NEW q \in Requests, CreateBroadcastJob(j, q) PROVE PhantomInv'
  BY <1>1 DEF CreateBroadcastJob
<1>2. ASSUME NEW j \in Jobs, CreateBroadcastRecipient(j) PROVE PhantomInv'
  <2>1. \A k \in Jobs, r \in Recipients : rcpt'[k][r] = "sent" => rcpt[k][r] = "sent"
    <3>1. CASE UNCHANGED rcpt
      BY <3>1
    <3>2. CASE InsertRecipient(j, Head(todo[j]))
      BY <3>2 DEF InsertRecipient
    <3>3. QED
      BY <1>2, <3>1, <3>2 DEF CreateBroadcastRecipient
  <2>2. QED
    BY <1>2, <2>1 DEF CreateBroadcastRecipient
<1>3. ASSUME NEW u \in Users, DeleteUser(u) PROVE PhantomInv'
  BY <1>3 DEF DeleteUser
<1>4. CASE GetPendingBroadcastJobs
  BY <1>4 DEF GetPendingBroadcastJobs
<1>5. ASSUME NEW j \in Jobs, BeginJob(j) PROVE PhantomInv'
  BY <1>5 DEF BeginJob
<1>6. ASSUME NEW j \in Jobs, BeginJobFails(j) PROVE PhantomInv'
  BY <1>6 DEF BeginJobFails, ReturnToBatch
<1>7. CASE GetPendingRecipients
  BY <1>7 DEF GetPendingRecipients
<1>8. CASE GetPendingRecipientsFails
  BY <1>8 DEF GetPendingRecipientsFails, ReturnToBatch
<1>9. ASSUME NEW r \in Recipients, SendSucceeds(r) \/ SendFails(r) PROVE PhantomInv'
  <2>0. /\ cur \in Jobs
        /\ \A j \in Jobs, q \in Recipients : sends[j][q] = 1 => sends'[j][q] = 1
        /\ SendSucceeds(r) => sends'[cur][r] = 1
    <3> HIDE DEF TypeInv, PhantomInv
    <3>1. QED
      BY <1>9, SendKeeps
  <2>1. \A p \in Jobs \X Recipients : sends[p[1]][p[2]] = 1 => sends'[p[1]][p[2]] = 1
    BY <2>0
  <2>2. NoPhantomDelivery'
    <3>1. UNCHANGED <<rcpt, logged, threaded>>
      BY <1>9 DEF SendSucceeds, SendFails
    <3>2. \A j \in Jobs, q \in Recipients : rcpt'[j][q] = "sent" => sends'[j][q] = 1
      BY <2>0, <3>1
    <3>3. \A p \in logged' \cup threaded' : sends'[p[1]][p[2]] = 1
      BY <2>1, <3>1
    <3>4. QED
      BY <3>2, <3>3
  <2>3. CASE SendSucceeds(r)
    BY <2>0, <2>2, <2>3 DEF SendSucceeds, NextRecipient
  <2>4. CASE SendFails(r)
    BY <2>2, <2>4 DEF SendFails
  <2>5. QED
    BY <1>9, <2>3, <2>4
<1>10. CASE LogOutgoingMessage
  <2>1. logged' \subseteq logged \cup {<<cur, target>>} /\ sends[cur][target] = 1
    BY <1>10 DEF LogOutgoingMessage
  <2>2. QED
    BY <1>10, <2>1 DEF LogOutgoingMessage
<1>11. CASE UpsertThread
  <2>1. threaded' \subseteq threaded \cup {<<cur, target>>} /\ sends[cur][target] = 1
    BY <1>11 DEF UpsertThread
  <2>2. QED
    BY <1>11, <2>1 DEF UpsertThread
<1>12. CASE UpdateBroadcastRecipientStatus
  <2>1. cur \in Jobs /\ target \in Recipients
    BY <1>12 DEF UpdateBroadcastRecipientStatus
  <2>2. ASSUME NEW k \in Jobs, NEW r \in Recipients, rcpt'[k][r] = "sent"
        PROVE  rcpt[k][r] = "sent" \/ (k = cur /\ r = target /\ result = "sent")
    <3>1. CASE SetRecipientStatus(cur, target, result)
      BY <2>1, <2>2, <3>1 DEF SetRecipientStatus
    <3>2. CASE UNCHANGED rcpt
      BY <2>2, <3>2
    <3>3. QED
      BY <1>12, <3>1, <3>2 DEF UpdateBroadcastRecipientStatus
  <2>3. QED
    BY <1>12, <2>1, <2>2 DEF UpdateBroadcastRecipientStatus
<1>13. CASE CompleteJob
  BY <1>13 DEF CompleteJob, ReturnToBatch
<1>14. CASE Tick
  BY <1>14 DEF Tick
<1>15. ASSUME NEW d \in Devices, GoOnline(d) \/ GoOffline(d) PROVE PhantomInv'
  BY <1>15 DEF GoOnline, GoOffline
<1>16. CASE Crash
  BY <1>16 DEF Crash
<1>17. CASE UNCHANGED vars
  BY <1>17 DEF vars
<1>18. QED
  BY <1>1, <1>2, <1>3, <1>4, <1>5, <1>6, <1>7, <1>8, <1>9, <1>10, <1>11, <1>12,
     <1>13, <1>14, <1>15, <1>16, <1>17
     DEF Next, Handler, WorkerProgress, WorkerError, Environment, CreateBroadcast, ScheduleMessage

\* No recipient row and no line of the inbox history claims a message that
\* WhatsApp did not accept.
THEOREM NoPhantom == Spec => []NoPhantomDelivery
<1>1. Spec => []PhantomInv
  BY TypeInvariant, OnceInvariant, PhantomInit, PhantomStep, PTL DEF Spec
<1>2. QED
  BY <1>1, PTL DEF PhantomInv
-----------------------------------------------------------------------------
\* The recipients a request lists.
Names == [j \in Jobs |-> {request[j].to[i] : i \in DOMAIN request[j].to}]

\* The jobs that exist and whose instant, if they have one, is past.
Ripe == {j \in Jobs : request[j] # NoRequest /\ (IsScheduled(j) => request[j].at <= now)}

\* The names travel from the request over the handler's list and the rows to
\* the worker's queue; a job in the batch or in hand is ripe.
RequestInv ==
    /\ \A j \in Jobs : request[j] = NoRequest =>
         todo[j] = <<>> /\ \A r \in Recipients : rcpt[j][r] = "none"
    /\ \A j \in Jobs : \A i \in DOMAIN todo[j] : todo[j][i] \in Names[j]
    /\ \A j \in Jobs, r \in Recipients : rcpt[j][r] # "none" => r \in Names[j]
    /\ \A j \in Jobs : j \in batch \/ j = cur => j \in Ripe
    /\ \A j \in Jobs, r \in queue : j = cur => r \in Names[j]
    /\ \A j \in Jobs, r \in Recipients : sends[j][r] > 0 => j \in Ripe /\ r \in Names[j]

LEMMA RequestInit == Init => RequestInv
  BY BroadcastAssumption DEF Init, RequestInv

\* Requests are immutable and time does not run backwards.
LEMMA RequestKept ==
    ASSUME TypeInv, UNCHANGED request, now' = now \/ now' = now + 1
    PROVE  Names' = Names /\ Ripe \subseteq Ripe'
<1>1. \A j \in Jobs : request[j] \in Requests => request[j].at \in Nat
  BY BroadcastAssumption DEF RequestType
<1>2. \A j \in Jobs : request[j] # NoRequest => request[j] \in Requests
  BY DEF TypeInv, TypeOK
<1>3. Ripe \subseteq Ripe'
  BY <1>1, <1>2 DEF TypeInv, TypeOK, Ripe, IsScheduled
<1>4. QED
  BY <1>3 DEF Names

\* What a step may do once the requests stand still: pass names on, drop
\* them, and send to somebody named by a ripe job.
LEMMA RequestFrame ==
    ASSUME TypeInv, RequestInv, UNCHANGED request, now' = now \/ now' = now + 1,
           \A j \in Jobs : \A i \in DOMAIN todo'[j] : todo'[j][i] \in Names[j],
           \A j \in Jobs : request[j] = NoRequest => todo'[j] = <<>>,
           \A j \in Jobs, r \in Recipients : rcpt'[j][r] # "none" => r \in Names[j],
           \A j \in Jobs : request[j] = NoRequest => \A r \in Recipients : rcpt'[j][r] = "none",
           \A j \in Jobs : j \in batch' \/ j = cur' => j \in Ripe,
           \A j \in Jobs, r \in queue' : j = cur' => r \in Names[j],
           \A j \in Jobs, r \in Recipients :
              sends'[j][r] > 0 => j \in Ripe /\ r \in Names[j]
    PROVE  RequestInv'
<1>1. Names' = Names /\ Ripe \subseteq Ripe'
  BY RequestKept
<1>2. QED
  BY <1>1 DEF RequestInv

\* The frame for a step that leaves handlers, rows and deliveries alone.
LEMMA RequestFrameWorker ==
    ASSUME TypeInv, RequestInv, UNCHANGED <<request, todo, rcpt, sends>>,
           now' = now \/ now' = now + 1,
           \A j \in Jobs : j \in batch' \/ j = cur' => j \in Ripe,
           \A j \in Jobs, r \in queue' : j = cur' => r \in Names[j]
    PROVE  RequestInv'
  BY RequestFrame DEF RequestInv

LEMMA RequestStep ==
    TypeInv /\ OnceInv /\ RequestInv /\ [Next]_vars => RequestInv'
<1> SUFFICES ASSUME TypeInv, OnceInv, RequestInv, [Next]_vars PROVE RequestInv'
    OBVIOUS
<1> USE DEF dbVars, handlerVars, workerVars, envVars
<1>0. /\ NoJob \notin Jobs
      /\ batch \subseteq Jobs /\ queue \subseteq Recipients
      /\ cur \in Jobs \cup {NoJob}
      /\ \A j \in Jobs : j \in batch \/ j = cur => j \in Ripe
      /\ \A j \in Jobs, r \in queue : j = cur => r \in Names[j]
      /\ queue # {} => cur \in Jobs
  BY BroadcastAssumption DEF TypeInv, TypeOK, WorkerLocals, Sending, RequestInv
<1>1. ASSUME NEW j \in Jobs, NEW q \in Requests, CreateBroadcastJob(j, q) PROVE RequestInv'
  <2>1. /\ request[j] = NoRequest /\ q # NoRequest
        /\ request' = [request EXCEPT ![j] = q]
        /\ request'[j] = q
        /\ \A k \in Jobs : k # j => request'[k] = request[k] /\ todo'[k] = todo[k]
        /\ todo'[j] = q.to \/ todo'[j] = <<>>
        /\ UNCHANGED <<rcpt, batch, cur, queue, sends, now>>
    BY <1>1, BroadcastAssumption DEF CreateBroadcastJob, TypeInv, TypeOK, RequestInv
  <2>2. j \notin batch /\ cur # j /\ \A r \in Recipients : ~ (sends[j][r] > 0) /\ rcpt[j][r] = "none"
    BY <2>1 DEF OnceInv, JobsOnce, Untouched, RequestInv
  <2>3. Names'[j] = {q.to[i] : i \in DOMAIN q.to}
    BY <2>1 DEF Names
  <2>4. \A k \in Jobs : k # j => Names'[k] = Names[k] /\ (k \in Ripe => k \in Ripe')
    <3> SUFFICES ASSUME NEW k \in Jobs, k # j
                 PROVE  Names'[k] = Names[k] /\ (k \in Ripe => k \in Ripe')
      OBVIOUS
    <3>1. request'[k] = request[k]
      BY <2>1
    <3>2. QED
      BY <2>1, <3>1 DEF Names, Ripe, IsScheduled
  <2>5. \A k \in Jobs : \A i \in DOMAIN todo'[k] : todo'[k][i] \in Names'[k]
    <3>1. \A i \in DOMAIN todo'[j] : todo'[j][i] \in Names'[j]
      BY <2>1, <2>3
    <3>2. ASSUME NEW k \in Jobs, k # j, NEW i \in DOMAIN todo'[k] PROVE todo'[k][i] \in Names'[k]
      BY <2>1, <2>4, <3>2 DEF RequestInv
    <3>3. QED
      BY <3>1, <3>2
  <2>6. QED
    BY <1>0, <2>1, <2>2, <2>4, <2>5 DEF RequestInv
<1>2. ASSUME NEW j \in Jobs, CreateBroadcastRecipient(j) PROVE RequestInv'
  <2> DEFINE h == Head(todo[j])
  <2>1. todo[j] \in Seq(Recipients) /\ todo[j] # <<>> /\ todo \in [Jobs -> Seq(Recipients)]
    BY <1>2 DEF CreateBroadcastRecipient, TypeInv, TypeOK
  <2>2. h \in Recipients /\ h \in Names[j] /\ request[j] # NoRequest
    <3>1. h = todo[j][1] /\ 1 \in DOMAIN todo[j] /\ h \in Recipients
      BY <2>1
    <3>2. QED
      BY <2>1, <3>1 DEF RequestInv
  <2>3. \A i \in DOMAIN Tail(todo[j]) : i + 1 \in DOMAIN todo[j] /\ Tail(todo[j])[i] = todo[j][i + 1]
    BY <2>1
  <2>4. todo'[j] = Tail(todo[j]) /\ \A k \in Jobs : k # j => todo'[k] = todo[k]
    BY <1>2, <2>1 DEF CreateBroadcastRecipient
  <2>5. \A k \in Jobs : \A i \in DOMAIN todo'[k] : todo'[k][i] \in Names[k]
    <3>1. ASSUME NEW i \in DOMAIN todo'[j] PROVE todo'[j][i] \in Names[j]
      <4>1. i + 1 \in DOMAIN todo[j] /\ todo'[j][i] = todo[j][i + 1]
        BY <2>3, <2>4
      <4>2. QED
        BY <4>1 DEF RequestInv
    <3>2. ASSUME NEW k \in Jobs, k # j, NEW i \in DOMAIN todo'[k] PROVE todo'[k][i] \in Names[k]
      BY <2>4, <3>2 DEF RequestInv
    <3>3. QED
      BY <3>1, <3>2
  <2> HIDE DEF h
  <2>6. \A k \in Jobs, r \in Recipients :
           rcpt'[k][r] # "none" => rcpt[k][r] # "none" \/ (k = j /\ r = h)
    <3>1. CASE UNCHANGED rcpt
      BY <3>1
    <3>2. CASE InsertRecipient(j, h)
      BY <2>2, <3>2 DEF InsertRecipient, TypeInv, TypeOK
    <3>3. QED
      BY <1>2, <3>1, <3>2 DEF CreateBroadcastRecipient, h
  <2>7. \A k \in Jobs : request[k] = NoRequest => todo'[k] = <<>>
    BY <2>2, <2>4 DEF RequestInv
  <2>8. \A k \in Jobs, r \in Recipients : rcpt'[k][r] # "none" => r \in Names[k]
    BY <2>2, <2>6 DEF RequestInv
  <2>9. \A k \in Jobs : request[k] = NoRequest => \A r \in Recipients : rcpt'[k][r] = "none"
    BY <2>2, <2>6 DEF RequestInv
  <2>10. UNCHANGED <<request, batch, cur, queue, sends, now>>
    BY <1>2 DEF CreateBroadcastRecipient
  <2>11. \A k \in Jobs, r \in Recipients : sends'[k][r] > 0 => k \in Ripe /\ r \in Names[k]
    BY <2>10 DEF RequestInv
  <2>12. QED
    BY <1>0, <2>5, <2>7, <2>8, <2>9, <2>10, <2>11, RequestFrame
<1>3. ASSUME NEW u \in Users, DeleteUser(u) PROVE RequestInv'
  <2>1. \A k \in Jobs, r \in Recipients : rcpt[k][r] = "none" => rcpt'[k][r] = "none"
    BY <1>3 DEF DeleteUser
  <2>2. UNCHANGED <<request, todo, batch, cur, queue, sends, now>>
    BY <1>3 DEF DeleteUser
  <2>3. QED
    BY <1>0, <2>1, <2>2, RequestFrame DEF RequestInv
<1>4. CASE GetPendingBroadcastJobs
  <2>1. \A j \in Jobs : Due(j) => j \in Ripe
    BY DEF Due, OnceInv, JobsOnce, Ripe
  <2>2. QED
    BY <1>0, <1>4, <2>1, RequestFrameWorker DEF GetPendingBroadcastJobs
<1>5. ASSUME NEW j \in Jobs, BeginJob(j) PROVE RequestInv'
  <2>1. queue = {}
    BY <1>5 DEF BeginJob, TypeInv, WorkerLocals, Sending
  <2>2. QED
    BY <1>0, <1>5, <2>1, RequestFrameWorker DEF BeginJob, Oldest
<1>6. ASSUME NEW j \in Jobs, BeginJobFails(j) PROVE RequestInv'
  BY <1>0, <1>6, RequestFrameWorker DEF BeginJobFails, ReturnToBatch
<1>7. CASE GetPendingRecipients
  <2>1. \A j \in Jobs, r \in queue' : j = cur => r \in Names[j]
    BY <1>7 DEF GetPendingRecipients, RequestInv
  <2>2. QED
    BY <1>0, <1>7, <2>1, RequestFrameWorker DEF GetPendingRecipients
<1>8. CASE GetPendingRecipientsFails
  BY <1>0, <1>8, RequestFrameWorker DEF GetPendingRecipientsFails, ReturnToBatch
<1>9. ASSUME NEW r \in Recipients, SendSucceeds(r) \/ SendFails(r) PROVE RequestInv'
  <2>1. /\ cur \in Jobs /\ r \in queue /\ queue' \subseteq queue
        /\ UNCHANGED <<request, todo, rcpt, batch, cur, now>>
    BY <1>0, <1>9 DEF SendSucceeds, SendFails, NextRecipient
  <2>2. \A j \in Jobs, q \in Recipients :
           sends'[j][q] > 0 => sends[j][q] > 0 \/ (j = cur /\ q = r)
    <3>1. CASE Accepted(r)
      BY <2>1, <3>1 DEF Accepted, TypeInv, TypeOK
    <3>2. CASE UNCHANGED sends
      BY <3>2
    <3>3. QED
      BY <1>9, <3>1, <3>2 DEF SendSucceeds, SendFails
  <2>3. \A j \in Jobs, q \in Recipients : sends'[j][q] > 0 => j \in Ripe /\ q \in Names[j]
    BY <1>0, <2>1, <2>2 DEF RequestInv
  <2>4. \A j \in Jobs, q \in queue' : j = cur' => q \in Names[j]
    BY <1>0, <2>1
  <2>5. QED
    BY <1>0, <2>1, <2>3, <2>4, RequestFrame DEF RequestInv
<1>10. CASE LogOutgoingMessage \/ UpsertThread
  BY <1>0, <1>10, RequestFrameWorker DEF LogOutgoingMessage, UpsertThread
<1>11. CASE UpdateBroadcastRecipientStatus
  <2>1. \A k \in Jobs, r \in Recipients : rcpt[k][r] = "none" => rcpt'[k][r] = "none"
    <3>1. CASE SetRecipientStatus(cur, target, result)
      BY <3>1 DEF SetRecipientStatus, TypeInv, TypeOK
    <3>2. CASE UNCHANGED rcpt
      BY <3>2
    <3>3. QED
      BY <1>11, <3>1, <3>2 DEF UpdateBroadcastRecipientStatus
  <2>2. UNCHANGED <<request, todo, batch, cur, queue, sends, now>>
    BY <1>11 DEF UpdateBroadcastRecipientStatus
  <2>3. QED
    BY <1>0, <2>1, <2>2, RequestFrame DEF RequestInv
<1>12. CASE CompleteJob
  BY <1>0, <1>12, RequestFrameWorker DEF CompleteJob, ReturnToBatch
<1>13. CASE Tick
  BY <1>0, <1>13, RequestFrameWorker DEF Tick
<1>14. ASSUME NEW d \in Devices, GoOnline(d) \/ GoOffline(d) PROVE RequestInv'
  BY <1>0, <1>14, RequestFrameWorker DEF GoOnline, GoOffline
<1>15. CASE Crash
  BY <1>0, <1>15, RequestFrame DEF Crash, RequestInv
<1>16. CASE UNCHANGED vars
  BY <1>0, <1>16, RequestFrameWorker DEF vars
<1>17. QED
  BY <1>1, <1>2, <1>3, <1>4, <1>5, <1>6, <1>7, <1>8, <1>9, <1>10, <1>11, <1>12,
     <1>13, <1>14, <1>15, <1>16
     DEF Next, Handler, WorkerProgress, WorkerError, Environment, CreateBroadcast, ScheduleMessage

\* No message leaves before its instant or to a recipient nobody named.
THEOREM AsRequested == Spec => []OnlyAsRequested
<1>1. Spec => []RequestInv
  BY TypeInvariant, OnceInvariant, RequestInit, RequestStep, PTL DEF Spec
<1>2. RequestInv => OnlyAsRequested
  BY DEF RequestInv, OnlyAsRequested, Ripe, Names
<1>3. QED
  BY <1>1, <1>2, PTL
-----------------------------------------------------------------------------
\* A recipient the worker has still to settle has no outcome yet: its row is
\* pending, or gone with its job and then never inserted again.
OutcomeInv ==
    /\ target \notin queue
    /\ \A r \in queue \cup {target} :
         r # NoRecipient =>
            rcpt[cur][r] = "pending" \/ (rcpt[cur][r] = "none" /\ status[cur] = "deleted")
    /\ \A j \in Jobs, r \in Recipients :
         rcpt[j][r] = "none" /\ sends[j][r] # 0 => status[j] = "deleted"
    /\ \A j \in Jobs : status[j] = "deleted" => request[j] # NoRequest

LEMMA OutcomeInit == Init => OutcomeInv
  BY BroadcastAssumption DEF Init, OutcomeInv

LEMMA OutcomeStep ==
    TypeInv /\ TypeInv' /\ OnceInv /\ OutcomeInv /\ [Next]_vars => OutcomeInv'
<1> SUFFICES ASSUME TypeInv, TypeInv', OnceInv, OutcomeInv, [Next]_vars PROVE OutcomeInv'
    OBVIOUS
<1> USE BroadcastAssumption
    DEF TypeInv, TypeOK, WorkerLocals, Sending, OutcomeInv, dbVars, handlerVars, workerVars, envVars
<1>1. ASSUME NEW j \in Jobs, NEW q \in Requests, CreateBroadcastJob(j, q) PROVE OutcomeInv'
  <2>1. cur # j /\ status[j] = "none" /\ Untouched(j)
    BY <1>1 DEF CreateBroadcastJob, OnceInv, JobsOnce
  <2>2. QED
    BY <1>1, <2>1 DEF CreateBroadcastJob, Untouched
<1>2. ASSUME NEW j \in Jobs, CreateBroadcastRecipient(j) PROVE OutcomeInv'
  <2>1. CASE InsertRecipient(j, Head(todo[j]))
    <3>1. \A k \in Jobs, r \in Recipients :
            \/ rcpt'[k][r] = rcpt[k][r]
            \/ rcpt[k][r] = "none" /\ rcpt'[k][r] = "pending" /\ status[k] # "deleted"
      BY <2>1 DEF InsertRecipient
    <3>2. UNCHANGED <<request, status, cur, queue, target, sends>>
      BY <1>2 DEF CreateBroadcastRecipient
    <3>3. QED
      BY <3>1, <3>2
  <2>2. CASE UNCHANGED rcpt
    BY <1>2, <2>2 DEF CreateBroadcastRecipient
  <2>3. QED
    BY <1>2, <2>1, <2>2 DEF CreateBroadcastRecipient
<1>3. ASSUME NEW u \in Users, DeleteUser(u) PROVE OutcomeInv'
  BY <1>3 DEF DeleteUser
<1>4. CASE GetPendingBroadcastJobs
  BY <1>4 DEF GetPendingBroadcastJobs
<1>5. ASSUME NEW j \in Jobs, BeginJob(j) PROVE OutcomeInv'
  BY <1>5 DEF BeginJob, Oldest, SetJobStatus
<1>6. ASSUME NEW j \in Jobs, BeginJobFails(j) PROVE OutcomeInv'
  BY <1>6 DEF BeginJobFails, Oldest, SetJobStatus, ReturnToBatch
<1>7. CASE GetPendingRecipients
  BY <1>7 DEF GetPendingRecipients
<1>8. CASE GetPendingRecipientsFails
  BY <1>8 DEF GetPendingRecipientsFails, ReturnToBatch
<1>9. ASSUME NEW r \in Recipients, SendSucceeds(r) \/ SendFails(r) PROVE OutcomeInv'
  <2>1. /\ cur \in Jobs /\ r \in queue /\ queue' = queue \ {r} /\ target' = r
        /\ UNCHANGED <<request, status, rcpt, cur>>
    BY <1>9 DEF SendSucceeds, SendFails, NextRecipient
  <2>2. \A j \in Jobs, q \in Recipients :
           sends'[j][q] # 0 => sends[j][q] # 0 \/ (j = cur /\ q = r)
    <3>1. CASE Accepted(r)
      BY <2>1, <3>1 DEF Accepted
    <3>2. CASE UNCHANGED sends
      BY <3>2
    <3>3. QED
      BY <1>9, <3>1, <3>2 DEF SendSucceeds, SendFails
  <2>3. QED
    BY <2>1, <2>2
<1>10. CASE LogOutgoingMessage \/ UpsertThread
  BY <1>10 DEF LogOutgoingMessage, UpsertThread
<1>11. CASE UpdateBroadcastRecipientStatus
  <2>1. cur \in Jobs /\ target \in Recipients /\ target' = NoRecipient
    BY <1>11 DEF UpdateBroadcastRecipientStatus
  <2>2. \A j \in Jobs, r \in Recipients :
           \/ rcpt'[j][r] = rcpt[j][r]
           \/ j = cur /\ r = target /\ rcpt'[j][r] # "none"
    <3>1. CASE SetRecipientStatus(cur, target, result)
      BY <2>1, <3>1 DEF SetRecipientStatus
    <3>2. CASE UNCHANGED rcpt
      BY <3>2
    <3>3. QED
      BY <1>11, <3>1, <3>2 DEF UpdateBroadcastRecipientStatus
  <2>3. UNCHANGED <<request, status, cur, queue, sends>>
    BY <1>11 DEF UpdateBroadcastRecipientStatus
  <2>4. ASSUME NEW r \in queue
        PROVE  rcpt'[cur][r] = "pending" \/ (rcpt'[cur][r] = "none" /\ status[cur] = "deleted")
    <3>1. r \in Recipients /\ r # target /\ r # NoRecipient
      OBVIOUS
    <3>2. rcpt'[cur][r] = rcpt[cur][r]
      BY <2>1, <2>2, <3>1
    <3>3. QED
      BY <3>1, <3>2
  <2>5. \A j \in Jobs, r \in Recipients :
           rcpt'[j][r] = "none" /\ sends[j][r] # 0 => status[j] = "deleted"
    BY <2>2
  <2>6. NoRecipient \notin queue
    OBVIOUS
  <2>7. QED
    BY <2>1, <2>3, <2>4, <2>5, <2>6
<1>12. CASE CompleteJob
  BY <1>12 DEF CompleteJob, SetJobStatus, ReturnToBatch
<1>13. CASE Tick
  BY <1>13 DEF Tick
<1>14. ASSUME NEW d \in Devices, GoOnline(d) \/ GoOffline(d) PROVE OutcomeInv'
  BY <1>14 DEF GoOnline, GoOffline
<1>15. CASE Crash
  BY <1>15 DEF Crash
<1>16. CASE UNCHANGED vars
  BY <1>16 DEF vars
<1>17. QED
  BY <1>1, <1>2, <1>3, <1>4, <1>5, <1>6, <1>7, <1>8, <1>9, <1>10, <1>11, <1>12,
     <1>13, <1>14, <1>15, <1>16
     DEF Next, Handler, WorkerProgress, WorkerError, Environment, CreateBroadcast, ScheduleMessage

LEMMA OutcomeInvariant == Spec => []OutcomeInv
  BY TypeInvariant, OnceInvariant, OutcomeInit, OutcomeStep, PTL DEF Spec

\* The only step that overwrites a row that exists is the worker's, and the row
\* it overwrites has no outcome.
LEMMA OutcomeKept ==
    ASSUME TypeInv, TypeInv', OutcomeInv, [Next]_vars,
           NEW j \in Jobs, NEW r \in Recipients, rcpt[j][r] \in {"sent", "failed"}
    PROVE  rcpt'[j][r] = rcpt[j][r] \/ status'[j] = "deleted"
<1> USE BroadcastAssumption
    DEF TypeInv, TypeOK, WorkerLocals, Sending, dbVars, handlerVars, workerVars, envVars
<1>1. ASSUME NEW k \in Jobs, CreateBroadcastRecipient(k) PROVE rcpt'[j][r] = rcpt[j][r]
  <2>1. CASE InsertRecipient(k, Head(todo[k]))
    BY <2>1 DEF InsertRecipient
  <2>2. QED
    BY <1>1, <2>1 DEF CreateBroadcastRecipient
<1>2. ASSUME NEW u \in Users, DeleteUser(u)
      PROVE  rcpt'[j][r] = rcpt[j][r] \/ status'[j] = "deleted"
  BY <1>2 DEF DeleteUser
<1>3. CASE UpdateBroadcastRecipientStatus
  <2>1. cur \in Jobs /\ target \in Recipients /\ <<j, r>> # <<cur, target>>
    BY <1>3 DEF UpdateBroadcastRecipientStatus, OutcomeInv
  <2>2. CASE SetRecipientStatus(cur, target, result)
    BY <2>1, <2>2 DEF SetRecipientStatus
  <2>3. QED
    BY <1>3, <2>2 DEF UpdateBroadcastRecipientStatus
<1>4. CASE UNCHANGED rcpt
  BY <1>4
<1>5. \/ \E k \in Jobs : CreateBroadcastRecipient(k)
      \/ \E u \in Users : DeleteUser(u)
      \/ UpdateBroadcastRecipientStatus
      \/ UNCHANGED rcpt
  BY DEF Next, vars, Handler, WorkerProgress, WorkerError, Environment, CreateBroadcast,
         ScheduleMessage, CreateBroadcastJob, GetPendingBroadcastJobs, BeginJob, BeginJobFails,
         GetPendingRecipients, GetPendingRecipientsFails, SendSucceeds, SendFails,
         LogOutgoingMessage, UpsertThread, CompleteJob, Tick, GoOnline, GoOffline, Crash
<1>6. QED
  BY <1>1, <1>2, <1>3, <1>4, <1>5

\* Until its row is deleted, an outcome is never turned into another one.
THEOREM OutcomeStays == Spec => OutcomeIsFinal
<1>1. TypeInv /\ TypeInv' /\ OutcomeInv /\ [Next]_vars
        => [\A j \in Jobs, r \in Recipients :
              rcpt[j][r] \in {"sent", "failed"} =>
                rcpt'[j][r] = rcpt[j][r] \/ status'[j] = "deleted"]_<<rcpt, status>>
  BY OutcomeKept
<1>2. QED
  BY <1>1, TypeInvariant, OutcomeInvariant, PTL DEF Spec, OutcomeIsFinal
-----------------------------------------------------------------------------
LEMMA RowsInit == Init => RowsFollowWorker
  BY BroadcastAssumption DEF Init, RowsFollowWorker

\* Without failing statements "processing" is given to the job in hand, which
\* is let go of as "completed"; what was sent to is the target until its row
\* says so.
LEMMA RowsStep ==
    TypeInv /\ TypeInv' /\ OnceInv /\ OutcomeInv /\ RowsFollowWorker /\ [Next]_vars
        => RowsFollowWorker'
<1> SUFFICES ASSUME TypeInv, TypeInv', OnceInv, OutcomeInv, RowsFollowWorker, [Next]_vars,
                    ~ DbMayFail, crashes' = 0
             PROVE  RowsFollowWorker'
    BY DEF RowsFollowWorker, DbMayFail
<1> USE BroadcastAssumption
    DEF TypeInv, TypeOK, WorkerLocals, Sending, dbVars, handlerVars, workerVars, envVars
<1> DEFINE Told(j, r) == rcpt[j][r] = "pending" /\ <<j, r>> # <<cur, target>> => sends[j][r] = 0
<1>0. ASSUME crashes = 0
      PROVE  /\ \A j \in Jobs : status[j] = "processing" => cur = j
             /\ \A j \in Jobs, r \in Recipients : Told(j, r)
  BY <1>0 DEF RowsFollowWorker
<1>1. ASSUME NEW j \in Jobs, NEW q \in Requests, CreateBroadcastJob(j, q) PROVE RowsFollowWorker'
  BY <1>0, <1>1 DEF CreateBroadcastJob, RowsFollowWorker
<1>2. ASSUME NEW j \in Jobs, CreateBroadcastRecipient(j) PROVE RowsFollowWorker'
  <2>1. \A k \in Jobs, r \in Recipients :
            \/ rcpt'[k][r] = rcpt[k][r]
            \/ rcpt[k][r] = "none" /\ status[k] # "deleted"
    <3>1. CASE InsertRecipient(j, Head(todo[j]))
      BY <3>1 DEF InsertRecipient
    <3>2. QED
      BY <1>2, <3>1 DEF CreateBroadcastRecipient
  <2>2. UNCHANGED <<status, cur, target, sends, crashes>>
    BY <1>2 DEF CreateBroadcastRecipient
  <2>3. \A k \in Jobs, r \in Recipients :
            rcpt[k][r] = "none" /\ status[k] # "deleted" => sends[k][r] = 0
    BY DEF OutcomeInv
  <2>4. ASSUME NEW k \in Jobs, NEW r \in Recipients, rcpt'[k][r] = "pending"
        PROVE  rcpt[k][r] = "pending" \/ sends[k][r] = 0
    <3>1. CASE rcpt'[k][r] = rcpt[k][r]
      BY <2>4, <3>1
    <3>2. CASE rcpt[k][r] = "none" /\ status[k] # "deleted"
      BY <2>3, <3>2
    <3>3. QED
      BY <2>1, <3>1, <3>2
  <2>5. QED
    BY <1>0, <2>2, <2>4 DEF RowsFollowWorker
<1>3. ASSUME NEW u \in Users, DeleteUser(u) PROVE RowsFollowWorker'
  BY <1>0, <1>3 DEF DeleteUser, RowsFollowWorker
<1>4. CASE GetPendingBroadcastJobs
  BY <1>0, <1>4 DEF GetPendingBroadcastJobs, RowsFollowWorker
<1>5. ASSUME NEW j \in Jobs, BeginJob(j) PROVE RowsFollowWorker'
  <2>1. cur = NoJob /\ cur' = j /\ target = NoRecipient /\ UNCHANGED <<rcpt, target, sends, crashes>>
    BY <1>5 DEF BeginJob
  <2>2. \A k \in Jobs : status[k] # "processing"
    BY <1>0, <2>1
  <2>3. \A k \in Jobs : status'[k] = "processing" => k = j
    BY <1>5, <2>2 DEF BeginJob, SetJobStatus
  <2>4. QED
    BY <1>0, <2>1, <2>3 DEF RowsFollowWorker
<1>6. ASSUME NEW r \in Recipients, SendSucceeds(r) \/ SendFails(r) PROVE RowsFollowWorker'
  <2>1. /\ cur \in Jobs /\ target = NoRecipient /\ target' = r
        /\ UNCHANGED <<status, rcpt, cur, crashes>>
    BY <1>6 DEF SendSucceeds, SendFails, NextRecipient
  <2>2. \A j \in Jobs, q \in Recipients : <<j, q>> # <<cur, r>> => sends'[j][q] = sends[j][q]
    <3>1. CASE Accepted(r)
      BY <2>1, <3>1 DEF Accepted
    <3>2. QED
      BY <1>6, <3>1 DEF SendSucceeds, SendFails
  <2>3. \A j \in Jobs, q \in Recipients : rcpt[j][q] = "pending" => sends[j][q] = 0
    BY <1>0, <2>1
  <2>4. QED
    BY <1>0, <2>1, <2>2, <2>3 DEF RowsFollowWorker
<1>7. CASE LogOutgoingMessage \/ UpsertThread
  BY <1>0, <1>7 DEF LogOutgoingMessage, UpsertThread, RowsFollowWorker
<1>8. CASE UpdateBroadcastRecipientStatus
  <2>1. /\ cur \in Jobs /\ target \in Recipients /\ target' = NoRecipient
        /\ UNCHANGED <<status, cur, sends, crashes>>
    BY <1>8 DEF UpdateBroadcastRecipientStatus
  <2>2. \A j \in Jobs, r \in Recipients :
            rcpt'[j][r] = "pending" => rcpt[j][r] = "pending" /\ <<j, r>> # <<cur, target>>
    <3>1. SetRecipientStatus(cur, target, result)
      BY <1>8 DEF UpdateBroadcastRecipientStatus
    <3>2. QED
      BY <2>1, <3>1 DEF SetRecipientStatus
  <2>3. QED
    BY <1>0, <2>1, <2>2 DEF RowsFollowWorker
<1>9. CASE CompleteJob
  <2>1. /\ cur \in Jobs /\ target = NoRecipient
        /\ UNCHANGED <<rcpt, target, sends, crashes>> /\ SetJobStatus(cur, "completed")
    BY <1>9 DEF CompleteJob
  <2>2. \A k \in Jobs : status'[k] # "processing"
    BY <1>0, <2>1 DEF SetJobStatus
  <2>3. QED
    BY <1>0, <2>1, <2>2 DEF RowsFollowWorker
<1>10. CASE UNCHANGED <<status, rcpt, cur, target, sends, crashes>>
  BY <1>0, <1>10 DEF RowsFollowWorker
<1>11. CASE Crash
  BY <1>11 DEF Crash
<1>12. CASE UNCHANGED vars
  BY <1>10, <1>12 DEF vars
<1>13. CASE GetPendingRecipients
  BY <1>10, <1>13 DEF GetPendingRecipients
<1>14. CASE Tick
  BY <1>10, <1>14 DEF Tick
<1>15. ASSUME NEW d \in Devices, GoOnline(d) \/ GoOffline(d) PROVE RowsFollowWorker'
  BY <1>10, <1>15 DEF GoOnline, GoOffline
<1>16. QED
  BY <1>1, <1>2, <1>3, <1>4, <1>5, <1>6, <1>7, <1>8, <1>9, <1>11, <1>12, <1>13, <1>14, <1>15
     DEF Next, Handler, WorkerProgress, WorkerError, Environment, CreateBroadcast, ScheduleMessage,
         BeginJobFails, GetPendingRecipientsFails

\* As long as no statement fails and the process lives, the rows are the truth
\* about the worker.
THEOREM RowsTellTheTruth == Spec => []RowsFollowWorker
  BY TypeInvariant, OnceInvariant, OutcomeInvariant, RowsInit, RowsStep, PTL DEF Spec
-----------------------------------------------------------------------------
\* The batch holds whatever is older than what it leaves out.
BatchInv ==
    /\ \A j \in Jobs : createdAt[j] <= now
    /\ wpc = "idle" => batch = {}
    /\ ~ DbMayFail =>
         \A j \in batch, k \in Jobs \ batch :
            status[k] = "pending" /\ ~ IsScheduled(k) => createdAt[j] <= createdAt[k]

LEMMA BatchInit == Init => BatchInv
  BY BroadcastAssumption DEF Init, BatchInv

\* A step that only takes jobs out of the batch that are pending no more.
LEMMA BatchFrame ==
    ASSUME TypeInv, TypeInv', BatchInv, UNCHANGED <<request, createdAt>>, now' \in {now, now + 1},
           batch' \subseteq batch, wpc' = "idle" => batch' = {},
           \A k \in Jobs : status'[k] = "pending" => status[k] = "pending",
           DbMayFail \/ \A k \in batch \ batch' : status'[k] # "pending"
    PROVE  BatchInv'
<1> USE DEF TypeInv, TypeOK, BatchInv, DbMayFail
<1>1. \A j \in Jobs : createdAt'[j] <= now'
  OBVIOUS
<1>2. ASSUME ~ DbMayFail, NEW j \in batch', NEW k \in Jobs \ batch',
             status'[k] = "pending", ~ IsScheduled(k)'
      PROVE  createdAt'[j] <= createdAt'[k]
  BY <1>2 DEF IsScheduled
<1>3. QED
  BY <1>1, <1>2

LEMMA BatchStep ==
    TypeInv /\ TypeInv' /\ OnceInv /\ BatchInv /\ [Next]_vars => BatchInv'
<1> SUFFICES ASSUME TypeInv, TypeInv', OnceInv, BatchInv, [Next]_vars PROVE BatchInv'
    OBVIOUS
<1> USE DEF dbVars, handlerVars, workerVars, envVars
<1>0. batch \subseteq Jobs /\ (wpc = "idle" => batch = {}) /\ cur \in Jobs \cup {NoJob}
  BY DEF TypeInv, TypeOK, BatchInv
<1>1. ASSUME NEW j \in Jobs, NEW q \in Requests, CreateBroadcastJob(j, q) PROVE BatchInv'
  <2>1. /\ j \notin batch /\ createdAt'[j] = now /\ UNCHANGED <<batch, wpc, now>>
        /\ \A k \in Jobs : k # j => /\ createdAt'[k] = createdAt[k] /\ status'[k] = status[k]
                                    /\ request'[k] = request[k]
    BY <1>1 DEF CreateBroadcastJob, OnceInv, JobsOnce, TypeInv, TypeOK
  <2>2. now \in Nat
    BY DEF TypeInv, TypeOK
  <2>3. \A k \in Jobs : createdAt'[k] <= now'
    BY <2>1, <2>2 DEF BatchInv
  <2>4. ASSUME ~ DbMayFail, NEW i \in batch', NEW k \in Jobs \ batch',
               status'[k] = "pending", ~ IsScheduled(k)'
        PROVE  createdAt'[i] <= createdAt'[k]
    <3>1. i \in Jobs /\ i # j /\ createdAt'[i] = createdAt[i] /\ createdAt[i] <= now
      BY <1>0, <2>1 DEF BatchInv
    <3>2. CASE k = j
      BY <2>1, <3>1, <3>2
    <3>3. CASE k # j
      <4>1. status[k] = "pending" /\ ~ IsScheduled(k) /\ createdAt'[k] = createdAt[k]
        BY <2>1, <2>4, <3>3 DEF IsScheduled
      <4>2. QED
        BY <2>1, <2>4, <3>1, <4>1 DEF BatchInv
    <3>4. QED
      BY <3>2, <3>3
  <2>5. QED
    BY <1>0, <2>1, <2>3, <2>4 DEF BatchInv, DbMayFail
<1>2. ASSUME NEW j \in Jobs, CreateBroadcastRecipient(j) PROVE BatchInv'
  BY <1>0, <1>2, BatchFrame DEF CreateBroadcastRecipient
<1>3. ASSUME NEW u \in Users, DeleteUser(u) PROVE BatchInv'
  BY <1>0, <1>3, BatchFrame DEF DeleteUser
<1>4. CASE GetPendingBroadcastJobs
  <2>1. \A k \in Jobs : status[k] = "pending" /\ ~ IsScheduled(k) => k \in batch'
    BY <1>4 DEF GetPendingBroadcastJobs, Due
  <2>2. UNCHANGED <<request, createdAt, status, now>> /\ wpc' = "pick"
    BY <1>4 DEF GetPendingBroadcastJobs
  <2>3. \A k \in Jobs : IsScheduled(k)' <=> IsScheduled(k)
    BY <2>2 DEF IsScheduled
  <2>4. QED
    BY <2>1, <2>2, <2>3 DEF BatchInv, DbMayFail
<1>5. ASSUME NEW j \in Jobs, BeginJob(j) PROVE BatchInv'
  <2>1. \A k \in Jobs : status'[k] = "pending" => k # j /\ status[k] = "pending"
    BY <1>5 DEF BeginJob, SetJobStatus, TypeInv, TypeOK
  <2>2. QED
    BY <1>0, <1>5, <2>1, BatchFrame DEF BeginJob
<1>6. ASSUME NEW j \in Jobs, BeginJobFails(j) PROVE BatchInv'
  <2>1. \A k \in Jobs : status'[k] = "pending" => status[k] = "pending"
    BY <1>6 DEF BeginJobFails, SetJobStatus, TypeInv, TypeOK
  <2>2. QED
    BY <1>0, <1>6, <2>1, BatchFrame DEF BeginJobFails, ReturnToBatch
<1>7. CASE GetPendingRecipients
  BY <1>0, <1>7, BatchFrame DEF GetPendingRecipients
<1>8. CASE GetPendingRecipientsFails
  BY <1>0, <1>8, BatchFrame DEF GetPendingRecipientsFails, ReturnToBatch
<1>9. ASSUME NEW r \in Recipients, SendSucceeds(r) \/ SendFails(r) PROVE BatchInv'
  BY <1>0, <1>9, BatchFrame DEF SendSucceeds, SendFails
<1>10. CASE LogOutgoingMessage \/ UpsertThread
  BY <1>0, <1>10, BatchFrame DEF LogOutgoingMessage, UpsertThread
<1>11. CASE UpdateBroadcastRecipientStatus
  BY <1>0, <1>11, BatchFrame DEF UpdateBroadcastRecipientStatus
<1>12. CASE CompleteJob
  <2>1. \A k \in Jobs : status'[k] = "pending" => status[k] = "pending"
    BY <1>12 DEF CompleteJob, SetJobStatus, TypeInv, TypeOK
  <2>2. QED
    BY <1>0, <1>12, <2>1, BatchFrame DEF CompleteJob, ReturnToBatch
<1>13. CASE Tick
  BY <1>0, <1>13, BatchFrame DEF Tick
<1>14. ASSUME NEW d \in Devices, GoOnline(d) \/ GoOffline(d) PROVE BatchInv'
  BY <1>0, <1>14, BatchFrame DEF GoOnline, GoOffline
<1>15. CASE Crash
  BY <1>15 DEF Crash, BatchInv, DbMayFail
<1>16. CASE UNCHANGED vars
  BY <1>0, <1>16, BatchFrame DEF vars
<1>17. QED
  BY <1>1, <1>2, <1>3, <1>4, <1>5, <1>6, <1>7, <1>8, <1>9, <1>10, <1>11, <1>12,
     <1>13, <1>14, <1>15, <1>16
     DEF Next, Handler, WorkerProgress, WorkerError, Environment, CreateBroadcast, ScheduleMessage

LEMMA BatchInvariant == Spec => []BatchInv
  BY TypeInvariant, OnceInvariant, BatchInit, BatchStep, PTL DEF Spec

\* Only BeginJob takes a job in hand.
LEMMA BegunInOrder ==
    ASSUME TypeInv, TypeInv', BatchInv, [Next]_vars, ~ DbMayFail,
           NEW j \in Jobs, NEW k \in Jobs, cur # j, cur' = j,
           status[k] = "pending", ~ IsScheduled(k), k # j
    PROVE  createdAt[j] <= createdAt[k]
<1> USE BroadcastAssumption DEF dbVars, handlerVars, workerVars, envVars
<1>1. BeginJob(j)
  BY DEF Next, vars, Handler, WorkerProgress, WorkerError, Environment, CreateBroadcast,
         ScheduleMessage, CreateBroadcastJob, CreateBroadcastRecipient, DeleteUser,
         GetPendingBroadcastJobs, BeginJob, BeginJobFails,
         GetPendingRecipients, GetPendingRecipientsFails, SendSucceeds, SendFails,
         LogOutgoingMessage, UpsertThread, UpdateBroadcastRecipientStatus, CompleteJob,
         ReturnToBatch, Tick, GoOnline, GoOffline, Crash
<1>2. Oldest(j)
  BY <1>1 DEF BeginJob
<1>3. CASE k \in batch
  BY <1>2, <1>3 DEF Oldest
<1>4. CASE k \notin batch
  BY <1>2, <1>4 DEF Oldest, BatchInv
<1>5. QED
  BY <1>3, <1>4

\* Without failing statements unscheduled jobs are begun in the order of their
\* creation.
THEOREM BegunInOrderOfCreation == Spec => NoOvertaking
<1>1. TypeInv /\ TypeInv' /\ BatchInv /\ [Next]_vars
        => [~ DbMayFail =>
              \A j, k \in Jobs :
                (/\ cur # j /\ cur' = j
                 /\ status[k] = "pending" /\ ~ IsScheduled(k) /\ k # j)
                => createdAt[j] <= createdAt[k]]_cur
  BY BegunInOrder
<1>2. QED
  BY <1>1, TypeInvariant, BatchInvariant, PTL DEF Spec, NoOvertaking
-----------------------------------------------------------------------------
\* Where a job is, by what the worker holds.
LEMMA PhaseOf ==
    ASSUME TypeInv, OnceInv, NEW j \in Jobs
    PROVE  /\ request[j] = NoRequest => Phase(j) = "absent" /\ cur # j
           /\ request[j] # NoRequest =>
                /\ cur = j /\ wpc = "fetch" => Phase(j) = "claimed"
                /\ cur = j /\ wpc # "fetch" => Phase(j) = "sending"
                /\ cur # j /\ (j \in batch \/ status[j] = "pending") => Phase(j) = "open"
                /\ cur # j /\ j \notin batch /\ status[j] = "completed" => Phase(j) = "done"
                /\ cur # j /\ j \notin batch /\ status[j] \notin {"pending", "completed"}
                     => Phase(j) = "closed"
  BY DEF Phase, OnceInv, JobsOnce

\* A step keeps the phase of a job if it keeps what the phase is made of.
LEMMA PhaseKept ==
    ASSUME NEW j \in Jobs, request'[j] = request[j], cur' = j <=> cur = j,
           cur = j => (wpc' = "fetch" <=> wpc = "fetch"),
           cur # j => (j \in batch' \/ status'[j] = "pending" <=> j \in batch \/ status[j] = "pending"),
           cur # j => (j \notin batch' /\ status'[j] = "completed"
                         <=> j \notin batch /\ status[j] = "completed")
    PROVE  Phase(j)' = Phase(j)
  BY DEF Phase

\* The plan and the attempt of a job, as OnceDelivery sees them.
PlanOf == [j \in Jobs |-> IF cur = j THEN queue ELSE {}]
TryingOf == [j \in Jobs |-> IF cur = j /\ target # NoRecipient THEN {target} ELSE {}]

PipelineInv == TypeInv /\ OnceInv /\ PhantomInv /\ RequestInv /\ OutcomeInv /\ BatchInv

LEMMA OnceStart == Init => Once!Init
  BY BroadcastAssumption DEF Init, Once!Init, Phase

\* What OnceDelivery sees does not change.
LEMMA OnceStutters ==
    ASSUME UNCHANGED <<rcpt, sends>>, \A j \in Jobs : Phase(j)' = Phase(j),
           \A j \in Jobs : PlanOf'[j] = PlanOf[j] /\ TryingOf'[j] = TryingOf[j]
    PROVE  UNCHANGED Once!vars
  BY DEF Once!vars, PlanOf, TryingOf

\* The jobs in S are closed, the others stay what they are.
LEMMA OnceCloses ==
    ASSUME TypeInv, OnceInv, NEW S \in SUBSET Jobs, UNCHANGED <<rcpt, sends>>,
           \A j \in S : /\ request[j] # NoRequest /\ status[j] # "completed"
                        /\ Phase(j)' = "closed" /\ PlanOf'[j] = {} /\ TryingOf'[j] = {},
           \A j \in Jobs \ S : /\ Phase(j)' = Phase(j)
                               /\ PlanOf'[j] = PlanOf[j] /\ TryingOf'[j] = TryingOf[j]
    PROVE  Once!Close(S)
<1>1. \A j \in S : Phase(j) \notin {"absent", "done"}
  BY PhaseOf
<1>2. QED
  BY <1>1 DEF Once!Close, PlanOf, TryingOf

LEMMA OnceSimulates == PipelineInv /\ PipelineInv' /\ [Next]_vars => [Once!Next]_(Once!vars)
<1> SUFFICES ASSUME PipelineInv, PipelineInv', [Next]_vars
             PROVE  Once!Next \/ UNCHANGED Once!vars
    OBVIOUS
<1> USE DEF PipelineInv, dbVars, handlerVars, workerVars, envVars
<1>0. /\ NoJob \notin Jobs /\ NoRecipient \notin Recipients
      /\ batch \subseteq Jobs /\ queue \subseteq Recipients
      /\ cur \in Jobs \cup {NoJob} /\ target \in Recipients \cup {NoRecipient}
      /\ wpc \in {"fetch", "loop", "log", "thread", "record"} <=> cur # NoJob
      /\ queue # {} => wpc \notin {"fetch", "pick", "idle"}
      /\ \A j \in Jobs : PlanOf[j] = IF cur = j THEN queue ELSE {}
      /\ \A j \in Jobs : PlanOf'[j] = IF cur' = j THEN queue' ELSE {}
      /\ wpc \in {"log", "thread", "record"} <=> target # NoRecipient
      /\ wpc' \in {"log", "thread", "record"} <=> target' # NoRecipient
      /\ \A j \in Jobs : TryingOf[j] = IF cur = j /\ target # NoRecipient THEN {target} ELSE {}
      /\ \A j \in Jobs : TryingOf'[j] = IF cur' = j /\ target' # NoRecipient THEN {target'} ELSE {}
  BY BroadcastAssumption DEF TypeInv, TypeOK, WorkerLocals, Sending, PlanOf, TryingOf
<1>a. \A j \in Jobs : /\ status[j] = "pending" \/ j \in batch => cur # j /\ request[j] # NoRequest
                      /\ status[j] = "completed" => j \notin batch /\ cur # j
  BY DEF OnceInv, JobsOnce
<1>b. cur \in Jobs => request[cur] # NoRequest
  BY DEF OnceInv, JobsOnce
<1>1. ASSUME NEW j \in Jobs, NEW q \in Requests, CreateBroadcastJob(j, q) PROVE Once!Accept(j)
  <2>1. /\ request[j] = NoRequest /\ request'[j] # NoRequest /\ status'[j] = "pending"
        /\ UNCHANGED <<rcpt, workerVars, sends>>
        /\ \A k \in Jobs : k # j => request'[k] = request[k] /\ status'[k] = status[k]
    BY <1>1, BroadcastAssumption DEF CreateBroadcastJob, TypeInv, TypeOK
  <2>2. Phase(j) = "absent" /\ Phase(j)' = "open"
    BY <2>1 DEF Phase, OnceInv, JobsOnce
  <2>3. \A k \in Jobs : k # j => Phase(k)' = Phase(k)
    BY <2>1, PhaseKept
  <2>4. QED
    BY <2>1, <2>2, <2>3 DEF Once!Accept
<1>2. ASSUME NEW j \in Jobs, CreateBroadcastRecipient(j)
      PROVE  (\E r \in Recipients : Once!Enlist(j, r)) \/ UNCHANGED Once!vars
  <2>1. UNCHANGED <<request, status, workerVars, sends>>
    BY <1>2 DEF CreateBroadcastRecipient
  <2>2. \A k \in Jobs : /\ Phase(k)' = Phase(k)
                        /\ PlanOf'[k] = PlanOf[k] /\ TryingOf'[k] = TryingOf[k]
    BY <1>0, <2>1, PhaseKept
  <2>3. CASE UNCHANGED rcpt
    BY <2>1, <2>2, <2>3, OnceStutters
  <2>4. CASE InsertRecipient(j, Head(todo[j])) /\ ~ UNCHANGED rcpt
    <3> DEFINE h == Head(todo[j])
    <3>1. h \in Recipients /\ request[j] # NoRequest
      BY <1>2 DEF CreateBroadcastRecipient, TypeInv, TypeOK, RequestInv
    <3> HIDE DEF h
    <3>2. rcpt' = [rcpt EXCEPT ![j][h] = "pending"] /\ rcpt[j][h] = "none"
      <4>1. rcpt' = [rcpt EXCEPT ![j][h] = IF status[j] # "deleted" /\ rcpt[j][h] = "none"
                                           THEN "pending" ELSE rcpt[j][h]]
        BY <2>4 DEF InsertRecipient, h
      <4>2. [rcpt EXCEPT ![j][h] = rcpt[j][h]] = rcpt
        BY <3>1 DEF TypeInv, TypeOK
      <4>3. QED
        BY <2>4, <4>1, <4>2
    <3>3. Phase(j) # "absent"
      BY <3>1 DEF Phase
    <3>4. Once!Enlist(j, h)
      BY <2>1, <2>2, <3>1, <3>2, <3>3 DEF Once!Enlist
    <3>5. QED
      BY <3>1, <3>4
  <2>5. QED
    BY <1>2, <2>3, <2>4 DEF CreateBroadcastRecipient
<1>3. ASSUME NEW u \in Users, DeleteUser(u)
      PROVE  \E S \in SUBSET Jobs : \E C \in SUBSET S : Once!Withdraw(S, C)
  <2> DEFINE S == {j \in Jobs : request[j] # NoRequest /\ request[j].user = u}
             C == {j \in S : Phase(j) \in {"open", "done"} /\ Phase(j)' # Phase(j)}
  <2>1. /\ rcpt' = [j \in Jobs |-> IF j \in S THEN [r \in Recipients |-> "none"] ELSE rcpt[j]]
        /\ UNCHANGED <<request, workerVars, sends>>
        /\ \A j \in Jobs : status'[j] = IF j \in S THEN "deleted" ELSE status[j]
    BY <1>3 DEF DeleteUser
  <2>2. \A j \in S : request[j] # NoRequest
    OBVIOUS
  <2>3. \A j \in Jobs : Phase(j)' = IF j \in C THEN "closed" ELSE Phase(j)
    <3> TAKE j \in Jobs
    <3>1. CASE j \notin S
      BY <2>1, <3>1, PhaseKept
    <3>2. CASE j \in S
      BY <2>1, <2>2, <3>2, PhaseOf DEF Phase
    <3>3. QED
      BY <3>1, <3>2
  <2>4. \A j \in S : Phase(j) # "absent"
    BY DEF Phase
  <2>5. PlanOf' = PlanOf /\ TryingOf' = TryingOf
    BY <2>1 DEF PlanOf, TryingOf
  <2>6. Once!Withdraw(S, C)
    BY <2>1, <2>3, <2>4, <2>5 DEF Once!Withdraw, PlanOf, TryingOf
  <2>7. QED
    BY <2>6
<1>4. CASE GetPendingBroadcastJobs
  <2>1. /\ cur = NoJob /\ cur' = NoJob /\ batch = {}
        /\ UNCHANGED <<request, status, rcpt, sends>>
        /\ \A j \in batch' : status[j] = "pending"
    BY <1>0, <1>4 DEF GetPendingBroadcastJobs, BatchInv, Due
  <2>2. \A j \in Jobs : Phase(j)' = Phase(j)
    BY <1>0, <2>1, PhaseKept
  <2>3. QED
    BY <1>0, <2>1, <2>2, OnceStutters
<1>5. ASSUME NEW j \in Jobs, BeginJob(j) PROVE Once!Claim(j)
  <2>1. /\ cur = NoJob /\ cur' = j /\ wpc' = "fetch" /\ j \in batch /\ batch' = batch \ {j}
        /\ queue = {} /\ UNCHANGED <<request, rcpt, queue, sends>>
        /\ \A k \in Jobs : k # j => status'[k] = status[k]
    BY <1>0, <1>5 DEF BeginJob, Oldest, SetJobStatus
  <2>2. Phase(j) = "open" /\ Phase(j)' = "claimed"
    BY <1>0, <1>a, <2>1 DEF Phase
  <2>3. \A k \in Jobs : k # j => Phase(k)' = Phase(k)
    BY <1>0, <2>1, PhaseKept
  <2>4. \A k \in Jobs : PlanOf'[k] = PlanOf[k] /\ TryingOf'[k] = TryingOf[k]
    BY <1>0, <2>1
  <2>5. \A k \in Jobs : Phase(k) \notin {"claimed", "sending"}
    BY <1>0, <2>1 DEF Phase
  <2>6. QED
    BY <2>1, <2>2, <2>3, <2>4, <2>5 DEF Once!Claim, PlanOf, TryingOf
<1>6. ASSUME NEW j \in Jobs, BeginJobFails(j)
      PROVE  (\E S \in SUBSET Jobs : Once!Close(S)) \/ UNCHANGED Once!vars
  <2>1. /\ cur = NoJob /\ cur' = NoJob /\ j \in batch /\ batch' = batch \ {j}
        /\ UNCHANGED <<request, rcpt, queue, sends>>
        /\ \A k \in Jobs : k # j => status'[k] = status[k]
    <3>1. \A k \in Jobs : k # j => status'[k] = status[k]
      BY <1>6 DEF BeginJobFails, SetJobStatus, TypeInv, TypeOK
    <3>2. cur = NoJob /\ cur' = NoJob
      BY <1>0, <1>6 DEF BeginJobFails, ReturnToBatch
    <3>3. QED
      BY <1>6, <3>1, <3>2 DEF BeginJobFails, Oldest
  <2>2. \A k \in Jobs : k # j => Phase(k)' = Phase(k)
    BY <1>0, <2>1, PhaseKept
  <2>3. \A k \in Jobs : /\ PlanOf'[k] = {} /\ PlanOf[k] = {}
                        /\ TryingOf'[k] = {} /\ TryingOf[k] = {}
    BY <1>0, <2>1
  <2>4. Phase(j) = "open" /\ Phase(j)' \in {"open", "closed"}
    <3>1. status[j] # "completed" /\ status'[j] # "completed"
      BY <1>6, <1>a, <2>1 DEF BeginJobFails, SetJobStatus, TypeInv, TypeOK
    <3>2. QED
      BY <1>0, <1>a, <2>1, <3>1 DEF Phase
  <2>5. CASE Phase(j)' = "open"
    BY <2>1, <2>2, <2>3, <2>4, <2>5, OnceStutters
  <2>6. CASE Phase(j)' = "closed"
    <3>1. Once!Close({j})
      BY <1>a, <2>1, <2>2, <2>3, <2>6, OnceCloses
    <3>2. QED
      BY <3>1
  <2>7. QED
    BY <2>4, <2>5, <2>6
<1>7. ASSUME NEW j \in Jobs, j = cur, GetPendingRecipients PROVE Once!Plan(j)
  <2>1. /\ cur = j /\ wpc = "fetch" /\ wpc' = "loop"
        /\ queue' = {r \in Recipients : rcpt[cur][r] = "pending"}
        /\ UNCHANGED <<request, status, rcpt, batch, cur, target, sends>>
    BY <1>0, <1>7 DEF GetPendingRecipients
  <2>2. Phase(j) = "claimed" /\ Phase(j)' = "sending"
    BY <1>b, <2>1 DEF Phase
  <2>3. \A k \in Jobs : k # j => Phase(k)' = Phase(k)
    BY <2>1, PhaseKept
  <2>4. TryingOf' = TryingOf
    BY <2>1 DEF TryingOf
  <2>5. QED
    BY <2>1, <2>2, <2>3, <2>4 DEF Once!Plan, TryingOf
<1>8. ASSUME NEW j \in Jobs, j = cur, GetPendingRecipientsFails \/ CompleteJob
      PROVE  Once!Finish(j) \/ \E S \in SUBSET Jobs : Once!Close(S)
  <2>1. /\ cur = j /\ cur' = NoJob /\ wpc \in {"fetch", "loop"} /\ queue = {}
        /\ UNCHANGED <<request, rcpt, batch, queue, target, sends>>
    BY <1>0, <1>8 DEF GetPendingRecipientsFails, CompleteJob, ReturnToBatch
  <2>2. /\ \A k \in Jobs : k # j => status'[k] = status[k]
        /\ status'[j] # "pending"
        /\ status'[j] = "completed" => wpc = "loop"
    BY <1>8, <1>a DEF GetPendingRecipientsFails, CompleteJob, SetJobStatus, TypeInv, TypeOK
  <2>3. j \notin batch /\ request[j] # NoRequest /\ status[j] # "completed"
    BY <1>a, <1>b, <2>1
  <2>4. request'[j] # NoRequest /\ cur' # j /\ j \notin batch' /\ status'[j] # "pending"
    BY <1>0, <2>1, <2>2, <2>3
  <2>5. \A k \in Jobs : k # j => Phase(k)' = Phase(k)
    BY <1>0, <2>1, <2>2, PhaseKept
  <2>6. \A k \in Jobs : /\ PlanOf'[k] = {} /\ PlanOf[k] = {}
                        /\ TryingOf'[k] = {} /\ TryingOf[k] = {}
    BY <1>0, <2>1
  <2>7. CASE status'[j] = "completed"
    <3>1. Phase(j) = "sending" /\ Phase(j)' = "done"
      BY <2>1, <2>2, <2>3, <2>4, <2>7 DEF Phase
    <3>2. Once!Finish(j)
      BY <2>1, <2>5, <2>6, <3>1 DEF Once!Finish, PlanOf, TryingOf
    <3>3. QED
      BY <3>2
  <2>8. CASE status'[j] # "completed"
    <3>1. Phase(j)' = "closed"
      BY <2>4, <2>8 DEF Phase
    <3>2. Once!Close({j})
      BY <2>1, <2>3, <2>5, <2>6, <3>1, OnceCloses
    <3>3. QED
      BY <3>2
  <2>9. QED
    BY <2>7, <2>8
<1>9. ASSUME NEW r \in Recipients, SendSucceeds(r) \/ SendFails(r) PROVE Once!Attempt(cur, r) /\ cur \in Jobs
  <2>1. /\ cur \in Jobs /\ r \in queue /\ queue' = queue \ {r}
        /\ wpc # "fetch" /\ wpc' # "fetch"
        /\ target = NoRecipient /\ target' = r /\ r # NoRecipient
        /\ UNCHANGED <<request, status, rcpt, batch, cur>>
    BY <1>0, <1>9 DEF SendSucceeds, SendFails, NextRecipient
  <2>2. sends[cur][r] = 0
    BY <2>1 DEF OnceInv, RecipientsOnce
  <2>3. sends' = [sends EXCEPT ![cur][r] = 1] \/ UNCHANGED sends
    <3>1. CASE Accepted(r)
      <4>1. sends[cur] \in [Recipients -> Nat] /\ sends[cur][r] + 1 = 1
        BY <2>1, <2>2 DEF TypeInv, TypeOK
      <4>2. sends' = [sends EXCEPT ![cur][r] = sends[cur][r] + 1]
        BY <3>1 DEF Accepted
      <4>3. QED
        BY <4>1, <4>2
    <3>2. QED
      BY <1>9, <3>1 DEF SendSucceeds, SendFails
  <2>4. \A k \in Jobs : Phase(k)' = Phase(k)
    BY <2>1, PhaseKept
  <2>5. PlanOf' = [PlanOf EXCEPT ![cur] = PlanOf[cur] \ {r}] /\ r \in PlanOf[cur]
    BY <2>1 DEF PlanOf
  <2>6. TryingOf' = [TryingOf EXCEPT ![cur] = {r}] /\ TryingOf[cur] = {}
    BY <2>1 DEF TryingOf
  <2>7. QED
    BY <2>1, <2>2, <2>3, <2>4, <2>5, <2>6 DEF Once!Attempt, PlanOf, TryingOf
<1>10. CASE LogOutgoingMessage \/ UpsertThread
  <2>1. /\ wpc # "fetch" /\ wpc' # "fetch"
        /\ UNCHANGED <<request, status, rcpt, batch, cur, queue, target, sends>>
    BY <1>10 DEF LogOutgoingMessage, UpsertThread
  <2>2. \A k \in Jobs : /\ Phase(k)' = Phase(k)
                        /\ PlanOf'[k] = PlanOf[k] /\ TryingOf'[k] = TryingOf[k]
    BY <1>0, <2>1, PhaseKept
  <2>3. QED
    BY <2>1, <2>2, OnceStutters
<1>11. ASSUME NEW j \in Jobs, NEW r \in Recipients, j = cur, r = target,
              UpdateBroadcastRecipientStatus
       PROVE  Once!Settle(j, r)
  <2>1. /\ cur \in Jobs /\ target \in Recipients /\ wpc = "record" /\ wpc' = "loop"
        /\ target' = NoRecipient /\ target # NoRecipient
        /\ UNCHANGED <<request, status, batch, cur, queue, sends>>
        /\ SetRecipientStatus(cur, target, result) \/ UNCHANGED rcpt
    BY <1>0, <1>11 DEF UpdateBroadcastRecipientStatus, TypeInv, WorkerLocals, Sending
  <2>2. \A k \in Jobs : Phase(k)' = Phase(k) /\ PlanOf'[k] = PlanOf[k]
    BY <1>0, <2>1, PhaseKept
  <2>3. TryingOf[cur] = {target} /\ TryingOf' = [TryingOf EXCEPT ![cur] = {}]
    BY <2>1 DEF TryingOf
  <2>4. \/ UNCHANGED rcpt
        \/ /\ rcpt[cur][target] = "pending"
           /\ rcpt' = [rcpt EXCEPT ![cur][target] = result]
    <3>1. ASSUME ~ UNCHANGED rcpt
          PROVE  rcpt' = [rcpt EXCEPT ![cur][target] =
                            IF rcpt[cur][target] = "none" THEN rcpt[cur][target] ELSE result]
      BY <2>1, <3>1 DEF SetRecipientStatus
    <3>2. [rcpt EXCEPT ![cur][target] = rcpt[cur][target]] = rcpt
      BY <2>1 DEF TypeInv, TypeOK
    <3>3. ~ UNCHANGED rcpt => rcpt[cur][target] = "pending"
      BY <1>0, <2>1, <3>1, <3>2 DEF OutcomeInv
    <3>4. QED
      BY <3>1, <3>3
  <2>5. result \in {"sent", "failed"} /\ (result = "sent" => sends[cur][target] = 1)
    BY <1>0, <2>1 DEF TypeInv, TypeOK, PhantomInv
  <2>6. QED
    BY <1>11, <2>1, <2>2, <2>3, <2>4, <2>5 DEF Once!Settle, PlanOf, TryingOf
<1>12. ASSUME Crash PROVE \E S \in SUBSET Jobs : Once!Close(S)
  <2>0. PICK S \in SUBSET Jobs :
               S = {j \in Jobs : request[j] # NoRequest
                                 /\ status[j] \notin {"pending", "completed"}}
    OBVIOUS
  <2>1. /\ cur' = NoJob /\ batch' = {} /\ queue' = {} /\ target' = NoRecipient
        /\ UNCHANGED <<request, status, rcpt, sends>>
    BY <1>12 DEF Crash
  <2>2. \A j \in S : /\ request[j] # NoRequest /\ status[j] # "completed"
                     /\ Phase(j)' = "closed" /\ PlanOf'[j] = {} /\ TryingOf'[j] = {}
    <3> TAKE j \in S
    <3>1. request[j] # NoRequest /\ status[j] \notin {"pending", "completed"} /\ j \in Jobs
      BY <2>0
    <3>2. /\ request'[j] # NoRequest /\ cur' # j /\ j \notin batch'
          /\ status'[j] \notin {"pending", "completed"}
      BY <1>0, <2>1, <3>1
    <3>3. QED
      BY <1>0, <2>1, <3>1, <3>2 DEF Phase
  <2>3. ASSUME NEW j \in Jobs \ S
        PROVE  Phase(j)' = Phase(j) /\ PlanOf'[j] = PlanOf[j] /\ TryingOf'[j] = TryingOf[j]
    <3>1. cur # j
      BY <1>a, <1>b, <2>0
    <3>2. Phase(j)' = Phase(j)
      BY <1>0, <1>a, <2>0, <2>1, <3>1 DEF Phase, OnceInv, JobsOnce
    <3>3. QED
      BY <1>0, <2>1, <3>1, <3>2
  <2>4. Once!Close(S)
    BY <2>1, <2>2, <2>3, OnceCloses
  <2>5. QED
    BY <2>4
<1>13. CASE UNCHANGED <<request, status, rcpt, batch, wpc, cur, queue, target, sends>>
  <2>1. \A k \in Jobs : /\ Phase(k)' = Phase(k)
                        /\ PlanOf'[k] = PlanOf[k] /\ TryingOf'[k] = TryingOf[k]
    BY <1>0, <1>13, PhaseKept
  <2>2. QED
    BY <1>13, <2>1, OnceStutters
<1>14. CASE Tick \/ UNCHANGED vars
  BY <1>13, <1>14 DEF Tick, vars
<1>15. ASSUME NEW d \in Devices, GoOnline(d) \/ GoOffline(d)
       PROVE  Once!Next \/ UNCHANGED Once!vars
  <2>1. UNCHANGED <<request, status, rcpt, batch, wpc, cur, queue, target, sends>>
    BY <1>15 DEF GoOnline, GoOffline
  <2>2. QED
    BY <1>13, <2>1
<1>16. /\ GetPendingRecipients \/ GetPendingRecipientsFails \/ CompleteJob => cur \in Jobs
       /\ UpdateBroadcastRecipientStatus => cur \in Jobs /\ target \in Recipients
  BY <1>0 DEF GetPendingRecipients, GetPendingRecipientsFails, CompleteJob,
              UpdateBroadcastRecipientStatus
<1>17. QED
  BY <1>16, <1>1, <1>2, <1>3, <1>4, <1>5, <1>6, <1>7, <1>8, <1>9, <1>10, <1>11, <1>12, <1>14, <1>15
     DEF Next, Handler, WorkerProgress, WorkerError, Environment, CreateBroadcast, ScheduleMessage,
         Once!Next

\* Every behaviour of the pipeline, with its worker, batch, handlers, faults and
\* restarts, is one of OnceDelivery.
THEOREM PipelineDeliversOnce == Spec => DeliversOnce
<1>1. Spec => []PhantomInv
  BY TypeInvariant, OnceInvariant, PhantomInit, PhantomStep, PTL DEF Spec
<1>2. Spec => []RequestInv
  BY TypeInvariant, OnceInvariant, RequestInit, RequestStep, PTL DEF Spec
<1>3. Spec => []PipelineInv
  BY <1>1, <1>2, TypeInvariant, OnceInvariant, OutcomeInvariant, BatchInvariant, PTL DEF PipelineInv
<1>4. QED
  BY <1>3, OnceStart, OnceSimulates, PTL DEF Spec, DeliversOnce, Once!Spec

-----------------------------------------------------------------------------
(* Finding 1 has one cause: a tick that reaches a job before its handler   *)
(* has stored all recipients.                                              *)

\* The worker lists the recipients of a job only when no handler still adds some.
FetchesComplete == [][GetPendingRecipients => todo[cur] = <<>>]_vars

\* A completed job has no recipient to come and none left; of the job in hand
\* those are left that wait in the queue, and the one being tried.
CompleteInv ==
    /\ \A j \in Jobs : status[j] = "completed" =>
         todo[j] = <<>> /\ \A r \in Recipients : rcpt[j][r] # "pending"
    /\ wpc \in {"loop"} \cup Sending =>
         /\ todo[cur] = <<>>
         /\ \A r \in Recipients : rcpt[cur][r] = "pending" => r \in queue \cup {target}

LEMMA CompleteStep ==
    ASSUME TypeInv, TypeInv', OnceInv, CompleteInv, ~ DbMayFail, [Next]_vars,
           GetPendingRecipients => todo[cur] = <<>>
    PROVE  CompleteInv'
<1> USE DEF Sending, dbVars, handlerVars, workerVars, envVars
<1>0. /\ status \in [Jobs -> {"none", "pending", "processing", "completed", "deleted"}]
      /\ rcpt \in [Jobs -> [Recipients -> {"none", "pending", "sent", "failed"}]]
      /\ todo \in [Jobs -> Seq(Recipients)]
      /\ wpc \in {"fetch", "loop"} \cup Sending => cur \in Jobs
      /\ wpc \in Sending <=> target # NoRecipient
      /\ target \in Recipients \cup {NoRecipient} /\ NoRecipient \notin Recipients
      /\ wpc \in {"idle", "pick", "fetch", "loop", "log", "thread", "record"}
      /\ \A j \in Jobs : request[j] = NoRequest => status[j] = "none" /\ cur # j
      /\ \A j \in Jobs : status[j] = "completed" => cur # j
      /\ \A j \in Jobs : status[j] = "pending" \/ j \in batch => cur # j
  BY BroadcastAssumption DEF TypeInv, TypeOK, WorkerLocals, OnceInv, JobsOnce
<1>1. ASSUME NEW j \in Jobs, NEW q \in Requests, CreateBroadcastJob(j, q) PROVE CompleteInv'
  <2>1. /\ status' = [status EXCEPT ![j] = "pending"]
        /\ \A k \in Jobs : k # j => todo'[k] = todo[k]
        /\ wpc \in {"loop"} \cup Sending => cur \in Jobs /\ cur # j
        /\ UNCHANGED <<rcpt, wpc, cur, queue, target>>
    BY <1>0, <1>1 DEF CreateBroadcastJob
  <2>2. QED
    BY <1>0, <2>1 DEF CompleteInv
<1>2. ASSUME NEW j \in Jobs, CreateBroadcastRecipient(j) PROVE CompleteInv'
  <2>1. /\ todo[j] # <<>> /\ UNCHANGED <<status, wpc, cur, queue, target>>
        /\ \A k \in Jobs : k # j => todo'[k] = todo[k] /\ rcpt'[k] = rcpt[k]
    BY <1>0, <1>2 DEF CreateBroadcastRecipient, InsertRecipient
  <2>2. /\ status[j] # "completed"
        /\ wpc \in {"loop"} \cup Sending => cur \in Jobs /\ cur # j
    BY <1>0, <2>1 DEF CompleteInv
  <2>3. QED
    BY <2>1, <2>2 DEF CompleteInv
<1>3. ASSUME NEW u \in Users, DeleteUser(u) PROVE CompleteInv'
  <2>1. /\ \A j \in Jobs : /\ status'[j] = "completed" => status[j] = "completed"
                           /\ \A r \in Recipients : rcpt'[j][r] = "pending" => rcpt[j][r] = "pending"
        /\ UNCHANGED <<todo, wpc, cur, queue, target>>
    BY <1>3 DEF DeleteUser
  <2>2. QED
    BY <1>0, <2>1 DEF CompleteInv
<1>4. CASE GetPendingBroadcastJobs
  BY <1>4 DEF GetPendingBroadcastJobs, CompleteInv
<1>5. ASSUME NEW j \in Jobs, BeginJob(j) PROVE CompleteInv'
  <2>1. /\ \A k \in Jobs : status'[k] = "completed" => status[k] = "completed"
        /\ wpc' = "fetch" /\ UNCHANGED <<todo, rcpt>>
    BY <1>0, <1>5 DEF BeginJob, SetJobStatus
  <2>2. QED
    BY <2>1 DEF CompleteInv
<1>6. ASSUME NEW j \in Jobs, BeginJobFails(j) PROVE CompleteInv'
  BY <1>6 DEF BeginJobFails
<1>7. CASE GetPendingRecipients
  BY <1>7 DEF GetPendingRecipients, CompleteInv
<1>8. CASE GetPendingRecipientsFails
  BY <1>8 DEF GetPendingRecipientsFails
<1>9. ASSUME NEW r \in Recipients, SendSucceeds(r) \/ SendFails(r) PROVE CompleteInv'
  <2>1. /\ wpc = "loop" /\ queue' = queue \ {r} /\ target' = r
        /\ UNCHANGED <<status, rcpt, todo, cur>>
    BY <1>9 DEF SendSucceeds, SendFails, NextRecipient
  <2>2. \A s \in Recipients : rcpt[cur][s] = "pending" => s \in queue
    BY <1>0, <2>1 DEF CompleteInv
  <2>3. QED
    BY <2>1, <2>2 DEF CompleteInv
<1>10. CASE LogOutgoingMessage \/ UpsertThread
  BY <1>10 DEF LogOutgoingMessage, UpsertThread, CompleteInv
<1>11. CASE UpdateBroadcastRecipientStatus
  <2>1. /\ cur \in Jobs /\ target \in Recipients /\ wpc = "record" /\ wpc' = "loop"
        /\ result \in {"sent", "failed"}
        /\ rcpt' = [rcpt EXCEPT ![cur][target] =
                      IF rcpt[cur][target] = "none" THEN rcpt[cur][target] ELSE result]
        /\ UNCHANGED <<status, todo, cur, queue>>
    BY <1>0, <1>11 DEF UpdateBroadcastRecipientStatus, SetRecipientStatus, TypeInv, TypeOK
  <2>2. /\ \A j \in Jobs : j # cur => rcpt'[j] = rcpt[j]
        /\ \A r \in Recipients : rcpt'[cur][r] = "pending" => r # target /\ rcpt[cur][r] = "pending"
    BY <1>0, <2>1
  <2>3. QED
    BY <1>0, <2>1, <2>2 DEF CompleteInv
<1>12. CASE CompleteJob
  <2>1. /\ cur \in Jobs /\ wpc = "loop" /\ queue = {} /\ wpc' \in {"idle", "pick"}
        /\ \A k \in Jobs : k # cur => status'[k] = status[k]
        /\ UNCHANGED <<rcpt, todo>>
    BY <1>0, <1>12 DEF CompleteJob, ReturnToBatch, SetJobStatus
  <2>2. todo[cur] = <<>> /\ \A r \in Recipients : rcpt[cur][r] # "pending"
    BY <1>0, <2>1 DEF CompleteInv
  <2>3. QED
    BY <2>1, <2>2 DEF CompleteInv
<1>13. CASE Tick
  BY <1>13 DEF Tick, CompleteInv
<1>14. ASSUME NEW d \in Devices, GoOnline(d) \/ GoOffline(d) PROVE CompleteInv'
  BY <1>14 DEF GoOnline, GoOffline, CompleteInv
<1>15. CASE Crash
  BY <1>15 DEF Crash, CompleteInv
<1>16. CASE UNCHANGED vars
  BY <1>16 DEF vars, CompleteInv
<1>17. QED
  BY <1>1, <1>2, <1>3, <1>4, <1>5, <1>6, <1>7, <1>8, <1>9, <1>10, <1>11, <1>12,
     <1>13, <1>14, <1>15, <1>16
     DEF Next, Handler, WorkerProgress, WorkerError, Environment, CreateBroadcast, ScheduleMessage

\* Were no statement to fail and no tick to come between the job row and its
\* recipient rows, "completed" would mean what it says, over any number of
\* restarts (broadcast_handler.go:101-130, broadcast_service.go:72-128).
THEOREM OnlyLateRecipientsAreMissed ==
    ASSUME ~ DbMayFail
    PROVE  Spec /\ FetchesComplete => []CompletedMeansAllTried
<1>1. Init => CompleteInv
  BY DEF Init, CompleteInv, Sending
<1>2. /\ TypeInv /\ TypeInv' /\ OnceInv /\ CompleteInv
      /\ [Next]_vars /\ [GetPendingRecipients => todo[cur] = <<>>]_vars
      => CompleteInv'
  <2>1. UNCHANGED vars /\ GetPendingRecipients => FALSE
    BY DEF vars, workerVars, GetPendingRecipients
  <2>2. QED
    BY <2>1, CompleteStep
<1>3. CompleteInv => CompletedMeansAllTried
  BY DEF CompleteInv, CompletedMeansAllTried
<1>4. QED
  BY <1>1, <1>2, <1>3, TypeInvariant, OnceInvariant, PTL DEF Spec, FetchesComplete

-----------------------------------------------------------------------------
(* A tick ends. What the worker still has to do is a number that each of   *)
(* its steps lowers, whatever fails, and it never lacks a job to go on     *)
(* with: the part of DueJobIsPickedUp and PickedUpJobIsSettled that does   *)
(* not depend on fairness.                                                 *)

\* The steps a job may take: two statements, then at most four steps with each
\* recipient, and the last statement.
JobSteps == 4 * Cardinality(Recipients) + 3

\* The steps the job in hand may still take.
StepsInHand ==
    CASE wpc = "fetch"  -> 4 * Cardinality(Recipients) + 2
      [] wpc = "loop"   -> 4 * Cardinality(queue) + 1
      [] wpc = "log"    -> 4 * Cardinality(queue) + 4
      [] wpc = "thread" -> 4 * Cardinality(queue) + 3
      [] wpc = "record" -> 4 * Cardinality(queue) + 2
      [] OTHER          -> 0

StepsLeft == Cardinality(batch) * JobSteps + StepsInHand

\* Waiting for a tick is having no job, and picking is having one.
BatchNotEmpty ==
    /\ wpc = "pick" => batch # {}
    /\ wpc = "idle" => batch = {}

LEMMA BatchNotEmptyInvariant == Spec => []BatchNotEmpty
<1>1. Init => BatchNotEmpty
  BY DEF Init, BatchNotEmpty
<1>2. BatchNotEmpty /\ [Next]_vars => BatchNotEmpty'
  <2> SUFFICES ASSUME BatchNotEmpty, [Next]_vars PROVE BatchNotEmpty'
    OBVIOUS
  <2> USE DEF BatchNotEmpty, dbVars, handlerVars, workerVars, envVars
  <2>1. CASE Handler \/ UNCHANGED vars
    BY <2>1 DEF Handler, CreateBroadcast, ScheduleMessage, CreateBroadcastJob,
                CreateBroadcastRecipient, vars
  <2>2. CASE WorkerProgress \/ WorkerError
    BY <2>2 DEF WorkerProgress, WorkerError, GetPendingBroadcastJobs, BeginJob, BeginJobFails,
         GetPendingRecipients, GetPendingRecipientsFails, SendSucceeds, SendFails,
         LogOutgoingMessage, UpsertThread, UpdateBroadcastRecipientStatus, CompleteJob, ReturnToBatch
  <2>3. CASE Environment
    BY <2>3 DEF Environment, Tick, GoOnline, GoOffline, DeleteUser, Crash
  <2>4. QED
    BY <2>1, <2>2, <2>3 DEF Next
<1>3. QED
  BY <1>1, <1>2, PTL DEF Spec

LEMMA LeastNatural ==
    ASSUME NEW S \in SUBSET Nat, IsFiniteSet(S), S # {}
    PROVE  \E m \in S : \A n \in S : m <= n
<1> DEFINE upto(m) == {n \in S : n <= m}
           T == {upto(m) : m \in S}
<1>1. T \subseteq FiniteSubsetsOf(S) /\ T # {}
  <2>1. \A m \in S : IsFiniteSet(upto(m))
    BY FS_Subset
  <2>2. QED
    BY <2>1 DEF FiniteSubsetsOf
<1>2. PICK x \in T : \A y \in T : <<y, x>> \notin StrictSubsetOrdering(S)
  <2> HIDE DEF T
  <2>1. QED
    BY <1>1, FS_StrictSubsetOrderingWellFounded, WFMin
<1>3. PICK m \in S : x = upto(m)
  OBVIOUS
<1>4. ASSUME NEW n \in S, n < m PROVE FALSE
  <2>1. \A k \in S : k <= n => k <= m
    BY <1>4
  <2>2. upto(n) \subseteq upto(m)
    BY <2>1
  <2>3. m \in upto(m) /\ m \notin upto(n)
    BY <1>4
  <2>4. <<upto(n), upto(m)>> \in StrictSubsetOrdering(S)
    BY <2>2, <2>3 DEF StrictSubsetOrdering
  <2>5. upto(n) \in T
    OBVIOUS
  <2> HIDE DEF upto, T
  <2>6. QED
    BY <1>2, <1>3, <2>4, <2>5
<1>5. QED
  BY <1>4

\* The worker that has to pick a job finds one (broadcast.sql:67).
THEOREM AJobIsAlwaysNext ==
    ASSUME IsFiniteSet(Jobs)
    PROVE  Spec => [](wpc = "pick" => \E j \in Jobs : Oldest(j))
<1>1. ASSUME TypeInv, BatchNotEmpty, wpc = "pick" PROVE \E j \in Jobs : Oldest(j)
  <2> DEFINE S == {createdAt[j] : j \in batch}
  <2>1. batch \subseteq Jobs /\ batch # {} /\ createdAt \in [Jobs -> Nat]
    BY <1>1 DEF TypeInv, TypeOK, BatchNotEmpty
  <2>2. S \in SUBSET Nat /\ S # {} /\ IsFiniteSet(S)
    <3>1. IsFiniteSet(batch)
      BY <2>1, FS_Subset
    <3>2. [j \in batch |-> createdAt[j]] \in Surjection(batch, S)
      BY DEF Surjection
    <3>3. QED
      BY <2>1, <3>1, <3>2, FS_Surjection
  <2>3. PICK m \in S : \A n \in S : m <= n
    <3> HIDE DEF S
    <3>1. QED
      BY <2>2, LeastNatural
  <2>4. PICK j \in batch : m = createdAt[j]
    OBVIOUS
  <2>5. QED
    BY <2>1, <2>3, <2>4 DEF Oldest
<1>2. QED
  BY <1>1, TypeInvariant, BatchNotEmptyInvariant, PTL

\* What the worker holds is finite.
WorkCount ==
    /\ Cardinality(batch) \in 0..Cardinality(Jobs)
    /\ Cardinality(queue) \in 0..Cardinality(Recipients)
    /\ StepsInHand \in Nat /\ StepsLeft \in Nat

LEMMA WorkCounted ==
    ASSUME TypeInv, IsFiniteSet(Jobs), IsFiniteSet(Recipients)
    PROVE  WorkCount
<1>1. batch \subseteq Jobs /\ queue \subseteq Recipients
  BY DEF TypeInv, TypeOK
<1>2. /\ IsFiniteSet(batch) /\ Cardinality(batch) <= Cardinality(Jobs)
      /\ IsFiniteSet(queue) /\ Cardinality(queue) <= Cardinality(Recipients)
  BY <1>1, FS_Subset
<1>3. /\ Cardinality(batch) \in Nat /\ Cardinality(Jobs) \in Nat
      /\ Cardinality(queue) \in Nat /\ Cardinality(Recipients) \in Nat
  BY <1>2, FS_CardinalityType
<1>4. JobSteps \in Nat /\ JobSteps >= 3
  BY <1>3 DEF JobSteps
<1>5. StepsInHand \in Nat
  BY <1>3 DEF StepsInHand
<1>6. Cardinality(batch) * JobSteps \in Nat
  BY <1>3, <1>4
<1>7. QED
  BY <1>2, <1>3, <1>4, <1>5, <1>6 DEF StepsLeft, WorkCount

LEMMA JobStepsCounted ==
    ASSUME IsFiniteSet(Jobs), IsFiniteSet(Recipients)
    PROVE  /\ Cardinality(Recipients) \in Nat /\ JobSteps \in Nat
           /\ JobSteps = 4 * Cardinality(Recipients) + 3
           /\ Cardinality(Jobs) \in Nat /\ Cardinality(Jobs) * JobSteps \in Nat
<1>1. Cardinality(Jobs) \in Nat /\ Cardinality(Recipients) \in Nat
  BY FS_CardinalityType
<1>2. QED
  BY <1>1 DEF JobSteps

\* One job less in the batch is JobSteps less.
LEMMA BatchShrinks ==
    ASSUME TypeInv, IsFiniteSet(Jobs), IsFiniteSet(Recipients),
           NEW j \in batch, batch' = batch \ {j}
    PROVE  Cardinality(batch') * JobSteps = Cardinality(batch) * JobSteps - JobSteps
<1>1. batch \subseteq Jobs
  BY DEF TypeInv, TypeOK
<1>2. IsFiniteSet(batch)
  BY <1>1, FS_Subset
<1>3. Cardinality(batch') = Cardinality(batch) - 1
  BY <1>2, FS_RemoveElement
<1>4. QED
  BY <1>3, WorkCounted, JobStepsCounted DEF WorkCount

LEMMA SumFalls ==
    ASSUME NEW b \in Nat, NEW c \in Nat, NEW s \in Nat, NEW t \in Nat, c <= b, t < s
    PROVE  c + t < b + s
  OBVIOUS

LEMMA StepCounts ==
    ASSUME TypeInv, WorkCount, WorkCount', BatchNotEmpty, [Next]_vars, wpc # "idle",
           ~ UNCHANGED workerVars, IsFiniteSet(Jobs), IsFiniteSet(Recipients)
    PROVE  StepsLeft' < StepsLeft
<1> DEFINE b == Cardinality(batch) * JobSteps
           n == Cardinality(Recipients)
<1>0. /\ b \in Nat /\ n \in Nat /\ JobSteps = 4 * n + 3
      /\ Cardinality(queue) \in 0..n /\ StepsInHand \in Nat /\ StepsInHand' \in Nat
      /\ StepsLeft = b + StepsInHand /\ StepsLeft' = b' + StepsInHand'
      /\ b' \in Nat /\ Cardinality(queue') \in 0..n
      /\ wpc \in {"pick", "fetch", "loop", "log", "thread", "record"}
  <2>1. JobSteps' = JobSteps
    BY DEF JobSteps
  <2>2. b \in Nat /\ b' \in Nat
    BY <2>1, JobStepsCounted DEF WorkCount
  <2>3. wpc \in {"pick", "fetch", "loop", "log", "thread", "record"}
    BY DEF TypeInv, TypeOK
  <2>4. QED
    BY <2>1, <2>2, <2>3, JobStepsCounted DEF StepsLeft, WorkCount
<1> USE DEF workerVars
<1>1. ASSUME NEW j \in Jobs, BeginJob(j) PROVE StepsLeft' < StepsLeft
  <2>1. j \in batch /\ batch' = batch \ {j} /\ wpc = "pick" /\ wpc' = "fetch"
    BY <1>1 DEF BeginJob, Oldest
  <2>2. b' = b - (4 * n + 3)
    BY <1>0, <2>1, BatchShrinks DEF JobSteps
  <2>3. StepsInHand = 0 /\ StepsInHand' = 4 * n + 2
    BY <2>1 DEF StepsInHand
  <2> HIDE DEF b, n
  <2>4. QED
    BY <1>0, <2>2, <2>3
<1>2. ASSUME NEW j \in Jobs, BeginJobFails(j) PROVE StepsLeft' < StepsLeft
  <2>1. j \in batch /\ batch' = batch \ {j} /\ wpc = "pick" /\ wpc' \in {"idle", "pick"}
    BY <1>2 DEF BeginJobFails, Oldest, ReturnToBatch
  <2>2. b' = b - (4 * n + 3)
    BY <1>0, <2>1, BatchShrinks DEF JobSteps
  <2>3. StepsInHand = 0 /\ StepsInHand' = 0
    BY <2>1 DEF StepsInHand
  <2> HIDE DEF b, n
  <2>4. QED
    BY <1>0, <2>2, <2>3
<1>3. CASE GetPendingRecipients \/ GetPendingRecipientsFails
  <2>1. batch' = batch /\ wpc = "fetch" /\ wpc' \in {"loop", "idle", "pick"}
    BY <1>3 DEF GetPendingRecipients, GetPendingRecipientsFails, ReturnToBatch
  <2>2. b' <= b /\ StepsInHand = 4 * n + 2
    BY <1>0, <2>1 DEF StepsInHand, JobSteps
  <2>3. StepsInHand' <= 4 * n + 1
    <3>1. CASE wpc' = "loop"
      <4>1. StepsInHand' = 4 * Cardinality(queue') + 1
        BY <3>1 DEF StepsInHand
      <4> HIDE DEF n
      <4>2. QED
        BY <1>0, <4>1
    <3>2. CASE wpc' # "loop"
      <4>1. StepsInHand' = 0
        BY <2>1, <3>2 DEF StepsInHand
      <4> HIDE DEF n
      <4>2. QED
        BY <1>0, <4>1
    <3>3. QED
      BY <3>1, <3>2
  <2> HIDE DEF b, n
  <2>4. StepsInHand' < StepsInHand
    BY <1>0, <2>2, <2>3
  <2>5. b' + StepsInHand' < b + StepsInHand
    BY <1>0, <2>2, <2>4, SumFalls
  <2>6. QED
    BY <1>0, <2>5
<1>4. ASSUME NEW r \in Recipients, SendSucceeds(r) \/ SendFails(r) PROVE StepsLeft' < StepsLeft
  <2>1. /\ r \in queue /\ queue' = queue \ {r} /\ batch' = batch
        /\ wpc = "loop" /\ wpc' \in {"log", "record"}
    BY <1>4 DEF SendSucceeds, SendFails, NextRecipient
  <2>2. Cardinality(queue') = Cardinality(queue) - 1
    <3>1. queue \subseteq Recipients
      BY DEF TypeInv, TypeOK
    <3>2. IsFiniteSet(queue)
      BY <3>1, FS_Subset
    <3>3. QED
      BY <2>1, <3>2, FS_RemoveElement
  <2>3. /\ b' = b /\ StepsInHand = 4 * Cardinality(queue) + 1
        /\ StepsInHand' \in {4 * Cardinality(queue') + 4, 4 * Cardinality(queue') + 2}
    BY <2>1 DEF StepsInHand, JobSteps
  <2> HIDE DEF b, n
  <2>4. QED
    BY <1>0, <2>2, <2>3
<1>5. CASE LogOutgoingMessage \/ UpsertThread \/ UpdateBroadcastRecipientStatus
  <2>1. /\ batch' = batch /\ queue' = queue
        /\ \/ wpc = "log" /\ wpc' = "thread"
           \/ wpc = "thread" /\ wpc' = "record"
           \/ wpc = "record" /\ wpc' = "loop"
    BY <1>5 DEF LogOutgoingMessage, UpsertThread, UpdateBroadcastRecipientStatus
  <2>2. b' <= b
    BY <1>0, <2>1 DEF JobSteps
  <2>3. StepsInHand' < StepsInHand
    BY <1>0, <2>1 DEF StepsInHand
  <2> HIDE DEF b, n
  <2>4. b' + StepsInHand' < b + StepsInHand
    BY <1>0, <2>2, <2>3, SumFalls
  <2>5. QED
    BY <1>0, <2>4
<1>6. CASE CompleteJob
  <2>1. batch' = batch /\ wpc = "loop" /\ wpc' \in {"idle", "pick"}
    BY <1>6 DEF CompleteJob, ReturnToBatch
  <2>2. b' = b /\ StepsInHand = 4 * Cardinality(queue) + 1 /\ StepsInHand' = 0
    BY <2>1 DEF StepsInHand, JobSteps
  <2> HIDE DEF b, n
  <2>3. QED
    BY <1>0, <2>2
<1>7. CASE Crash
  <2>1. batch' = {} /\ wpc' = "idle"
    BY <1>7 DEF Crash
  <2>2. b' = 0 /\ StepsInHand' = 0
    <3>1. Cardinality(batch') = 0 /\ JobSteps' \in Nat
      BY <2>1, FS_EmptySet, JobStepsCounted DEF JobSteps
    <3>2. QED
      BY <2>1, <3>1 DEF StepsInHand
  <2>3. b + StepsInHand > 0
    <3>1. CASE wpc = "pick"
      <4>1. batch # {} /\ batch \subseteq Jobs
        BY <3>1 DEF BatchNotEmpty, TypeInv, TypeOK
      <4>2. IsFiniteSet(batch)
        BY <4>1, FS_Subset
      <4>3. Cardinality(batch) # 0
        BY <4>1, <4>2, FS_EmptySet
      <4>4. b > 0
        BY <1>0, <4>3 DEF WorkCount
      <4>5. QED
        BY <1>0, <4>4
    <3>2. CASE wpc # "pick"
      <4>1. StepsInHand > 0
        BY <1>0, <3>2 DEF StepsInHand
      <4>2. QED
        BY <1>0, <4>1
    <3>3. QED
      BY <3>1, <3>2
  <2> HIDE DEF b, n
  <2>4. QED
    BY <1>0, <2>2, <2>3
<1>8. QED
  BY <1>1, <1>2, <1>3, <1>4, <1>5, <1>6, <1>7
     DEF Next, Handler, WorkerProgress, WorkerError, Environment, CreateBroadcast, ScheduleMessage,
         CreateBroadcastJob, CreateBroadcastRecipient, DeleteUser, GetPendingBroadcastJobs,
         Tick, GoOnline, GoOffline, vars, handlerVars, envVars, dbVars

\* From the tick that finds jobs every step of the worker, a failed one and a
\* restart included, lowers a number that starts at no more than JobSteps for each
\* job: a tick ends (broadcast_service.go:43-131).
THEOREM EveryTickEnds ==
    ASSUME IsFiniteSet(Jobs), IsFiniteSet(Recipients)
    PROVE  Spec => /\ [](StepsLeft \in 0..Cardinality(Jobs) * JobSteps)
                   /\ [][wpc # "idle" => StepsLeft' < StepsLeft]_workerVars
<1> DEFINE Bounded == StepsLeft <= Cardinality(Jobs) * JobSteps
           M == Cardinality(Jobs) * JobSteps
<1>1. TypeInv => WorkCount
  BY WorkCounted
<1>2. M \in Nat
  BY JobStepsCounted
<1>3. TypeInv /\ Init => Bounded
  <2> SUFFICES ASSUME TypeInv, Init PROVE Bounded
      OBVIOUS
  <2>1. Cardinality(batch) = 0 /\ StepsInHand = 0
    BY FS_EmptySet DEF Init, StepsInHand
  <2>2. StepsLeft = 0
    BY <2>1, JobStepsCounted DEF StepsLeft
  <2>3. QED
    BY <1>2, <2>2
<1>4. /\ TypeInv /\ WorkCount /\ WorkCount' /\ BatchNotEmpty /\ [Next]_vars
      => [wpc # "idle" => StepsLeft' < StepsLeft]_workerVars
  BY StepCounts
<1>5. /\ TypeInv /\ WorkCount /\ WorkCount' /\ BatchNotEmpty /\ [Next]_vars /\ Bounded
      => Bounded'
  <2> SUFFICES ASSUME TypeInv, WorkCount, WorkCount', BatchNotEmpty, [Next]_vars, Bounded
               PROVE  Bounded'
    OBVIOUS
  <2>1. StepsLeft \in Nat /\ StepsLeft' \in Nat /\ M' = M /\ JobSteps' = JobSteps
    BY DEF WorkCount, JobSteps
  <2>2. CASE UNCHANGED workerVars
    BY <2>2 DEF workerVars, StepsLeft, StepsInHand, JobSteps
  <2>3. CASE wpc # "idle" /\ ~ UNCHANGED workerVars
    <3>1. StepsLeft' < StepsLeft
      BY <2>3, StepCounts
    <3>2. StepsLeft <= M
      OBVIOUS
    <3> HIDE DEF M
    <3>3. StepsLeft' <= M
      BY <1>2, <2>1, <3>1, <3>2
    <3>4. QED
      BY <2>1, <3>3 DEF M
  <2>4. CASE wpc = "idle" /\ ~ UNCHANGED workerVars
    <3>1. wpc' \in {"pick", "idle"}
      BY <2>4 DEF Next, Handler, WorkerProgress, WorkerError, Environment, CreateBroadcast,
         ScheduleMessage, CreateBroadcastJob, CreateBroadcastRecipient, DeleteUser,
         GetPendingBroadcastJobs, BeginJob, BeginJobFails, GetPendingRecipients,
         GetPendingRecipientsFails, SendSucceeds, SendFails, NextRecipient, LogOutgoingMessage,
         UpsertThread, UpdateBroadcastRecipientStatus, CompleteJob, Crash, Tick, GoOnline,
         GoOffline, vars, workerVars, dbVars, handlerVars, envVars
    <3>2. StepsInHand' = 0 /\ StepsLeft' = Cardinality(batch') * JobSteps
      BY <2>1, <3>1, JobStepsCounted DEF StepsInHand, StepsLeft, WorkCount
    <3>3. Cardinality(batch') <= Cardinality(Jobs) /\ Cardinality(batch') \in Nat
      BY DEF WorkCount
    <3>4. Cardinality(batch') * JobSteps <= M
      <4>1. (Cardinality(Jobs) - Cardinality(batch')) * JobSteps >= 0
        BY <3>3, JobStepsCounted
      <4>2. QED
        BY <3>3, <4>1, JobStepsCounted
    <3>5. QED
      BY <2>1, <3>2, <3>4
  <2>5. QED
    BY <2>2, <2>3, <2>4
<1>6. WorkCount /\ Bounded => StepsLeft \in 0..Cardinality(Jobs) * JobSteps
  BY <1>2 DEF WorkCount
<1> HIDE DEF Bounded
<1>7. QED
  BY <1>1, <1>3, <1>4, <1>5, <1>6, TypeInvariant, BatchNotEmptyInvariant, PTL DEF Spec
=============================================================================
