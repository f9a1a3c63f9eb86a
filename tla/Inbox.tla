------------------------------- MODULE Inbox -------------------------------
(***************************************************************************)
(* The inbox of one device: message_logs (the history), message_threads    *)
(* (the conversation list with its unread badge) and everything that       *)
(* writes them.                                                            *)
(*                                                                         *)
(* whatsmeow calls the event handler with one event at a time; HTTP        *)
(* handlers run beside it.  Both issue single statements, so that another  *)
(* writer may come between any two of them.                                *)
(***************************************************************************)
EXTENDS Integers, FiniteSets

CONSTANTS
    Chats,          \* chat JIDs
    Messages,       \* WhatsApp message ids
    ChatOf,         \* the chat a message belongs to
    Origin,         \* who writes it: the contact, our phone, or a handler
    Kind,           \* what handleIncomingMessage makes of its content
    NoMessage,
    Faults,         \* which of "db", "send", "drop" may go wrong
    MaxDeliveries,  \* bound: how often WhatsApp delivers one message
    MaxMarks,       \* bound: MarkRead calls per chat
    MaxCrashes      \* bound: how often the server process may die

ASSUME InboxAssumption ==
    /\ IsFiniteSet(Messages)
    /\ ChatOf \in [Messages -> Chats]
    /\ Origin \in [Messages -> {"contact", "phone", "handler"}]
    /\ Kind \in [Messages -> {"text", "media", "audio", "other"}]
    /\ \A m \in Messages : Origin[m] = "handler" => Kind[m] # "other"
    /\ NoMessage \notin Messages
    /\ Faults \subseteq {"db", "send", "drop"}
    /\ {MaxDeliveries, MaxMarks, MaxCrashes} \subseteq Nat

VARIABLES
    \* the database
    log,        \* message_logs.status by wa_message_id; "none" without a row
    preview,    \* the message a thread shows; NoMessage without a row
    unread,     \* message_threads.unread_count
    \* the server process
    hpc,        \* where the handler that sends m is, and what it answered
    epc,        \* where the event handler is
    emsg,       \* the message it handles
    mpc,        \* where the MarkRead call of a chat is
    \* the environment
    accepted,   \* messages WhatsApp has accepted
    deliveries, \* how often WhatsApp has delivered m to this device
    receipts,   \* receipts that have been given for m
    marks,      \* MarkRead calls so far
    crashes,
    \* history
    uncounted   \* chats whose badge may miss an unread message: the last MarkRead
                \* reset it over one, or the statement that counts one failed

dbVars    == <<log, preview, unread>>
procVars  == <<hpc, epc, emsg, mpc>>
envVars   == <<accepted, deliveries, receipts, marks, crashes>>
vars      == <<dbVars, procVars, envVars, uncounted>>

TypeOK ==
    /\ log \in [Messages -> {"none", "sent", "delivered", "read"}]
    /\ preview \in [Chats -> Messages \cup {NoMessage}]
    /\ unread \in [Chats -> Nat]
    /\ hpc \in [Messages -> {"new", "log", "thread", "ok", "error"}]
    /\ epc \in {"idle", "thread", "log"}
    /\ emsg \in Messages \cup {NoMessage}
    /\ mpc \in [Chats -> {"idle", "reset"}]
    /\ accepted \subseteq Messages
    /\ deliveries \in [Messages -> Nat]
    /\ receipts \in [Messages -> SUBSET {"delivered", "read"}]
    /\ marks \in [Chats -> Nat]
    /\ crashes \in Nat
    /\ uncounted \subseteq Chats

Init ==
    /\ log = [m \in Messages |-> "none"]
    /\ preview = [c \in Chats |-> NoMessage]
    /\ unread = [c \in Chats |-> 0]
    /\ hpc = [m \in Messages |-> "new"]
    /\ epc = "idle"
    /\ emsg = NoMessage
    /\ mpc = [c \in Chats |-> "idle"]
    /\ accepted = {}
    /\ deliveries = [m \in Messages |-> 0]
    /\ receipts = [m \in Messages |-> {}]
    /\ marks = [c \in Chats |-> 0]
    /\ crashes = 0
    /\ uncounted = {}

DbMayFail == "db" \in Faults

Incoming(m) == Origin[m] = "contact"

\* The incoming rows of a chat that nobody has read.
UnreadRows(c) ==
    {m \in Messages : ChatOf[m] = c /\ Incoming(m) /\ log[m] = "delivered"}

-----------------------------------------------------------------------------
(* Faulty variants of definitions below.  No specification uses them: each *)
(* is a bug this code could plausibly have, and one of the properties at   *)
(* the end of the module rejects it.                                       *)

\* The direction is not part of the WHERE clause.
MarkedByCallAllRows(c) == {m \in Messages : ChatOf[m] = c /\ log[m] # "none"}

\* No unique index on wa_message_id, or ON CONFLICT DO UPDATE.
InsertableUpserts(m) == Kind[m] # "audio"

\* An error of LogOutgoingMessage is only logged, as the worker does.
AfterFailedLogIgnored(m) == hpc' = [hpc EXCEPT ![m] = "thread"]

\* The badge counts what follows the log, not what precedes it.
CountIncomingOnce(m) ==
    IF Incoming(m) /\ preview[ChatOf[m]] = NoMessage THEN 1 ELSE 0

\* The badge counts the wrong direction.
CountIncomingOwn(m) == IF Incoming(m) THEN 0 ELSE 1

\* A message of ours is pending until its recipient reports it.
InsertedStatusPending(m) == IF Incoming(m) THEN "delivered" ELSE "pending"

\* The types 'image', 'video' and 'document' are missing from the CHECK.
InsertableTextOnly(m) == Kind[m] = "text" /\ log[m] = "none"

-----------------------------------------------------------------------------
(* The statements.                                                         *)

\* message_logs refuses the type 'audio' and a second row for an id.
Insertable(m) == Kind[m] # "audio" /\ log[m] = "none"

InsertedStatus(m) == IF Incoming(m) THEN "delivered" ELSE "sent"

\* LogIncomingMessage and LogOutgoingMessage.
InsertLog(m) == log' = [log EXCEPT ![m] = InsertedStatus(m)]

CountIncoming(m) == IF Incoming(m) THEN 1 ELSE 0

UpsertThread(m) ==
    /\ preview' = [preview EXCEPT ![ChatOf[m]] = m]
    /\ unread' = [unread EXCEPT ![ChatOf[m]] = @ + CountIncoming(m)]

\* The rows MarkConversationRead updates.
MarkedByCall(c) ==
    {m \in Messages : ChatOf[m] = c /\ Incoming(m) /\ log[m] \notin {"none", "read"}}

-----------------------------------------------------------------------------
(* InboxHandler.SendMessage, SendNewMessage and SendMediaMessage.          *)

SendSucceeds(m) ==
    /\ Origin[m] = "handler"
    /\ hpc[m] = "new"
    /\ accepted' = accepted \cup {m}
    /\ hpc' = [hpc EXCEPT ![m] = "log"]
    /\ UNCHANGED <<dbVars, epc, emsg, mpc, deliveries, receipts, marks, crashes, uncounted>>

\* Answered with 500; the message may have been accepted all the same.
SendFails(m) ==
    /\ Origin[m] = "handler"
    /\ hpc[m] = "new"
    /\ "send" \in Faults
    /\ accepted' \in {accepted, accepted \cup {m}}
    /\ hpc' = [hpc EXCEPT ![m] = "error"]
    /\ UNCHANGED <<dbVars, epc, emsg, mpc, deliveries, receipts, marks, crashes, uncounted>>

LogOutgoingMessage(m) ==
    /\ hpc[m] = "log"
    /\ Insertable(m)
    /\ InsertLog(m)
    /\ hpc' = [hpc EXCEPT ![m] = "thread"]
    /\ UNCHANGED <<preview, unread, epc, emsg, mpc, envVars, uncounted>>

AfterFailedLog(m) == hpc' = [hpc EXCEPT ![m] = "error"]

\* Answered with 500 although WhatsApp has the message.
LogOutgoingMessageFails(m) ==
    /\ hpc[m] = "log"
    /\ \/ ~ Insertable(m) /\ UNCHANGED log
       \/ DbMayFail /\ UNCHANGED log
       \/ DbMayFail /\ Insertable(m) /\ InsertLog(m)
    /\ AfterFailedLog(m)
    /\ UNCHANGED <<preview, unread, epc, emsg, mpc, envVars, uncounted>>

\* The error is dropped: the answer is 200.
UpsertSentThread(m) ==
    /\ hpc[m] = "thread"
    /\ UpsertThread(m) \/ (DbMayFail /\ UNCHANGED <<preview, unread>>)
    /\ hpc' = [hpc EXCEPT ![m] = "ok"]
    /\ UNCHANGED <<log, epc, emsg, mpc, envVars, uncounted>>

-----------------------------------------------------------------------------
(* EventHandler.handle, for the messages of contacts and of our phone.     *)

Deliver(m) ==
    /\ epc = "idle"
    /\ Origin[m] # "handler"
    /\ m \in accepted
    /\ deliveries[m] < MaxDeliveries
    /\ deliveries' = [deliveries EXCEPT ![m] = @ + 1]

HandleIncomingMessage(m) ==
    /\ Deliver(m)
    /\ Kind[m] # "other"
    /\ epc' = "thread"
    /\ emsg' = m
    /\ UNCHANGED <<dbVars, hpc, mpc, accepted, receipts, marks, crashes, uncounted>>

\* The event type is switched off, the content has none of the known kinds, or
\* the device is gone when its media is downloaded (whatsmeow recovers from
\* the handler's panic).
DropMessage(m) ==
    /\ Deliver(m)
    /\ Kind[m] = "other" \/ "drop" \in Faults
    /\ UNCHANGED <<dbVars, procVars, accepted, receipts, marks, crashes, uncounted>>

\* An error is only logged.
UpsertIncomingThread ==
    /\ epc = "thread"
    /\ \/ UpsertThread(emsg) /\ UNCHANGED uncounted
       \/ /\ DbMayFail
          /\ uncounted' = uncounted \cup (IF Incoming(emsg) THEN {ChatOf[emsg]} ELSE {})
          /\ UNCHANGED <<preview, unread>>
    /\ epc' = "log"
    /\ UNCHANGED <<log, hpc, emsg, mpc, envVars>>

\* So is an error here.
LogIncomingMessage ==
    /\ epc = "log"
    /\ \/ Insertable(emsg) /\ InsertLog(emsg)
       \/ (DbMayFail \/ ~ Insertable(emsg)) /\ UNCHANGED log
    /\ epc' = "idle"
    /\ emsg' = NoMessage
    /\ UNCHANGED <<preview, unread, hpc, mpc, envVars, uncounted>>

\* handleReceipt, for one of the ids it names: an UPDATE that hits no row when
\* there is none yet.  A receipt may be late, or come more than once.
HandleReceipt(m, s) ==
    /\ epc = "idle"
    /\ s \in receipts[m]
    /\ log[m] # "none"
    /\ log' = [log EXCEPT ![m] = s]
    /\ UNCHANGED <<preview, unread, procVars, envVars, uncounted>>

-----------------------------------------------------------------------------
(* InboxHandler.MarkRead.                                                  *)

MarkConversationRead(c) ==
    /\ mpc[c] = "idle"
    /\ marks[c] < MaxMarks
    /\ marks' = [marks EXCEPT ![c] = @ + 1]
    /\ log' = [m \in Messages |-> IF m \in MarkedByCall(c) THEN "read" ELSE log[m]]
    /\ \/ mpc' = [mpc EXCEPT ![c] = "reset"]
       \/ DbMayFail /\ UNCHANGED mpc
    /\ UNCHANGED <<preview, unread, hpc, epc, emsg, accepted, deliveries, receipts,
                   crashes, uncounted>>

\* Something unread the badge has counted, or is about to have counted.
Outstanding(c) ==
    \/ UnreadRows(c) # {}
    \/ epc = "log" /\ Incoming(emsg) /\ ChatOf[emsg] = c

\* The error is dropped.
ResetThreadUnread(c) ==
    /\ mpc[c] = "reset"
    /\ \/ /\ unread' = [unread EXCEPT ![c] = 0]
          /\ uncounted' = IF Outstanding(c) THEN uncounted \cup {c}
                                            ELSE uncounted \ {c}
       \/ DbMayFail /\ UNCHANGED <<unread, uncounted>>
    /\ mpc' = [mpc EXCEPT ![c] = "idle"]
    /\ UNCHANGED <<log, preview, hpc, epc, emsg, envVars>>

-----------------------------------------------------------------------------
(* WhatsApp and the people behind it.                                      *)

\* A contact, or our phone, writes a message.
Write(m) ==
    /\ Origin[m] # "handler"
    /\ m \notin accepted
    /\ accepted' = accepted \cup {m}
    /\ UNCHANGED <<dbVars, procVars, deliveries, receipts, marks, crashes, uncounted>>

\* What we sent is delivered and read; what a contact sent is read on our phone.
GiveReceipt(m, s) ==
    /\ m \in accepted
    /\ Incoming(m) => s = "read"
    /\ s \notin receipts[m]
    /\ receipts' = [receipts EXCEPT ![m] = @ \cup {s}]
    /\ UNCHANGED <<dbVars, procVars, accepted, deliveries, marks, crashes, uncounted>>

\* The process dies and starts again: requests in flight are never answered.
Crash ==
    /\ crashes < MaxCrashes
    /\ crashes' = crashes + 1
    /\ hpc' = [m \in Messages |-> IF hpc[m] \in {"log", "thread"} THEN "error" ELSE hpc[m]]
    /\ epc' = "idle"
    /\ emsg' = NoMessage
    /\ mpc' = [c \in Chats |-> "idle"]
    /\ UNCHANGED <<dbVars, accepted, deliveries, receipts, marks, uncounted>>

-----------------------------------------------------------------------------

SendHandler(m) ==
    \/ SendSucceeds(m)
    \/ SendFails(m)
    \/ LogOutgoingMessage(m)
    \/ LogOutgoingMessageFails(m)
    \/ UpsertSentThread(m)

EventHandler ==
    \/ \E m \in Messages : HandleIncomingMessage(m) \/ DropMessage(m)
    \/ UpsertIncomingThread
    \/ LogIncomingMessage

MarkRead(c) == MarkConversationRead(c) \/ ResetThreadUnread(c)

Next ==
    \/ \E m \in Messages : SendHandler(m)
    \/ EventHandler
    \/ \E m \in Messages, s \in {"delivered", "read"} : HandleReceipt(m, s)
    \/ \E c \in Chats : MarkRead(c)
    \/ \E m \in Messages : Write(m)
    \/ \E m \in Messages, s \in {"delivered", "read"} : GiveReceipt(m, s)
    \/ Crash

Spec == Init /\ [][Next]_vars

\* WhatsApp delivers what it has accepted and the event handler always returns
\* to its loop; users, contacts, receipts and crashes are owed nothing.
FairSpec == Spec /\ WF_vars(EventHandler)

-----------------------------------------------------------------------------
(* Safety.                                                                 *)

\* What the history says of a message we sent is what its recipient reported:
\* neither MarkRead nor an insert ever writes it (message_logs.sql:78-84,
\* core_event_handler.go:290).
StatusIsReported ==
    \A m \in Messages :
        (~ Incoming(m) /\ log[m] \in {"delivered", "read"}) => log[m] \in receipts[m]

\* A message that was read stays read, and one that was reported stays
\* reported, however often WhatsApp delivers it again
\* (000010_extend_message_logs.up.sql:8, core_event_handler.go:252, 272).
NoWayBack ==
    [][\A m \in Messages :
         /\ Incoming(m) /\ log[m] = "read" => log'[m] = "read"
         /\ log[m] \in {"delivered", "read"} => log'[m] \in {"delivered", "read"}]_log

\* 200 is answered only for a message that is in the history, and the history
\* only has messages WhatsApp accepted (inbox_handler.go:210-228, 268-286).
AnswerMatchesHistory ==
    \A m \in Messages :
        /\ hpc[m] = "ok" => log[m] # "none"
        /\ log[m] # "none" => m \in accepted

\* A thread's badge counts at least the unread messages of its history, unless
\* counting one of them failed, or its last MarkRead overlapped the arrival of
\* one (core_event_handler.go:238, 272; inbox_handler.go:317, 326).
BadgeCoversUnread ==
    \A c \in Chats \ uncounted : Cardinality(UnreadRows(c)) <= unread[c]

-----------------------------------------------------------------------------
(* Liveness.                                                               *)

\* A contact's text or media message gets into the history, whatever else
\* arrives, unless the process dies (whatsmeow has acknowledged the message by
\* then and WhatsApp need not deliver it again) (core_event_handler.go:155-288).
ArrivedIsLogged ==
    \A m \in Messages :
        (m \in accepted /\ Incoming(m) /\ Kind[m] \in {"text", "media"})
            ~> (log[m] # "none" \/ crashes > 0)

-----------------------------------------------------------------------------
(* What the repository's own words say, and the code does not do.          *)

\* "MarkRead marks all incoming messages in a thread as read and resets unread
\* count" (inbox_handler.go:301): when nobody is at work on a chat, a badge of
\* zero means that nothing in it is unread.
ZeroBadgeMeansAllRead ==
    \A c \in Chats :
        (epc = "idle" /\ mpc[c] = "idle" /\ unread[c] = 0) => UnreadRows(c) = {}

\* "Send a media file (image, video, audio, document) to an existing thread"
\* (inbox_handler.go:336): while the process lives, an error is not the answer
\* to a message WhatsApp has accepted.
AcceptedIsNotAnError ==
    crashes = 0 => \A m \in accepted : hpc[m] # "error"
=============================================================================
