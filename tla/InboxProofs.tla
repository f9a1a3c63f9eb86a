---------------------------- MODULE InboxProofs ----------------------------
(***************************************************************************)
(* What the inbox guarantees for any chats, messages, faults and number of *)
(* redeliveries and crashes.                                               *)
(***************************************************************************)
EXTENDS Inbox, FiniteSetTheorems, TLAPS

-----------------------------------------------------------------------------

\* The event handler's local variable is defined while it handles a message,
\* and that message is one WhatsApp has accepted from somebody else; sending
\* handlers send messages of their own.
HandlerLocals ==
    /\ \A m \in Messages : hpc[m] # "new" => Origin[m] = "handler"
    /\ epc # "idle" => emsg \in accepted
    /\ epc # "idle" => Origin[emsg] # "handler"

TypeInv == TypeOK /\ HandlerLocals

LEMMA TypeInit == Init => TypeInv
  BY InboxAssumption DEF Init, TypeInv, TypeOK, HandlerLocals

\* Every action keeps every variable in its type.
LEMMA TypeStep == TypeInv /\ [Next]_vars => TypeInv'
<1> SUFFICES ASSUME TypeInv, [Next]_vars PROVE TypeInv'
    OBVIOUS
<1> USE InboxAssumption DEF TypeInv, TypeOK, HandlerLocals, dbVars, procVars, envVars
<1>1. ASSUME NEW m \in Messages, SendSucceeds(m) \/ SendFails(m) PROVE TypeInv'
  BY <1>1 DEF SendSucceeds, SendFails
<1>2. ASSUME NEW m \in Messages, LogOutgoingMessage(m) \/ LogOutgoingMessageFails(m)
      PROVE TypeInv'
  BY <1>2 DEF LogOutgoingMessage, LogOutgoingMessageFails, InsertLog, InsertedStatus,
              AfterFailedLog
<1>3. ASSUME NEW m \in Messages, UpsertSentThread(m) PROVE TypeInv'
  BY <1>3 DEF UpsertSentThread, UpsertThread, CountIncoming
<1>4. ASSUME NEW m \in Messages, HandleIncomingMessage(m) PROVE TypeInv'
  BY <1>4 DEF HandleIncomingMessage, Deliver
<1>5. ASSUME NEW m \in Messages, DropMessage(m) PROVE TypeInv'
  BY <1>5 DEF DropMessage, Deliver
<1>6. CASE UpsertIncomingThread
  <2>1. emsg \in Messages
    BY <1>6 DEF UpsertIncomingThread
  <2>2. QED
    BY <1>6, <2>1 DEF UpsertIncomingThread, UpsertThread, CountIncoming
<1>7. CASE LogIncomingMessage
  <2>1. emsg \in Messages
    BY <1>7 DEF LogIncomingMessage
  <2>2. QED
    BY <1>7, <2>1 DEF LogIncomingMessage, InsertLog, InsertedStatus
<1>8. ASSUME NEW m \in Messages, NEW s \in {"delivered", "read"}, HandleReceipt(m, s)
      PROVE TypeInv'
  BY <1>8 DEF HandleReceipt
<1>9. ASSUME NEW c \in Chats, MarkConversationRead(c) PROVE TypeInv'
  BY <1>9 DEF MarkConversationRead, MarkedByCall
<1>10. ASSUME NEW c \in Chats, ResetThreadUnread(c) PROVE TypeInv'
  BY <1>10 DEF ResetThreadUnread
<1>11. ASSUME NEW m \in Messages, Write(m) PROVE TypeInv'
  BY <1>11 DEF Write
<1>12. ASSUME NEW m \in Messages, NEW s \in {"delivered", "read"}, GiveReceipt(m, s)
       PROVE TypeInv'
  BY <1>12 DEF GiveReceipt
<1>13. CASE Crash
  BY <1>13 DEF Crash
<1>14. CASE UNCHANGED vars
  BY <1>14 DEF vars
<1>15. QED
  BY <1>1, <1>2, <1>3, <1>4, <1>5, <1>6, <1>7, <1>8, <1>9, <1>10, <1>11, <1>12,
     <1>13, <1>14
     DEF Next, SendHandler, EventHandler, MarkRead

LEMMA TypeInvariant == Spec => []TypeInv
  BY TypeInit, TypeStep, PTL DEF Spec

\* The type invariant of the inbox holds in every reachable state.
THEOREM TypeCorrect == Spec => []TypeOK
  BY TypeInvariant, PTL DEF TypeInv
-----------------------------------------------------------------------------
(* The history.  The statuses of the rows are explained by the receipts and *)
(* the answers of the handlers by the rows.                                 *)

\* A contact's message is only ever reported as read (on our phone).
ReceiptsOfIncoming == \A m \in Messages : Incoming(m) => receipts[m] \subseteq {"read"}

\* Where a sending handler is, and what that says of its message.
SendProgress ==
    \A m \in Messages :
        /\ hpc[m] \in {"log", "thread", "ok"} => m \in accepted
        /\ hpc[m] \in {"thread", "ok"} => log[m] # "none"
        /\ log[m] # "none" => m \in accepted

HistoryInv == StatusIsReported /\ ReceiptsOfIncoming /\ SendProgress

LEMMA HistoryInit == Init => HistoryInv
  BY DEF Init, HistoryInv, StatusIsReported, ReceiptsOfIncoming, SendProgress

\* Every action keeps the history explained.
LEMMA HistoryStep == TypeInv /\ HistoryInv /\ [Next]_vars => HistoryInv'
<1> SUFFICES ASSUME TypeInv, HistoryInv, [Next]_vars PROVE HistoryInv'
    OBVIOUS
<1> USE InboxAssumption
    DEF TypeInv, TypeOK, HandlerLocals, HistoryInv, StatusIsReported, ReceiptsOfIncoming,
        SendProgress, Incoming, dbVars, procVars, envVars
<1>1. ASSUME NEW m \in Messages, SendSucceeds(m) \/ SendFails(m) PROVE HistoryInv'
  BY <1>1 DEF SendSucceeds, SendFails
<1>2. ASSUME NEW m \in Messages, LogOutgoingMessage(m) \/ LogOutgoingMessageFails(m)
      PROVE HistoryInv'
  BY <1>2 DEF LogOutgoingMessage, LogOutgoingMessageFails, Insertable, InsertLog,
              InsertedStatus, AfterFailedLog
<1>3. ASSUME NEW m \in Messages, UpsertSentThread(m) PROVE HistoryInv'
  BY <1>3 DEF UpsertSentThread
<1>4. ASSUME NEW m \in Messages, HandleIncomingMessage(m) \/ DropMessage(m)
      PROVE HistoryInv'
  BY <1>4 DEF HandleIncomingMessage, DropMessage, Deliver
<1>5. CASE UpsertIncomingThread
  BY <1>5 DEF UpsertIncomingThread
<1>6. CASE LogIncomingMessage
  <2>1. emsg \in Messages /\ emsg \in accepted
    BY <1>6 DEF LogIncomingMessage
  <2>2. QED
    BY <1>6, <2>1 DEF LogIncomingMessage, Insertable, InsertLog, InsertedStatus
<1>7. ASSUME NEW m \in Messages, NEW s \in {"delivered", "read"}, HandleReceipt(m, s)
      PROVE HistoryInv'
  BY <1>7 DEF HandleReceipt
<1>8. ASSUME NEW c \in Chats, MarkConversationRead(c) PROVE HistoryInv'
  BY <1>8 DEF MarkConversationRead, MarkedByCall
<1>9. ASSUME NEW c \in Chats, ResetThreadUnread(c) PROVE HistoryInv'
  BY <1>9 DEF ResetThreadUnread
<1>10. ASSUME NEW m \in Messages, Write(m) PROVE HistoryInv'
  BY <1>10 DEF Write
<1>11. ASSUME NEW m \in Messages, NEW s \in {"delivered", "read"}, GiveReceipt(m, s)
       PROVE HistoryInv'
  BY <1>11 DEF GiveReceipt
<1>12. CASE Crash
  BY <1>12 DEF Crash
<1>13. CASE UNCHANGED vars
  BY <1>13 DEF vars
<1>14. QED
  BY <1>1, <1>2, <1>3, <1>4, <1>5, <1>6, <1>7, <1>8, <1>9, <1>10, <1>11, <1>12, <1>13
     DEF Next, SendHandler, EventHandler, MarkRead

LEMMA HistoryInvariant == Spec => [](TypeInv /\ HistoryInv)
<1>1. TypeInv /\ HistoryInv /\ [Next]_vars => (TypeInv /\ HistoryInv)'
  BY TypeStep, HistoryStep
<1>2. QED
  BY TypeInit, HistoryInit, <1>1, PTL DEF Spec

\* The history reports of our messages what their recipients reported.
THEOREM StatusCorrect == Spec => []StatusIsReported
  BY HistoryInvariant, PTL DEF HistoryInv

LEMMA SendProgressAnswers == SendProgress => AnswerMatchesHistory
  BY DEF SendProgress, AnswerMatchesHistory

\* A message answered with 200 is in the history, which has only accepted ones.
THEOREM AnswersCorrect == Spec => []AnswerMatchesHistory
  BY HistoryInvariant, SendProgressAnswers, PTL DEF HistoryInv

-----------------------------------------------------------------------------
(* No step takes a status back.                                             *)

StatusKept ==
    \A m \in Messages :
        /\ Incoming(m) /\ log[m] = "read" => log'[m] = "read"
        /\ log[m] \in {"delivered", "read"} => log'[m] \in {"delivered", "read"}

\* Rows are inserted where there are none, and updates only report.
LEMMA StatusStep == TypeInv /\ HistoryInv /\ [Next]_vars => [StatusKept]_log
<1> SUFFICES ASSUME TypeInv, HistoryInv, [Next]_vars, log' # log PROVE StatusKept
    BY DEF vars, dbVars
<1> USE DEF TypeInv, TypeOK, HandlerLocals, HistoryInv, ReceiptsOfIncoming, StatusKept,
            dbVars
<1>1. ASSUME NEW m \in Messages, LogOutgoingMessage(m) \/ LogOutgoingMessageFails(m)
      PROVE StatusKept
  BY <1>1 DEF LogOutgoingMessage, LogOutgoingMessageFails, Insertable, InsertLog
<1>2. CASE LogIncomingMessage
  BY <1>2 DEF LogIncomingMessage, Insertable, InsertLog
<1>3. ASSUME NEW m \in Messages, NEW s \in {"delivered", "read"}, HandleReceipt(m, s)
      PROVE StatusKept
  BY <1>3 DEF HandleReceipt
<1>4. ASSUME NEW c \in Chats, MarkConversationRead(c) PROVE StatusKept
  BY <1>4 DEF MarkConversationRead, MarkedByCall
<1>5. QED
  BY <1>1, <1>2, <1>3, <1>4
     DEF Next, SendHandler, EventHandler, MarkRead, vars, SendSucceeds, SendFails,
         UpsertSentThread, HandleIncomingMessage, DropMessage, UpsertIncomingThread,
         ResetThreadUnread, Write, GiveReceipt, Crash

\* What was read stays read and what was reported stays reported.
THEOREM StatusNeverReturns == Spec => NoWayBack
<1>1. [][TypeInv /\ HistoryInv /\ [Next]_vars]_vars => [][StatusKept]_log
  <2>1. TypeInv /\ HistoryInv /\ [Next]_vars => [StatusKept]_log
    BY StatusStep
  <2>2. UNCHANGED vars => UNCHANGED log
    BY DEF vars, dbVars
  <2>3. QED
    BY <2>1, <2>2, PTL
<1>2. QED
  BY HistoryInvariant, <1>1, PTL DEF Spec, NoWayBack, StatusKept
-----------------------------------------------------------------------------
(* The badge.  It covers not only the unread rows but also the message that *)
(* was counted a moment ago and is about to be logged.                      *)

Waiting == IF epc = "log" /\ Incoming(emsg) THEN {emsg} ELSE {}

\* The rows and the waiting message of each chat.
Counted == [c \in Chats |->
    {m \in Messages : /\ ChatOf[m] = c
                      /\ Incoming(m)
                      /\ log[m] = "delivered" \/ m \in Waiting}]

BadgeInv ==
    \A c \in Chats \ uncounted : Cardinality(Counted[c]) <= unread[c]

LEMMA CountedFinite ==
    \A c \in Chats : IsFiniteSet(Counted[c]) /\ Cardinality(Counted[c]) \in Nat
<1> SUFFICES ASSUME NEW c \in Chats
             PROVE IsFiniteSet(Counted[c]) /\ Cardinality(Counted[c]) \in Nat
    OBVIOUS
<1>1. Counted[c] \subseteq Messages
  BY DEF Counted
<1>2. QED
  BY <1>1, InboxAssumption, FS_Subset, FS_CardinalityType

\* A step that adds nothing to what a chat's badge must cover keeps it covered.
LEMMA BadgeFrame ==
    ASSUME TypeInv, BadgeInv, UNCHANGED <<unread, uncounted>>,
           \A c \in Chats : Counted'[c] \subseteq Counted[c]
    PROVE  BadgeInv'
<1> SUFFICES ASSUME NEW c \in Chats \ uncounted
             PROVE Cardinality(Counted'[c]) <= unread[c]
    BY DEF BadgeInv
<1>1. /\ IsFiniteSet(Counted[c])
      /\ Counted'[c] \subseteq Counted[c]
  BY CountedFinite
<1>2. /\ Cardinality(Counted'[c]) <= Cardinality(Counted[c])
      /\ Cardinality(Counted'[c]) \in Nat
  BY <1>1, FS_Subset, FS_CardinalityType
<1>3. Cardinality(Counted[c]) <= unread[c] /\ unread[c] \in Nat
  BY DEF BadgeInv, TypeInv, TypeOK
<1>4. Cardinality(Counted[c]) \in Nat
  BY CountedFinite
<1>5. QED
  BY <1>2, <1>3, <1>4

LEMMA BadgeInit == Init => BadgeInv
<1> SUFFICES ASSUME Init, NEW c \in Chats PROVE Cardinality(Counted[c]) <= unread[c]
    BY DEF BadgeInv
<1>1. Counted[c] = {}
  BY DEF Init, Counted, Waiting
<1>2. QED
  BY <1>1, FS_EmptySet DEF Init

\* Counting comes before logging, so the badge is ahead of the rows.
LEMMA BadgeStep == TypeInv /\ HistoryInv /\ BadgeInv /\ [Next]_vars => BadgeInv'
<1> SUFFICES ASSUME TypeInv, HistoryInv, BadgeInv, [Next]_vars PROVE BadgeInv'
    OBVIOUS
<1> USE DEF dbVars, procVars, envVars
<1>1. ASSUME NEW m \in Messages, SendSucceeds(m) \/ SendFails(m) PROVE BadgeInv'
  <2>1. UNCHANGED <<log, epc, emsg, unread, uncounted>>
    BY <1>1 DEF SendSucceeds, SendFails
  <2>2. Counted' = Counted
    BY <2>1 DEF Counted, Waiting
  <2>3. QED
    BY <2>1, <2>2, BadgeFrame
<1>2. ASSUME NEW m \in Messages, LogOutgoingMessage(m) \/ LogOutgoingMessageFails(m)
      PROVE BadgeInv'
  <2>1. /\ UNCHANGED <<epc, emsg, unread, uncounted>>
        /\ ~ Incoming(m)
        /\ \A n \in Messages \ {m} : log'[n] = log[n]
    BY <1>2 DEF LogOutgoingMessage, LogOutgoingMessageFails, InsertLog, Incoming,
                TypeInv, TypeOK, HandlerLocals
  <2>2. \A c \in Chats : Counted'[c] \subseteq Counted[c]
    BY <2>1 DEF Counted, Waiting, Incoming
  <2>3. QED
    BY <2>1, <2>2, BadgeFrame
<1>3. ASSUME NEW m \in Messages, UpsertSentThread(m) PROVE BadgeInv'
  <2>1. UNCHANGED <<log, epc, emsg, uncounted>> /\ ~ Incoming(m)
    BY <1>3 DEF UpsertSentThread, Incoming, TypeInv, TypeOK, HandlerLocals
  <2>2. unread' = unread
    BY <1>3, <2>1, InboxAssumption
       DEF UpsertSentThread, UpsertThread, CountIncoming, TypeInv, TypeOK
  <2>3. Counted' = Counted
    BY <2>1 DEF Counted, Waiting
  <2>4. QED
    BY <2>1, <2>2, <2>3, BadgeFrame
<1>4. ASSUME NEW m \in Messages, HandleIncomingMessage(m) \/ DropMessage(m)
      PROVE BadgeInv'
  <2>1. UNCHANGED <<log, unread, uncounted>> /\ Waiting' \subseteq Waiting
    BY <1>4 DEF HandleIncomingMessage, DropMessage, Waiting
  <2>2. \A c \in Chats : Counted'[c] \subseteq Counted[c]
    BY <2>1 DEF Counted, Incoming
  <2>3. QED
    BY <2>1, <2>2, BadgeFrame
<1>5. CASE UpsertIncomingThread
  <2>1. /\ emsg \in Messages
        /\ UNCHANGED <<log, emsg>>
        /\ Waiting = {}
        /\ Waiting' = IF Incoming(emsg) THEN {emsg} ELSE {}
        /\ uncounted \subseteq uncounted'
    BY <1>5 DEF UpsertIncomingThread, Waiting, Incoming, TypeInv, TypeOK, HandlerLocals
  <2>2. SUFFICES ASSUME NEW c \in Chats, c \notin uncounted'
                 PROVE Cardinality(Counted'[c]) <= unread'[c]
    BY DEF BadgeInv
  <2>3. /\ unread'[c] = IF Incoming(emsg) /\ ChatOf[emsg] = c THEN unread[c] + 1
                                                            ELSE unread[c]
        /\ unread[c] \in Nat
    <3>1. unread \in [Chats -> Nat] /\ ChatOf[emsg] \in Chats
      BY <2>1, InboxAssumption DEF TypeInv, TypeOK
    <3>2. CASE UpsertThread(emsg)
      BY <3>1, <3>2 DEF UpsertThread, CountIncoming
    <3>3. CASE ~ UpsertThread(emsg)
      <4>1. /\ unread' = unread
            /\ uncounted' = uncounted \cup (IF Incoming(emsg) THEN {ChatOf[emsg]} ELSE {})
        BY <1>5, <3>3 DEF UpsertIncomingThread
      <4>2. ~ (Incoming(emsg) /\ ChatOf[emsg] = c)
        BY <4>1, <2>2
      <4>3. QED
        BY <3>1, <4>1, <4>2
    <3>4. QED
      BY <3>2, <3>3
  <2>4. /\ IsFiniteSet(Counted[c]) /\ Cardinality(Counted[c]) \in Nat
        /\ Cardinality(Counted[c]) <= unread[c]
    BY <2>1, <2>2, CountedFinite DEF BadgeInv
  <2>5. CASE Incoming(emsg) /\ ChatOf[emsg] = c
    <3>1. Counted'[c] \subseteq Counted[c] \cup {emsg}
      BY <2>1, <2>3, <2>5 DEF Counted, Incoming
    <3>2. /\ IsFiniteSet(Counted[c] \cup {emsg})
          /\ Cardinality(Counted[c] \cup {emsg}) <= Cardinality(Counted[c]) + 1
          /\ Cardinality(Counted[c] \cup {emsg}) \in Nat
      <4> DEFINE S == Counted[c]
      <4> HIDE DEF S
      <4>1. IsFiniteSet(S) /\ Cardinality(S) \in Nat
        BY <2>4 DEF S
      <4>2. /\ IsFiniteSet(S \cup {emsg})
            /\ \/ Cardinality(S \cup {emsg}) = Cardinality(S)
               \/ Cardinality(S \cup {emsg}) = Cardinality(S) + 1
        BY <4>1, FS_AddElement
      <4>3. QED
        BY <4>1, <4>2 DEF S
    <3>3. /\ Cardinality(Counted'[c]) <= Cardinality(Counted[c] \cup {emsg})
          /\ Cardinality(Counted'[c]) \in Nat
      BY <3>1, <3>2, FS_Subset, FS_CardinalityType
    <3>4. unread'[c] = unread[c] + 1
      BY <2>3, <2>5
    <3>5. QED
      BY <2>3, <2>4, <3>2, <3>3, <3>4
  <2>6. CASE ~ (Incoming(emsg) /\ ChatOf[emsg] = c)
    <3>1. Counted'[c] = Counted[c]
      BY <2>1, <2>3, <2>6 DEF Counted, Incoming
    <3>2. unread'[c] = unread[c]
      BY <2>3, <2>6
    <3>3. QED
      BY <2>4, <3>1, <3>2
  <2>7. QED
    BY <2>5, <2>6
<1>6. CASE LogIncomingMessage
  <2>1. /\ emsg \in Messages
        /\ UNCHANGED <<unread, uncounted>>
        /\ Waiting' = {}
        /\ \A n \in Messages \ {emsg} : log'[n] = log[n]
    BY <1>6 DEF LogIncomingMessage, InsertLog, Waiting, TypeInv, TypeOK, HandlerLocals
  <2>2. Incoming(emsg) => emsg \in Waiting
    BY <1>6 DEF LogIncomingMessage, Waiting
  <2>3. \A c \in Chats : Counted'[c] \subseteq Counted[c]
    BY <2>1, <2>2 DEF Counted, Incoming
  <2>4. QED
    BY <2>1, <2>3, BadgeFrame
<1>7. ASSUME NEW m \in Messages, NEW s \in {"delivered", "read"}, HandleReceipt(m, s)
      PROVE BadgeInv'
  <2>1. /\ UNCHANGED <<epc, emsg, unread, uncounted>>
        /\ log' = [log EXCEPT ![m] = s]
        /\ Incoming(m) => s = "read"
    BY <1>7 DEF HandleReceipt, HistoryInv, ReceiptsOfIncoming
  <2>2. \A c \in Chats : Counted'[c] \subseteq Counted[c]
    BY <2>1 DEF Counted, Waiting, Incoming, TypeInv, TypeOK
  <2>3. QED
    BY <2>1, <2>2, BadgeFrame
<1>8. ASSUME NEW c \in Chats, MarkConversationRead(c) PROVE BadgeInv'
  <2>1. /\ UNCHANGED <<epc, emsg, unread, uncounted>>
        /\ \A m \in Messages : log'[m] = "delivered" => log[m] = "delivered"
    BY <1>8 DEF MarkConversationRead
  <2>2. \A d \in Chats : Counted'[d] \subseteq Counted[d]
    BY <2>1 DEF Counted, Waiting, Incoming
  <2>3. QED
    BY <2>1, <2>2, BadgeFrame
<1>9. ASSUME NEW c \in Chats, ResetThreadUnread(c) PROVE BadgeInv'
  <2>0. CASE UNCHANGED <<unread, uncounted>>
    <3>1. Counted' = Counted
      BY <1>9 DEF ResetThreadUnread, Counted, Waiting
    <3>2. QED
      BY <2>0, <3>1, BadgeFrame
  <2>1. SUFFICES ASSUME ~ UNCHANGED <<unread, uncounted>>,
                        NEW d \in Chats, d \notin uncounted'
                 PROVE Cardinality(Counted'[d]) <= unread'[d]
    BY <2>0 DEF BadgeInv
  <2>2. UNCHANGED <<log, epc, emsg>> /\ unread' = [unread EXCEPT ![c] = 0]
    BY <1>9, <2>1 DEF ResetThreadUnread
  <2>3. Counted' = Counted
    BY <2>2 DEF Counted, Waiting
  <2>4. CASE d = c
    <3>1. ~ Outstanding(c)
      BY <1>9, <2>1, <2>4 DEF ResetThreadUnread
    <3>2. Counted[c] = {}
      BY <3>1 DEF Outstanding, UnreadRows, Counted, Waiting, Incoming
    <3>3. unread'[c] = 0
      BY <2>2 DEF TypeInv, TypeOK
    <3>4. QED
      BY <2>3, <2>4, <3>2, <3>3, FS_EmptySet
  <2>5. CASE d # c
    <3>1. d \notin uncounted
      BY <1>9, <2>1, <2>5 DEF ResetThreadUnread
    <3>2. unread'[d] = unread[d]
      BY <2>2, <2>5 DEF TypeInv, TypeOK
    <3>3. QED
      BY <2>1, <2>3, <3>1, <3>2 DEF BadgeInv
  <2>6. QED
    BY <2>4, <2>5
<1>10. ASSUME NEW m \in Messages, NEW s \in {"delivered", "read"},
              Write(m) \/ GiveReceipt(m, s)
       PROVE BadgeInv'
  <2>1. UNCHANGED <<log, epc, emsg, unread, uncounted>>
    BY <1>10 DEF Write, GiveReceipt
  <2>2. Counted' = Counted
    BY <2>1 DEF Counted, Waiting
  <2>3. QED
    BY <2>1, <2>2, BadgeFrame
<1>11. CASE Crash
  <2>1. UNCHANGED <<log, unread, uncounted>> /\ Waiting' = {}
    BY <1>11 DEF Crash, Waiting
  <2>2. \A c \in Chats : Counted'[c] \subseteq Counted[c]
    BY <2>1 DEF Counted, Incoming
  <2>3. QED
    BY <2>1, <2>2, BadgeFrame
<1>12. CASE UNCHANGED vars
  <2>1. UNCHANGED <<log, epc, emsg, unread, uncounted>>
    BY <1>12 DEF vars
  <2>2. Counted' = Counted
    BY <2>1 DEF Counted, Waiting
  <2>3. QED
    BY <2>1, <2>2, BadgeFrame
<1>13. QED
  BY <1>1, <1>2, <1>3, <1>4, <1>5, <1>6, <1>7, <1>8, <1>9, <1>10, <1>11, <1>12
     DEF Next, SendHandler, EventHandler, MarkRead

LEMMA BadgeInvCovers == TypeInv /\ BadgeInv => BadgeCoversUnread
<1> SUFFICES ASSUME TypeInv, BadgeInv, NEW c \in Chats \ uncounted
             PROVE Cardinality(UnreadRows(c)) <= unread[c]
    BY DEF BadgeCoversUnread
<1>1. UnreadRows(c) \subseteq Counted[c]
  BY DEF UnreadRows, Counted
<1>2. /\ Cardinality(UnreadRows(c)) <= Cardinality(Counted[c])
      /\ Cardinality(UnreadRows(c)) \in Nat
  BY <1>1, CountedFinite, FS_Subset, FS_CardinalityType
<1>3. /\ Cardinality(Counted[c]) <= unread[c]
      /\ Cardinality(Counted[c]) \in Nat /\ unread[c] \in Nat
  BY CountedFinite DEF BadgeInv, TypeInv, TypeOK
<1>4. QED
  BY <1>2, <1>3

\* The badge never falls behind the unread rows unless a MarkRead overlaps.
THEOREM BadgeCorrect == Spec => []BadgeCoversUnread
<1>1. TypeInv /\ HistoryInv /\ BadgeInv /\ [Next]_vars
        => (TypeInv /\ HistoryInv /\ BadgeInv)'
  BY TypeStep, HistoryStep, BadgeStep
<1>2. QED
  BY TypeInit, HistoryInit, BadgeInit, <1>1, BadgeInvCovers, PTL DEF Spec

-----------------------------------------------------------------------------
(* What may go wrong, and nothing else.  The two sentences the code does not *)
(* live up to hold as soon as one cause each is taken away.                 *)

\* No MarkRead resets the badge after a message has come in that the first of
\* its two statements did not mark.
ResetsAfterMarking == \A c \in Chats : ResetThreadUnread(c) => ~ Outstanding(c)

MarksDoNotOverlap == [][ResetsAfterMarking]_vars

\* Only failed statements and overlapping resets make a badge miss a message.
LEMMA NothingUncountedStep ==
    ASSUME ~ DbMayFail, uncounted = {}, TypeOK,
           [Next]_vars, [ResetsAfterMarking]_vars
    PROVE  uncounted' = {}
<1>1. ASSUME NEW c \in Chats, ResetThreadUnread(c) PROVE uncounted' = {}
  <2>1. vars' # vars
    BY <1>1 DEF ResetThreadUnread, TypeOK, vars, procVars
  <2>2. ~ Outstanding(c)
    BY <1>1, <2>1 DEF ResetsAfterMarking
  <2>3. QED
    BY <1>1, <2>2 DEF ResetThreadUnread
<1>2. CASE UpsertIncomingThread
  BY <1>2 DEF UpsertIncomingThread
<1>3. CASE UNCHANGED vars
  BY <1>3 DEF vars
<1>4. QED
  BY <1>1, <1>2, <1>3
     DEF Next, SendHandler, EventHandler, MarkRead, SendSucceeds, SendFails,
         LogOutgoingMessage, LogOutgoingMessageFails, UpsertSentThread,
         HandleIncomingMessage, DropMessage, LogIncomingMessage, HandleReceipt,
         MarkConversationRead, Write, GiveReceipt, Crash

\* A badge of zero means that nothing is unread, through redeliveries, dropped
\* events and crashes, as long as statements succeed and no reset overlaps an
\* arrival: the race of the two statements of MarkRead is the only cause.
THEOREM OnlyOverlapsHideUnread ==
    ASSUME ~ DbMayFail
    PROVE  Spec /\ MarksDoNotOverlap => []ZeroBadgeMeansAllRead
<1>1. Init => uncounted = {}
  BY DEF Init
<1>2. TypeInv /\ uncounted = {} /\ [Next]_vars /\ [ResetsAfterMarking]_vars
      => (uncounted = {})'
  BY NothingUncountedStep DEF TypeInv
<1>3. uncounted = {} /\ TypeInv /\ BadgeCoversUnread => ZeroBadgeMeansAllRead
  <2> SUFFICES ASSUME uncounted = {}, BadgeCoversUnread,
                      NEW c \in Chats, unread[c] = 0
               PROVE  UnreadRows(c) = {}
    BY DEF ZeroBadgeMeansAllRead
  <2>1. IsFiniteSet(UnreadRows(c))
    BY InboxAssumption, FS_Subset DEF UnreadRows
  <2>2. Cardinality(UnreadRows(c)) <= 0 /\ Cardinality(UnreadRows(c)) \in Nat
    BY <2>1, FS_CardinalityType DEF BadgeCoversUnread
  <2>3. QED
    BY <2>1, <2>2, FS_EmptySet
<1>4. QED
  BY <1>1, <1>2, <1>3, TypeInvariant, BadgeCorrect, PTL DEF Spec, MarksDoNotOverlap

\* The row of a message a handler has yet to log is not there: nobody else
\* inserts it.
RowIsOwn ==
    \A m \in Messages :
        /\ Origin[m] = "handler" /\ hpc[m] \in {"new", "log"} => log[m] = "none"
        /\ crashes = 0 => hpc[m] # "error"

LEMMA RowIsOwnStep ==
    ASSUME ~ DbMayFail, "send" \notin Faults,
           \A m \in Messages : Origin[m] = "handler" => Kind[m] # "audio",
           TypeInv, RowIsOwn, [Next]_vars
    PROVE  RowIsOwn'
<1> USE DEF TypeInv, TypeOK, HandlerLocals, RowIsOwn, dbVars, procVars, envVars
<1>1. ASSUME NEW m \in Messages, SendHandler(m) PROVE RowIsOwn'
  <2>1. CASE SendSucceeds(m)
    BY <2>1 DEF SendSucceeds
  <2>2. CASE LogOutgoingMessage(m)
    BY <2>2 DEF LogOutgoingMessage, InsertLog
  <2>3. CASE UpsertSentThread(m)
    BY <2>3 DEF UpsertSentThread
  <2>4. ~ SendFails(m)
    BY DEF SendFails
  <2>5. ~ LogOutgoingMessageFails(m)
    BY DEF LogOutgoingMessageFails, Insertable
  <2>6. QED
    BY <1>1, <2>1, <2>2, <2>3, <2>4, <2>5 DEF SendHandler
<1>2. ASSUME NEW m \in Messages, HandleIncomingMessage(m) \/ DropMessage(m)
      PROVE  RowIsOwn'
  BY <1>2 DEF HandleIncomingMessage, DropMessage, Deliver
<1>3. CASE UpsertIncomingThread
  BY <1>3 DEF UpsertIncomingThread
<1>4. CASE LogIncomingMessage
  <2>1. emsg \in Messages /\ Origin[emsg] # "handler"
    BY <1>4 DEF LogIncomingMessage
  <2>2. QED
    BY <1>4, <2>1 DEF LogIncomingMessage, InsertLog
<1>5. ASSUME NEW m \in Messages, NEW s \in {"delivered", "read"}, HandleReceipt(m, s)
      PROVE  RowIsOwn'
  BY <1>5 DEF HandleReceipt
<1>6. ASSUME NEW c \in Chats, MarkConversationRead(c) PROVE RowIsOwn'
  BY <1>6 DEF MarkConversationRead, MarkedByCall
<1>7. ASSUME NEW c \in Chats, ResetThreadUnread(c) PROVE RowIsOwn'
  BY <1>7 DEF ResetThreadUnread
<1>8. ASSUME NEW m \in Messages, Write(m) PROVE RowIsOwn'
  BY <1>8 DEF Write
<1>9. ASSUME NEW m \in Messages, NEW s \in {"delivered", "read"}, GiveReceipt(m, s)
      PROVE  RowIsOwn'
  BY <1>9 DEF GiveReceipt
<1>10. CASE Crash
  BY <1>10 DEF Crash
<1>11. CASE UNCHANGED vars
  BY <1>11 DEF vars
<1>12. QED
  BY <1>1, <1>2, <1>3, <1>4, <1>5, <1>6, <1>7, <1>8, <1>9, <1>10, <1>11
     DEF Next, EventHandler, MarkRead

\* When sends and statements succeed and nobody sends a voice message, no
\* handler answers 500 to a message WhatsApp has: neither redeliveries,
\* receipts nor MarkRead get in the way of its INSERT, and the CHECK of the
\* type is the only cause.
THEOREM OnlyVoiceIsRefused ==
    ASSUME ~ DbMayFail, "send" \notin Faults,
           \A m \in Messages : Origin[m] = "handler" => Kind[m] # "audio"
    PROVE  Spec => []AcceptedIsNotAnError
<1>1. Init => RowIsOwn
  BY DEF Init, RowIsOwn
<1>2. TypeInv /\ RowIsOwn /\ [Next]_vars => RowIsOwn'
  BY RowIsOwnStep
<1>3. TypeInv /\ RowIsOwn => AcceptedIsNotAnError
  BY DEF TypeInv, TypeOK, RowIsOwn, AcceptedIsNotAnError
<1>4. QED
  BY <1>1, <1>2, <1>3, TypeInvariant, PTL DEF Spec

-----------------------------------------------------------------------------
(* The part of ArrivedIsLogged that does not depend on fairness.            *)

\* A contact's text or media message that WhatsApp has handed over is in the
\* history or in the event handler's hands, unless the process died.
HandedOverIsLogged ==
    crashes = 0 =>
        \A m \in Messages :
            (Incoming(m) /\ Kind[m] \in {"text", "media"} /\ deliveries[m] > 0)
                => (log[m] # "none" \/ (epc # "idle" /\ emsg = m))

LEMMA HandedOverStep ==
    ASSUME ~ DbMayFail, "drop" \notin Faults,
           TypeInv, HandedOverIsLogged, [Next]_vars
    PROVE  HandedOverIsLogged'
<1> USE DEF TypeInv, TypeOK, HandedOverIsLogged, Incoming, dbVars, procVars, envVars
<1>1. ASSUME NEW m \in Messages, SendHandler(m) PROVE HandedOverIsLogged'
  BY <1>1 DEF SendHandler, SendSucceeds, SendFails, LogOutgoingMessage,
              LogOutgoingMessageFails, UpsertSentThread, Insertable, InsertLog,
              InsertedStatus
<1>2. ASSUME NEW m \in Messages, HandleIncomingMessage(m) PROVE HandedOverIsLogged'
  BY <1>2 DEF HandleIncomingMessage, Deliver
<1>3. ASSUME NEW m \in Messages, DropMessage(m) PROVE HandedOverIsLogged'
  <2>1. Kind[m] = "other"
    BY <1>3 DEF DropMessage
  <2>2. QED
    BY <1>3, <2>1 DEF DropMessage, Deliver
<1>4. CASE UpsertIncomingThread
  BY <1>4 DEF UpsertIncomingThread
<1>5. CASE LogIncomingMessage
  BY <1>5 DEF LogIncomingMessage, Insertable, InsertLog, InsertedStatus
<1>6. ASSUME NEW m \in Messages, NEW s \in {"delivered", "read"}, HandleReceipt(m, s)
      PROVE  HandedOverIsLogged'
  BY <1>6 DEF HandleReceipt
<1>7. ASSUME NEW c \in Chats, MarkConversationRead(c) PROVE HandedOverIsLogged'
  BY <1>7 DEF MarkConversationRead, MarkedByCall
<1>8. ASSUME NEW c \in Chats, ResetThreadUnread(c) PROVE HandedOverIsLogged'
  BY <1>8 DEF ResetThreadUnread
<1>9. ASSUME NEW m \in Messages, Write(m) PROVE HandedOverIsLogged'
  BY <1>9 DEF Write
<1>10. ASSUME NEW m \in Messages, NEW s \in {"delivered", "read"}, GiveReceipt(m, s)
       PROVE  HandedOverIsLogged'
  BY <1>10 DEF GiveReceipt
<1>11. CASE Crash
  BY <1>11 DEF Crash
<1>12. CASE UNCHANGED vars
  BY <1>12 DEF vars
<1>13. QED
  BY <1>1, <1>2, <1>3, <1>4, <1>5, <1>6, <1>7, <1>8, <1>9, <1>10, <1>11, <1>12
     DEF Next, EventHandler, MarkRead

\* While statements succeed and the process lives, nothing the event handler
\* was given is lost on the way: whatever it does next with the message in
\* hand, that one is in the history when it returns.
THEOREM NothingIsLostOnTheWay ==
    ASSUME ~ DbMayFail, "drop" \notin Faults
    PROVE  Spec => []HandedOverIsLogged
<1>1. Init => HandedOverIsLogged
  BY DEF Init, HandedOverIsLogged
<1>2. TypeInv /\ HandedOverIsLogged /\ [Next]_vars => HandedOverIsLogged'
  BY HandedOverStep
<1>3. QED
  BY <1>1, <1>2, TypeInvariant, PTL DEF Spec
=============================================================================
