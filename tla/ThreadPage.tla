----------------------------- MODULE ThreadPage ----------------------------
(***************************************************************************)
(* The inbox page of the web client, without its new-message dialog:       *)
(* InboxClient, the conversation list, the message thread and its compose  *)
(* box, the routes under /api/kontak/inbox that pass their requests on,    *)
(* and as much of the Go server as they see.                               *)
(*                                                                         *)
(* A handler runs up to its await in one step and goes on in another when  *)
(* the answer arrives; whatever the user does in between finds the state   *)
(* the first step left.                                                    *)
(***************************************************************************)
EXTENDS Browser

CONSTANTS
    Threads,     \* pairs of a device and a chat
    Replies,     \* what the user types or attaches, each once
    Incoming,    \* what contacts write
    PageLimit,   \* the limit a thread is asked for with, 100 in the code
    MaxMessages  \* bound: how many messages are written in all

ASSUME ThreadAssumption ==
    /\ None \notin Threads \cup Replies
    /\ Replies \cap Incoming = {}
    /\ PageLimit \in Nat
    /\ MaxMessages \in Nat

VARIABLES
    open,     \* the selected conversation
    compose,  \* the textarea and the pendingFile of ComposeBox
    posts,    \* POST requests in flight
    polls,    \* the answer on its way to a thread, if there is one
    shown,    \* SWR's cache of the threads
    badges,   \* SWR's cache of the conversation list
    logged,   \* message_logs, by thread, in order of sent_at
    unread,   \* what the server counts as unread
    sent,     \* history: how often a draft was posted
    threadFaults

threadVars == <<open, compose, posts, polls, shown, badges, logged, unread, sent,
                threadFaults>>

Messages == Replies \cup Incoming

ReplyPosts == [via : {"reply", "media"}, thread : Threads, text : Replies,
               stage : {"out", "back"}]
ReadPosts  == [via : {"read"}, thread : Threads]

ThreadTypeOK ==
    /\ open \in Threads \cup {None}
    /\ compose \in [text : Replies \cup {None}, file : Replies \cup {None}]
    /\ posts \subseteq ReplyPosts \cup ReadPosts
    /\ polls \in [Threads -> SUBSET SUBSET Messages]
    /\ shown \in [Threads -> SUBSET Messages]
    /\ badges \in [Threads -> SUBSET Incoming]
    /\ logged \in [Threads -> Seq(Messages)]
    /\ unread \in [Threads -> SUBSET Incoming]
    /\ sent \in [Replies -> Nat]
    /\ threadFaults \in 0..MaxFaults

EmptyBox == [text |-> None, file |-> None]

\* No conversation is selected and SWR's cache is empty.
ThreadInit ==
    /\ open = None
    /\ compose = EmptyBox
    /\ posts = {}
    /\ polls = [k \in Threads |-> {}]
    /\ shown = [k \in Threads |-> {}]
    /\ badges = [k \in Threads |-> {}]
    /\ logged = [k \in Threads |-> <<>>]
    /\ unread = [k \in Threads |-> {}]
    /\ sent = [t \in Replies |-> 0]
    /\ threadFaults = 0

ThreadFault == threadFaults < MaxFaults /\ threadFaults' = threadFaults + 1

pageVars   == <<open, compose>>
cacheVars  == <<polls, shown, badges>>
serverVars == <<logged, unread>>

Logged(k) == {logged[k][i] : i \in DOMAIN logged[k]}

\* All that was written so far, and the bound on it.
Written == ((Replies \cap {compose.text, compose.file})
            \cup {t \in Replies : sent[t] > 0})
           \cup UNION {Logged(k) : k \in Threads}
MayWrite == Cardinality(Written) < MaxMessages

-----------------------------------------------------------------------------
(* Faulty variants of definitions below.  No specification uses them: each *)
(* is a bug this code could plausibly have, and one of the properties at   *)
(* the end of the module rejects it.                                       *)

\* The box is emptied when the answer is there.
EmptiedLater == compose

\* An answer is shown in whatever thread is open.
SettleOpen(k, messages) ==
    /\ shown' = IF open = None THEN shown ELSE [shown EXCEPT ![open] = messages]
    /\ polls' = [polls EXCEPT ![k] = {}]

\* The limit counts from zero.
PageShort(k) == {logged[k][i] : i \in {n \in DOMAIN logged[k] : n < PageLimit}}

\* The list adds what is new and never drops a badge.
CountedUnreadMore == [k \in Threads |-> badges[k] \cup unread[k]]

-----------------------------------------------------------------------------
(* Conversations.                                                          *)

\* A click on a conversation. The thread's component stays, and with it what
\* is in the compose box; the effect of [deviceId, chatJid] posts a mark-read.
SelectChat(k) ==
    /\ k # open
    /\ open' = k
    /\ posts' = posts \cup {[via |-> "read", thread |-> k]}
    /\ UNCHANGED <<compose, cacheVars, serverVars, sent, threadFaults>>

\* Another device is selected: no thread, no compose box.
ChooseDevice ==
    /\ open # None
    /\ open' = None
    /\ compose' = EmptyBox
    /\ UNCHANGED <<posts, cacheVars, serverVars, sent, threadFaults>>

-----------------------------------------------------------------------------
(* The compose box.                                                        *)

\* A draft is typed or attached once.
Fresh(t) == t \notin Written /\ MayWrite

TypeReply(t) ==
    /\ open # None
    /\ Fresh(t)
    /\ compose' = [compose EXCEPT !.text = t]
    /\ UNCHANGED <<open, posts, cacheVars, serverVars, sent, threadFaults>>

AttachFile(t) ==
    /\ open # None
    /\ Fresh(t)
    /\ compose' = [compose EXCEPT !.file = t]
    /\ UNCHANGED <<open, posts, cacheVars, serverVars, sent, threadFaults>>

\* What a press of Enter takes from the box: the file, if there is one, and
\* then not the text.
Submitted ==
    IF compose.file # None THEN [via |-> "media", text |-> compose.file]
                           ELSE [via |-> "reply", text |-> compose.text]

\* The box is emptied before the answer is awaited.
Emptied ==
    IF compose.file # None THEN [compose EXCEPT !.file = None]
                           ELSE [compose EXCEPT !.text = None]

\* handleSend of the compose box, the thread and the page.
Reply ==
    /\ open # None
    /\ Submitted.text # None
    /\ posts' = posts \cup {[via |-> Submitted.via, thread |-> open,
                             text |-> Submitted.text, stage |-> "out"]}
    /\ sent' = [sent EXCEPT ![Submitted.text] = @ + 1]
    /\ compose' = Emptied
    /\ UNCHANGED <<open, cacheVars, serverVars, threadFaults>>

-----------------------------------------------------------------------------
(* The server behind the routes.                                           *)

\* The answer is on its way: refused and accepted look the same to fetch.
ReplyBack(p) == posts' = (posts \ {p}) \cup {[p EXCEPT !.stage = "back"]}

\* threads/[chatJid]/send and threads/[chatJid]/send-media: the message is
\* sent and logged.
Accept(p, via) ==
    /\ p \in posts /\ p.via = via /\ p.stage = "out"
    /\ ReplyBack(p)
    /\ logged' = [logged EXCEPT ![p.thread] = Append(@, p.text)]
    /\ UNCHANGED <<pageVars, cacheVars, unread, sent, threadFaults>>

AcceptReply(p) == Accept(p, "reply")
AcceptMedia(p) == Accept(p, "media")

\* An error status reaches the page as an answer like any other.
Refuse(p) ==
    /\ p \in posts /\ p.via # "read" /\ p.stage = "out"
    /\ ThreadFault
    /\ ReplyBack(p)
    /\ UNCHANGED <<pageVars, cacheVars, serverVars, sent>>

\* threads/[chatJid]/read; nobody looks at the answer.
MarkRead(p) ==
    /\ p \in posts /\ p.via = "read"
    /\ posts' = posts \ {p}
    /\ unread' = [unread EXCEPT ![p.thread] = {}]
    /\ UNCHANGED <<pageVars, cacheVars, logged, sent, threadFaults>>

\* A contact writes.
Arrive(k, m) ==
    /\ m \notin Written /\ MayWrite
    /\ logged' = [logged EXCEPT ![k] = Append(@, m)]
    /\ unread' = [unread EXCEPT ![k] = @ \cup {m}]
    /\ UNCHANGED <<pageVars, posts, cacheVars, sent, threadFaults>>

-----------------------------------------------------------------------------
(* Answers.                                                                *)

\* GetThreadMessages: the first PageLimit rows in order of sent_at.
Page(k) == {logged[k][i] : i \in {n \in DOMAIN logged[k] : n <= PageLimit}}

\* Asked on opening and every three seconds. SWR drops the answer of an
\* earlier request for the same thread.
Ask(k) == polls' = [polls EXCEPT ![k] = {Page(k)}]

PollThread ==
    /\ open # None
    /\ Ask(open)
    /\ UNCHANGED <<pageVars, posts, shown, badges, serverVars, sent, threadFaults>>

\* An answer goes to the thread it was asked for, whatever is open by then.
Settle(k, messages) ==
    /\ shown' = [shown EXCEPT ![k] = messages]
    /\ polls' = [polls EXCEPT ![k] = {}]

ThreadAnswered(k) ==
    /\ \E answer \in polls[k] : Settle(k, answer)
    /\ UNCHANGED <<pageVars, posts, badges, serverVars, sent, threadFaults>>

\* getThreadMessages makes the empty list of an error the API answers, and
\* the route passes it on with status 200.
ThreadRefused(k) ==
    /\ polls[k] # {}
    /\ ThreadFault
    /\ Settle(k, {})
    /\ UNCHANGED <<pageVars, posts, badges, serverVars, sent>>

\* The conversation list, every five seconds.
CountedUnread == unread

PollConversations ==
    /\ badges' = CountedUnread
    /\ UNCHANGED <<pageVars, posts, polls, shown, serverVars, sent, threadFaults>>

\* The answer of a reply or a file is only waited for to ask for the thread
\* again: mutate() of the thread that is open by then.
ReplyAnswered(p) ==
    /\ p \in posts /\ p.via # "read" /\ p.stage = "back"
    /\ posts' = posts \ {p}
    /\ IF open = None THEN UNCHANGED polls ELSE Ask(open)
    /\ UNCHANGED <<pageVars, shown, badges, serverVars, sent, threadFaults>>

\* No answer at all: the compose box has lost its text, and nobody repeats a
\* mark-read.
ConnectionLost(p) ==
    /\ p \in posts
    /\ ThreadFault
    /\ posts' = posts \ {p}
    /\ UNCHANGED <<pageVars, cacheVars, serverVars, sent>>
-----------------------------------------------------------------------------

ThreadNext ==
    \/ \E k \in Threads : SelectChat(k) \/ ThreadAnswered(k) \/ ThreadRefused(k)
    \/ \E t \in Replies : TypeReply(t) \/ AttachFile(t)
    \/ ChooseDevice \/ Reply \/ PollThread \/ PollConversations
    \/ \E p \in posts : \/ AcceptReply(p) \/ AcceptMedia(p) \/ Refuse(p) \/ MarkRead(p)
                        \/ ReplyAnswered(p) \/ ConnectionLost(p)
    \/ \E k \in Threads, m \in Incoming : Arrive(k, m)

ThreadSpec == ThreadInit /\ [][ThreadNext]_threadVars

\* SWR's timers, and the answers of a server that runs.
ThreadFairness ==
    /\ \A k \in Threads :
        /\ WF_threadVars(ThreadAnswered(k))
        /\ WF_threadVars(open = k /\ polls[k] # {Page(k)} /\ PollThread)
    /\ WF_threadVars(PollConversations)
    /\ \A k \in Threads : WF_threadVars(MarkRead([via |-> "read", thread |-> k]))

-----------------------------------------------------------------------------
(* Safety.                                                                 *)

\* However clicks and late answers interleave, a thread shows messages of its
\* own conversation only, and every answer still on its way holds only such
\* (message-thread.tsx:37-45).
ThreadShowsItsOwn ==
    \A k \in Threads : \A s \in polls[k] \cup {shown[k]} : s \subseteq Logged(k)

\* What the user submits once is in the log at most once, in at most one
\* conversation, however often Enter is pressed while the answer is due
\* (compose-box.tsx:62-79).
LoggedOnce ==
    \A k, l \in Threads : \A i \in DOMAIN logged[k], j \in DOMAIN logged[l] :
        logged[k][i] = logged[l][j] => k = l /\ i = j

-----------------------------------------------------------------------------
(* Liveness.                                                               *)

\* The conversation that stays open comes to show all that is logged in it,
\* whatever requests fail meanwhile (message-thread.tsx:37-45). It needs a
\* PageLimit no conversation outgrows.
LoggedIsShown ==
    \A k \in Threads : []<>(open = k => Logged(k) \subseteq shown[k])

\* A badge disappears in the end: the mark-read of an opened conversation is done and
\* the list asks again, unless the request was lost, or a contact wrote after it, when
\* no mark-read is on its way (message-thread.tsx:52-57, conversation-list.tsx:26-30).
OpenedLosesBadge ==
    \A k \in Threads : []<>
        (badges[k] = {} \/ threadFaults > 0
         \/ (unread[k] # {} /\ [via |-> "read", thread |-> k] \notin posts))
=============================================================================
