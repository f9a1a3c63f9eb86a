---------------------------- MODULE ThreadProofs ----------------------------
(* Proofs of the safety of the inbox page for any conversations, drafts    *)
(* and lost answers.                                                       *)
EXTENDS ThreadPage, TLAPS

USE BrowserAssumption, ThreadAssumption

ComposeStep(t) == TypeReply(t) \/ AttachFile(t)

PostStep(p) ==
    \/ AcceptReply(p) \/ AcceptMedia(p) \/ Refuse(p) \/ MarkRead(p)
    \/ ReplyAnswered(p) \/ ConnectionLost(p)

LEMMA AppendFacts ==
    ASSUME NEW S, NEW s \in Seq(S), NEW e \in S
    PROVE  /\ Append(s, e) \in Seq(S)
           /\ DOMAIN Append(s, e) = DOMAIN s \cup {Len(s) + 1}
           /\ Len(s) + 1 \notin DOMAIN s
           /\ \A i \in DOMAIN s : Append(s, e)[i] = s[i]
           /\ Append(s, e)[Len(s) + 1] = e
OBVIOUS

\* What is logged stays logged, and an append adds its message only.
LEMMA AppendedTo ==
    ASSUME ThreadTypeOK, NEW k \in Threads, NEW m \in Messages,
           logged' = [logged EXCEPT ![k] = Append(@, m)]
    PROVE  /\ logged' \in [Threads -> Seq(Messages)]
           /\ \A l \in Threads :
                Logged(l)' = IF l = k THEN Logged(l) \cup {m} ELSE Logged(l)
<1>1. logged[k] \in Seq(Messages)
  BY DEF ThreadTypeOK
<1>2. /\ logged'[k] = Append(logged[k], m)
      /\ \A l \in Threads \ {k} : logged'[l] = logged[l]
  BY DEF ThreadTypeOK
<1>3. logged' \in [Threads -> Seq(Messages)]
  BY <1>1, AppendFacts DEF ThreadTypeOK
<1>4. Logged(k)' = Logged(k) \cup {m}
  BY <1>1, <1>2, AppendFacts DEF Logged
<1>5. \A l \in Threads \ {k} : Logged(l)' = Logged(l)
  BY <1>2 DEF Logged
<1>6. QED
  BY <1>3, <1>4, <1>5

-----------------------------------------------------------------------------
(* Types.                                                                  *)

LEMMA ThreadTypeInit == ThreadInit => ThreadTypeOK
BY DEF ThreadInit, ThreadTypeOK, EmptyBox, Messages

LEMMA PostTypes ==
    ASSUME ThreadTypeOK, NEW p \in posts, p.via # "read"
    PROVE  /\ p \in ReplyPosts
           /\ p.thread \in Threads /\ p.text \in Replies
           /\ [p EXCEPT !.stage = "back"] \in ReplyPosts
<1>1. p \in ReplyPosts
  BY DEF ThreadTypeOK, ReadPosts
<1>2. QED
  BY <1>1 DEF ReplyPosts

LEMMA PageTypes ==
    ASSUME ThreadTypeOK, NEW k \in Threads
    PROVE  Page(k) \subseteq Logged(k) /\ Logged(k) \subseteq Messages
<1>1. logged[k] \in Seq(Messages)
  BY DEF ThreadTypeOK
<1>2. \A i \in DOMAIN logged[k] : logged[k][i] \in Messages
  BY <1>1
<1>3. QED
  BY <1>2 DEF Page, Logged

LEMMA ThreadTypeStep ==
    ThreadTypeOK /\ [ThreadNext]_threadVars => ThreadTypeOK'
<1> SUFFICES ASSUME ThreadTypeOK, [ThreadNext]_threadVars
             PROVE  ThreadTypeOK'
    OBVIOUS
<1> USE DEF ThreadTypeOK, pageVars, cacheVars, serverVars
<1>1. ASSUME NEW k \in Threads, SelectChat(k) PROVE ThreadTypeOK'
  BY <1>1 DEF SelectChat, ReadPosts
<1>2. ASSUME NEW k \in Threads, ThreadAnswered(k) PROVE ThreadTypeOK'
  BY <1>2 DEF ThreadAnswered, Settle
<1>3. ASSUME NEW k \in Threads, ThreadRefused(k) PROVE ThreadTypeOK'
  BY <1>3 DEF ThreadRefused, Settle, ThreadFault
<1>4. ASSUME NEW t \in Replies, ComposeStep(t) PROVE ThreadTypeOK'
  BY <1>4 DEF ComposeStep, TypeReply, AttachFile
<1>5. CASE ChooseDevice
  BY <1>5 DEF ChooseDevice, EmptyBox
<1>6. CASE Reply
  <2>1. /\ Submitted.via \in {"reply", "media"} /\ Submitted.text \in Replies
        /\ Emptied \in [text : Replies \cup {None}, file : Replies \cup {None}]
    BY <1>6 DEF Reply, Submitted, Emptied
  <2>2. posts' \subseteq ReplyPosts \cup ReadPosts
    BY <1>6, <2>1 DEF Reply, ReplyPosts
  <2>3. sent' \in [Replies -> Nat]
    BY <1>6, <2>1 DEF Reply
  <2>4. QED
    BY <1>6, <2>1, <2>2, <2>3 DEF Reply
<1>7. CASE PollThread
  <2>1. Page(open) \subseteq Messages /\ open \in Threads
    BY <1>7, PageTypes DEF PollThread
  <2>2. QED
    BY <1>7, <2>1 DEF PollThread, Ask
<1>8. CASE PollConversations
  BY <1>8 DEF PollConversations, CountedUnread
<1>9. ASSUME NEW p \in posts, PostStep(p) PROVE ThreadTypeOK'
  <2>1. CASE AcceptReply(p) \/ AcceptMedia(p)
    <3>1. p.via # "read" /\ ReplyBack(p) /\ p.thread \in Threads
          /\ logged' = [logged EXCEPT ![p.thread] = Append(@, p.text)]
      BY <2>1, PostTypes DEF AcceptReply, AcceptMedia, Accept
    <3>2. p.text \in Messages
      BY <3>1, PostTypes DEF Messages
    <3>3. logged' \in [Threads -> Seq(Messages)]
      BY <3>1, <3>2, AppendedTo
    <3>4. posts' \subseteq ReplyPosts \cup ReadPosts
      BY <3>1, PostTypes DEF ReplyBack
    <3>5. QED
      BY <2>1, <3>3, <3>4 DEF AcceptReply, AcceptMedia, Accept
  <2>2. CASE Refuse(p)
    <3>1. posts' \subseteq ReplyPosts \cup ReadPosts
      BY <2>2, PostTypes DEF Refuse, ReplyBack
    <3>2. QED
      BY <2>2, <3>1 DEF Refuse, ThreadFault
  <2>3. CASE MarkRead(p)
    BY <2>3 DEF MarkRead
  <2>4. CASE ReplyAnswered(p)
    <3>1. open # None => Page(open) \subseteq Messages /\ open \in Threads
      BY PageTypes
    <3>2. polls' \in [Threads -> SUBSET SUBSET Messages]
      <4>1. CASE open = None
        BY <2>4, <4>1 DEF ReplyAnswered
      <4>2. CASE open # None
        <5>1. polls' = [polls EXCEPT ![open] = {Page(open)}]
          BY <2>4, <4>2 DEF ReplyAnswered, Ask
        <5>2. {Page(open)} \in SUBSET SUBSET Messages
          BY <3>1, <4>2
        <5>3. QED
          BY <5>1, <5>2
      <4>3. QED
        BY <4>1, <4>2
    <3>3. QED
      BY <2>4, <3>2 DEF ReplyAnswered
  <2>5. CASE ConnectionLost(p)
    BY <2>5 DEF ConnectionLost, ThreadFault
  <2>6. QED
    BY <1>9, <2>1, <2>2, <2>3, <2>4, <2>5 DEF PostStep
<1>10. ASSUME NEW k \in Threads, NEW m \in Incoming, Arrive(k, m) PROVE ThreadTypeOK'
  <2>1. logged' \in [Threads -> Seq(Messages)]
    BY <1>10, AppendedTo DEF Arrive, Messages
  <2>2. QED
    BY <1>10, <2>1 DEF Arrive
<1>11. CASE UNCHANGED threadVars
  BY <1>11 DEF threadVars
<1>12. QED
  BY <1>1, <1>2, <1>3, <1>4, <1>5, <1>6, <1>7, <1>8, <1>9, <1>10, <1>11
     DEF ThreadNext, ComposeStep, PostStep

\* The page and what it shows of the server keep their types.
THEOREM ThreadTypeCorrect == ThreadSpec => []ThreadTypeOK
BY ThreadTypeInit, ThreadTypeStep, PTL DEF ThreadSpec

-----------------------------------------------------------------------------
(* A thread shows its own conversation. Inductive: an answer is taken from *)
(* the log when it is asked for, and nothing is taken out of the log.      *)

LEMMA LoggedGrows ==
    ThreadTypeOK /\ [ThreadNext]_threadVars
        => \A k \in Threads : Logged(k) \subseteq Logged(k)'
<1> SUFFICES ASSUME ThreadTypeOK, [ThreadNext]_threadVars
             PROVE  \A k \in Threads : Logged(k) \subseteq Logged(k)'
    OBVIOUS
<1>1. ASSUME NEW p \in posts, AcceptReply(p) \/ AcceptMedia(p)
      PROVE  \A k \in Threads : Logged(k) \subseteq Logged(k)'
  <2>1. p.thread \in Threads /\ p.text \in Messages
        /\ logged' = [logged EXCEPT ![p.thread] = Append(@, p.text)]
    BY <1>1, PostTypes DEF AcceptReply, AcceptMedia, Accept, Messages
  <2>2. QED
    BY <2>1, AppendedTo
<1>2. ASSUME NEW k \in Threads, NEW m \in Incoming, Arrive(k, m)
      PROVE  \A l \in Threads : Logged(l) \subseteq Logged(l)'
  BY <1>2, AppendedTo DEF Arrive, Messages
<1>3. ASSUME logged' = logged
      PROVE  \A k \in Threads : Logged(k) \subseteq Logged(k)'
  BY <1>3 DEF Logged
<1>4. QED
  BY <1>1, <1>2, <1>3
     DEF ThreadNext, threadVars, SelectChat, ThreadAnswered, ThreadRefused, TypeReply, AttachFile,
         ChooseDevice, Reply, PollThread, PollConversations, Refuse, MarkRead, ReplyAnswered,
         ConnectionLost, serverVars

LEMMA ShowsItsOwnStep ==
    ThreadTypeOK /\ ThreadShowsItsOwn /\ [ThreadNext]_threadVars => ThreadShowsItsOwn'
<1> SUFFICES ASSUME ThreadTypeOK, ThreadShowsItsOwn, [ThreadNext]_threadVars
             PROVE  ThreadShowsItsOwn'
    OBVIOUS
<1>1. \A k \in Threads : Logged(k) \subseteq Logged(k)'
  BY LoggedGrows
<1>2. ASSUME NEW k \in Threads,
             polls'[k] \cup {shown'[k]} \subseteq polls[k] \cup {shown[k], {}, Page(k)}
      PROVE  \A s \in polls'[k] \cup {shown'[k]} : s \subseteq Logged(k)'
  BY <1>1, <1>2, PageTypes DEF ThreadShowsItsOwn
<1>3. \A k \in Threads :
        polls'[k] \cup {shown'[k]} \subseteq polls[k] \cup {shown[k], {}, Page(k)}
  <2> USE DEF ThreadTypeOK, cacheVars
  <2>1. ASSUME NEW l \in Threads, SelectChat(l) \/ (\E m \in Incoming : Arrive(l, m))
        PROVE  UNCHANGED <<polls, shown>>
    BY <2>1 DEF SelectChat, Arrive
  <2>2. ASSUME NEW l \in Threads, ThreadAnswered(l) \/ ThreadRefused(l), NEW k \in Threads
        PROVE  polls'[k] \cup {shown'[k]} \subseteq polls[k] \cup {shown[k], {}, Page(k)}
    BY <2>2 DEF ThreadAnswered, ThreadRefused, Settle
  <2>3. ASSUME NEW t \in Replies, ComposeStep(t)
        PROVE  UNCHANGED <<polls, shown>>
    BY <2>3 DEF ComposeStep, TypeReply, AttachFile
  <2>4. CASE ChooseDevice \/ Reply \/ PollConversations
    BY <2>4 DEF ChooseDevice, Reply, PollConversations
  <2>5. CASE PollThread
    BY <2>5 DEF PollThread, Ask
  <2>6. ASSUME NEW p \in posts, PostStep(p), ~ ReplyAnswered(p)
        PROVE  UNCHANGED <<polls, shown>>
    BY <2>6 DEF PostStep, AcceptReply, AcceptMedia, Accept, Refuse, MarkRead, ConnectionLost
  <2>7. ASSUME NEW p \in posts, ReplyAnswered(p), NEW k \in Threads
        PROVE  polls'[k] \cup {shown'[k]} \subseteq polls[k] \cup {shown[k], {}, Page(k)}
    BY <2>7 DEF ReplyAnswered, Ask
  <2>8. CASE UNCHANGED threadVars
    BY <2>8 DEF threadVars
  <2>9. QED
    BY <2>1, <2>2, <2>3, <2>4, <2>5, <2>6, <2>7, <2>8 DEF ThreadNext, ComposeStep, PostStep
<1>4. QED
  BY <1>2, <1>3 DEF ThreadShowsItsOwn

\* However clicks and late answers interleave, a thread shows messages of its own
\* conversation only (message-thread.tsx:37-45).
THEOREM ThreadShowsItsOwnCorrect == ThreadSpec => []ThreadShowsItsOwn
<1>1. ThreadInit => ThreadShowsItsOwn
  BY DEF ThreadInit, ThreadShowsItsOwn
<1>2. QED
  BY <1>1, ThreadTypeCorrect, ShowsItsOwnStep, PTL DEF ThreadSpec

-----------------------------------------------------------------------------
(* A draft is logged at most once. What makes this inductive is the way of *)
(* a draft: in the box it was never posted, posted it is in one request,   *)
(* and while that is out it is not in any log.                             *)

InBox(t) == t \in {compose.text, compose.file}
IsReply(p) == p.via # "read"

BoxIsUnsent ==
    /\ \A t \in Replies : InBox(t) => sent[t] = 0
    /\ compose.text = compose.file => compose.text = None

PostsDiffer ==
    \A p, q \in posts : IsReply(p) /\ IsReply(q) /\ p.text = q.text => p = q

PostsAreSent ==
    \A p \in posts : IsReply(p) =>
        /\ sent[p.text] # 0
        /\ p.stage = "out" => \A k \in Threads : p.text \notin Logged(k)

LogIsSent == \A t \in Replies, k \in Threads : t \in Logged(k) => sent[t] # 0

WayInv == BoxIsUnsent /\ PostsDiffer /\ PostsAreSent /\ LogIsSent /\ LoggedOnce

LEMMA AppendOnce ==
    ASSUME ThreadTypeOK, LoggedOnce, NEW k \in Threads, NEW m \in Messages,
           \A l \in Threads : m \notin Logged(l),
           logged' = [logged EXCEPT ![k] = Append(@, m)]
    PROVE  LoggedOnce'
<1>1. logged[k] \in Seq(Messages)
  BY DEF ThreadTypeOK
<1>2. \A l \in Threads : \A i \in DOMAIN logged[l] : logged[l][i] # m
  BY DEF Logged
<1>3. logged'[k] = Append(logged[k], m) /\ \A l \in Threads \ {k} : logged'[l] = logged[l]
  BY DEF ThreadTypeOK
<1>4. /\ DOMAIN logged'[k] = DOMAIN logged[k] \cup {Len(logged[k]) + 1}
      /\ \A i \in DOMAIN logged[k] : logged'[k][i] = logged[k][i]
      /\ logged'[k][Len(logged[k]) + 1] = m
  BY <1>1, <1>3, AppendFacts
<1>5. SUFFICES ASSUME NEW a \in Threads, NEW b \in Threads,
                      NEW i \in DOMAIN logged'[a], NEW j \in DOMAIN logged'[b],
                      logged'[a][i] = logged'[b][j]
               PROVE  a = b /\ i = j
  BY DEF LoggedOnce
<1> DEFINE Last(l, n) == l = k /\ n = Len(logged[k]) + 1
<1>6. \A l \in Threads : \A n \in DOMAIN logged'[l] :
        Last(l, n) \/ (n \in DOMAIN logged[l] /\ logged'[l][n] = logged[l][n])
  BY <1>3, <1>4
<1>7. CASE Last(a, i) /\ Last(b, j)
  BY <1>7
<1>8. CASE Last(a, i) /\ ~ Last(b, j)
  BY <1>8, <1>2, <1>4, <1>5, <1>6
<1>9. CASE ~ Last(a, i) /\ Last(b, j)
  BY <1>9, <1>2, <1>4, <1>5, <1>6
<1>10. CASE ~ Last(a, i) /\ ~ Last(b, j)
  BY <1>10, <1>5, <1>6 DEF LoggedOnce
<1>11. QED
  BY <1>7, <1>8, <1>9, <1>10

LEMMA WayInit == ThreadInit => WayInv
<1> SUFFICES ASSUME ThreadInit PROVE WayInv
    OBVIOUS
<1>1. \A k \in Threads : Logged(k) = {} /\ DOMAIN logged[k] = {}
  BY DEF ThreadInit, Logged
<1>2. QED
  BY <1>1 DEF ThreadInit, EmptyBox, WayInv, BoxIsUnsent, InBox, PostsDiffer, PostsAreSent,
              LogIsSent, LoggedOnce

\* Nothing changes for the drafts: requests may only disappear, and the box lose
\* what is in it.
LEMMA WayKept ==
    ASSUME ThreadTypeOK, WayInv, logged' = logged, sent' = sent,
           \A p \in posts' : IsReply(p) =>
                \E q \in posts : /\ IsReply(q) /\ p.text = q.text
                                 /\ (p = q \/ (p.stage = "back" /\ q \notin posts')),
           \A p, q \in posts' : IsReply(p) /\ IsReply(q) /\ p.text = q.text => p = q,
           compose' = compose \/ compose' = EmptyBox
    PROVE  WayInv'
<1>1. \A k \in Threads : Logged(k)' = Logged(k)
  BY DEF Logged
<1>2. BoxIsUnsent'
  BY DEF WayInv, BoxIsUnsent, InBox, EmptyBox
<1>3. PostsDiffer' /\ LogIsSent' /\ LoggedOnce'
  BY <1>1 DEF WayInv, PostsDiffer, LogIsSent, LoggedOnce, IsReply
<1>4. ASSUME NEW p \in posts', IsReply(p)
      PROVE  /\ sent'[p.text] # 0
             /\ p.stage = "out" => \A k \in Threads : p.text \notin Logged(k)'
  <2>1. PICK q \in posts : /\ IsReply(q) /\ p.text = q.text
                           /\ (p = q \/ (p.stage = "back" /\ q \notin posts'))
    BY <1>4
  <2>2. /\ sent[q.text] # 0
        /\ q.stage = "out" => \A k \in Threads : q.text \notin Logged(k)
    BY <2>1 DEF WayInv, PostsAreSent
  <2>3. sent'[p.text] # 0
    BY <2>1, <2>2
  <2>4. ASSUME p.stage = "out", NEW k \in Threads
        PROVE  p.text \notin Logged(k)'
    BY <1>1, <2>1, <2>2, <2>4
  <2>5. QED
    BY <2>3, <2>4
<1>5. PostsAreSent'
  BY <1>4 DEF PostsAreSent, IsReply
<1>6. QED
  BY <1>2, <1>3, <1>5 DEF WayInv

LEMMA WayStep == ThreadTypeOK /\ WayInv /\ [ThreadNext]_threadVars => WayInv'
<1> SUFFICES ASSUME ThreadTypeOK, WayInv, [ThreadNext]_threadVars
             PROVE  WayInv'
    OBVIOUS
<1> USE DEF pageVars, cacheVars, serverVars, IsReply
<1>1. ASSUME logged' = logged, sent' = sent, compose' = compose \/ compose' = EmptyBox,
             \A p \in posts' : IsReply(p) => p \in posts
      PROVE  WayInv'
  BY <1>1, WayKept DEF WayInv, PostsDiffer
<1>2. ASSUME NEW k \in Threads, SelectChat(k) \/ ThreadAnswered(k) \/ ThreadRefused(k)
      PROVE  WayInv'
  BY <1>1, <1>2 DEF SelectChat, ThreadAnswered, ThreadRefused
<1>3. CASE ChooseDevice \/ PollThread \/ PollConversations \/ UNCHANGED threadVars
  BY <1>1, <1>3 DEF ChooseDevice, PollThread, PollConversations, threadVars
<1>4. ASSUME NEW p \in posts, MarkRead(p) \/ ReplyAnswered(p) \/ ConnectionLost(p)
      PROVE  WayInv'
  BY <1>1, <1>4 DEF MarkRead, ReplyAnswered, ConnectionLost
<1>5. ASSUME NEW p \in posts, Refuse(p) PROVE WayInv'
  <2> DEFINE back == [p EXCEPT !.stage = "back"]
  <2>1. IsReply(p) /\ posts' = (posts \ {p}) \cup {back}
    BY <1>5 DEF Refuse, ReplyBack
  <2>2. back.text = p.text /\ back.stage = "back" /\ p.stage = "out"
    BY <1>5, <2>1, PostTypes DEF ReplyPosts, Refuse
  <2> HIDE DEF back
  <2>3. \A q, r \in posts' : IsReply(q) /\ IsReply(r) /\ q.text = r.text => q = r
    BY <2>1, <2>2 DEF WayInv, PostsDiffer
  <2>4. p \notin posts'
    BY <2>1, <2>2
  <2>5. logged' = logged /\ sent' = sent /\ compose' = compose
    BY <1>5 DEF Refuse
  <2>6. QED
    BY <2>1, <2>2, <2>3, <2>4, <2>5, WayKept
<1>6. ASSUME NEW t \in Replies, ComposeStep(t) PROVE WayInv'
  <2>1. /\ posts' = posts /\ logged' = logged /\ sent' = sent
        /\ compose' \in {[compose EXCEPT !.text = t], [compose EXCEPT !.file = t]}
        /\ t \notin Written
    BY <1>6 DEF ComposeStep, TypeReply, AttachFile, Fresh
  <2>2. sent[t] = 0 /\ t # compose.text /\ t # compose.file /\ t # None
    BY <2>1 DEF Written, ThreadTypeOK
  <2>3. BoxIsUnsent'
    BY <2>1, <2>2 DEF WayInv, BoxIsUnsent, InBox, ThreadTypeOK
  <2>4. \A k \in Threads : Logged(k)' = Logged(k)
    BY <2>1 DEF Logged
  <2>5. PostsDiffer' /\ PostsAreSent' /\ LogIsSent' /\ LoggedOnce'
    BY <2>1, <2>4 DEF WayInv, PostsDiffer, PostsAreSent, LogIsSent, LoggedOnce
  <2>6. QED
    BY <2>3, <2>5 DEF WayInv
<1>7. CASE Reply
  <2> DEFINE t == Submitted.text
             post == [via |-> Submitted.via, thread |-> open, text |-> t, stage |-> "out"]
  <2>1. /\ posts' = posts \cup {post} /\ logged' = logged
        /\ sent' = [sent EXCEPT ![t] = @ + 1] /\ compose' = Emptied
        /\ t \in Replies /\ InBox(t)
    BY <1>7 DEF Reply, Submitted, ThreadTypeOK, InBox
  <2>2. sent[t] = 0
    BY <2>1 DEF WayInv, BoxIsUnsent
  <2>3. \A k \in Threads : Logged(k)' = Logged(k) /\ t \notin Logged(k)
    BY <2>1, <2>2 DEF Logged, WayInv, LogIsSent
  <2>4. \A p \in posts : IsReply(p) => p.text # t /\ p.text \in Replies
    BY <2>2, PostTypes DEF WayInv, PostsAreSent
  <2>5. \A u \in Replies : sent'[u] = IF u = t THEN 1 ELSE sent[u]
    BY <2>1, <2>2 DEF ThreadTypeOK
  <2>6. BoxIsUnsent'
    <3>1. \A u \in Replies : InBox(u)' => InBox(u) /\ u # t
      BY <2>1 DEF WayInv, BoxIsUnsent, InBox, Emptied, Submitted, ThreadTypeOK
    <3>2. compose'.text = compose'.file => compose'.text = None
      BY <2>1 DEF WayInv, BoxIsUnsent, Emptied, ThreadTypeOK
    <3>3. QED
      BY <3>1, <3>2, <2>5 DEF WayInv, BoxIsUnsent
  <2>7. PostsDiffer'
    BY <2>1, <2>4 DEF WayInv, PostsDiffer
  <2>8. PostsAreSent'
    BY <2>1, <2>3, <2>4, <2>5 DEF WayInv, PostsAreSent
  <2>9. LogIsSent' /\ LoggedOnce'
    BY <2>1, <2>3, <2>5 DEF WayInv, LogIsSent, LoggedOnce
  <2>10. QED
    BY <2>6, <2>7, <2>8, <2>9 DEF WayInv
<1>8. ASSUME NEW p \in posts, AcceptReply(p) \/ AcceptMedia(p) PROVE WayInv'
  <2> DEFINE back == [p EXCEPT !.stage = "back"]
  <2>1. /\ IsReply(p) /\ p.stage = "out" /\ posts' = (posts \ {p}) \cup {back}
        /\ logged' = [logged EXCEPT ![p.thread] = Append(@, p.text)]
        /\ sent' = sent /\ compose' = compose
    BY <1>8 DEF AcceptReply, AcceptMedia, Accept, ReplyBack
  <2>2. p.text \in Replies /\ p.thread \in Threads /\ back.text = p.text /\ back.stage = "back"
    BY <2>1, PostTypes DEF ReplyPosts
  <2> HIDE DEF back
  <2>3. \A k \in Threads : p.text \notin Logged(k)
    BY <2>1 DEF WayInv, PostsAreSent
  <2>4. \A k \in Threads :
            Logged(k)' = IF k = p.thread THEN Logged(k) \cup {p.text} ELSE Logged(k)
    BY <2>1, <2>2, AppendedTo DEF Messages
  <2>5. LoggedOnce'
    BY <2>1, <2>2, <2>3, AppendOnce DEF WayInv, Messages
  <2>6. BoxIsUnsent'
    BY <2>1 DEF WayInv, BoxIsUnsent, InBox
  <2>7. PostsDiffer'
    BY <2>1, <2>2 DEF WayInv, PostsDiffer
  <2>8. LogIsSent'
    BY <2>1, <2>4 DEF WayInv, LogIsSent, PostsAreSent
  <2>9. PostsAreSent'
    <3>1. \A q \in posts' : q = back \/ (q \in posts /\ (IsReply(q) => q.text # p.text))
      BY <2>1 DEF WayInv, PostsDiffer
    <3>2. sent'[back.text] # 0 /\ back.stage # "out"
      BY <2>1, <2>2 DEF WayInv, PostsAreSent
    <3>3. QED
      BY <2>1, <2>4, <3>1, <3>2 DEF WayInv, PostsAreSent
  <2>10. QED
    BY <2>5, <2>6, <2>7, <2>8, <2>9 DEF WayInv
<1>9. ASSUME NEW k \in Threads, NEW m \in Incoming, Arrive(k, m) PROVE WayInv'
  <2>1. /\ logged' = [logged EXCEPT ![k] = Append(@, m)]
        /\ posts' = posts /\ sent' = sent /\ compose' = compose
        /\ m \notin Written /\ m \in Messages /\ m \notin Replies
    BY <1>9 DEF Arrive, Messages
  <2>2. \A l \in Threads : m \notin Logged(l)
    BY <2>1 DEF Written
  <2>3. \A l \in Threads : Logged(l)' = IF l = k THEN Logged(l) \cup {m} ELSE Logged(l)
    BY <2>1, AppendedTo
  <2>4. LoggedOnce'
    BY <2>1, <2>2, AppendOnce DEF WayInv
  <2>5. BoxIsUnsent' /\ PostsDiffer'
    BY <2>1 DEF WayInv, BoxIsUnsent, InBox, PostsDiffer
  <2>6. LogIsSent'
    BY <2>1, <2>3 DEF WayInv, LogIsSent
  <2>7. PostsAreSent'
    <3>1. \A p \in posts : IsReply(p) => p.text # m
      BY <2>1, PostTypes
    <3>2. QED
      BY <2>1, <2>3, <3>1 DEF WayInv, PostsAreSent
  <2>8. QED
    BY <2>4, <2>5, <2>6, <2>7 DEF WayInv
<1>10. QED
  BY <1>2, <1>3, <1>4, <1>5, <1>6, <1>7, <1>8, <1>9 DEF ThreadNext, ComposeStep

\* What the user submits once is in the log at most once, in at most one
\* conversation (compose-box.tsx:62-79).
THEOREM LoggedOnceCorrect == ThreadSpec => []LoggedOnce
<1>1. WayInv => LoggedOnce
  BY DEF WayInv
<1>2. QED
  BY <1>1, ThreadTypeCorrect, WayInit, WayStep, PTL DEF ThreadSpec
=============================================================================
