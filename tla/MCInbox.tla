------------------------------ MODULE MCInbox ------------------------------
(* Small inboxes for TLC.                                                  *)
EXTENDS Inbox

CONSTANTS c1, m1, m2, m3, m4

\* Two texts of a contact, a media message of ours and one of our phone, all
\* in one chat.
MCOneChat == [m \in Messages |-> c1]
MCBusyOrigin == [m \in Messages |->
    CASE m = m1 -> "contact" [] m = m2 -> "contact" [] m = m3 -> "handler"
      [] m = m4 -> "phone"]
MCBusyKind == [m \in Messages |-> IF m = m3 THEN "media" ELSE "text"]

\* Three messages of a contact, one of each kind the code gives a row or means
\* to; content of other kinds is dropped like an event that is switched off.
MCKindsOrigin == [m \in Messages |-> "contact"]
MCKindsKind == [m \in Messages |->
    CASE m = m1 -> "text" [] m = m2 -> "media" [] m = m3 -> "audio"]

\* A voice message and a text, both ours.
MCVoiceOrigin == [m \in Messages |-> "handler"]
MCVoiceKind == [m \in Messages |-> IF m = m1 THEN "audio" ELSE "text"]
=============================================================================
