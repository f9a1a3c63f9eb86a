--------------------------- MODULE NewMessagePage --------------------------
(***************************************************************************)
(* The new-message dialog of the inbox page, with what it shares with the  *)
(* page: the selected device and the open conversation. The dialog stays   *)
(* mounted while it is closed, so its form and a send under way outlive it.*)
(***************************************************************************)
EXTENDS Browser

CONSTANTS
    InboxDevices, \* the devices the page was rendered with
    Recipients,   \* JIDs to write to, on every device
    Drafts,       \* message texts, each written once
    MaxPresses    \* bound: how often the form may be submitted

ASSUME NewMessageAssumption ==
    /\ InboxDevices # {}
    /\ None \notin InboxDevices \cup Recipients \cup Drafts
    /\ MaxPresses \in Nat

VARIABLES
    inbox,    \* selectedDeviceId, selectedChatJid; history: the chat's device
    dialog,   \* showNewMessage and sending
    form,     \* the recipient, messageText and scheduledAt
    mail,     \* the dialog's requests in flight
    pressed,  \* history: the texts submitted, in order
    accepted, \* which of these requests the server has taken
    overlaps, \* history: "typed" or "device" or "keys" while a send was under
              \* way, a connection "lost"
    mailFaults

mailVars == <<inbox, dialog, form, mail, pressed, accepted, overlaps, mailFaults>>

Mail == [n : 1..MaxPresses, to : Recipients, device : InboxDevices,
         later : BOOLEAN, stage : {"out", "back"}]

MailTypeOK ==
    /\ inbox \in [device : InboxDevices, chat : Recipients \cup {None}, owner : InboxDevices]
    /\ dialog \in [open : BOOLEAN, sending : BOOLEAN]
    /\ form \in [to : Recipients \cup {None}, text : Drafts \cup {None}, later : BOOLEAN]
    /\ mail \subseteq Mail
    /\ pressed \in Seq(Drafts) /\ Len(pressed) <= MaxPresses
    /\ accepted \subseteq 1..MaxPresses
    /\ overlaps \subseteq {"typed", "device", "keys", "lost"}
    /\ mailFaults \in 0..MaxFaults

EmptyForm == [to |-> None, text |-> None, later |-> FALSE]

MailInit ==
    /\ \E d \in InboxDevices : inbox = [device |-> d, chat |-> None, owner |-> d]
    /\ dialog = [open |-> FALSE, sending |-> FALSE]
    /\ form = EmptyForm
    /\ mail = {}
    /\ pressed = <<>>
    /\ accepted = {}
    /\ overlaps = {}
    /\ mailFaults = 0

MailFault == mailFaults < MaxFaults /\ mailFaults' = mailFaults + 1

Sending(what) == IF mail # {} THEN overlaps \cup {what} ELSE overlaps

-----------------------------------------------------------------------------
(* Faulty variants of definitions below.                                   *)

\* The form is reset when the request is sent.
AfterPressCleared == EmptyForm

\* The button is only disabled while the form is incomplete.
ButtonAlways == TRUE

\* Changing the device leaves the conversation open.
ElsewhereOpen(d) == [inbox EXCEPT !.device = d]

-----------------------------------------------------------------------------
(* The page behind the dialog: the sheet is modal.                         *)

Elsewhere(d) == [device |-> d, chat |-> None, owner |-> d]

PickDevice(d) ==
    /\ ~ dialog.open
    /\ d # inbox.device
    /\ inbox' = Elsewhere(d)
    /\ overlaps' = Sending("device")
    /\ UNCHANGED <<dialog, form, mail, accepted, pressed, mailFaults>>

PickChat(c) ==
    /\ ~ dialog.open
    /\ c # inbox.chat
    /\ inbox' = [inbox EXCEPT !.chat = c, !.owner = inbox.device]
    /\ UNCHANGED <<dialog, form, mail, accepted, pressed, overlaps, mailFaults>>

OpenDialog ==
    /\ ~ dialog.open
    /\ dialog' = [dialog EXCEPT !.open = TRUE]
    /\ UNCHANGED <<inbox, form, mail, accepted, pressed, overlaps, mailFaults>>

\* Cancel, or a click beside the sheet: only the pickers are reset.
CloseDialog ==
    /\ dialog.open
    /\ dialog' = [dialog EXCEPT !.open = FALSE]
    /\ UNCHANGED <<inbox, form, mail, accepted, pressed, overlaps, mailFaults>>

-----------------------------------------------------------------------------
(* The form.                                                               *)

Edit(new) ==
    /\ dialog.open
    /\ form' = new
    /\ form' # form
    /\ overlaps' = Sending("typed")
    /\ UNCHANGED <<inbox, dialog, mail, accepted, pressed, mailFaults>>

\* A contact picked from the list, or a number typed.
ChooseRecipient(c) == Edit([form EXCEPT !.to = c])

\* The cross beside the contact, or the "Phone" button.
ClearRecipient == Edit([form EXCEPT !.to = None])

\* The text area, a template, and the date: enabled while a send is under way.
Write(t, later) ==
    /\ \A n \in DOMAIN pressed : pressed[n] # t
    /\ Edit([form EXCEPT !.text = t, !.later = later])

-----------------------------------------------------------------------------
(* Sending.                                                                *)

\* What is left in the form while the answer is due.
AfterPress == form

\* handleSend and handleSendNewMessage up to the request.
Submit ==
    /\ dialog.open
    /\ form.to # None /\ form.text # None
    /\ Len(pressed) < MaxPresses
    /\ pressed' = Append(pressed, form.text)
    /\ mail' = mail \cup {[n |-> Len(pressed) + 1, to |-> form.to, device |-> inbox.device,
                           later |-> form.later, stage |-> "out"]}
    /\ dialog' = [dialog EXCEPT !.sending = TRUE]
    /\ form' = AfterPress
    /\ UNCHANGED <<inbox, accepted, mailFaults>>

\* The button is disabled while a message is being sent; Ctrl+Enter is not.
ButtonEnabled == ~ dialog.sending

PressSend      == ButtonEnabled /\ Submit /\ UNCHANGED overlaps
PressCtrlEnter == Submit /\ overlaps' = Sending("keys")

MailBack(p) == mail' = (mail \ {p}) \cup {[p EXCEPT !.stage = "back"]}

\* threads/send: sent at once and logged.
AcceptNew(p) ==
    /\ p \in mail /\ p.stage = "out" /\ ~ p.later
    /\ MailBack(p)
    /\ accepted' = accepted \cup {p.n}
    /\ UNCHANGED <<inbox, dialog, form, pressed, overlaps, mailFaults>>

\* threads/schedule: made a job of.
AcceptLater(p) ==
    /\ p \in mail /\ p.stage = "out" /\ p.later
    /\ MailBack(p)
    /\ accepted' = accepted \cup {p.n}
    /\ UNCHANGED <<inbox, dialog, form, pressed, overlaps, mailFaults>>

\* An error status is an answer like any other: fetch does not throw.
RefuseMail(p) ==
    /\ p \in mail /\ p.stage = "out"
    /\ MailFault
    /\ MailBack(p)
    /\ UNCHANGED <<inbox, dialog, form, accepted, pressed, overlaps>>

\* The chat that was written to is opened on whatever device is selected by
\* now, and the form is reset and closed, whatever is in it by now.
MailAnswered(p) ==
    /\ p \in mail /\ p.stage = "back"
    /\ mail' = mail \ {p}
    /\ inbox' = [inbox EXCEPT !.chat = p.to, !.owner = p.device]
    /\ form' = EmptyForm
    /\ dialog' = [open |-> FALSE, sending |-> FALSE]
    /\ UNCHANGED <<accepted, pressed, overlaps, mailFaults>>

\* fetch throws: the form is kept, and may be sent again although the server
\* has taken it.
MailLost(p) ==
    /\ p \in mail
    /\ MailFault
    /\ mail' = mail \ {p}
    /\ dialog' = [dialog EXCEPT !.sending = FALSE]
    /\ overlaps' = overlaps \cup {"lost"}
    /\ UNCHANGED <<inbox, form, accepted, pressed>>
-----------------------------------------------------------------------------

MailNext ==
    \/ \E d \in InboxDevices : PickDevice(d)
    \/ \E c \in Recipients : PickChat(c) \/ ChooseRecipient(c)
    \/ \E t \in Drafts, later \in BOOLEAN : Write(t, later)
    \/ OpenDialog \/ CloseDialog \/ ClearRecipient
    \/ PressSend \/ PressCtrlEnter
    \/ \E p \in mail : \/ AcceptNew(p) \/ AcceptLater(p) \/ RefuseMail(p)
                       \/ MailAnswered(p) \/ MailLost(p)

MailSpec == MailInit /\ [][MailNext]_mailVars

-----------------------------------------------------------------------------
(* Safety. Each property names the overlap the code has no answer to.      *)

\* The server takes what was written once at most once, unless Ctrl+Enter is
\* pressed while the button is disabled or a lost answer makes the user send
\* again (new-message-dialog.tsx:145-161, 186-189, 480).
TakenOnce ==
    \A m, n \in accepted :
        pressed[m] = pressed[n] => m = n \/ {"keys", "lost"} \cap overlaps # {}

\* The conversation that is open was opened on the device that is selected, so
\* that a reply leaves from the device its thread is shown for, unless the
\* device was changed under a send (inbox-client.tsx:49-65, 111).
ChatIsOfDevice ==
    inbox.chat # None => inbox.owner = inbox.device \/ "device" \in overlaps

\* A text leaves the form only when the answer to its own submission comes:
\* not with a lost connection, not by closing the dialog; unless it was typed
\* under an earlier send, whose answer clears it (new-message-dialog.tsx:145-161).
OnlyAnsweredIsCleared ==
    [][form.text # None /\ form'.text = None
        => \/ \E p \in mail \ mail' : pressed[p.n] = form.text /\ p.stage = "back"
           \/ "typed" \in overlaps]_mailVars
=============================================================================
