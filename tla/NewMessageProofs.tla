-------------------------- MODULE NewMessageProofs --------------------------
(* Proofs of the safety of the new-message dialog for any devices,         *)
(* recipients, texts and lost answers.                                     *)
EXTENDS NewMessagePage, TLAPS

USE BrowserAssumption, NewMessageAssumption

EditStep ==
    \/ \E c \in Recipients : ChooseRecipient(c)
    \/ \E t \in Drafts, later \in BOOLEAN : Write(t, later)
    \/ ClearRecipient

PageStep ==
    \/ \E d \in InboxDevices : PickDevice(d)
    \/ \E c \in Recipients : PickChat(c)
    \/ OpenDialog \/ CloseDialog

\* What the server does with a request.
ServerStep(p) == AcceptNew(p) \/ AcceptLater(p) \/ RefuseMail(p)

LEMMA MailNextByPart ==
    MailNext <=>
        \/ PageStep \/ EditStep \/ PressSend \/ PressCtrlEnter
        \/ \E p \in mail : ServerStep(p) \/ MailAnswered(p) \/ MailLost(p)
BY DEF MailNext, PageStep, EditStep, ServerStep

\* An edit leaves the text as it is, or makes it one that was never submitted.
LEMMA EditFacts ==
    ASSUME MailTypeOK, EditStep
    PROVE  /\ form' \in [to : Recipients \cup {None}, text : Drafts \cup {None}, later : BOOLEAN]
           /\ \/ form'.text = form.text
              \/ form'.text \in Drafts /\ \A n \in DOMAIN pressed : pressed[n] # form'.text
           /\ overlaps' = Sending("typed")
           /\ UNCHANGED <<inbox, dialog, mail, accepted, pressed, mailFaults>>
<1> USE DEF Edit
<1>0. form \in [to : Recipients \cup {None}, text : Drafts \cup {None}, later : BOOLEAN]
  BY DEF MailTypeOK
<1>1. ASSUME NEW c \in Recipients, ChooseRecipient(c)
      PROVE  form' \in [to : Recipients \cup {None}, text : Drafts \cup {None}, later : BOOLEAN]
             /\ form'.text = form.text
  BY <1>0, <1>1 DEF ChooseRecipient
<1>2. ASSUME NEW t \in Drafts, NEW later \in BOOLEAN, Write(t, later)
      PROVE  /\ form' \in [to : Recipients \cup {None}, text : Drafts \cup {None}, later : BOOLEAN]
             /\ form'.text \in Drafts
             /\ \A n \in DOMAIN pressed : pressed[n] # form'.text
  BY <1>0, <1>2 DEF Write
<1>3. ASSUME ClearRecipient
      PROVE  form' \in [to : Recipients \cup {None}, text : Drafts \cup {None}, later : BOOLEAN]
             /\ form'.text = form.text
  BY <1>0, <1>3 DEF ClearRecipient
<1>4. /\ overlaps' = Sending("typed")
      /\ UNCHANGED <<inbox, dialog, mail, accepted, pressed, mailFaults>>
  BY DEF EditStep, ChooseRecipient, Write, ClearRecipient
<1>5. QED
  BY <1>1, <1>2, <1>3, <1>4 DEF EditStep

\* The request a submission makes.
Posted ==
    [n |-> Len(pressed) + 1, to |-> form.to, device |-> inbox.device,
     later |-> form.later, stage |-> "out"]

LEMMA SubmitFacts ==
    ASSUME MailTypeOK, Submit
    PROVE  /\ form.text \in Drafts
           /\ Len(pressed) < MaxPresses
           /\ pressed' = Append(pressed, form.text)
           /\ pressed' \in Seq(Drafts) /\ Len(pressed') = Len(pressed) + 1
           /\ DOMAIN pressed' = DOMAIN pressed \cup {Posted.n}
           /\ Posted.n \notin DOMAIN pressed
           /\ pressed'[Posted.n] = form.text
           /\ \A n \in DOMAIN pressed : pressed'[n] = pressed[n]
           /\ Posted \in Mail /\ Posted.device = inbox.device
           /\ mail' = mail \cup {Posted}
           /\ dialog' = [dialog EXCEPT !.sending = TRUE]
           /\ UNCHANGED <<inbox, form, accepted, mailFaults>>
<1>1. pressed \in Seq(Drafts) /\ form.text \in Drafts /\ form.to \in Recipients
      /\ form.later \in BOOLEAN /\ inbox.device \in InboxDevices
  BY DEF MailTypeOK, Submit
<1>2. Len(pressed) + 1 \in 1..MaxPresses
  BY <1>1 DEF Submit
<1>3. Posted \in Mail /\ Posted.n = Len(pressed) + 1 /\ Posted.device = inbox.device
  BY <1>1, <1>2 DEF Posted, Mail
<1>4. /\ Append(pressed, form.text) \in Seq(Drafts)
      /\ Len(Append(pressed, form.text)) = Len(pressed) + 1
      /\ DOMAIN Append(pressed, form.text) = DOMAIN pressed \cup {Len(pressed) + 1}
      /\ Len(pressed) + 1 \notin DOMAIN pressed
      /\ Append(pressed, form.text)[Len(pressed) + 1] = form.text
      /\ \A n \in DOMAIN pressed : Append(pressed, form.text)[n] = pressed[n]
  BY <1>1
<1>5. QED
  BY <1>1, <1>3, <1>4 DEF Submit, Posted, AfterPress

\* A request whose answer is on its way.
LEMMA MailBackFacts ==
    ASSUME MailTypeOK, NEW p \in mail
    PROVE  /\ [p EXCEPT !.stage = "back"] \in Mail
           /\ [p EXCEPT !.stage = "back"].n = p.n
           /\ [p EXCEPT !.stage = "back"].device = p.device
           /\ p.n \in 1..MaxPresses
           /\ p.to \in Recipients /\ p.device \in InboxDevices
BY DEF MailTypeOK, Mail

-----------------------------------------------------------------------------
(* Types.                                                                  *)

LEMMA MailTypeInit == MailInit => MailTypeOK
<1> SUFFICES ASSUME MailInit PROVE MailTypeOK
    OBVIOUS
<1>1. form \in [to : Recipients \cup {None}, text : Drafts \cup {None}, later : BOOLEAN]
  BY DEF MailInit, EmptyForm
<1>2. inbox \in [device : InboxDevices, chat : Recipients \cup {None}, owner : InboxDevices]
  BY DEF MailInit
<1>3. pressed \in Seq(Drafts) /\ Len(pressed) = 0
  BY DEF MailInit
<1>4. QED
  BY <1>1, <1>2, <1>3 DEF MailInit, MailTypeOK

LEMMA MailTypeStep == MailTypeOK /\ [MailNext]_mailVars => MailTypeOK'
<1> SUFFICES ASSUME MailTypeOK, [MailNext]_mailVars PROVE MailTypeOK'
    OBVIOUS
<1>0. /\ inbox \in [device : InboxDevices, chat : Recipients \cup {None}, owner : InboxDevices]
      /\ dialog \in [open : BOOLEAN, sending : BOOLEAN]
      /\ mail \subseteq Mail
      /\ pressed \in Seq(Drafts) /\ Len(pressed) <= MaxPresses
      /\ accepted \subseteq 1..MaxPresses
      /\ overlaps \subseteq {"typed", "device", "keys", "lost"}
      /\ mailFaults \in 0..MaxFaults
  BY DEF MailTypeOK
<1>01. \A w \in {"typed", "device", "keys"} :
          Sending(w) \subseteq {"typed", "device", "keys", "lost"}
  BY <1>0 DEF Sending
<1>1. CASE PageStep
  <2>1. ASSUME NEW d \in InboxDevices, PickDevice(d) PROVE MailTypeOK'
    BY <1>01, <2>1 DEF MailTypeOK, PickDevice, Elsewhere
  <2>2. ASSUME NEW c \in Recipients, PickChat(c) PROVE MailTypeOK'
    BY <2>2 DEF MailTypeOK, PickChat
  <2>3. ASSUME OpenDialog \/ CloseDialog PROVE MailTypeOK'
    BY <2>3 DEF MailTypeOK, OpenDialog, CloseDialog
  <2>4. QED
    BY <1>1, <2>1, <2>2, <2>3 DEF PageStep
<1>2. CASE EditStep
  BY <1>0, <1>01, <1>2, EditFacts DEF MailTypeOK
<1>3. CASE Submit /\ overlaps' \in {overlaps, Sending("keys")}
  <2>1. dialog' \in [open : BOOLEAN, sending : BOOLEAN]
    BY <1>0, <1>3, SubmitFacts
  <2>2. Len(pressed') <= MaxPresses
    BY <1>0, <1>3, SubmitFacts
  <2>3. QED
    BY <1>0, <1>01, <1>3, <2>1, <2>2, SubmitFacts DEF MailTypeOK
<1>4. ASSUME NEW p \in mail, ServerStep(p) PROVE MailTypeOK'
  <2>1. mail' \subseteq Mail
    BY <1>0, <1>4, MailBackFacts DEF ServerStep, AcceptNew, AcceptLater, RefuseMail, MailBack
  <2>2. accepted' \subseteq 1..MaxPresses
    <3>1. p.n \in 1..MaxPresses
      BY MailBackFacts
    <3>2. accepted' = accepted \/ accepted' = accepted \cup {p.n}
      BY <1>4 DEF ServerStep, AcceptNew, AcceptLater, RefuseMail
    <3>3. QED
      BY <1>0, <3>1, <3>2
  <2>3. mailFaults' \in 0..MaxFaults
    BY <1>0, <1>4 DEF ServerStep, AcceptNew, AcceptLater, RefuseMail, MailFault
  <2>4. QED
    BY <1>4, <2>1, <2>2, <2>3 DEF MailTypeOK, ServerStep, AcceptNew, AcceptLater, RefuseMail
<1>5. ASSUME NEW p \in mail, MailAnswered(p) PROVE MailTypeOK'
  <2>1. form' \in [to : Recipients \cup {None}, text : Drafts \cup {None}, later : BOOLEAN]
    BY <1>5 DEF MailAnswered, EmptyForm
  <2>2. inbox' \in [device : InboxDevices, chat : Recipients \cup {None}, owner : InboxDevices]
    BY <1>0, <1>5, MailBackFacts DEF MailAnswered
  <2>3. QED
    BY <1>0, <1>5, <2>1, <2>2 DEF MailTypeOK, MailAnswered
<1>6. ASSUME NEW p \in mail, MailLost(p) PROVE MailTypeOK'
  <2>1. mailFaults' \in 0..MaxFaults
    BY <1>0, <1>6 DEF MailLost, MailFault
  <2>2. dialog' \in [open : BOOLEAN, sending : BOOLEAN]
    BY <1>0, <1>6 DEF MailLost
  <2>3. QED
    BY <1>0, <1>6, <2>1, <2>2 DEF MailTypeOK, MailLost
<1>7. CASE UNCHANGED mailVars
  BY <1>7 DEF mailVars, MailTypeOK
<1>8. QED
  BY <1>1, <1>2, <1>3, <1>4, <1>5, <1>6, <1>7, MailNextByPart DEF PressSend, PressCtrlEnter

\* The page and the dialog keep their types.
THEOREM MailTypeCorrect == MailSpec => []MailTypeOK
BY MailTypeInit, MailTypeStep, PTL DEF MailSpec

-----------------------------------------------------------------------------
(* One submission is taken once. While neither a key is pressed nor an     *)
(* answer lost under a send, one request is under way at a time, no text   *)
(* was submitted twice, and between two sends the form holds another one.  *)

Calm == {"keys", "lost"} \cap overlaps = {}

OneIsSent ==
    Calm => /\ dialog.sending <=> mail # {}
            /\ \A p, q \in mail : p = q

FormIsNew == Calm /\ mail = {} => \A n \in DOMAIN pressed : pressed[n] # form.text

PressedOnce ==
    Calm => \A m, n \in DOMAIN pressed : pressed[m] = pressed[n] => m = n

TakenIsPressed ==
    accepted \subseteq DOMAIN pressed /\ \A p \in mail : p.n \in DOMAIN pressed

TakenInv == OneIsSent /\ FormIsNew /\ PressedOnce /\ TakenIsPressed

LEMMA TakenStep == MailTypeOK /\ TakenInv /\ [MailNext]_mailVars => TakenInv'
<1> SUFFICES ASSUME MailTypeOK, TakenInv, [MailNext]_mailVars PROVE TakenInv'
    OBVIOUS
<1> USE DEF TakenInv, OneIsSent, FormIsNew, PressedOnce, TakenIsPressed, Calm
<1>0. /\ dialog \in [open : BOOLEAN, sending : BOOLEAN]
      /\ form.text \in Drafts \cup {None}
      /\ pressed \in Seq(Drafts)
  BY DEF MailTypeOK
<1>1. CASE PageStep
  BY <1>0, <1>1 DEF PageStep, PickDevice, PickChat, OpenDialog, CloseDialog, Sending
<1>2. CASE EditStep
  <2>1. UNCHANGED <<dialog, mail, accepted, pressed>> /\ overlaps' = Sending("typed")
    BY <1>2, EditFacts
  <2>2. Calm' => Calm
    BY <2>1 DEF Sending
  <2>3. FormIsNew'
    BY <1>2, <2>1, <2>2, EditFacts
  <2>4. QED
    BY <2>1, <2>2, <2>3
<1>3. CASE PressSend
  <2>1. mail' = mail \cup {Posted} /\ UNCHANGED <<overlaps, accepted>> /\ ~ dialog.sending
    BY <1>3, SubmitFacts DEF PressSend, ButtonEnabled
  <2>2. OneIsSent'
    BY <1>0, <1>3, <2>1, SubmitFacts DEF PressSend
  <2>3. PressedOnce'
    <3>1. Calm => \A n \in DOMAIN pressed : pressed[n] # form.text
      BY <2>1
    <3>2. QED
      BY <1>3, <2>1, <3>1, SubmitFacts DEF PressSend
  <2>4. TakenIsPressed'
    BY <1>3, <2>1, SubmitFacts DEF PressSend
  <2>5. QED
    BY <2>1, <2>2, <2>3, <2>4
<1>4. CASE PressCtrlEnter
  <2>1. mail' = mail \cup {Posted} /\ accepted' = accepted /\ overlaps' = Sending("keys")
    BY <1>4, SubmitFacts DEF PressCtrlEnter
  <2>2. Calm' => Calm /\ mail = {}
    BY <2>1 DEF Sending
  <2>3. OneIsSent'
    BY <1>0, <1>4, <2>1, <2>2, SubmitFacts DEF PressCtrlEnter
  <2>4. PressedOnce'
    BY <1>4, <2>1, <2>2, SubmitFacts DEF PressCtrlEnter
  <2>5. TakenIsPressed'
    BY <1>4, <2>1, SubmitFacts DEF PressCtrlEnter
  <2>6. QED
    BY <2>1, <2>3, <2>4, <2>5
<1>5. ASSUME NEW p \in mail, ServerStep(p) PROVE TakenInv'
  <2> DEFINE b == [p EXCEPT !.stage = "back"]
  <2>1. /\ mail' = (mail \ {p}) \cup {b}
        /\ accepted' = accepted \/ accepted' = accepted \cup {p.n}
        /\ UNCHANGED <<dialog, form, pressed, overlaps>>
    BY <1>5 DEF ServerStep, AcceptNew, AcceptLater, RefuseMail, MailBack
  <2>2. b.n = p.n
    BY MailBackFacts
  <2> HIDE DEF b
  <2>3. QED
    BY <2>1, <2>2
<1>6. ASSUME NEW p \in mail, MailAnswered(p) PROVE TakenInv'
  <2>1. /\ mail' = mail \ {p} /\ form'.text = None /\ ~ dialog'.sending
        /\ UNCHANGED <<accepted, pressed, overlaps>>
    BY <1>6 DEF MailAnswered, EmptyForm
  <2>2. \A n \in DOMAIN pressed : pressed[n] # None
    BY <1>0
  <2>3. QED
    BY <2>1, <2>2
<1>7. ASSUME NEW p \in mail, MailLost(p) PROVE TakenInv'
  BY <1>7 DEF MailLost
<1>8. CASE UNCHANGED mailVars
  BY <1>8 DEF mailVars
<1>9. QED
  BY <1>1, <1>2, <1>3, <1>4, <1>5, <1>6, <1>7, <1>8, MailNextByPart

\* What was written once is taken at most once, unless Ctrl+Enter is pressed while
\* a send is under way or an answer is lost (new-message-dialog.tsx:145-161,
\* 186-189, 480).
THEOREM TakenOnceCorrect == MailSpec => []TakenOnce
<1>1. MailInit => TakenInv
  BY DEF MailInit, TakenInv, OneIsSent, FormIsNew, PressedOnce, TakenIsPressed
<1>2. TakenInv => TakenOnce
  BY DEF TakenInv, PressedOnce, TakenIsPressed, Calm, TakenOnce
<1>3. QED
  BY <1>1, <1>2, MailTypeCorrect, TakenStep, PTL DEF MailSpec

-----------------------------------------------------------------------------
(* The open conversation is of the selected device: so is every request    *)
(* under way, while the device is not changed under it.                    *)

MailIsOfDevice == "device" \notin overlaps => \A p \in mail : p.device = inbox.device

LEMMA ChatStep ==
    MailTypeOK /\ MailIsOfDevice /\ ChatIsOfDevice /\ [MailNext]_mailVars
        => MailIsOfDevice' /\ ChatIsOfDevice'
<1> SUFFICES ASSUME MailTypeOK, MailIsOfDevice, ChatIsOfDevice, [MailNext]_mailVars
             PROVE  MailIsOfDevice' /\ ChatIsOfDevice'
    OBVIOUS
<1> USE DEF MailIsOfDevice, ChatIsOfDevice
<1>0. inbox \in [device : InboxDevices, chat : Recipients \cup {None}, owner : InboxDevices]
  BY DEF MailTypeOK
<1>1. CASE PageStep
  <2>1. ASSUME NEW d \in InboxDevices, PickDevice(d) PROVE MailIsOfDevice' /\ ChatIsOfDevice'
    BY <2>1 DEF PickDevice, Elsewhere, Sending
  <2>2. ASSUME NEW c \in Recipients, PickChat(c) PROVE MailIsOfDevice' /\ ChatIsOfDevice'
    BY <1>0, <2>2 DEF PickChat
  <2>3. ASSUME OpenDialog \/ CloseDialog PROVE MailIsOfDevice' /\ ChatIsOfDevice'
    BY <2>3 DEF OpenDialog, CloseDialog
  <2>4. QED
    BY <1>1, <2>1, <2>2, <2>3 DEF PageStep
<1>2. CASE EditStep
  BY <1>2, EditFacts DEF Sending
<1>3. CASE Submit /\ overlaps' \in {overlaps, Sending("keys")}
  <2>1. "device" \notin overlaps' => "device" \notin overlaps
    BY <1>3 DEF Sending
  <2>2. QED
    BY <1>3, <2>1, SubmitFacts
<1>4. ASSUME NEW p \in mail, ServerStep(p) PROVE MailIsOfDevice' /\ ChatIsOfDevice'
  <2> DEFINE b == [p EXCEPT !.stage = "back"]
  <2>1. mail' = (mail \ {p}) \cup {b} /\ UNCHANGED <<inbox, overlaps>>
    BY <1>4 DEF ServerStep, AcceptNew, AcceptLater, RefuseMail, MailBack
  <2>2. b.device = p.device
    BY MailBackFacts
  <2> HIDE DEF b
  <2>3. QED
    BY <2>1, <2>2
<1>5. ASSUME NEW p \in mail, MailAnswered(p) PROVE MailIsOfDevice' /\ ChatIsOfDevice'
  <2>1. /\ mail' = mail \ {p} /\ overlaps' = overlaps
        /\ inbox'.device = inbox.device /\ inbox'.owner = p.device
    BY <1>0, <1>5 DEF MailAnswered
  <2>2. QED
    BY <2>1
<1>6. ASSUME NEW p \in mail, MailLost(p) PROVE MailIsOfDevice' /\ ChatIsOfDevice'
  BY <1>6 DEF MailLost
<1>7. CASE UNCHANGED mailVars
  BY <1>7 DEF mailVars
<1>8. QED
  BY <1>1, <1>2, <1>3, <1>4, <1>5, <1>6, <1>7, MailNextByPart DEF PressSend, PressCtrlEnter

\* A conversation stays open only under the device it was opened on, unless the
\* device is changed while a new message is being sent (inbox-client.tsx:49-65, 111).
THEOREM ChatIsOfDeviceCorrect == MailSpec => []ChatIsOfDevice
<1>1. MailInit => MailIsOfDevice /\ ChatIsOfDevice
  BY DEF MailInit, MailIsOfDevice, ChatIsOfDevice
<1>2. QED
  BY <1>1, MailTypeCorrect, ChatStep, PTL DEF MailSpec

-----------------------------------------------------------------------------
(* A text is cleared by the answer to its own submission: while nothing is *)
(* typed under a send, the form holds the text that is being sent.         *)

FormIsSent ==
    "typed" \notin overlaps => \A p \in mail : form.text \in {None, pressed[p.n]}

ClearInv == TakenIsPressed /\ FormIsSent

ClearedByAnswer ==
    form.text # None /\ form'.text = None
        => \/ \E p \in mail \ mail' : pressed[p.n] = form.text /\ p.stage = "back"
           \/ "typed" \in overlaps

LEMMA ClearStep ==
    MailTypeOK /\ ClearInv /\ [MailNext]_mailVars
        => ClearInv' /\ (ClearedByAnswer \/ UNCHANGED mailVars)
<1> SUFFICES ASSUME MailTypeOK, ClearInv, [MailNext]_mailVars
             PROVE  ClearInv' /\ (ClearedByAnswer \/ UNCHANGED mailVars)
    OBVIOUS
<1> DEFINE Goal == ClearInv' /\ (ClearedByAnswer \/ UNCHANGED mailVars)
<1> USE DEF ClearInv, TakenIsPressed, FormIsSent, ClearedByAnswer
<1>0. form.text \in Drafts \cup {None} /\ pressed \in Seq(Drafts)
  BY DEF MailTypeOK
<1>1. CASE PageStep
  BY <1>1 DEF PageStep, PickDevice, PickChat, OpenDialog, CloseDialog, Sending
<1>2. CASE EditStep
  <2>1. UNCHANGED <<mail, accepted, pressed>> /\ overlaps' = Sending("typed")
    BY <1>2, EditFacts
  <2>2. "typed" \notin overlaps' => mail = {}
    BY <2>1 DEF Sending
  <2>3. form.text # None => form'.text # None
    BY <1>2, EditFacts
  <2>4. QED
    BY <2>1, <2>2, <2>3
<1>3. CASE Submit /\ overlaps' \in {overlaps, Sending("keys")}
  <2>1. "typed" \notin overlaps' => "typed" \notin overlaps
    BY <1>3 DEF Sending
  <2>2. /\ mail' = mail \cup {Posted} /\ UNCHANGED <<form, accepted>>
        /\ form.text # None
        /\ pressed'[Posted.n] = form.text /\ Posted.n \in DOMAIN pressed'
        /\ \A n \in DOMAIN pressed : n \in DOMAIN pressed' /\ pressed'[n] = pressed[n]
    BY <1>3, SubmitFacts
  <2>3. QED
    BY <2>1, <2>2
<1>4. ASSUME NEW p \in mail, ServerStep(p) PROVE Goal
  <2> DEFINE b == [p EXCEPT !.stage = "back"]
  <2>1. /\ mail' = (mail \ {p}) \cup {b}
        /\ accepted' = accepted \/ accepted' = accepted \cup {p.n}
        /\ UNCHANGED <<form, pressed, overlaps>>
    BY <1>4 DEF ServerStep, AcceptNew, AcceptLater, RefuseMail, MailBack
  <2>2. b.n = p.n
    BY MailBackFacts
  <2> HIDE DEF b
  <2>3. QED
    BY <2>1, <2>2
<1>5. ASSUME NEW p \in mail, MailAnswered(p) PROVE Goal
  <2>1. /\ mail' = mail \ {p} /\ p.stage = "back" /\ form'.text = None
        /\ UNCHANGED <<accepted, pressed, overlaps>>
    BY <1>5 DEF MailAnswered, EmptyForm
  <2>2. QED
    BY <2>1
<1>6. ASSUME NEW p \in mail, MailLost(p) PROVE Goal
  BY <1>6 DEF MailLost
<1>7. CASE UNCHANGED mailVars
  BY <1>7 DEF mailVars
<1>8. QED
  BY <1>1, <1>2, <1>3, <1>4, <1>5, <1>6, <1>7, MailNextByPart DEF PressSend, PressCtrlEnter

\* A text leaves the form only with the answer to its own submission, unless it
\* was typed under an earlier one (new-message-dialog.tsx:145-161).
THEOREM OnlyAnsweredIsClearedCorrect == MailSpec => OnlyAnsweredIsCleared
<1>1. MailInit => ClearInv
  BY DEF MailInit, ClearInv, TakenIsPressed, FormIsSent
<1>2. MailSpec => [][ClearedByAnswer]_mailVars
  BY <1>1, MailTypeCorrect, ClearStep, PTL DEF MailSpec
<1>3. QED
  BY <1>2 DEF OnlyAnsweredIsCleared, ClearedByAnswer
=============================================================================
