------------------------ MODULE BroadcastPageProofs -------------------------
(* Proofs of the safety of the broadcast page for any devices, contacts,   *)
(* texts and lost answers.                                                 *)
EXTENDS BroadcastPage, TLAPS

USE BrowserAssumption, BroadcastPageAssumption

FormStep ==
    \/ \E d \in SenderDevices : ChooseSender(d)
    \/ \E c \in Contacts : PickContact(c) \/ RemoveContact(c)
    \/ \E t \in Contents : WriteContent(t)

CreateStep(p) ==
    \/ ServerCreates(p) \/ ServerRefuses(p) \/ CreateAnswered(p)
    \/ ListAnswered(p) \/ ListRefused(p) \/ CreateLost(p)

DetailStep(j) == ClickRow(j) \/ DetailsAnswered(j) \/ DetailsFailed(j)

LEMMA SenderNextByPart ==
    BroadcastPageNext <=>
        \/ FormStep \/ ToggleSheet \/ SubmitBroadcast \/ CloseDetails
        \/ \E p \in creating : CreateStep(p)
        \/ \E j \in Jobs : DetailStep(j)
BY DEF BroadcastPageNext, FormStep, CreateStep, DetailStep

\* A change of the form, whichever field it is of.
LEMMA FormFilled ==
    ASSUME FormStep
    PROVE  \E new :
            /\ Fill(new)
            /\ \/ \E d \in SenderDevices : new = OnDevice(d)
               \/ \E c \in Contacts : c \in PickerContacts /\ new = [draft EXCEPT !.to = @ \cup {c}]
               \/ \E c \in Contacts : new = [draft EXCEPT !.to = @ \ {c}]
               \/ \E t \in Contents :
                    /\ new = [draft EXCEPT !.text = t]
                    /\ \A j \in DOMAIN created : created[j].text # t
                    /\ \A p \in creating : p.job.text # t
BY DEF FormStep, ChooseSender, PickContact, RemoveContact, WriteContent

-----------------------------------------------------------------------------
(* Types.                                                                  *)

Creations == [job : Draft, stage : {"create", "created", "list"}]

LEMMA BroadcastPageTypeInit == BroadcastPageInit => BroadcastPageTypeOK
<1> SUFFICES ASSUME BroadcastPageInit PROVE BroadcastPageTypeOK
    OBVIOUS
<1>1. EmptyDraft \in Draft
  BY DEF EmptyDraft, Draft
<1>2. created \in Seq(Draft) /\ Len(created) = 2
  BY <1>1 DEF BroadcastPageInit
<1>3. QED
  BY <1>1, <1>2 DEF BroadcastPageInit, BroadcastPageTypeOK, Jobs

LEMMA DraftTypes ==
    ASSUME BroadcastPageTypeOK, FormStep
    PROVE  draft' \in Draft
<1>1. PICK new :
        /\ Fill(new)
        /\ \/ \E d \in SenderDevices : new = OnDevice(d)
           \/ \E c \in Contacts : c \in PickerContacts /\ new = [draft EXCEPT !.to = @ \cup {c}]
           \/ \E c \in Contacts : new = [draft EXCEPT !.to = @ \ {c}]
           \/ \E t \in Contents : new = [draft EXCEPT !.text = t]
  BY FormFilled
<1>2. draft \in Draft
  BY DEF BroadcastPageTypeOK
<1>3. \A d \in SenderDevices : OnDevice(d) \in Draft
  BY <1>2 DEF Draft, OnDevice
<1>4. \A c \in Contacts : [draft EXCEPT !.to = @ \cup {c}] \in Draft
  BY <1>2 DEF Draft
<1>5. \A c \in Contacts : [draft EXCEPT !.to = @ \ {c}] \in Draft
  BY <1>2 DEF Draft
<1>6. \A t \in Contents : [draft EXCEPT !.text = t] \in Draft
  BY <1>2 DEF Draft
<1>7. new \in Draft
  BY <1>1, <1>3, <1>4, <1>5, <1>6
<1>8. QED
  BY <1>1, <1>7 DEF Fill

LEMMA BroadcastPageTypeStep ==
    BroadcastPageTypeOK /\ [BroadcastPageNext]_senderVars => BroadcastPageTypeOK'
<1> SUFFICES ASSUME BroadcastPageTypeOK, [BroadcastPageNext]_senderVars
             PROVE  BroadcastPageTypeOK'
    OBVIOUS
<1> USE DEF BroadcastPageTypeOK, formVars, detailVars
<1>1. CASE FormStep
  <2>1. PICK new : Fill(new)
    BY <1>1, FormFilled
  <2>2. QED
    BY <1>1, <2>1, DraftTypes DEF Fill
<1>2. CASE ToggleSheet \/ CloseDetails
  BY <1>2 DEF ToggleSheet, CloseDetails
<1>3. CASE SubmitBroadcast
  <2>1. [job |-> draft, stage |-> "create"] \in Creations
    BY DEF Creations
  <2>2. creating' \subseteq Creations
    BY <1>3, <2>1 DEF SubmitBroadcast, Creations
  <2>3. QED
    BY <1>3, <2>2 DEF SubmitBroadcast, Creations
<1>4. ASSUME NEW p \in creating, CreateStep(p) PROVE BroadcastPageTypeOK'
  <2>1. p \in Creations /\ p.job \in Draft
    BY DEF Creations
  <2>2. \A s \in {"created", "list"} :
            Advance(p, s) => creating' \subseteq Creations
    BY <2>1 DEF Advance, Creations
  <2>3. CASE ServerCreates(p)
    <3>1. Append(created, p.job) \in Seq(Draft)
          /\ Len(Append(created, p.job)) = Len(created) + 1
      BY <2>1
    <3>2. created' \in Seq(Draft) /\ Len(created') <= MaxJobs
      BY <2>3, <3>1 DEF ServerCreates
    <3>3. QED
      BY <2>2, <2>3, <3>2 DEF ServerCreates, Creations
  <2>4. CASE ServerRefuses(p)
    BY <2>2, <2>4 DEF ServerRefuses, SenderFault, Creations
  <2>5. CASE CreateAnswered(p)
    BY <2>2, <2>5 DEF CreateAnswered, Creations
  <2>6. ASSUME NEW jobs \in SUBSET Jobs, Finish(p, jobs), senderFaults' \in 0..MaxFaults
        PROVE  BroadcastPageTypeOK'
    <3>1. EmptyDraft \in Draft
      BY DEF EmptyDraft, Draft
    <3>2. QED
      BY <2>6, <3>1 DEF Finish
  <2>7. CASE ListAnswered(p)
    <3>1. DOMAIN created \subseteq Jobs
      BY DEF Jobs
    <3>2. QED
      BY <2>6, <2>7, <3>1 DEF ListAnswered
  <2>8. CASE ListRefused(p)
    BY <2>6, <2>8 DEF ListRefused, SenderFault
  <2>9. CASE CreateLost(p)
    <3>1. mishaps' \subseteq {"written", "lost", "rows", "failed"}
      BY <2>9 DEF CreateLost
    <3>2. senderFaults' \in 0..MaxFaults
      BY <2>9 DEF CreateLost, SenderFault
    <3>3. sheet' \in [open : BOOLEAN, loading : BOOLEAN]
      BY <2>9 DEF CreateLost
    <3>4. creating' \subseteq [job : Draft, stage : {"create", "created", "list"}]
      BY <2>9 DEF CreateLost
    <3>5. QED
      BY <2>9, <3>1, <3>2, <3>3, <3>4 DEF CreateLost
  <2>10. QED
    BY <1>4, <2>3, <2>4, <2>5, <2>7, <2>8, <2>9 DEF CreateStep
<1>5. ASSUME NEW j \in Jobs, DetailStep(j) PROVE BroadcastPageTypeOK'
  <2>1. CASE ClickRow(j)
    BY <1>5, <2>1 DEF ClickRow, Waiting
  <2>2. CASE DetailsAnswered(j)
    BY <2>2 DEF DetailsAnswered
  <2>3. CASE DetailsFailed(j)
    <3>1. mishaps' \subseteq {"written", "lost", "rows", "failed"}
      BY <2>3 DEF DetailsFailed
    <3>2. senderFaults' \in 0..MaxFaults
      BY <2>3 DEF DetailsFailed, SenderFault
    <3>3. /\ details' \in [open : BOOLEAN, job : Jobs \cup {None}, of : Jobs \cup {None},
                           loading : BOOLEAN]
          /\ asked' \subseteq Jobs
      BY <2>3 DEF DetailsFailed
    <3>4. QED
      BY <2>3, <3>1, <3>2, <3>3 DEF DetailsFailed
  <2>4. QED
    BY <1>5, <2>1, <2>2, <2>3 DEF DetailStep
<1>6. CASE UNCHANGED senderVars
  BY <1>6 DEF senderVars
<1>7. QED
  BY <1>1, <1>2, <1>3, <1>4, <1>5, <1>6, SenderNextByPart

\* The broadcast page and its jobs keep their types.
THEOREM BroadcastPageTypeCorrect == BroadcastPageSpec => []BroadcastPageTypeOK
BY BroadcastPageTypeInit, BroadcastPageTypeStep, PTL DEF BroadcastPageSpec

-----------------------------------------------------------------------------
(* Recipients belong to the device. Inductive as it stands.                *)

Matches(job) == \A c \in job.to : ContactDevice[c] = job.device

LEMMA RecipientsStep ==
    BroadcastPageTypeOK /\ RecipientsAreOfDevice /\ [BroadcastPageNext]_senderVars
        => RecipientsAreOfDevice'
<1> SUFFICES ASSUME BroadcastPageTypeOK, RecipientsAreOfDevice,
                    [BroadcastPageNext]_senderVars
             PROVE  RecipientsAreOfDevice'
    OBVIOUS
<1> USE DEF formVars, detailVars
<1>1. /\ Matches(draft)
      /\ \A p \in creating : Matches(p.job)
      /\ \A n \in DOMAIN created : Matches(created[n])
  BY DEF RecipientsAreOfDevice, Matches
<1>2. SUFFICES /\ Matches(draft')
               /\ \A p \in creating' : Matches(p.job)
               /\ \A n \in DOMAIN created' : Matches(created'[n])
  BY DEF RecipientsAreOfDevice, Matches
<1>3. CASE FormStep
  <2>1. PICK new :
          /\ Fill(new)
          /\ \/ \E d \in SenderDevices : new = OnDevice(d)
             \/ \E c \in Contacts : c \in PickerContacts /\ new = [draft EXCEPT !.to = @ \cup {c}]
             \/ \E c \in Contacts : new = [draft EXCEPT !.to = @ \ {c}]
             \/ \E t \in Contents : new = [draft EXCEPT !.text = t]
    BY <1>3, FormFilled
  <2>2. draft \in Draft
    BY DEF BroadcastPageTypeOK
  <2>3. \A d \in SenderDevices : Matches(OnDevice(d))
    BY <2>2 DEF Matches, OnDevice, Draft
  <2>4. \A c \in PickerContacts : Matches([draft EXCEPT !.to = @ \cup {c}])
    BY <1>1, <2>2 DEF Matches, PickerContacts, Draft
  <2>5. \A c \in Contacts : Matches([draft EXCEPT !.to = @ \ {c}])
    BY <1>1, <2>2 DEF Matches, Draft
  <2>6. \A t \in Contents : Matches([draft EXCEPT !.text = t])
    BY <1>1, <2>2 DEF Matches, Draft
  <2>7. Matches(new)
    BY <2>1, <2>3, <2>4, <2>5, <2>6
  <2>8. QED
    BY <1>1, <2>1, <2>7 DEF Fill
<1>4. CASE ToggleSheet \/ CloseDetails \/ UNCHANGED senderVars
  BY <1>1, <1>4 DEF ToggleSheet, CloseDetails, senderVars
<1>5. CASE SubmitBroadcast
  BY <1>1, <1>5 DEF SubmitBroadcast
<1>6. ASSUME NEW p \in creating, CreateStep(p)
      PROVE  /\ Matches(draft')
             /\ \A q \in creating' : Matches(q.job)
             /\ \A n \in DOMAIN created' : Matches(created'[n])
  <2>0. p \in Creations
    BY DEF Creations, BroadcastPageTypeOK
  <2>1. \A s : Advance(p, s) => \A q \in creating' : Matches(q.job)
    BY <1>1, <2>0 DEF Advance, Creations
  <2>2. CASE ServerCreates(p)
    <3>1. /\ created \in Seq(Draft) /\ p.job \in Draft
          /\ created' = Append(created, p.job)
      BY <2>0, <2>2 DEF ServerCreates, BroadcastPageTypeOK, Creations
    <3>2. \A n \in DOMAIN created' :
            \/ n \in DOMAIN created /\ created'[n] = created[n]
            \/ created'[n] = p.job
      BY <3>1
    <3>3. QED
      BY <1>1, <2>1, <2>2, <3>2 DEF ServerCreates
  <2>3. CASE ServerRefuses(p) \/ CreateAnswered(p)
    BY <1>1, <2>1, <2>3 DEF ServerRefuses, CreateAnswered
  <2>4. CASE ListAnswered(p) \/ ListRefused(p)
    <3>1. Matches(EmptyDraft)
      BY DEF Matches, EmptyDraft
    <3>2. QED
      BY <1>1, <2>4, <3>1 DEF ListAnswered, ListRefused, Finish
  <2>5. CASE CreateLost(p)
    BY <1>1, <2>5 DEF CreateLost
  <2>6. QED
    BY <1>6, <2>2, <2>3, <2>4, <2>5 DEF CreateStep
<1>7. ASSUME NEW j \in Jobs, DetailStep(j)
      PROVE  UNCHANGED <<draft, creating, created>>
  BY <1>7 DEF DetailStep, ClickRow, DetailsAnswered, DetailsFailed
<1>8. QED
  BY <1>1, <1>3, <1>4, <1>5, <1>6, <1>7, SenderNextByPart

\* The recipients in the form, in a request under way and of every broadcast are
\* contacts of the device it is sent from (broadcast-client.tsx:143-146, 288-291).
THEOREM RecipientsAreOfDeviceCorrect == BroadcastPageSpec => []RecipientsAreOfDevice
<1>1. BroadcastPageInit => RecipientsAreOfDevice
  BY DEF BroadcastPageInit, RecipientsAreOfDevice, EmptyDraft
<1>2. QED
  BY <1>1, BroadcastPageTypeCorrect, RecipientsStep, PTL DEF BroadcastPageSpec

-----------------------------------------------------------------------------
(* The details sheet. While no row was clicked with an answer due and no   *)
(* answer failed, at most one answer is due, it is of the selected         *)
(* broadcast, and the spinner turns until it is there.                     *)

Smooth == {"rows", "failed"} \cap mishaps = {}

OneIsAsked ==
    Smooth => /\ asked \subseteq {details.job}
              /\ details.loading <=> asked # {}

SettledIsSelected ==
    Smooth => details.loading \/ details.of = details.job

DetailsInv == OneIsAsked /\ SettledIsSelected

LEMMA DetailsStep ==
    BroadcastPageTypeOK /\ DetailsInv /\ [BroadcastPageNext]_senderVars => DetailsInv'
<1> SUFFICES ASSUME BroadcastPageTypeOK, DetailsInv, [BroadcastPageNext]_senderVars
             PROVE  DetailsInv'
    OBVIOUS
<1> USE DEF DetailsInv, OneIsAsked, SettledIsSelected, Smooth, formVars, detailVars
<1>0. /\ details \in [open : BOOLEAN, job : Jobs \cup {None}, of : Jobs \cup {None},
                      loading : BOOLEAN]
      /\ asked \subseteq Jobs
  BY DEF BroadcastPageTypeOK
<1>1. ASSUME UNCHANGED <<details, asked>>,
             mishaps' \in {mishaps, mishaps \cup {"written"}, mishaps \cup {"lost"}}
      PROVE  DetailsInv'
  BY <1>1
<1>2. CASE FormStep
  <2>1. PICK new : Fill(new)
    BY <1>2, FormFilled
  <2>2. QED
    BY <1>1, <2>1 DEF Fill
<1>3. CASE ToggleSheet \/ SubmitBroadcast \/ UNCHANGED senderVars
  BY <1>1, <1>3 DEF ToggleSheet, SubmitBroadcast, senderVars
<1>4. CASE CloseDetails
  BY <1>0, <1>4 DEF CloseDetails
<1>5. ASSUME NEW p \in creating, CreateStep(p) PROVE DetailsInv'
  BY <1>1, <1>5 DEF CreateStep, ServerCreates, ServerRefuses, CreateAnswered, ListAnswered,
                    ListRefused, Finish, CreateLost
<1>6. ASSUME NEW j \in Jobs, DetailStep(j) PROVE DetailsInv'
  <2>1. CASE ClickRow(j)
    BY <1>0, <2>1 DEF ClickRow, Waiting
  <2>2. CASE DetailsAnswered(j)
    BY <1>0, <2>2 DEF DetailsAnswered
  <2>3. CASE DetailsFailed(j)
    BY <1>0, <2>3 DEF DetailsFailed
  <2>4. QED
    BY <1>6, <2>1, <2>2, <2>3 DEF DetailStep
<1>7. QED
  BY <1>2, <1>3, <1>4, <1>5, <1>6, SenderNextByPart

\* The details sheet never lists the recipients of another broadcast than the one
\* it is headed by, while rows are clicked one at a time and no answer fails
\* (broadcast-client.tsx:225-237, 525-642).
THEOREM RecipientsAreOfJobCorrect == BroadcastPageSpec => []RecipientsAreOfJob
<1>1. BroadcastPageInit => DetailsInv
  BY DEF BroadcastPageInit, DetailsInv, OneIsAsked, SettledIsSelected, Smooth
<1>2. DetailsInv => RecipientsAreOfJob
  BY DEF DetailsInv, SettledIsSelected, Smooth, RecipientsAreOfJob, RecipientsShownOf
<1>3. QED
  BY <1>1, <1>2, BroadcastPageTypeCorrect, DetailsStep, PTL DEF BroadcastPageSpec

-----------------------------------------------------------------------------
(* One text makes one broadcast. While no connection was lost, at most one *)
(* broadcast is being created, its text is new, and so is the text of the  *)
(* form between two of them.                                               *)

Unbroken == "lost" \notin mishaps

New(t) == t = None \/ \A n \in DOMAIN created : created[n].text # t

OneIsCreated ==
    Unbroken => /\ sheet.loading <=> creating # {}
                /\ \A p, q \in creating : p = q

CreatingIsNew ==
    Unbroken => \A p \in creating : p.stage = "create" => New(p.job.text)

DraftIsNew == Unbroken /\ creating = {} => New(draft.text)

CreatedInv == OneIsCreated /\ CreatingIsNew /\ DraftIsNew /\ CreatedOnce

LEMMA CreatedStep ==
    BroadcastPageTypeOK /\ CreatedInv /\ [BroadcastPageNext]_senderVars => CreatedInv'
<1> SUFFICES ASSUME BroadcastPageTypeOK, CreatedInv, [BroadcastPageNext]_senderVars
             PROVE  CreatedInv'
    OBVIOUS
<1> USE DEF CreatedInv, OneIsCreated, CreatingIsNew, DraftIsNew, Unbroken, formVars
<1>0. /\ sheet \in [open : BOOLEAN, loading : BOOLEAN]
      /\ creating \subseteq Creations
      /\ created \in Seq(Draft)
      /\ draft \in Draft
  BY DEF BroadcastPageTypeOK, Creations
<1>1. ASSUME created' = created PROVE CreatedOnce' \/ (Unbroken' /\ ~ Unbroken)
  BY <1>1 DEF CreatedOnce
<1>2. ASSUME created' = created PROVE \A t : New(t) => New(t)'
  BY <1>2 DEF New
<1>3. CASE FormStep
  <2>1. PICK new :
          /\ Fill(new)
          /\ \/ \E d \in SenderDevices : new = OnDevice(d)
             \/ \E c \in Contacts : c \in PickerContacts /\ new = [draft EXCEPT !.to = @ \cup {c}]
             \/ \E c \in Contacts : new = [draft EXCEPT !.to = @ \ {c}]
             \/ \E t \in Contents :
                  /\ new = [draft EXCEPT !.text = t]
                  /\ \A j \in DOMAIN created : created[j].text # t
                  /\ \A p \in creating : p.job.text # t
    BY <1>3, FormFilled
  <2>2. /\ UNCHANGED <<sheet, creating, created>>
        /\ draft' = new
        /\ Unbroken' <=> Unbroken
    BY <2>1 DEF Fill
  <2>3. new.text = draft.text \/ New(new.text)
    BY <1>0, <2>1 DEF New, OnDevice, Draft
  <2>4. DraftIsNew'
    BY <1>2, <2>2, <2>3
  <2>5. QED
    BY <1>1, <1>2, <2>2, <2>4
<1>4. CASE ToggleSheet
  BY <1>0, <1>1, <1>2, <1>4 DEF ToggleSheet
<1>5. CASE CloseDetails \/ UNCHANGED senderVars
  BY <1>1, <1>2, <1>5 DEF CloseDetails, senderVars
<1>6. CASE SubmitBroadcast
  <2> DEFINE p == [job |-> draft, stage |-> "create"]
  <2>1. /\ creating' = creating \cup {p} /\ sheet'.loading /\ ~ sheet.loading
        /\ UNCHANGED <<draft, created, mishaps>>
    BY <1>0, <1>6 DEF SubmitBroadcast, SubmitEnabled
  <2>2. p.job.text = draft.text
    OBVIOUS
  <2> HIDE DEF p
  <2>3. QED
    BY <1>1, <1>2, <2>1, <2>2
<1>7. ASSUME NEW p \in creating, NEW s \in {"created", "list"}, Advance(p, s),
             UNCHANGED <<sheet, mishaps>>
      PROVE  /\ OneIsCreated' /\ CreatingIsNew' /\ DraftIsNew'
  <2> DEFINE q == [p EXCEPT !.stage = s]
  <2>1. creating' = (creating \ {p}) \cup {q}
    BY <1>7 DEF Advance
  <2>2. q.stage = s /\ s # "create"
    BY <1>0 DEF Creations
  <2> HIDE DEF q
  <2>3. Unbroken => creating' = {q}
    BY <2>1
  <2>4. QED
    BY <1>7, <2>1, <2>2, <2>3
<1>8. ASSUME NEW p \in creating, CreateStep(p) PROVE CreatedInv'
  <2>1. CASE ServerCreates(p)
    <3>1. /\ created' = Append(created, p.job) /\ p.job \in Draft /\ p.stage = "create"
          /\ UNCHANGED mishaps
      BY <1>0, <2>1 DEF ServerCreates, Creations
    <3>2. /\ DOMAIN created' = DOMAIN created \cup {Len(created) + 1}
          /\ Len(created) + 1 \notin DOMAIN created
          /\ \A n \in DOMAIN created : created'[n] = created[n]
          /\ created'[Len(created) + 1] = p.job
      BY <1>0, <3>1
    <3>3. CreatedOnce'
      BY <3>1, <3>2 DEF CreatedOnce, New
    <3>4. QED
      BY <1>7, <2>1, <3>3 DEF ServerCreates
  <2>2. CASE ServerRefuses(p) \/ CreateAnswered(p)
    BY <1>1, <1>7, <2>2 DEF ServerRefuses, CreateAnswered
  <2>3. CASE ListAnswered(p) \/ ListRefused(p)
    <3>1. /\ creating' = creating \ {p} /\ draft'.text = None /\ ~ sheet'.loading
          /\ UNCHANGED <<created, mishaps>>
      BY <2>3 DEF ListAnswered, ListRefused, Finish, EmptyDraft
    <3>2. DraftIsNew'
      BY <3>1 DEF New
    <3>3. QED
      BY <1>1, <1>2, <3>1, <3>2
  <2>4. CASE CreateLost(p)
    BY <1>1, <2>4 DEF CreateLost
  <2>5. QED
    BY <1>8, <2>1, <2>2, <2>3, <2>4 DEF CreateStep
<1>9. ASSUME NEW j \in Jobs, DetailStep(j) PROVE CreatedInv'
  <2>1. UNCHANGED <<sheet, draft, creating, created>> /\ (Unbroken' <=> Unbroken)
    BY <1>9 DEF DetailStep, ClickRow, DetailsAnswered, DetailsFailed
  <2>2. QED
    BY <1>1, <1>2, <2>1
<1>10. QED
  BY <1>3, <1>4, <1>5, <1>6, <1>8, <1>9, SenderNextByPart

\* One text makes one broadcast, unless a connection was lost and the form, still
\* filled, is submitted again (broadcast-client.tsx:148-193, 459).
THEOREM CreatedOnceCorrect == BroadcastPageSpec => []CreatedOnce
<1>1. BroadcastPageInit => CreatedInv
  BY DEF BroadcastPageInit, CreatedInv, OneIsCreated, CreatingIsNew, DraftIsNew, New,
         CreatedOnce, EmptyDraft
<1>2. QED
  BY <1>1, BroadcastPageTypeCorrect, CreatedStep, PTL DEF BroadcastPageSpec, CreatedInv
=============================================================================
