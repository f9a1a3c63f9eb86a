--------------------------- MODULE BroadcastPage ---------------------------
(***************************************************************************)
(* The broadcast page of the web client: the form of a new broadcast, the  *)
(* history, and the sheet with the recipients of one broadcast. It talks   *)
(* to the Go API directly, through kontakClient: an error status yields an *)
(* undefined answer and only a broken connection throws.                   *)
(***************************************************************************)
EXTENDS Browser

CONSTANTS
    SenderDevices, \* the devices the page was rendered with
    FirstDevice,   \* the first of them
    Contacts,      \* contacts of all devices
    ContactDevice, \* the device whose contact list a contact is from
    Contents,      \* message texts, each written once
    MaxJobs        \* bound: broadcasts there may be in all, with two of earlier days

ASSUME BroadcastPageAssumption ==
    /\ FirstDevice \in SenderDevices
    /\ ContactDevice \in [Contacts -> SenderDevices]
    /\ None \notin Contents
    /\ MaxJobs \in Nat \ {0, 1}

VARIABLES
    list,       \* broadcasts: the history the page shows
    sheet,      \* isNewSheetOpen and loading
    draft,      \* device_id, selectedContacts and content of the form
    creating,   \* a createBroadcast or the getBroadcasts after it, in flight
    details,    \* the details sheet: open, selectedJob, jobRecipients, loadingDetails
    asked,      \* the getBroadcastJob requests in flight
    created,    \* the broadcast jobs of the server, oldest first
    mishaps,    \* history: "written" while a broadcast was being created, a
                \* connection "lost", "rows" clicked while an answer was due, or
                \* details that "failed"
    senderFaults

senderVars == <<list, sheet, draft, creating, details, asked, created, mishaps,
                senderFaults>>

Jobs == 1..MaxJobs
Draft == [device : SenderDevices, to : SUBSET Contacts, text : Contents \cup {None}]

BroadcastPageTypeOK ==
    /\ list \subseteq Jobs
    /\ sheet \in [open : BOOLEAN, loading : BOOLEAN]
    /\ draft \in Draft
    /\ creating \subseteq [job : Draft, stage : {"create", "created", "list"}]
    /\ details \in [open : BOOLEAN, job : Jobs \cup {None}, of : Jobs \cup {None},
                    loading : BOOLEAN]
    /\ asked \subseteq Jobs
    /\ created \in Seq(Draft) /\ Len(created) <= MaxJobs
    /\ mishaps \subseteq {"written", "lost", "rows", "failed"}
    /\ senderFaults \in 0..MaxFaults

EmptyDraft == [device |-> FirstDevice, to |-> {}, text |-> None]

\* Two broadcasts of earlier days.
BroadcastPageInit ==
    /\ created = <<EmptyDraft, EmptyDraft>>
    /\ list = {1, 2}
    /\ sheet = [open |-> FALSE, loading |-> FALSE]
    /\ draft = EmptyDraft
    /\ creating = {}
    /\ details = [open |-> FALSE, job |-> None, of |-> None, loading |-> FALSE]
    /\ asked = {}
    /\ mishaps = {}
    /\ senderFaults = 0

SenderFault == senderFaults < MaxFaults /\ senderFaults' = senderFaults + 1

formVars   == <<sheet, draft, creating>>
detailVars == <<details, asked>>

-----------------------------------------------------------------------------
(* Faulty variants of definitions below.                                   *)

\* Choosing another device keeps the recipients.
OnDeviceKeeping(d) == [draft EXCEPT !.device = d]

\* The button does not look at loading.
EnabledAnyway == draft.to # {}

\* The spinner of the details is not shown.
WaitingUnseen(j) == [open |-> TRUE, job |-> j, of |-> details.of, loading |-> FALSE]

-----------------------------------------------------------------------------
(* The form.                                                               *)

ToggleSheet ==
    /\ ~ details.open
    /\ sheet' = [sheet EXCEPT !.open = ~ @]
    /\ UNCHANGED <<list, draft, creating, detailVars, created, mishaps, senderFaults>>

\* Every field stays enabled while a broadcast is being created.
Fill(new) ==
    /\ sheet.open
    /\ draft' = new
    /\ mishaps' = IF creating # {} THEN mishaps \cup {"written"} ELSE mishaps
    /\ UNCHANGED <<list, sheet, creating, detailVars, created, senderFaults>>

OnDevice(d) == [draft EXCEPT !.device = d, !.to = {}]

ChooseSender(d) == d # draft.device /\ Fill(OnDevice(d))

\* The picker lists the contacts of the chosen device that are not picked yet:
\* SWR keeps them by device.
PickerContacts == {c \in Contacts : ContactDevice[c] = draft.device} \ draft.to

PickContact(c)   == c \in PickerContacts /\ Fill([draft EXCEPT !.to = @ \cup {c}])
RemoveContact(c) == c \in draft.to /\ Fill([draft EXCEPT !.to = @ \ {c}])

WriteContent(t) ==
    /\ \A j \in DOMAIN created : created[j].text # t
    /\ \A p \in creating : p.job.text # t
    /\ t # draft.text
    /\ Fill([draft EXCEPT !.text = t])

-----------------------------------------------------------------------------
(* handleSubmit.                                                           *)

SubmitEnabled == ~ sheet.loading /\ draft.to # {}

\* An empty text is refused with a toast. loading is set for the time of both
\* requests.
SubmitBroadcast ==
    /\ sheet.open
    /\ SubmitEnabled
    /\ draft.text # None
    /\ creating' = creating \cup {[job |-> draft, stage |-> "create"]}
    /\ sheet' = [sheet EXCEPT !.loading = TRUE]
    /\ UNCHANGED <<list, draft, detailVars, created, mishaps, senderFaults>>

Advance(p, stage) == creating' = (creating \ {p}) \cup {[p EXCEPT !.stage = stage]}

\* createBroadcast at the server.
ServerCreates(p) ==
    /\ p \in creating /\ p.stage = "create"
    /\ Len(created) < MaxJobs
    /\ created' = Append(created, p.job)
    /\ Advance(p, "created")
    /\ UNCHANGED <<list, sheet, draft, detailVars, mishaps, senderFaults>>

\* An error status: undefined, which nobody looks at.
ServerRefuses(p) ==
    /\ p \in creating /\ p.stage = "create"
    /\ SenderFault
    /\ Advance(p, "created")
    /\ UNCHANGED <<list, sheet, draft, detailVars, created, mishaps>>

\* The success toast, and on to getBroadcasts.
CreateAnswered(p) ==
    /\ p \in creating /\ p.stage = "created"
    /\ Advance(p, "list")
    /\ UNCHANGED <<list, sheet, draft, detailVars, created, mishaps, senderFaults>>

\* The history is replaced, the form reset and closed.
Finish(p, jobs) ==
    /\ p \in creating /\ p.stage = "list"
    /\ list' = jobs
    /\ creating' = creating \ {p}
    /\ draft' = EmptyDraft
    /\ sheet' = [open |-> FALSE, loading |-> FALSE]
    /\ UNCHANGED <<detailVars, created, mishaps>>

ListAnswered(p) == Finish(p, DOMAIN created) /\ UNCHANGED senderFaults

\* getBroadcasts makes the empty list of an error status.
ListRefused(p) == Finish(p, {}) /\ SenderFault

\* Either request throws: the form stays as it is, although the broadcast may
\* have been created.
CreateLost(p) ==
    /\ p \in creating
    /\ SenderFault
    /\ creating' = creating \ {p}
    /\ sheet' = [sheet EXCEPT !.loading = FALSE]
    /\ mishaps' = mishaps \cup {"lost"}
    /\ UNCHANGED <<list, draft, detailVars, created>>

-----------------------------------------------------------------------------
(* The history and the details of one broadcast.                           *)

\* The rows of the history table.
Rows == list

Waiting(j) == [open |-> TRUE, job |-> j, of |-> details.of, loading |-> TRUE]

\* handleRowClick up to its await.
ClickRow(j) ==
    /\ ~ sheet.open /\ ~ details.open
    /\ j \in Rows
    /\ details' = Waiting(j)
    /\ asked' = asked \cup {j}
    /\ mishaps' = IF asked # {} THEN mishaps \cup {"rows"} ELSE mishaps
    /\ UNCHANGED <<list, formVars, created, senderFaults>>

CloseDetails ==
    /\ details.open
    /\ details' = [details EXCEPT !.open = FALSE]
    /\ UNCHANGED <<list, formVars, asked, created, mishaps, senderFaults>>

\* The answer is shown whatever row is selected by now.
DetailsAnswered(j) ==
    /\ j \in asked
    /\ asked' = asked \ {j}
    /\ details' = [details EXCEPT !.of = j, !.loading = FALSE]
    /\ UNCHANGED <<list, formVars, created, mishaps, senderFaults>>

\* The connection or the API fails: the recipients of before stay.
DetailsFailed(j) ==
    /\ j \in asked
    /\ SenderFault
    /\ asked' = asked \ {j}
    /\ details' = [details EXCEPT !.loading = FALSE]
    /\ mishaps' = mishaps \cup {"failed"}
    /\ UNCHANGED <<list, formVars, created>>

\* Whose recipients the table of the sheet lists.
RecipientsShownOf ==
    IF ~ details.open \/ details.loading THEN None ELSE details.of
-----------------------------------------------------------------------------

BroadcastPageNext ==
    \/ \E d \in SenderDevices : ChooseSender(d)
    \/ \E c \in Contacts : PickContact(c) \/ RemoveContact(c)
    \/ \E t \in Contents : WriteContent(t)
    \/ ToggleSheet \/ SubmitBroadcast \/ CloseDetails
    \/ \E p \in creating : \/ ServerCreates(p) \/ ServerRefuses(p) \/ CreateAnswered(p)
                           \/ ListAnswered(p) \/ ListRefused(p) \/ CreateLost(p)
    \/ \E j \in Jobs : ClickRow(j) \/ DetailsAnswered(j) \/ DetailsFailed(j)

BroadcastPageSpec == BroadcastPageInit /\ [][BroadcastPageNext]_senderVars

-----------------------------------------------------------------------------
(* Safety.                                                                 *)

\* Whatever is changed in the form, and whenever the reset of an earlier
\* submission comes in between, the recipients are contacts of the device the
\* broadcast will be sent from; so are those of every broadcast that is created
\* (broadcast-client.tsx:143-146, 177-184, 288-291).
RecipientsAreOfDevice ==
    \A j \in {draft} \cup {p.job : p \in creating} \cup {created[n] : n \in DOMAIN created} :
        \A c \in j.to : ContactDevice[c] = j.device

\* One text makes one broadcast, unless a connection was lost and the form,
\* still filled, is submitted again (broadcast-client.tsx:148-193, 459).
CreatedOnce ==
    \A m, n \in DOMAIN created :
        created[m].text # None /\ created[m].text = created[n].text
            => m = n \/ "lost" \in mishaps

\* The recipients in the details sheet are those of the broadcast it is headed
\* by, unless a row was clicked while the answer of an earlier one was due, or
\* an answer failed (broadcast-client.tsx:225-237, 525-642).
RecipientsAreOfJob ==
    RecipientsShownOf # None
        => RecipientsShownOf = details.job \/ {"rows", "failed"} \cap mishaps # {}
=============================================================================
