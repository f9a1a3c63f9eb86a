---------------------------- MODULE TemplatePage ----------------------------
(***************************************************************************)
(* The page of message templates: its cards, the dialog that creates and   *)
(* edits, the one that deletes, the server actions they call and the rows  *)
(* of message_templates behind them. A submission outlives the dialog it   *)
(* was made in.                                                            *)
(***************************************************************************)
EXTENDS Browser

CONSTANTS
    Texts,        \* what a template's form may hold, each written once
    FirstText,    \* the text of the template that is there already
    MaxTemplates  \* bound: rows there may be in all

ASSUME TemplateAssumption ==
    /\ None \notin Texts /\ FirstText \in Texts
    /\ MaxTemplates \in Nat \ {0}

VARIABLES
    cards,     \* the templates the page was rendered with
    editor,    \* the create and edit dialog with its form
    deleting,  \* deletingTemplate
    saving,    \* the create or update under way: isExecuting
    removing,  \* the deletion under way
    refresh,   \* a rendering of the page on its way
    templates, \* message_templates: the text of each row, None if there is none
    made,      \* history: how many rows were ever made
    stored,    \* history: the texts that were ever stored
    told,      \* history: the texts the page said were saved
    adrift,    \* calls whose connection broke, which the server still has
    odd,       \* history: an API error "refused", a connection "lost"
    templateFaults

templateVars == <<cards, editor, deleting, saving, removing, refresh, templates,
                  made, stored, told, odd, adrift, templateFaults>>

TemplateIds == 1..MaxTemplates
Rows0 == [TemplateIds -> Texts \cup {None}]

\* of is the template that is edited, or the one a copy was made from.
Editors == [kind : {"closed", "create", "edit", "copy"}, of : TemplateIds \cup {None},
            text : Texts \cup {None}]
TemplateCalls == [kind : {"create", "edit", "copy", "delete"}, of : TemplateIds \cup {None},
          text : Texts \cup {None}, stage : {"out", "done", "undefined", "failed"}]

TemplateTypeOK ==
    /\ cards \in Rows0 /\ templates \in Rows0
    /\ editor \in Editors
    /\ deleting \in TemplateIds \cup {None}
    /\ saving \subseteq TemplateCalls /\ removing \subseteq TemplateCalls
    /\ adrift \subseteq TemplateCalls
    /\ refresh \subseteq Rows0
    /\ made \in 0..MaxTemplates
    /\ stored \subseteq Texts /\ told \subseteq Texts
    /\ odd \subseteq {"refused", "lost"}
    /\ templateFaults \in 0..MaxFaults

Closed == [kind |-> "closed", of |-> None, text |-> None]

TemplateInit ==
    /\ templates = [id \in TemplateIds |-> IF id = 1 THEN FirstText ELSE None]
    /\ stored = {FirstText}
    /\ made = 1
    /\ cards = templates
    /\ editor = Closed
    /\ deleting = None
    /\ saving = {} /\ removing = {} /\ adrift = {} /\ refresh = {}
    /\ told = {} /\ odd = {}
    /\ templateFaults = 0

TemplateFault(what) ==
    /\ templateFaults < MaxFaults
    /\ templateFaults' = templateFaults + 1
    /\ odd' = odd \cup {what}

dialogVars == <<editor, deleting>>
rowVars    == <<templates, made, stored>>

-----------------------------------------------------------------------------
(* Faulty variants of definitions below.                                   *)

\* A copy keeps the id of what it was made from.
TargetKept(p) == p.of

\* An action that failed is reported as done.
SaidDoneAnyway(p) == p.stage \in {"done", "undefined", "failed"}

\* A deletion does not ask for the page again.
AfterDeletionNothing == UNCHANGED refresh

-----------------------------------------------------------------------------
(* The dialogs.                                                            *)

Idle == editor.kind = "closed" /\ deleting = None

\* "Create Template", "Edit" and "Duplicate": the form is reset to the template
\* the dialog is for.
OpenEditor(kind, of, text) ==
    /\ Idle
    /\ editor' = [kind |-> kind, of |-> of, text |-> text]
    /\ UNCHANGED <<cards, deleting, saving, removing, refresh, rowVars, told, odd, adrift,
                   templateFaults>>

OpenCreate == OpenEditor("create", None, None)

OpenEdit(id) == cards[id] # None /\ OpenEditor("edit", id, cards[id])
OpenCopy(id) == cards[id] # None /\ OpenEditor("copy", id, cards[id])

WriteTemplate(t) ==
    /\ editor.kind # "closed"
    /\ t \notin stored /\ t # editor.text
    /\ \A p \in saving \cup adrift : p.text # t
    /\ editor' = [editor EXCEPT !.text = t]
    /\ UNCHANGED <<cards, deleting, saving, removing, refresh, rowVars, told, odd, adrift,
                   templateFaults>>

CancelEditor ==
    /\ editor.kind # "closed"
    /\ editor' = Closed
    /\ UNCHANGED <<cards, deleting, saving, removing, refresh, rowVars, told, odd, adrift,
                   templateFaults>>

OpenDelete(id) ==
    /\ Idle /\ cards[id] # None
    /\ deleting' = id
    /\ UNCHANGED <<cards, editor, saving, removing, refresh, rowVars, told, odd, adrift,
                   templateFaults>>

CancelDelete ==
    /\ deleting # None
    /\ deleting' = None
    /\ UNCHANGED <<cards, editor, saving, removing, refresh, rowVars, told,
                   odd, adrift, templateFaults>>

-----------------------------------------------------------------------------
(* Submissions.                                                            *)

\* onSubmit: the form's own check wants a text. A dialog with a template, a copy
\* too, takes the branch of an update.
SubmitTemplate ==
    /\ editor.kind # "closed" /\ editor.text # None
    /\ saving = {}
    /\ saving' = {[kind |-> editor.kind, of |-> editor.of, text |-> editor.text,
                   stage |-> "out"]}
    /\ UNCHANGED <<cards, dialogVars, removing, refresh, rowVars, told,
                   odd, adrift, templateFaults>>

\* handleDelete; the click closes the dialog at once.
ConfirmDelete ==
    /\ deleting # None
    /\ removing = {}
    /\ removing' = {[kind |-> "delete", of |-> deleting, text |-> None, stage |-> "out"]}
    /\ deleting' = None
    /\ UNCHANGED <<cards, editor, saving, refresh, rowVars, told,
                   odd, adrift, templateFaults>>

Inserted(text) ==
    /\ made < MaxTemplates
    /\ made' = made + 1
    /\ templates' = [templates EXCEPT ![made + 1] = text]
    /\ stored' = stored \cup {text}

Overwritten(id, text) ==
    /\ templates' = [templates EXCEPT ![id] = text]
    /\ stored' = stored \cup {text}
    /\ UNCHANGED made

Removed(id) ==
    /\ templates' = [templates EXCEPT ![id] = None]
    /\ UNCHANGED <<made, stored>>

\* createTemplate: a new row, and the answer renders the page again.
CreateTemplate ==
    \E p \in saving :
        /\ p.kind = "create" /\ p.stage = "out"
        /\ Inserted(p.text)
        /\ refresh' = {templates'}
        /\ saving' = {[p EXCEPT !.stage = "done"]}
        /\ UNCHANGED <<cards, dialogVars, removing, told, odd, adrift, templateFaults>>

\* The id an update is for: that of a copy is the empty string.
Target(p) == IF p.kind = "copy" THEN None ELSE p.of

\* updateTemplate: without an id the action's schema refuses it, and without a
\* row the API does; the client makes a template without content of that answer.
UpdateTemplate ==
    \E p \in saving :
        /\ p.kind \in {"edit", "copy"} /\ p.stage = "out"
        /\ IF Target(p) = None THEN
                UNCHANGED <<rowVars, odd>> /\ saving' = {[p EXCEPT !.stage = "failed"]}
           ELSE IF templates[Target(p)] = None THEN
                /\ UNCHANGED rowVars
                /\ odd' = odd \cup {"refused"}
                /\ saving' = {[p EXCEPT !.stage = "undefined"]}
           ELSE /\ Overwritten(Target(p), p.text)
                /\ saving' = {[p EXCEPT !.stage = "done"]}
                /\ UNCHANGED odd
        /\ UNCHANGED <<cards, dialogVars, removing, refresh, told, adrift, templateFaults>>

DeleteTemplate ==
    \E p \in removing :
        /\ p.stage = "out"
        /\ Removed(p.of)
        /\ removing' = {[p EXCEPT !.stage = "done"]}
        /\ UNCHANGED <<cards, dialogVars, saving, refresh, told,
                       odd, adrift, templateFaults>>

\* The API answers with an error: normalizeTemplate makes an object of it, while
\* a deletion passes the missing answer on.
ApiRefuses ==
    /\ \/ \E p \in saving :
            /\ p.kind # "copy" /\ p.stage = "out"
            /\ saving' = {[p EXCEPT !.stage = "undefined"]}
            /\ refresh' = IF p.kind = "create" THEN {templates} ELSE refresh
            /\ UNCHANGED removing
       \/ \E p \in removing :
            /\ p.stage = "out"
            /\ removing' = {[p EXCEPT !.stage = "failed"]}
            /\ UNCHANGED <<saving, refresh>>
    /\ TemplateFault("refused")
    /\ UNCHANGED <<cards, dialogVars, rowVars, told, adrift>>

-----------------------------------------------------------------------------
(* Answers.                                                                *)

\* There is data, and it does not say "failure".
SaidDone(p) == p.stage \in {"done", "undefined"}

\* Success closes whatever dialog is open by now and renders the page again.
SubmissionAnswered ==
    \E p \in saving :
        /\ SaidDone(p)
        /\ saving' = {}
        /\ told' = told \cup {p.text}
        /\ editor' = Closed
        /\ refresh' = {templates}
        /\ UNCHANGED <<cards, deleting, removing, rowVars, odd, adrift, templateFaults>>

SubmissionFailed ==
    \E p \in saving :
        /\ p.stage = "failed"
        /\ saving' = {}
        /\ UNCHANGED <<cards, dialogVars, removing, refresh, rowVars, told,
                       odd, adrift, templateFaults>>

AfterDeletion == refresh' = {templates}

DeleteAnswered ==
    \E p \in removing :
        /\ p.stage = "done"
        /\ removing' = {}
        /\ deleting' = None
        /\ AfterDeletion
        /\ UNCHANGED <<cards, editor, saving, rowVars, told, odd, adrift, templateFaults>>

DeleteFailed ==
    \E p \in removing :
        /\ p.stage = "failed"
        /\ removing' = {}
        /\ UNCHANGED <<cards, dialogVars, saving, refresh, rowVars, told,
                       odd, adrift, templateFaults>>

\* The connection breaks before or after the server has done its part; what is
\* not done yet it may still do.
TemplateCallLost ==
    /\ \/ saving # {} /\ saving' = {} /\ UNCHANGED removing
       \/ removing # {} /\ removing' = {} /\ UNCHANGED saving
    /\ adrift' = adrift \cup
            {p \in (saving \ saving') \cup (removing \ removing') : p.stage = "out"}
    /\ TemplateFault("lost")
    /\ UNCHANGED <<cards, dialogVars, refresh, rowVars, told>>

\* The server comes to the end of such a call; nobody hears of it.
LateEffect(p) ==
    /\ p \in adrift
    /\ adrift' = adrift \ {p}
    /\ \/ UNCHANGED rowVars
       \/ p.kind = "create" /\ Inserted(p.text)
       \/ p.kind = "edit" /\ templates[p.of] # None /\ Overwritten(p.of, p.text)
       \/ p.kind = "delete" /\ Removed(p.of)
    /\ UNCHANGED <<cards, dialogVars, saving, removing, refresh, told, odd, templateFaults>>

PageRendered ==
    /\ cards' \in refresh
    /\ refresh' = {}
    /\ UNCHANGED <<dialogVars, saving, removing, rowVars, told,
                   odd, adrift, templateFaults>>
-----------------------------------------------------------------------------

TemplateNext ==
    \/ OpenCreate \/ CancelEditor \/ CancelDelete \/ SubmitTemplate \/ ConfirmDelete
    \/ \E id \in TemplateIds :
        OpenEdit(id) \/ OpenCopy(id) \/ OpenDelete(id)
    \/ \E t \in Texts : WriteTemplate(t)
    \/ CreateTemplate \/ UpdateTemplate \/ DeleteTemplate \/ ApiRefuses
    \/ \E p \in adrift : LateEffect(p)
    \/ SubmissionAnswered \/ SubmissionFailed \/ DeleteAnswered \/ DeleteFailed
    \/ TemplateCallLost \/ PageRendered

TemplateSpec == TemplateInit /\ [][TemplateNext]_templateVars

-----------------------------------------------------------------------------
(* Safety.                                                                 *)

\* A template changes only by a submission of its own "Edit" dialog, never by
\* that of a copy or of another template, whatever was deleted, created or
\* opened while it was under way, and whether or not the page still waits for it
\* (template-management-client.tsx:35-42,
\* create-template-dialog.tsx:175-199).
OnlyEditedChanges ==
    [][\A id \in TemplateIds :
        templates[id] # None /\ templates'[id] \notin {templates[id], None}
            => \E p \in saving \cup adrift :
                    p.kind = "edit" /\ p.of = id /\ p.text = templates'[id]
      ]_templateVars

\* What the page says was saved was stored, unless the API refused it: its error
\* is taken for a template (create-template-dialog.tsx:175-199,
\* kontak-shared.ts:206-240).
ToldIsStored == told \subseteq stored \/ "refused" \in odd

\* When nothing is under way the cards are the rows, unless a connection was
\* lost (template-management-client.tsx:48-50, actions.ts:31).
CardsAreRows ==
    saving = {} /\ removing = {} /\ refresh = {} => cards = templates \/ "lost" \in odd
=============================================================================
