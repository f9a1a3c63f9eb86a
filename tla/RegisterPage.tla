---------------------------- MODULE RegisterPage ---------------------------
(***************************************************************************)
(* The two forms that register a device: the dialog of the devices page    *)
(* and a page of its own, with the server action and the handler behind    *)
(* both. The handler answers with the row of the new device, in which both *)
(* forms look for a member it does not have.                               *)
(***************************************************************************)
EXTENDS Browser

CONSTANTS
    Numbers,          \* what may be typed
    MaxRegistrations  \* bound: how often a form may be submitted

ASSUME RegisterAssumption == None \notin Numbers /\ MaxRegistrations \in Nat

VARIABLES
    place,       \* which of the forms, and whether the dialog is open
    typed,       \* what is in its fields
    submitted,   \* history: what was submitted, in order
    executing,   \* the submissions under way
    devices,     \* the submissions that made a row in clients
    failedTold,  \* history: the submissions "Failed to register device" was said of
    renderedOf,  \* the rows the devices page lists
    again,       \* history: "double" clicks, a submission after a "failure"
    registerFaults

registerVars == <<place, typed, submitted, executing, devices, failedTold, renderedOf, again,
                  registerFaults>>

Submissions == 1..MaxRegistrations

RegisterTypeOK ==
    /\ place \in [kind : {"dialog", "page"}, open : BOOLEAN]
    /\ typed \in Numbers \cup {None}
    /\ submitted \in Seq(Numbers) /\ Len(submitted) <= MaxRegistrations
    /\ executing \subseteq [n : Submissions, stage : {"out", "registered", "failed"}]
    /\ devices \subseteq Submissions
    /\ failedTold \subseteq Submissions
    /\ renderedOf \subseteq Submissions
    /\ again \subseteq {"double", "failure"}
    /\ registerFaults \in 0..MaxFaults

RegisterInit ==
    /\ place \in {[kind |-> "dialog", open |-> FALSE], [kind |-> "page", open |-> TRUE]}
    /\ typed = None
    /\ submitted = <<>>
    /\ executing = {}
    /\ devices = {}
    /\ failedTold = {}
    /\ renderedOf = {}
    /\ again = {}
    /\ registerFaults = 0

RegisterFault == registerFaults < MaxFaults /\ registerFaults' = registerFaults + 1

-----------------------------------------------------------------------------
(* Faulty variants of definitions below.                                   *)

\* The button of the dialog is as the page's.
RegisterEnabledAlways == TRUE

-----------------------------------------------------------------------------
(* The forms.                                                              *)

ToggleRegister ==
    /\ place.kind = "dialog"
    /\ place' = [place EXCEPT !.open = ~ @]
    /\ UNCHANGED <<typed, submitted, executing, devices, failedTold, renderedOf, again,
                   registerFaults>>

TypeNumber(t) ==
    /\ place.open /\ t # typed
    /\ typed' = t
    /\ UNCHANGED <<place, submitted, executing, devices, failedTold, renderedOf, again,
                   registerFaults>>

\* isExecuting disables the button of the dialog, and only renames the page's.
RegisterEnabled == place.kind = "dialog" => executing = {}

\* What a submission is: the same number again, and why.
Repeated ==
    LET same == {n \in DOMAIN submitted : submitted[n] = typed}
    IN  (IF \E p \in executing : p.n \in same THEN {"double"} ELSE {})
        \cup (IF same \cap failedTold # {} THEN {"failure"} ELSE {})

PressRegister ==
    /\ place.open /\ typed # None
    /\ RegisterEnabled
    /\ Len(submitted) < MaxRegistrations
    /\ submitted' = Append(submitted, typed)
    /\ executing' = executing \cup {[n |-> Len(submitted) + 1, stage |-> "out"]}
    /\ again' = again \cup (IF place.kind = "page" THEN Repeated ELSE Repeated \ {"double"})
    /\ UNCHANGED <<place, typed, devices, failedTold, renderedOf, registerFaults>>

\* DeviceStore.Register: a number may be registered any number of times.
RegisterDevice(p) ==
    /\ p \in executing /\ p.stage = "out"
    /\ devices' = devices \cup {p.n}
    /\ executing' = (executing \ {p}) \cup {[p EXCEPT !.stage = "registered"]}
    /\ UNCHANGED <<place, typed, submitted, failedTold, renderedOf, again, registerFaults>>

\* The statement fails, or the API cannot be reached.
RegisterFails(p) ==
    /\ p \in executing /\ p.stage = "out"
    /\ RegisterFault
    /\ executing' = (executing \ {p}) \cup {[p EXCEPT !.stage = "failed"]}
    /\ UNCHANGED <<place, typed, submitted, devices, failedTold, renderedOf, again>>

\* Neither the row of a device nor an error has a "success": the form stays as it
\* is, filled and open, and the page is not rendered again.
RegisterAnswered(p) ==
    /\ p \in executing /\ p.stage # "out"
    /\ executing' = executing \ {p}
    /\ failedTold' = failedTold \cup {p.n}
    /\ UNCHANGED <<place, typed, submitted, devices, renderedOf, again, registerFaults>>

\* The devices page is loaded anew.
ReloadDevices ==
    /\ executing = {}
    /\ place' = [kind |-> "dialog", open |-> FALSE]
    /\ typed' = None
    /\ renderedOf' = devices
    /\ UNCHANGED <<submitted, executing, devices, failedTold, again, registerFaults>>
-----------------------------------------------------------------------------

RegisterNext ==
    \/ ToggleRegister \/ PressRegister \/ ReloadDevices
    \/ \E t \in Numbers : TypeNumber(t)
    \/ \E p \in executing : RegisterDevice(p) \/ RegisterFails(p) \/ RegisterAnswered(p)

RegisterSpec == RegisterInit /\ [][RegisterNext]_registerVars

-----------------------------------------------------------------------------
(* Safety.                                                                 *)

\* A number makes one device, unless the page's button is pressed twice or the
\* user submits it again because the form said it had failed
\* (add-device-dialog.tsx:60-71, 130; register-device/page.tsx:42-50, 97).
RegisteredOnce ==
    \A m, n \in devices : submitted[m] = submitted[n] => m = n \/ again # {}
-----------------------------------------------------------------------------
(* What the repository's own words say, and the code does not do.          *)

\* "Failed to register device" (add-device-dialog.tsx:69): it has not been
\* registered.
FailureIsAFailure == failedTold \cap devices = {}
=============================================================================
