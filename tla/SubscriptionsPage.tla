------------------------- MODULE SubscriptionsPage -------------------------
(***************************************************************************)
(* The dialog of a device's event subscriptions on top of the store behind *)
(* it: SubscriptionsDialog, the route that passes its requests on, and the *)
(* handlers and the store of module Subscriptions. The dialog is mounted   *)
(* with the device's card, so that SWR fetches the settings once, then,    *)
(* and the form outlives the closed dialog.                                *)
(***************************************************************************)
EXTENDS Subscriptions, Browser

VARIABLES
    settings,  \* SWR's data: none yet, or one answer
    fetched,   \* an answer to SWR on its way
    switches,  \* subscriptions: what is shown and will be saved
    opened,    \* the dialog
    saves,     \* PUT requests of the dialog in flight: isSaving
    toggled,   \* history: what was toggled since the switches were last set
    confirmed,  \* history: what "Subscriptions updated successfully" was said of
    outside,   \* history: a "foreign" update, an API "error", a "lost"
               \* connection, a form that was "saved"
    subscriptionFaults

switchVars == <<settings, fetched, switches, opened, saves, toggled, confirmed,
                outside, subscriptionFaults>>
subscriptionsPageVars == <<vars, switchVars>>

\* What a form may hold. The error body of the API makes a form without any
\* event type, which the API will refuse.
Form == [of : [EventTypes -> Setting], valid : BOOLEAN]

NoSwitches == [of |-> Nothing, valid |-> TRUE]
ErrorForm  == [of |-> Nothing, valid |-> FALSE]

SubscriptionsPageTypeOK ==
    /\ TypeOK
    /\ settings \subseteq Form /\ fetched \subseteq Form
    /\ switches \in Form
    /\ opened \in BOOLEAN
    /\ saves \subseteq [call : Calls, form : Form]
    /\ toggled \subseteq EventTypes
    /\ confirmed \in [EventTypes -> Setting]
    /\ outside \subseteq {"foreign", "error", "lost", "saved"}
    /\ subscriptionFaults \in 0..MaxFaults

\* GetDeviceSubscriptions answers from the copy; what has no row is enabled.
Stored == [e \in EventTypes |-> IF cache[e] = "absent" THEN "on" ELSE cache[e]]

\* The card is mounted and SWR asks for the settings.
SubscriptionsPageInit ==
    /\ Init
    /\ settings = {}
    /\ fetched = {[of |-> Stored, valid |-> TRUE]}
    /\ switches = NoSwitches
    /\ opened = FALSE
    /\ saves = {}
    /\ toggled = {}
    /\ confirmed = Nothing
    /\ outside = {}
    /\ subscriptionFaults = 0

SubscriptionFault(what) ==
    /\ subscriptionFaults < MaxFaults
    /\ subscriptionFaults' = subscriptionFaults + 1
    /\ outside' = outside \cup {what}

dialogStateVars == <<settings, fetched, switches, opened, toggled>>
pastVars        == <<confirmed, outside, subscriptionFaults>>

-----------------------------------------------------------------------------
(* Faulty variants of definitions below.                                   *)

\* Reopening keeps what was left in the dialog.
ShownAgainNot == UNCHANGED switches

\* What was toggled is not sent.
SentSettings == IF settings = {} THEN switches ELSE CHOOSE form \in settings : TRUE

-----------------------------------------------------------------------------
(* The dialog.                                                             *)

\* SWR asks once more when the browser is back online, not on focus.
Reconnect ==
    /\ fetched = {}
    /\ fetched' = {[of |-> Stored, valid |-> TRUE]}
    /\ UNCHANGED <<vars, settings, switches, opened, saves, toggled, pastVars>>

\* onSuccess sets the switches, whatever was toggled.
Fetched(form) ==
    /\ settings' = {form}
    /\ fetched' = {}
    /\ switches' = form
    /\ toggled' = {}
    /\ UNCHANGED <<vars, opened, saves, confirmed>>

SettingsFetched == \E form \in fetched : Fetched(form) /\ UNCHANGED <<outside, subscriptionFaults>>

\* The route passes an error of the API on as if it were the settings.
SettingsRefused == fetched # {} /\ Fetched(ErrorForm) /\ SubscriptionFault("error")

\* The effect of [data, open]: the switches show SWR's data again.
ShownAgain ==
    IF settings = {} THEN UNCHANGED switches ELSE switches' \in settings

OpenSwitches ==
    /\ ~ opened
    /\ opened' = TRUE
    /\ ShownAgain
    /\ toggled' = {}
    /\ UNCHANGED <<vars, settings, fetched, saves, pastVars>>

CloseSwitches ==
    /\ opened
    /\ opened' = FALSE
    /\ UNCHANGED <<vars, settings, fetched, switches, saves, toggled, pastVars>>

\* handleToggle: what is absent is shown as enabled, and becomes so.
Toggle(e) ==
    /\ opened /\ settings # {}
    /\ switches' = [switches EXCEPT !.of[e] = IF @ = "on" THEN "off" ELSE "on"]
    /\ toggled' = toggled \cup {e}
    /\ UNCHANGED <<vars, settings, fetched, opened, saves, pastVars>>

Sent == switches

\* handleSave up to its await. A form that is not valid fails to bind, and one
\* without event types changes nothing: neither begins an update.
SaveSwitches(c) ==
    /\ opened /\ saves = {} /\ cpc[c] = "new"
    /\ saves' = {[call |-> c, form |-> switches]}
    /\ IF Sent.valid /\ Sent.of # Nothing
       THEN UpdateDeviceSubscriptions(c, Sent.of)
       ELSE cpc' = [cpc EXCEPT ![c] = "ok"]
            /\ UNCHANGED <<row, cache, body, event, value, crashes, unsettled>>
    /\ outside' = outside \cup {"saved"}
    /\ UNCHANGED <<dialogStateVars, confirmed, subscriptionFaults>>

\* Another page, or a client of the API, updates the same device.
OtherUpdate(c, b) ==
    /\ UpdateDeviceSubscriptions(c, b)
    /\ outside' = outside \cup {"foreign"}
    /\ UNCHANGED <<dialogStateVars, saves, confirmed, subscriptionFaults>>

\* The route answers 200 to whatever the API answers: success is reported and
\* the dialog closed, also if it was opened again meanwhile. SWR's data stay.
SaveAnswered ==
    \E p \in saves :
        /\ cpc[p.call] \in {"ok", "error"}
        /\ saves' = {}
        /\ opened' = FALSE
        /\ confirmed' = p.form.of
        /\ UNCHANGED <<vars, settings, fetched, switches, toggled, outside,
                       subscriptionFaults>>

\* No answer, or one of the route that has lost the API: the dialog stays.
SaveLost ==
    /\ saves # {}
    /\ saves' = {}
    /\ SubscriptionFault("lost")
    /\ UNCHANGED <<vars, dialogStateVars, confirmed>>

-----------------------------------------------------------------------------
(* The store, as in module Subscriptions.                                  *)

StoreNext(c, e) == StoreSetting(c, e) /\ UNCHANGED switchVars
CopyNext(c)     == CopyUnderLock(c) /\ UNCHANGED switchVars

StoreError(c, e) ==
    /\ StoreSettingFails(c, e)
    /\ outside' = outside \cup {"error"}
    /\ UNCHANGED <<dialogStateVars, saves, confirmed, subscriptionFaults>>

\* The request of the dialog fails with the process.
CrashUnderPage ==
    /\ Crash
    /\ saves' = {p \in saves : cpc[p.call] \notin {"store", "copy"}}
    /\ outside' = outside \cup {"lost"}
    /\ UNCHANGED <<dialogStateVars, confirmed, subscriptionFaults>>
-----------------------------------------------------------------------------

SubscriptionsPageNext ==
    \/ Reconnect \/ SettingsFetched \/ SettingsRefused
    \/ OpenSwitches \/ CloseSwitches \/ SaveAnswered \/ SaveLost
    \/ \E e \in EventTypes : Toggle(e)
    \/ \E c \in Calls : SaveSwitches(c) \/ CopyNext(c)
    \/ \E c \in Calls, b \in [EventTypes -> Setting] : OtherUpdate(c, b)
    \/ \E c \in Calls, e \in EventTypes : StoreNext(c, e) \/ StoreError(c, e)
    \/ CrashUnderPage

SubscriptionsPageSpec == SubscriptionsPageInit /\ [][SubscriptionsPageNext]_subscriptionsPageVars

-----------------------------------------------------------------------------
(* Safety.                                                                 *)

\* What the dialog reported updated is what the database holds when none of its
\* saves is under way, unless somebody else wrote, the API answered with an
\* error the route hides, or a connection was lost (subscriptions-dialog.tsx:120-149,
\* route.ts:40-49).
ReportedIsStored ==
    saves = {} /\ outside \cap {"foreign", "error", "lost"} = {}
        => \A e \in EventTypes : confirmed[e] \in {"absent", row[e]}

\* Nothing is under way that could change a setting.
Quiet == \A c \in Calls : cpc[c] \notin {"store", "copy"}

\* Whether the dialog shows a setting that is not the one in force, although
\* the user has not touched it and the settings have arrived.
ShowsOther(e) ==
    /\ opened /\ settings # {} /\ fetched = {} /\ saves = {} /\ Quiet
    /\ e \notin toggled
    /\ switches.of[e] # Stored[e]

\* Until its first save the dialog shows the settings in force, toggled or
\* cancelled and opened again, unless somebody else writes or the API fails
\* (subscriptions-dialog.tsx:98-112).
FirstSwitchesAreStored ==
    outside = {} => \A e \in EventTypes : ~ ShowsOther(e)
=============================================================================
