--------------------------- MODULE Subscriptions ---------------------------
(***************************************************************************)
(* The event subscriptions of one device: a row per event type in          *)
(* device_subscriptions and the copy SubscriptionStore keeps in memory,    *)
(* which is the one the event handler asks before it handles an event.     *)
(*                                                                         *)
(* An update writes the row and then, under the store's lock, the copy.    *)
(* The lock is not held over both: other updates may come in between.      *)
(***************************************************************************)
EXTENDS Integers, FiniteSets

CONSTANTS
    EventTypes,  \* event types of whatsmeow
    Calls,       \* requests of UpdateDeviceSubscriptions
    NoEvent,
    Faults,      \* {"db"} when statements may fail
    MaxCrashes   \* bound: how often the server process may die

ASSUME SubscriptionsAssumption ==
    /\ NoEvent \notin EventTypes
    /\ Faults \subseteq {"db"}
    /\ MaxCrashes \in Nat

VARIABLES
    row,      \* device_subscriptions.enabled by event type, or "absent"
    cache,    \* the copy in memory
    body,     \* what a call has still to set: the loop over its request
    cpc,      \* where a call is, and what it answered
    event,    \* the event type a call is about to write to the copy
    value,    \* the setting it stored for it
    crashes,
    unsettled \* history: event types whose last update failed, or began to
              \* write the row before another one had written the copy

callVars == <<body, cpc, event, value>>
vars     == <<row, cache, callVars, crashes, unsettled>>

Setting == {"absent", "on", "off"}

TypeOK ==
    /\ row \in [EventTypes -> Setting]
    /\ cache \in [EventTypes -> Setting]
    /\ body \in [Calls -> [EventTypes -> Setting]]
    /\ cpc \in [Calls -> {"new", "store", "copy", "ok", "error"}]
    /\ event \in [Calls -> EventTypes \cup {NoEvent}]
    /\ value \in [Calls -> Setting]
    /\ crashes \in Nat
    /\ unsettled \subseteq EventTypes

Nothing == [e \in EventTypes |-> "absent"]

\* A new device has no rows: every event is enabled.
Init ==
    /\ row = Nothing
    /\ cache = Nothing
    /\ body = [c \in Calls |-> Nothing]
    /\ cpc = [c \in Calls |-> "new"]
    /\ event = [c \in Calls |-> NoEvent]
    /\ value = [c \in Calls |-> "absent"]
    /\ crashes = 0
    /\ unsettled = {}

DbMayFail == "db" \in Faults

-----------------------------------------------------------------------------
(* Faulty variants of definitions below.  No specification uses them: each *)
(* is a bug this code could plausibly have, and one of the properties at   *)
(* the end of the module rejects it.                                       *)

\* A setting is only ever written once to the copy.
CopySettingOnce(e, v) ==
    cache' = [cache EXCEPT ![e] = IF @ = "absent" THEN v ELSE @]

\* An enabled event type is kept as a NULL of the nullable column.
CopySettingNull(e, v) ==
    cache' = [cache EXCEPT ![e] = IF v = "on" THEN "null" ELSE v]

\* The copy is written although the statement failed.
AfterErrorCopies(c) == cpc' = [cpc EXCEPT ![c] = "copy"]

-----------------------------------------------------------------------------
(* UpdateDeviceSubscriptions: SetDeviceSubscriptions, SetSubscription.     *)

\* The requests that set at least one event type.
Request(b) == b \in [EventTypes -> Setting] /\ b # Nothing

UpdateDeviceSubscriptions(c, b) ==
    /\ cpc[c] = "new"
    /\ Request(b)
    /\ body' = [body EXCEPT ![c] = b]
    /\ cpc' = [cpc EXCEPT ![c] = "store"]
    /\ UNCHANGED <<row, cache, event, value, crashes, unsettled>>

\* Somebody else has stored a setting of e and not yet copied it.
CopyPending(c, e) == \E d \in Calls \ {c} : cpc[d] = "copy" /\ event[d] = e

\* CreateDeviceSubscription, for any of the remaining event types: Go ranges
\* over a map in no particular order.
StoreSetting(c, e) ==
    /\ cpc[c] = "store"
    /\ body[c][e] # "absent"
    /\ row' = [row EXCEPT ![e] = body[c][e]]
    /\ event' = [event EXCEPT ![c] = e]
    /\ value' = [value EXCEPT ![c] = body[c][e]]
    /\ body' = [body EXCEPT ![c][e] = "absent"]
    /\ cpc' = [cpc EXCEPT ![c] = "copy"]
    /\ unsettled' = IF CopyPending(c, e) THEN unsettled \cup {e} ELSE unsettled \ {e}
    /\ UNCHANGED <<cache, crashes>>

AfterError(c) == cpc' = [cpc EXCEPT ![c] = "error"]

\* The statement reports an error, with or without having taken effect: the
\* loop ends, and the answer is 500.
StoreSettingFails(c, e) ==
    /\ cpc[c] = "store"
    /\ body[c][e] # "absent"
    /\ DbMayFail
    /\ UNCHANGED row \/ row' = [row EXCEPT ![e] = body[c][e]]
    /\ AfterError(c)
    /\ event' = [event EXCEPT ![c] = e]
    /\ value' = [value EXCEPT ![c] = body[c][e]]
    /\ unsettled' = unsettled \cup {e}
    /\ UNCHANGED <<cache, body, crashes>>

\* The assignment to the copy.
CopySetting(e, v) == cache' = [cache EXCEPT ![e] = v]

\* The end of one iteration of the loop.
NextSetting(c) ==
    cpc' = [cpc EXCEPT ![c] = IF body[c] = Nothing THEN "ok" ELSE "store"]

CopyUnderLock(c) ==
    /\ cpc[c] = "copy"
    /\ CopySetting(event[c], value[c])
    /\ NextSetting(c)
    /\ event' = [event EXCEPT ![c] = NoEvent]
    /\ UNCHANGED <<row, body, value, crashes, unsettled>>
-----------------------------------------------------------------------------

\* The process dies and starts again: Load reads all rows before the server
\* accepts a request.
Crash ==
    /\ crashes < MaxCrashes
    /\ crashes' = crashes + 1
    /\ cache' = row
    /\ cpc' = [c \in Calls |-> IF cpc[c] \in {"store", "copy"} THEN "error" ELSE cpc[c]]
    /\ event' = [c \in Calls |-> NoEvent]
    /\ unsettled' = {}
    /\ UNCHANGED <<row, body, value>>

Next ==
    \/ \E c \in Calls, b \in [EventTypes -> Setting] : UpdateDeviceSubscriptions(c, b)
    \/ \E c \in Calls, e \in EventTypes : StoreSetting(c, e) \/ StoreSettingFails(c, e)
    \/ \E c \in Calls : CopyUnderLock(c)
    \/ Crash

Spec == Init /\ [][Next]_vars

-----------------------------------------------------------------------------
(* Safety.                                                                 *)

\* The gate only ever follows settings that are in the database: a failed
\* update, a lost race or a restart never mutes an event type that has no row
\* (subscription_store.go:74-92).
CopyHasRow == \A e \in EventTypes : cache[e] # "absent" => row[e] # "absent"

\* The gate and the database agree on every event type nobody is writing,
\* unless its last update failed or overlapped another one; a restart settles
\* them all (subscription_store.go:24-46, 74-92).
CopyIsCurrent ==
    \A e \in EventTypes \ unsettled :
        (\A c \in Calls : ~ (cpc[c] = "copy" /\ event[c] = e)) => cache[e] = row[e]

-----------------------------------------------------------------------------
(* What the repository's own words say, and the code does not do.          *)

\* "Update event subscriptions for a device" (device_handler.go:444): once all
\* updates are answered, the events that pass are those the database names.
SettledCopyIsStored ==
    (\A c \in Calls : cpc[c] \in {"new", "ok", "error"}) => cache = row
=============================================================================
