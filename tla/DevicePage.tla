----------------------------- MODULE DevicePage ----------------------------
(***************************************************************************)
(* The cards of the devices page: SWR's polling of each device's status,   *)
(* the menu of a card, and the provider that sends its orders. What the    *)
(* server does is reduced to whether a device is connected; module         *)
(* DeviceLifecycle has the rest.                                           *)
(***************************************************************************)
EXTENDS Browser

CONSTANTS
    CardDevices,  \* the devices the page was rendered with
    Paired,       \* those of them that had a JID by then
    MaxOrders     \* bound: clicks on Connect and Disconnect

ASSUME DevicePageAssumption == Paired \subseteq CardDevices /\ MaxOrders \in Nat

VARIABLES
    online,     \* the devices that are connected
    rendered,   \* device.is_connected, as the page was rendered
    statuses,   \* SWR's data: none yet, or an answer
    statusDue,  \* the answer on its way to a card, if there is one
    flags,      \* isConnecting and isDisconnecting of the provider
    orders,     \* its requests in flight, numbered
    ordered,    \* history: how many there were
    cardFaults

cardVars == <<online, rendered, statuses, statusDue, flags, orders, ordered, cardFaults>>

Order == [n : 1..MaxOrders, via : {"connect", "disconnect"}, device : CardDevices,
          stage : {"out", "done", "failed"}]

DevicePageTypeOK ==
    /\ online \subseteq CardDevices /\ rendered \subseteq CardDevices
    /\ statuses \in [CardDevices -> SUBSET BOOLEAN]
    /\ statusDue \in [CardDevices -> SUBSET BOOLEAN]
    /\ flags \in [connect : BOOLEAN, disconnect : BOOLEAN]
    /\ orders \subseteq Order
    /\ ordered \in 0..MaxOrders
    /\ cardFaults \in 0..MaxFaults

DevicePageInit ==
    /\ online \in SUBSET Paired
    /\ rendered = online
    /\ statuses = [d \in CardDevices |-> {}]
    /\ statusDue = [d \in CardDevices |-> {}]
    /\ flags = [connect |-> FALSE, disconnect |-> FALSE]
    /\ orders = {}
    /\ ordered = 0
    /\ cardFaults = 0

CardFault == cardFaults < MaxFaults /\ cardFaults' = cardFaults + 1

orderVars == <<flags, orders, ordered>>
pollVars  == <<statuses, statusDue>>

-----------------------------------------------------------------------------
(* Faulty variants of definitions below.                                   *)

\* The item of the menu is not disabled.
ItemAlways(via) == TRUE

-----------------------------------------------------------------------------
(* The status of a card.                                                   *)

\* The polled status, and until there is one what the page was rendered with.
ShownConnected(d) == IF statuses[d] = {} THEN d \in rendered ELSE TRUE \in statuses[d]

\* On mounting, every fifteen seconds and on focus. A failed one is repeated.
AskStatus(d) ==
    /\ statusDue[d] = {}
    /\ statusDue' = [statusDue EXCEPT ![d] = {d \in online}]
    /\ UNCHANGED <<online, rendered, statuses, orderVars, cardFaults>>

StatusAnswered(d) ==
    /\ statusDue[d] # {}
    /\ statuses' = [statuses EXCEPT ![d] = statusDue[d]]
    /\ statusDue' = [statusDue EXCEPT ![d] = {}]
    /\ UNCHANGED <<online, rendered, orderVars, cardFaults>>

\* The route answers 500, or nobody does: the last status stays.
StatusFailed(d) ==
    /\ statusDue[d] # {}
    /\ CardFault
    /\ statusDue' = [statusDue EXCEPT ![d] = {}]
    /\ UNCHANGED <<online, rendered, statuses, orderVars>>

\* The device connects or disconnects by itself.
StatusChanges(d) ==
    /\ d \in Paired
    /\ CardFault
    /\ online' = IF d \in online THEN online \ {d} ELSE online \cup {d}
    /\ UNCHANGED <<rendered, pollVars, orderVars>>

-----------------------------------------------------------------------------
(* connectDevice and disconnectDevice of the provider.                     *)

\* One flag for all cards.
ItemEnabled(via) == ~ flags[via]

GiveOrder(via, d) ==
    /\ ItemEnabled(via)
    /\ ordered < MaxOrders
    /\ ordered' = ordered + 1
    /\ orders' = orders \cup {[n |-> ordered + 1, via |-> via, device |-> d, stage |-> "out"]}
    /\ flags' = [flags EXCEPT ![via] = TRUE]
    /\ UNCHANGED <<online, rendered, pollVars, cardFaults>>

PressConnect(d)    == d \in Paired /\ ~ ShownConnected(d) /\ GiveOrder("connect", d)
PressDisconnect(d) == ShownConnected(d) /\ GiveOrder("disconnect", d)

Outcome(p, stage) == orders' = (orders \ {p}) \cup {[p EXCEPT !.stage = stage]}

\* The server does as it is told; to disconnect what is not connected is an error.
OrderDone(p) ==
    /\ p \in orders /\ p.stage = "out"
    /\ IF p.via = "connect" THEN online' = online \cup {p.device}
                            ELSE p.device \in online /\ online' = online \ {p.device}
    /\ Outcome(p, "done")
    /\ UNCHANGED <<rendered, pollVars, flags, ordered, cardFaults>>

OrderRefused(p) ==
    /\ p \in orders /\ p.stage = "out"
    /\ \/ CardFault
       \/ p.via = "disconnect" /\ p.device \notin online /\ UNCHANGED cardFaults
    /\ Outcome(p, "failed")
    /\ UNCHANGED <<online, rendered, pollVars, flags, ordered>>

\* A toast of success or failure; the status is not asked for.
OrderAnswered(p) ==
    /\ p \in orders /\ p.stage # "out"
    /\ orders' = orders \ {p}
    /\ flags' = [flags EXCEPT ![p.via] = FALSE]
    /\ UNCHANGED <<online, rendered, pollVars, ordered, cardFaults>>
-----------------------------------------------------------------------------

DevicePageNext ==
    \/ \E d \in CardDevices :
        \/ AskStatus(d) \/ StatusAnswered(d) \/ StatusFailed(d) \/ StatusChanges(d)
        \/ PressConnect(d) \/ PressDisconnect(d)
    \/ \E p \in orders : OrderDone(p) \/ OrderRefused(p) \/ OrderAnswered(p)

DevicePageSpec == DevicePageInit /\ [][DevicePageNext]_cardVars

-----------------------------------------------------------------------------
(* Safety.                                                                 *)

\* The provider has one flag for all cards: still at most one order of a kind is
\* under way, whichever card it came from, and the items come back when it is
\* answered (device-card.tsx:100-117, kontak-providers.tsx:67-117).
OneOrderOfAKind ==
    \A via \in {"connect", "disconnect"} :
        /\ flags[via] <=> \E p \in orders : p.via = via
        /\ \A p, q \in orders : p.via = via /\ q.via = via => p = q
=============================================================================
