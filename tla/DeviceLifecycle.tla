-------------------------- MODULE DeviceLifecycle --------------------------
(***************************************************************************)
(* One device of the gateway: its row in clients, the map of running       *)
(* whatsmeow clients, and everything that starts, pairs, connects and      *)
(* disconnects them. Every Start makes a whatsmeow client of its own; the  *)
(* map holds at most one of them, and the handlers, the event handler and  *)
(* the QR watcher of any of them act on the one the map holds by then.     *)
(***************************************************************************)
EXTENDS Integers, FiniteSets

CONSTANTS
    NoClient,
    MaxStarts,         \* bound: how often Start may be called
    MutedSets,         \* settings of the event gate to look at
    MaxDeviceFailures, \* bound: how many statements may fail
    MaxDeviceCrashes   \* bound: how often the server process may die

ASSUME DeviceAssumption ==
    /\ MaxStarts \in Nat \ {0}
    /\ NoClient \notin 1..MaxStarts
    /\ {MaxDeviceFailures, MaxDeviceCrashes} \subseteq Nat
    /\ MutedSets \subseteq SUBSET {"pair_success", "connected", "disconnected", "logged_out"}

VARIABLES
    client,   \* the row: is there a jid, a qr_code, and is_connected
    running,  \* runningClients[client.ID]
    pc,       \* where each Start and its QR watcher are
    session,  \* whether the client of a Start has an identity, Store.ID; until
              \* it is made, whether the row Start was called with has a jid
    link,     \* its websocket: "down", "up", or logged "in"
    happened, \* the event it is about to hand to the event handler
    linked,   \* whether WhatsApp knows the device and its keys are stored
    ending,   \* the client DisconnectDevice has disconnected and not yet removed
    muted,    \* the event types whose subscription is switched off
    leftover, \* history: whether the row has a code whose watcher has left it there
    trouble,  \* history: an entry of the map that was replaced by another, one of
              \* another client deleted, or a client disconnected too early ("mixed"),
              \* a statement that "failed", a "crash"
    deviceFailures, deviceCrashes

lifecycleVars == <<client, running, pc, session, link, happened, linked, ending, muted,
                   leftover, trouble, deviceFailures, deviceCrashes>>

Starts == 1..MaxStarts

LifecycleTypeOK ==
    /\ client \in [jid : BOOLEAN, qr : BOOLEAN, connected : BOOLEAN]
    /\ running \in Starts \cup {NoClient}
    /\ pc \in [Starts -> {"new", "called", "made", "mapped", "watch", "success",
                          "timeout", "clear", "other", "over"}]
    /\ session \in [Starts -> BOOLEAN]
    /\ link \in [Starts -> {"down", "up", "in"}]
    /\ happened \in [Starts -> {"nothing", "pair_success", "jid_stored", "connected",
                                "disconnected", "logged_out", "refused"}]
    /\ linked \in BOOLEAN
    /\ ending \in Starts \cup {NoClient}
    /\ muted \in MutedSets
    /\ leftover \in BOOLEAN
    /\ trouble \subseteq {"mixed", "failed", "crash"}
    /\ deviceFailures \in 0..MaxDeviceFailures
    /\ deviceCrashes \in 0..MaxDeviceCrashes

\* A device that was just registered, and one that was paired before; the server
\* has come up and Connect has called Start for it.
LifecycleInit ==
    /\ linked \in BOOLEAN
    /\ client = [jid |-> linked, qr |-> FALSE, connected |-> linked]
    /\ running = NoClient
    /\ pc = [n \in Starts |-> IF n = 1 THEN "called" ELSE "new"]
    /\ session = [n \in Starts |-> n = 1 /\ client.jid]
    /\ link = [n \in Starts |-> "down"]
    /\ happened = [n \in Starts |-> "nothing"]
    /\ ending = NoClient
    /\ muted \in MutedSets
    /\ leftover = FALSE
    /\ trouble = {}
    /\ deviceFailures = 0
    /\ deviceCrashes = 0

mapVars    == <<running, ending>>
clientVars == <<session, link, happened, linked>>
boundVars  == <<muted, deviceFailures, deviceCrashes>>

\* What goes wrong if client n is disconnected: Start may still have to connect it.
Early(n) == IF pc[n] = "mapped" THEN {"mixed"} ELSE {}

IsConnected == running # NoClient /\ link[running] = "in"

Goto(n, where) == pc' = [pc EXCEPT ![n] = where]

\* A statement on the row: an error is logged, and nothing else.
StoredAnd(new, also) ==
    \/ client' = new /\ trouble' = trouble \cup also /\ UNCHANGED deviceFailures
    \/ /\ deviceFailures < MaxDeviceFailures
       /\ deviceFailures' = deviceFailures + 1
       /\ trouble' = trouble \cup also \cup {"failed"}
       /\ UNCHANGED client

StoredRow(new) == StoredAnd(new, {})

\* refreshQRCode: the code is stored, or the empty string in its place.
RefreshQRCode(code) ==
    /\ StoredRow([client EXCEPT !.qr = code])
    /\ leftover' = IF deviceFailures' = deviceFailures THEN FALSE
                   ELSE IF code THEN leftover ELSE client.qr

-----------------------------------------------------------------------------
(* Faulty variants of definitions below.                                   *)

\* The code is left in the row when the watcher has no more of them.
AfterTimeoutOver == "over"

\* The JID is not stored.
JidRowUnchanged == client

\* The client is removed from the map without disconnecting it.
DisconnectedNot(n) == link

-----------------------------------------------------------------------------
(* Start.                                                                  *)

Disconnected(n) == [link EXCEPT ![n] = "down"]

\* Called by ConnectDevice for a paired device, and by GetDeviceQR for one
\* without a client in the map.
CallStart(n) ==
    /\ pc[n] = "new" /\ \A m \in 1..(n - 1) : pc[m] # "new"
    /\ Goto(n, "called")
    /\ session' = [session EXCEPT ![n] = client.jid]
    /\ UNCHANGED <<client, mapVars, link, happened, linked, leftover, trouble, boundVars>>

ConnectDevice(n) == client.jid /\ CallStart(n)
GetDeviceQR(n)   == running = NoClient /\ CallStart(n)

StartedAlready == IsConnected

\* getDeviceStore: a client with the identity the row names, if it is still
\* stored.
MakeClient(n) ==
    /\ pc[n] = "called"
    /\ IF StartedAlready
       THEN Goto(n, "over") /\ UNCHANGED session
       ELSE Goto(n, "made") /\ session' = [session EXCEPT ![n] = @ /\ linked]
    /\ UNCHANGED <<client, mapVars, link, happened, linked, leftover, trouble, boundVars>>

\* The assignment to the map: a client that was there goes on without it.
PutInMap(n) ==
    /\ pc[n] = "made"
    /\ running' = n
    /\ trouble' = IF running = NoClient THEN trouble ELSE trouble \cup {"mixed"}
    /\ Goto(n, "mapped")
    /\ UNCHANGED <<client, ending, clientVars, leftover, boundVars>>

\* Connect, and for a client without identity the loop over its QR channel.
OpenWebsocket(n) ==
    /\ pc[n] = "mapped"
    /\ link' = [link EXCEPT ![n] = "up"]
    /\ Goto(n, IF session[n] THEN "over" ELSE "watch")
    /\ UNCHANGED <<client, mapVars, session, happened, linked, leftover, trouble, boundVars>>

\* Only a paired client survives this: without identity Start panics.
OpenWebsocketFails(n) ==
    /\ pc[n] = "mapped" /\ session[n]
    /\ Goto(n, "over")
    /\ UNCHANGED <<client, mapVars, clientVars, leftover, trouble, boundVars>>

-----------------------------------------------------------------------------
(* watchQRCodeEvents.                                                      *)

\* Codes follow each other, also after the client was disconnected by hand.
ReceiveCode(n) ==
    /\ pc[n] = "watch" /\ ~ session[n]
    /\ client.qr => leftover
    /\ RefreshQRCode(TRUE)
    /\ UNCHANGED <<mapVars, pc, clientVars, muted, deviceCrashes>>

ReceiveSuccess(n) ==
    /\ pc[n] = "success"
    /\ RefreshQRCode(FALSE)
    /\ Goto(n, "over")
    /\ UNCHANGED <<mapVars, clientVars, muted, deviceCrashes>>

\* whatsmeow has run out of codes and disconnects.
RunOutOfCodes(n) ==
    /\ pc[n] = "watch" /\ ~ session[n]
    /\ Goto(n, "timeout")
    /\ link' = [link EXCEPT ![n] = "down"]
    /\ UNCHANGED <<client, mapVars, session, happened, linked, leftover, trouble, boundVars>>

AfterTimeout == "clear"

\* Whatever client the map holds by now is disconnected and removed; if it
\* holds none, Disconnect of a nil client does nothing.
ReceiveTimeout(n) ==
    /\ pc[n] = "timeout"
    /\ IF running = NoClient THEN UNCHANGED link ELSE link' = Disconnected(running)
    /\ running' = NoClient
    /\ trouble' = IF running \in {n, NoClient} THEN trouble ELSE trouble \cup {"mixed"}
    /\ Goto(n, AfterTimeout)
    /\ UNCHANGED <<client, ending, session, happened, linked, leftover, boundVars>>

ClearCode(n) ==
    /\ pc[n] = "clear"
    /\ RefreshQRCode(FALSE)
    /\ Goto(n, "over")
    /\ UNCHANGED <<mapVars, clientVars, muted, deviceCrashes>>

\* Any other item of the channel is logged. whatsmeow ends the channel with it,
\* and the code stays in the row; with err-scanned-without-multidevice it does
\* not, and the loop goes on.
ReceiveOther(n) ==
    /\ pc[n] = "other"
    /\ Goto(n, "over")
    /\ leftover' = client.qr
    /\ UNCHANGED <<client, mapVars, clientVars, trouble, boundVars>>

-----------------------------------------------------------------------------
(* The phone and the network.                                              *)

Happens(n, what) == happened' = [happened EXCEPT ![n] = what]

\* Somebody scans a code of this client.
Scan(n) ==
    /\ pc[n] = "watch" /\ link[n] = "up" /\ ~ session[n]
    /\ session' = [session EXCEPT ![n] = TRUE]
    /\ linked' = TRUE
    /\ Happens(n, "pair_success")
    /\ UNCHANGED <<client, mapVars, pc, link, leftover, trouble, boundVars>>

\* WhatsApp closes the stream of another client with the same identity.
Login(n) ==
    /\ link[n] = "up" /\ session[n] /\ linked /\ happened[n] = "nothing"
    /\ link' = [m \in Starts |-> IF m = n THEN "in"
                                 ELSE IF link[m] = "in" THEN "down" ELSE link[m]]
    /\ Happens(n, "connected")
    /\ UNCHANGED <<client, mapVars, pc, session, linked, leftover, trouble, boundVars>>

\* WhatsApp refuses the scan or the client (a pair error, an outdated client, a
\* ban): whatsmeow disconnects it.
RefusePairing(n) ==
    /\ pc[n] = "watch" /\ link[n] = "up" /\ ~ session[n] /\ happened[n] = "nothing"
    /\ link' = [link EXCEPT ![n] = "down"]
    /\ Happens(n, "refused")
    /\ UNCHANGED <<client, mapVars, pc, session, linked, leftover, trouble, boundVars>>

\* The network fails; whatsmeow connects again by itself.
LoseConnection(n) ==
    /\ \/ link[n] = "in"
       \/ link[n] = "up" /\ pc[n] = "watch" /\ ~ session[n]
    /\ happened[n] = "nothing"
    /\ link' = [link EXCEPT ![n] = "up"]
    /\ Happens(n, "disconnected")
    /\ UNCHANGED <<client, mapVars, pc, session, linked, leftover, trouble, boundVars>>

\* The user removes the linked device on the phone; whatsmeow deletes its keys.
Unlink(n) ==
    /\ link[n] = "in" /\ happened[n] = "nothing"
    /\ link' = Disconnected(n)
    /\ session' = [session EXCEPT ![n] = FALSE]
    /\ linked' = FALSE
    /\ Happens(n, "logged_out")
    /\ UNCHANGED <<client, mapVars, pc, leftover, trouble, boundVars>>

-----------------------------------------------------------------------------
(* EventHandler.handle; the gate drops what is muted.                      *)

Handle(n, what) == happened[n] = what /\ Happens(n, "nothing")

\* After the handler the QR channel takes the event for its last item.
LastItem(what) ==
    CASE what \in {"pair_success", "jid_stored"} -> "success"
      [] what = "disconnected" -> "timeout"
      [] OTHER -> "other"

AfterEvent(n) ==
    IF pc[n] = "watch" THEN Goto(n, LastItem(happened[n])) ELSE UNCHANGED pc

DropEvent(n) ==
    /\ happened[n] \in muted
    /\ Happens(n, "nothing")
    /\ AfterEvent(n)
    /\ UNCHANGED <<client, mapVars, session, link, linked, leftover, trouble, boundVars>>

JidRow == [client EXCEPT !.jid = TRUE]

\* handlePairSuccess: setClientJID, then setConnectionStatus.
StoreJid(n) ==
    /\ "pair_success" \notin muted
    /\ happened[n] = "pair_success"
    /\ Happens(n, "jid_stored")
    /\ StoredRow(JidRow)
    /\ UNCHANGED <<mapVars, pc, session, link, linked, leftover, muted, deviceCrashes>>

StorePaired(n) ==
    /\ Handle(n, "jid_stored")
    /\ AfterEvent(n)
    /\ StoredRow([client EXCEPT !.connected = TRUE])
    /\ UNCHANGED <<mapVars, session, link, linked, leftover, muted, deviceCrashes>>

\* A pair error, an outdated client and the like are logged, or dropped.
HandleRefused(n) ==
    /\ Handle(n, "refused")
    /\ AfterEvent(n)
    /\ UNCHANGED <<client, mapVars, session, link, linked, leftover, trouble, boundVars>>

\* Without a client in the map the handler panics, which whatsmeow recovers;
\* without a push name it returns.
HandleConnected(n) ==
    /\ "connected" \notin muted
    /\ Handle(n, "connected")
    /\ \/ UNCHANGED <<client, trouble, deviceFailures>>
       \/ running # NoClient /\ StoredRow([client EXCEPT !.connected = TRUE])
    /\ UNCHANGED <<mapVars, pc, session, link, linked, leftover, muted, deviceCrashes>>

HandleDisconnected(n) ==
    /\ "disconnected" \notin muted
    /\ Handle(n, "disconnected")
    /\ AfterEvent(n)
    /\ StoredRow([client EXCEPT !.connected = FALSE])
    /\ UNCHANGED <<mapVars, session, link, linked, leftover, muted, deviceCrashes>>

\* DisconnectDevice fails if there is no client in the map, and the row stays.
HandleLoggedOut(n) ==
    /\ "logged_out" \notin muted
    /\ Handle(n, "logged_out")
    /\ IF running = NoClient
       THEN UNCHANGED <<client, link, running, trouble, deviceFailures>>
       ELSE /\ link' = Disconnected(running)
            /\ running' = NoClient
            /\ StoredAnd([client EXCEPT !.connected = FALSE], Early(running))
    /\ UNCHANGED <<pc, session, linked, ending, leftover, muted, deviceCrashes>>

-----------------------------------------------------------------------------
(* DisconnectDevice, called by its handler.                                *)

DisconnectDevice ==
    /\ running # NoClient /\ ending = NoClient
    /\ link' = Disconnected(running)
    /\ ending' = running
    /\ trouble' = trouble \cup Early(running)
    /\ UNCHANGED <<client, running, pc, session, happened, linked, leftover, boundVars>>

\* Answered with "Disconnected from whatsapp".
DeleteFromMap ==
    /\ ending # NoClient
    /\ running' = NoClient
    /\ ending' = NoClient
    /\ trouble' = IF running \in {ending, NoClient} THEN trouble ELSE trouble \cup {"mixed"}
    /\ UNCHANGED <<client, pc, clientVars, leftover, boundVars>>

\* The process dies, or Start panics; it starts again and Connect calls Start.
DeviceCrash ==
    /\ deviceCrashes < MaxDeviceCrashes
    /\ deviceCrashes' = deviceCrashes + 1
    /\ trouble' = trouble \cup {"crash"}
    /\ leftover' = client.qr
    /\ LET dead == {n \in Starts : pc[n] # "new"}
       IN  pc' = [n \in Starts |-> IF n \in dead THEN "over"
                                   ELSE IF n - 1 \in dead \cup {0} THEN "called" ELSE "new"]
    /\ session' = [n \in Starts |-> client.jid /\ pc'[n] = "called"]
    /\ link' = [n \in Starts |-> "down"]
    /\ happened' = [n \in Starts |-> "nothing"]
    /\ running' = NoClient
    /\ ending' = NoClient
    /\ UNCHANGED <<client, linked, muted, deviceFailures>>
-----------------------------------------------------------------------------

Watcher(n) ==
    \/ ReceiveCode(n) \/ ReceiveSuccess(n) \/ ReceiveTimeout(n) \/ ClearCode(n)
    \/ ReceiveOther(n)

LifecycleNext ==
    \/ \E n \in Starts :
        \/ ConnectDevice(n) \/ GetDeviceQR(n) \/ MakeClient(n) \/ PutInMap(n)
        \/ OpenWebsocket(n) \/ OpenWebsocketFails(n)
        \/ Watcher(n) \/ RunOutOfCodes(n)
        \/ Scan(n) \/ RefusePairing(n) \/ Login(n) \/ LoseConnection(n) \/ Unlink(n)
        \/ DropEvent(n) \/ StoreJid(n) \/ StorePaired(n) \/ HandleRefused(n)
        \/ HandleConnected(n) \/ HandleDisconnected(n) \/ HandleLoggedOut(n)
    \/ DisconnectDevice \/ DeleteFromMap \/ DeviceCrash

LifecycleSpec == LifecycleInit /\ [][LifecycleNext]_lifecycleVars

\* Goroutines go on, whatsmeow runs out of codes and hands over its events.
LifecycleFairness ==
    \A n \in Starts :
        /\ WF_lifecycleVars(ReceiveSuccess(n) \/ ReceiveTimeout(n) \/ ClearCode(n)
                             \/ ReceiveOther(n))
        /\ WF_lifecycleVars(RunOutOfCodes(n))
        /\ WF_lifecycleVars(DropEvent(n) \/ StoreJid(n) \/ StorePaired(n))

-----------------------------------------------------------------------------
(* Safety.                                                                 *)

\* A stored QR code belongs to a watcher that will replace or clear it, however
\* many there are, unless it was left there: by the death of the process, a
\* clearing statement that failed, or a channel that ended with an item the loop
\* does not know (core_pairing.go:18-32).
QrHasWatcher ==
    client.qr => leftover \/ \E n \in Starts : pc[n] \in {"watch", "success", "timeout",
                                                         "clear", "other"}

\* Every client that is logged in is the one the map holds, so that it can be
\* sent from and disconnected, unless a Start replaced another's entry, an entry
\* of another client was deleted, or one was disconnected before it was connected
\* (core.go:44, 68, core_device.go:49-56, core_pairing.go:25-27).
LoggedInIsInMap ==
    \A n \in Starts :
        link[n] = "in" => n \in {running, ending} \/ "mixed" \in trouble

\* A device that was paired has its JID in the row once the event is handled, so
\* that it can be connected again, unless the event was muted or a statement
\* failed or the process died under it (core_event_handler.go:139-144).
PairedHasJid ==
    linked /\ (\A n \in Starts : happened[n] # "pair_success")
        => \/ client.jid
           \/ "pair_success" \in muted \/ {"failed", "crash"} \cap trouble # {}

-----------------------------------------------------------------------------
(* Liveness.                                                               *)

\* A code that is offered for scanning is taken back in the end, unless its
\* watcher has left it there (core_pairing.go:18-32).
CodeIsTakenBack == []<>(client.qr => leftover)
=============================================================================
