------------------------ MODULE DeviceLifecycleProofs -----------------------
(* Proofs of the safety of module DeviceLifecycle for any number of calls  *)
(* of Start, failing statements and restarts.                              *)
EXTENDS DeviceLifecycle, TLAPS

USE DeviceAssumption

\* The events of EventHandler, the steps of a Start, the handlers.
HandleEvent(n) ==
    \/ DropEvent(n) \/ StoreJid(n) \/ StorePaired(n) \/ HandleRefused(n)
    \/ HandleConnected(n) \/ HandleDisconnected(n) \/ HandleLoggedOut(n)

StartStep(n) ==
    \/ ConnectDevice(n) \/ GetDeviceQR(n) \/ MakeClient(n) \/ PutInMap(n)
    \/ OpenWebsocket(n) \/ OpenWebsocketFails(n)

PhoneStep(n) ==
    \/ RunOutOfCodes(n) \/ Scan(n) \/ RefusePairing(n)
    \/ Login(n) \/ LoseConnection(n) \/ Unlink(n)

LEMMA NextByActor ==
    LifecycleNext <=>
        \/ \E n \in Starts : StartStep(n) \/ Watcher(n) \/ PhoneStep(n) \/ HandleEvent(n)
        \/ DisconnectDevice \/ DeleteFromMap \/ DeviceCrash
BY DEF LifecycleNext, StartStep, PhoneStep, HandleEvent

-----------------------------------------------------------------------------
(* Types.                                                                  *)

\* The row of a device, its clients and the map keep their types, whatever
\* Starts, watchers and handlers do to each other.
LEMMA LifecycleTypeInit == LifecycleInit => LifecycleTypeOK
<1> SUFFICES ASSUME LifecycleInit PROVE LifecycleTypeOK
    OBVIOUS
<1> USE DEF LifecycleInit, Starts
<1>1. pc \in [Starts -> {"new", "called", "made", "mapped", "watch", "success",
                        "timeout", "clear", "other", "over"}]
  OBVIOUS
<1>2. /\ session \in [Starts -> BOOLEAN] /\ link \in [Starts -> {"down", "up", "in"}]
      /\ happened \in [Starts -> {"nothing", "pair_success", "jid_stored", "connected",
                                  "disconnected", "logged_out", "refused"}]
  OBVIOUS
<1>3. client \in [jid : BOOLEAN, qr : BOOLEAN, connected : BOOLEAN]
  OBVIOUS
<1>4. 0 \in 0..MaxDeviceFailures /\ 0 \in 0..MaxDeviceCrashes
  OBVIOUS
<1>5. QED
  BY <1>1, <1>2, <1>3, <1>4, Zenon DEF LifecycleTypeOK

DeviceRows == [jid : BOOLEAN, qr : BOOLEAN, connected : BOOLEAN]

Troubles == {"mixed", "failed", "crash"}

\* A statement on the row leaves a row behind, whether it fails or not.
LEMMA StoredType ==
    ASSUME LifecycleTypeOK, NEW new \in DeviceRows, NEW also \in SUBSET Troubles,
           StoredAnd(new, also)
    PROVE  client' \in DeviceRows /\ trouble' \subseteq Troubles
           /\ deviceFailures' \in 0..MaxDeviceFailures
<1>1. CASE client' = new /\ trouble' = trouble \cup also /\ UNCHANGED deviceFailures
  BY <1>1 DEF LifecycleTypeOK, Troubles
<1>2. CASE /\ deviceFailures < MaxDeviceFailures
           /\ deviceFailures' = deviceFailures + 1
           /\ trouble' = trouble \cup also \cup {"failed"}
           /\ UNCHANGED client
  BY <1>2 DEF LifecycleTypeOK, Troubles, DeviceRows
<1>3. QED
  BY <1>1, <1>2 DEF StoredAnd

\* A code is stored or cleared, or the statement fails; a code that is not
\* cleared is left over.
LEMMA RefreshFacts ==
    ASSUME LifecycleTypeOK, NEW code \in BOOLEAN, RefreshQRCode(code)
    PROVE  /\ client' \in DeviceRows /\ trouble' \subseteq Troubles
           /\ deviceFailures' \in 0..MaxDeviceFailures
           /\ leftover' \in BOOLEAN
           /\ trouble \subseteq trouble'
           /\ client' = client \/ client' = [client EXCEPT !.qr = code]
           /\ ~ code /\ client'.qr => leftover'
<1> DEFINE new == [client EXCEPT !.qr = code]
<1>1. new \in DeviceRows /\ new.qr = code
  BY DEF LifecycleTypeOK, DeviceRows
<1>2. StoredAnd(new, {})
  BY DEF RefreshQRCode, StoredRow
<1>3. client' \in DeviceRows /\ trouble' \subseteq Troubles
      /\ deviceFailures' \in 0..MaxDeviceFailures
  BY <1>1, <1>2, StoredType
<1>4. CASE client' = new /\ trouble' = trouble \cup {} /\ UNCHANGED deviceFailures
  <2>1. leftover' = FALSE
    BY <1>4 DEF RefreshQRCode
  <2>2. QED
    BY <1>1, <1>3, <1>4, <2>1
<1>5. CASE /\ deviceFailures' = deviceFailures + 1
           /\ trouble' = trouble \cup {} \cup {"failed"}
           /\ UNCHANGED client
  <2>1. deviceFailures' # deviceFailures
    BY <1>5 DEF LifecycleTypeOK
  <2>2. leftover' = IF code THEN leftover ELSE client.qr
    BY <2>1 DEF RefreshQRCode
  <2>3. QED
    BY <1>3, <1>5, <2>2 DEF LifecycleTypeOK
<1>6. QED
  BY <1>2, <1>4, <1>5 DEF StoredAnd

LEMMA LifecycleTypeStep ==
    LifecycleTypeOK /\ [LifecycleNext]_lifecycleVars => LifecycleTypeOK'
<1> SUFFICES ASSUME LifecycleTypeOK, [LifecycleNext]_lifecycleVars
             PROVE  LifecycleTypeOK'
    OBVIOUS
<1> USE DEF LifecycleTypeOK, mapVars, clientVars, boundVars, Goto
<1>1. ASSUME NEW n \in Starts, StartStep(n)
      PROVE  LifecycleTypeOK'
  <2>1. CASE ConnectDevice(n)
    BY <2>1 DEF ConnectDevice, CallStart
  <2>2. CASE GetDeviceQR(n)
    BY <2>2 DEF GetDeviceQR, CallStart
  <2>3. CASE MakeClient(n)
    BY <2>3 DEF MakeClient
  <2>4. CASE PutInMap(n)
    BY <2>4 DEF PutInMap
  <2>5. CASE OpenWebsocket(n)
    BY <2>5 DEF OpenWebsocket
  <2>6. CASE OpenWebsocketFails(n)
    BY <2>6 DEF OpenWebsocketFails
  <2>7. QED
    BY <1>1, <2>1, <2>2, <2>3, <2>4, <2>5, <2>6 DEF StartStep
<1>2. ASSUME NEW n \in Starts, Watcher(n)
      PROVE  LifecycleTypeOK'
  <2>1. CASE ReceiveCode(n)
    <3>1. RefreshQRCode(TRUE)
      BY <2>1 DEF ReceiveCode
    <3>2. client' \in DeviceRows /\ trouble' \subseteq Troubles /\ leftover' \in BOOLEAN
          /\ deviceFailures' \in 0..MaxDeviceFailures
      BY <3>1, RefreshFacts
    <3>3. QED
      BY <2>1, <3>2 DEF ReceiveCode, DeviceRows, Troubles
  <2>2. CASE ReceiveSuccess(n)
    <3>1. RefreshQRCode(FALSE)
      BY <2>2 DEF ReceiveSuccess
    <3>2. client' \in DeviceRows /\ trouble' \subseteq Troubles /\ leftover' \in BOOLEAN
          /\ deviceFailures' \in 0..MaxDeviceFailures
      BY <3>1, RefreshFacts
    <3>3. QED
      BY <2>2, <3>2 DEF ReceiveSuccess, DeviceRows, Troubles
  <2>3. CASE ReceiveTimeout(n)
    BY <2>3 DEF ReceiveTimeout, Disconnected, AfterTimeout
  <2>4. CASE ClearCode(n)
    <3>1. RefreshQRCode(FALSE)
      BY <2>4 DEF ClearCode
    <3>2. client' \in DeviceRows /\ trouble' \subseteq Troubles /\ leftover' \in BOOLEAN
          /\ deviceFailures' \in 0..MaxDeviceFailures
      BY <3>1, RefreshFacts
    <3>3. QED
      BY <2>4, <3>2 DEF ClearCode, DeviceRows, Troubles
  <2>5. CASE ReceiveOther(n)
    BY <2>5 DEF ReceiveOther
  <2>6. QED
    BY <1>2, <2>1, <2>2, <2>3, <2>4, <2>5 DEF Watcher
<1>3. ASSUME NEW n \in Starts, PhoneStep(n)
      PROVE  LifecycleTypeOK'
  <2>1. CASE RunOutOfCodes(n)
    BY <2>1 DEF RunOutOfCodes
  <2>2. CASE Scan(n)
    BY <2>2 DEF Scan, Happens
  <2>3. CASE Login(n)
    BY <2>3 DEF Login, Happens
  <2>4. CASE LoseConnection(n)
    BY <2>4 DEF LoseConnection, Happens
  <2>5. CASE Unlink(n)
    BY <2>5 DEF Unlink, Happens, Disconnected
  <2>6. CASE RefusePairing(n)
    BY <2>6 DEF RefusePairing, Happens
  <2>7. QED
    BY <1>3, <2>1, <2>2, <2>3, <2>4, <2>5, <2>6 DEF PhoneStep
<1>4. ASSUME NEW n \in Starts, HandleEvent(n)
      PROVE  LifecycleTypeOK'
  <2>1. CASE DropEvent(n)
    BY <2>1 DEF DropEvent, Happens, AfterEvent, LastItem
  <2>2. CASE StoreJid(n)
    <3>1. JidRow \in DeviceRows
      BY DEF DeviceRows, JidRow
    <3>2. StoredAnd(JidRow, {})
      BY <2>2 DEF StoreJid, StoredRow
    <3>3. client' \in DeviceRows /\ trouble' \subseteq Troubles
          /\ deviceFailures' \in 0..MaxDeviceFailures
      BY <3>1, <3>2, StoredType
    <3>4. QED
      BY <2>2, <3>3 DEF StoreJid, Happens, DeviceRows, Troubles
  <2>3. CASE HandleConnected(n)
    <3>1. [client EXCEPT !.connected = TRUE] \in DeviceRows
      BY DEF DeviceRows
    <3>2. client' \in DeviceRows /\ trouble' \subseteq Troubles
          /\ deviceFailures' \in 0..MaxDeviceFailures
      <4>1. CASE UNCHANGED <<client, trouble, deviceFailures>>
        BY <4>1 DEF DeviceRows, Troubles
      <4>2. CASE StoredRow([client EXCEPT !.connected = TRUE])
        BY <3>1, <4>2, StoredType DEF StoredRow
      <4>3. QED
        BY <2>3, <4>1, <4>2 DEF HandleConnected
    <3>3. QED
      BY <2>3, <3>2 DEF HandleConnected, Handle, Happens, DeviceRows, Troubles
  <2>4. CASE HandleDisconnected(n)
    <3>1. [client EXCEPT !.connected = FALSE] \in DeviceRows
      BY DEF DeviceRows
    <3>2. StoredAnd([client EXCEPT !.connected = FALSE], {})
      BY <2>4 DEF HandleDisconnected, StoredRow
    <3>3. client' \in DeviceRows /\ trouble' \subseteq Troubles
          /\ deviceFailures' \in 0..MaxDeviceFailures
      BY <3>1, <3>2, StoredType
    <3>4. pc' \in [Starts -> {"new", "called", "made", "mapped", "watch", "success",
                               "timeout", "clear", "other", "over"}]
      BY <2>4 DEF HandleDisconnected, Handle, AfterEvent, LastItem
    <3>5. QED
      BY <2>4, <3>3, <3>4 DEF HandleDisconnected, Handle, Happens, DeviceRows, Troubles
  <2>5. CASE HandleLoggedOut(n)
    <3>1. [client EXCEPT !.connected = FALSE] \in DeviceRows
      BY DEF DeviceRows
    <3>2. client' \in DeviceRows /\ trouble' \subseteq Troubles
          /\ deviceFailures' \in 0..MaxDeviceFailures
      <4>1. CASE running = NoClient
        BY <2>5, <4>1 DEF HandleLoggedOut, DeviceRows, Troubles
      <4>2. CASE running # NoClient
        <5>1. Early(running) \in SUBSET Troubles
          BY DEF Early, Troubles
        <5>2. StoredAnd([client EXCEPT !.connected = FALSE], Early(running))
          BY <2>5, <4>2 DEF HandleLoggedOut
        <5>3. QED
          BY <3>1, <5>1, <5>2, StoredType
      <4>3. QED
        BY <4>1, <4>2
    <3>3. link' \in [Starts -> {"down", "up", "in"}] /\ running' \in Starts \cup {NoClient}
      BY <2>5 DEF HandleLoggedOut, Disconnected
    <3>4. QED
      BY <2>5, <3>2, <3>3 DEF HandleLoggedOut, Handle, Happens, DeviceRows, Troubles
  <2>6. CASE StorePaired(n)
    <3>1. [client EXCEPT !.connected = TRUE] \in DeviceRows
      BY DEF DeviceRows
    <3>2. StoredAnd([client EXCEPT !.connected = TRUE], {})
      BY <2>6 DEF StorePaired, StoredRow
    <3>3. client' \in DeviceRows /\ trouble' \subseteq Troubles
          /\ deviceFailures' \in 0..MaxDeviceFailures
      BY <3>1, <3>2, StoredType
    <3>4. pc' \in [Starts -> {"new", "called", "made", "mapped", "watch", "success",
                               "timeout", "clear", "other", "over"}]
      BY <2>6 DEF StorePaired, Handle, AfterEvent, LastItem
    <3>5. QED
      BY <2>6, <3>3, <3>4 DEF StorePaired, Handle, Happens, DeviceRows, Troubles
  <2>7. CASE HandleRefused(n)
    BY <2>7 DEF HandleRefused, Handle, Happens, AfterEvent, LastItem
  <2>8. QED
    BY <1>4, <2>1, <2>2, <2>3, <2>4, <2>5, <2>6, <2>7 DEF HandleEvent
<1>5. CASE DisconnectDevice
    BY <1>5 DEF DisconnectDevice, Disconnected, Early
<1>6. CASE DeleteFromMap
    BY <1>6 DEF DeleteFromMap
<1>7. CASE DeviceCrash
    BY <1>7 DEF DeviceCrash
<1>8. CASE UNCHANGED lifecycleVars
    BY <1>8 DEF lifecycleVars
<1>9. QED
    BY <1>1, <1>2, <1>3, <1>4, <1>5, <1>6, <1>7, <1>8, NextByActor

THEOREM LifecycleTypeCorrect == LifecycleSpec => []LifecycleTypeOK
BY LifecycleTypeInit, LifecycleTypeStep, PTL DEF LifecycleSpec

-----------------------------------------------------------------------------
(* What a statement and an event leave of the row and of the history.      *)

LEMMA StoredFacts ==
    ASSUME NEW new, NEW also, StoredAnd(new, also)
    PROVE  /\ trouble \cup also \subseteq trouble'
           /\ client' = new \/ (client' = client /\ "failed" \in trouble')
<1>1. CASE client' = new /\ trouble' = trouble \cup also /\ UNCHANGED deviceFailures
  BY <1>1
<1>2. CASE /\ trouble' = trouble \cup also \cup {"failed"}
           /\ UNCHANGED client
  BY <1>2
<1>3. QED
  BY <1>1, <1>2, Zenon DEF StoredAnd

LEMMA StoredRowFacts ==
    ASSUME NEW new, StoredRow(new)
    PROVE  /\ trouble \subseteq trouble'
           /\ client' = new \/ (client' = client /\ "failed" \in trouble')
<1>1. trouble \cup {} \subseteq trouble'
  BY StoredFacts, Zenon DEF StoredRow
<1>2. QED
  BY <1>1, StoredFacts, Zenon DEF StoredRow

\* A statement writes the column it names.
LEMMA RowColumns ==
    ASSUME LifecycleTypeOK, NEW b \in BOOLEAN
    PROVE  /\ [client EXCEPT !.qr = b].jid = client.jid
           /\ [client EXCEPT !.qr = b].qr = b
           /\ [client EXCEPT !.connected = b].jid = client.jid
           /\ [client EXCEPT !.connected = b].qr = client.qr
           /\ JidRow.jid /\ JidRow.qr = client.qr
BY DEF LifecycleTypeOK, JidRow

\* Nothing is taken out of the history.
LEMMA TroubleGrows ==
    LifecycleTypeOK /\ LifecycleNext => trouble \subseteq trouble'
<1> SUFFICES ASSUME LifecycleTypeOK, LifecycleNext PROVE trouble \subseteq trouble'
    OBVIOUS
<1> USE DEF clientVars, boundVars
<1>1. ASSUME NEW n \in Starts, StartStep(n) PROVE trouble \subseteq trouble'
  BY <1>1 DEF StartStep, ConnectDevice, GetDeviceQR, CallStart, MakeClient, PutInMap,
              OpenWebsocket, OpenWebsocketFails
<1>2. ASSUME NEW n \in Starts, Watcher(n) PROVE trouble \subseteq trouble'
  BY <1>2, RefreshFacts
     DEF Watcher, ReceiveCode, ReceiveSuccess, ReceiveTimeout, ClearCode, ReceiveOther
<1>3. ASSUME NEW n \in Starts, PhoneStep(n) PROVE trouble \subseteq trouble'
  BY <1>3 DEF PhoneStep, RunOutOfCodes, Scan, RefusePairing, Login, LoseConnection,
              Unlink
<1>4. ASSUME NEW n \in Starts, HandleEvent(n) PROVE trouble \subseteq trouble'
  BY <1>4, StoredRowFacts, StoredFacts
     DEF HandleEvent, DropEvent, StoreJid, StorePaired, HandleRefused, HandleConnected,
         HandleDisconnected, HandleLoggedOut
<1>5. CASE DisconnectDevice \/ DeleteFromMap \/ DeviceCrash
  BY <1>5 DEF DisconnectDevice, DeleteFromMap, DeviceCrash
<1>6. QED
  BY <1>1, <1>2, <1>3, <1>4, <1>5, NextByActor

-----------------------------------------------------------------------------
(* A code in the row has a watcher. The property is inductive: a watcher   *)
(* leaves its loop after it has cleared the row, or the code is left over. *)

Watching == {"watch", "success", "timeout", "clear", "other"}

LEMMA QrStep ==
    LifecycleTypeOK /\ QrHasWatcher /\ [LifecycleNext]_lifecycleVars => QrHasWatcher'
<1> SUFFICES ASSUME LifecycleTypeOK, QrHasWatcher, [LifecycleNext]_lifecycleVars,
                    client'.qr, ~ leftover'
             PROVE  \E n \in Starts : pc'[n] \in Watching
    BY DEF QrHasWatcher, Watching
<1>1. CASE UNCHANGED lifecycleVars
  BY <1>1 DEF lifecycleVars, QrHasWatcher, Watching
<1>2. CASE LifecycleNext
  <2>2. ASSUME client.qr, ~ leftover, \A n \in Starts : pc[n] \in Watching => pc'[n] \in Watching
        PROVE  \E n \in Starts : pc'[n] \in Watching
    BY <2>2 DEF QrHasWatcher, Watching
  <2> USE DEF clientVars, Goto, Watching, LifecycleTypeOK
  <2>3. ASSUME NEW n \in Starts, StartStep(n)
        PROVE  \E m \in Starts : pc'[m] \in Watching
    BY <2>2, <2>3 DEF StartStep, ConnectDevice, GetDeviceQR, CallStart, MakeClient, PutInMap,
                OpenWebsocket, OpenWebsocketFails
  <2>4. ASSUME NEW n \in Starts, Watcher(n)
        PROVE  \E m \in Starts : pc'[m] \in Watching
    <3>1. CASE ReceiveCode(n)
      BY <3>1 DEF ReceiveCode
    <3>2. CASE ReceiveSuccess(n) \/ ClearCode(n)
      <4>1. RefreshQRCode(FALSE)
        BY <3>2 DEF ReceiveSuccess, ClearCode
      <4>2. QED
        BY <4>1, RefreshFacts
    <3>3. CASE ReceiveTimeout(n)
      BY <3>3 DEF ReceiveTimeout, AfterTimeout
    <3>4. CASE ReceiveOther(n)
      BY <3>4 DEF ReceiveOther
    <3>5. QED
      BY <2>4, <3>1, <3>2, <3>3, <3>4 DEF Watcher
  <2>5. ASSUME NEW n \in Starts, PhoneStep(n)
        PROVE  \E m \in Starts : pc'[m] \in Watching
    BY <2>2, <2>5 DEF PhoneStep, RunOutOfCodes, Scan, RefusePairing, Login, LoseConnection,
                      Unlink
  <2>6. ASSUME NEW n \in Starts, HandleEvent(n)
        PROVE  \E m \in Starts : pc'[m] \in Watching
    <3>1. \A m \in Starts : pc[m] \in Watching => pc'[m] \in Watching
      BY <2>6 DEF HandleEvent, DropEvent, StoreJid, StorePaired, HandleRefused,
                  HandleConnected, HandleDisconnected, HandleLoggedOut, AfterEvent, LastItem
    <3>2. client'.qr = client.qr
      <4>1. \/ client' = client \/ client' = JidRow
            \/ client' = [client EXCEPT !.connected = TRUE]
            \/ client' = [client EXCEPT !.connected = FALSE]
        BY <2>6, StoredRowFacts, StoredFacts
           DEF HandleEvent, DropEvent, StoreJid, StorePaired, HandleRefused,
               HandleConnected, HandleDisconnected, HandleLoggedOut
      <4>2. QED
        BY <4>1, RowColumns
    <3>3. leftover' = leftover
      BY <2>6 DEF HandleEvent, DropEvent, StoreJid, StorePaired, HandleRefused,
                  HandleConnected, HandleDisconnected, HandleLoggedOut
    <3>4. QED
      BY <3>1, <3>2, <3>3, <2>2
  <2>7. CASE DisconnectDevice \/ DeleteFromMap
    BY <2>2, <2>7 DEF DisconnectDevice, DeleteFromMap
  <2>8. CASE DeviceCrash
    BY <2>8 DEF DeviceCrash
  <2>9. QED
    BY <1>2, <2>3, <2>4, <2>5, <2>6, <2>7, <2>8, NextByActor
<1>3. QED
  BY <1>1, <1>2

\* A stored QR code belongs to a watcher that will replace or clear it, or was
\* left over when its watcher ended or died, for any number of Starts
\* (core_pairing.go:18-32).
THEOREM QrCodeHasWatcher == LifecycleSpec => []QrHasWatcher
<1>1. LifecycleInit => QrHasWatcher
  BY DEF LifecycleInit, QrHasWatcher
<1>2. QED
  BY <1>1, LifecycleTypeCorrect, QrStep, PTL DEF LifecycleSpec

-----------------------------------------------------------------------------
(* A paired device has its JID. Inductive as well: only Scan links, and    *)
(* its event is not taken before the row is written.                       *)

LEMMA JidStep ==
    LifecycleTypeOK /\ PairedHasJid /\ [LifecycleNext]_lifecycleVars => PairedHasJid'
<1> SUFFICES ASSUME LifecycleTypeOK, PairedHasJid, [LifecycleNext]_lifecycleVars, linked',
                    \A n \in Starts : happened'[n] # "pair_success",
                    "pair_success" \notin muted',
                    "failed" \notin trouble', "crash" \notin trouble'
             PROVE  client'.jid
    BY DEF PairedHasJid
<1>1. CASE UNCHANGED lifecycleVars
  BY <1>1 DEF lifecycleVars, PairedHasJid
<1>2. CASE LifecycleNext
  <2> USE DEF clientVars, boundVars, mapVars, LifecycleTypeOK
  <2>1. "failed" \notin trouble /\ "crash" \notin trouble
    BY <1>2, TroubleGrows
  <2>2. ASSUME linked, muted' = muted, client'.jid = client.jid,
               \A n \in Starts : happened[n] # "pair_success"
        PROVE  client'.jid
    BY <2>1, <2>2 DEF PairedHasJid
  <2>3. ASSUME NEW n \in Starts, StartStep(n) PROVE client'.jid
    BY <2>2, <2>3 DEF StartStep, ConnectDevice, GetDeviceQR, CallStart, MakeClient, PutInMap,
                OpenWebsocket, OpenWebsocketFails
  <2>4. ASSUME NEW n \in Starts, Watcher(n) PROVE client'.jid
    <3>1. client'.jid = client.jid
      <4>1. \/ client' = client \/ client' = [client EXCEPT !.qr = TRUE]
            \/ client' = [client EXCEPT !.qr = FALSE]
        BY <2>4, RefreshFacts
           DEF Watcher, ReceiveCode, ReceiveSuccess, ReceiveTimeout, ClearCode, ReceiveOther
      <4>2. QED
        BY <4>1, RowColumns
    <3>2. QED
      BY <3>1, <2>2, <2>4
         DEF Watcher, ReceiveCode, ReceiveSuccess, ReceiveTimeout, ClearCode, ReceiveOther
  <2>5. ASSUME NEW n \in Starts, PhoneStep(n) PROVE client'.jid
    <3>1. CASE RunOutOfCodes(n)
      BY <2>2, <3>1 DEF RunOutOfCodes
    <3>2. CASE Scan(n)
      BY <3>2 DEF Scan, Happens
    <3>3. CASE Login(n)
      BY <2>2, <3>3 DEF Login, Happens
    <3>4. CASE LoseConnection(n)
      BY <2>2, <3>4 DEF LoseConnection, Happens
    <3>5. CASE Unlink(n)
      BY <3>5 DEF Unlink
    <3>6. CASE RefusePairing(n)
      BY <2>2, <3>6 DEF RefusePairing, Happens
    <3>7. QED
      BY <2>5, <3>1, <3>2, <3>3, <3>4, <3>5, <3>6 DEF PhoneStep
  <2>6. ASSUME NEW n \in Starts, HandleEvent(n) PROVE client'.jid
    <3>1. CASE StoreJid(n)
      BY <3>1, StoredRowFacts, RowColumns DEF StoreJid
    <3>2. CASE DropEvent(n)
      BY <2>2, <3>2 DEF DropEvent, Happens
    <3>3. CASE \/ StorePaired(n) \/ HandleConnected(n)
               \/ HandleDisconnected(n) \/ HandleLoggedOut(n)
      <4>1. \/ client' = client
            \/ client' = [client EXCEPT !.connected = TRUE]
            \/ client' = [client EXCEPT !.connected = FALSE]
        BY <3>3, StoredRowFacts, StoredFacts
           DEF StorePaired, HandleConnected, HandleDisconnected, HandleLoggedOut
      <4>2. client'.jid = client.jid
        BY <4>1, RowColumns
      <4>3. linked /\ muted' = muted
        BY <3>3 DEF StorePaired, HandleConnected, HandleDisconnected, HandleLoggedOut
      <4>4. \A m \in Starts : happened[m] # "pair_success"
        <5>1. \E what \in {"jid_stored", "connected", "disconnected", "logged_out"} :
                Handle(n, what)
          BY <3>3, Zenon
             DEF StorePaired, HandleConnected, HandleDisconnected, HandleLoggedOut
        <5>2. QED
          BY <5>1 DEF Handle, Happens
      <4>5. QED
        BY <4>2, <4>3, <4>4, <2>2
    <3>4. CASE HandleRefused(n)
      <4>1. \A m \in Starts : happened[m] # "pair_success"
        BY <3>4 DEF HandleRefused, Handle, Happens
      <4>2. QED
        BY <2>2, <3>4, <4>1 DEF HandleRefused
    <3>5. QED
      BY <2>6, <3>1, <3>2, <3>3, <3>4 DEF HandleEvent
  <2>7. CASE DisconnectDevice \/ DeleteFromMap
    BY <2>2, <2>7 DEF DisconnectDevice, DeleteFromMap
  <2>8. CASE DeviceCrash
    BY <2>8 DEF DeviceCrash
  <2>9. QED
    BY <1>2, <2>3, <2>4, <2>5, <2>6, <2>7, <2>8, NextByActor
<1>3. QED
  BY <1>1, <1>2

\* A device that was paired can be connected again, unless its event was muted, a
\* statement failed or the process died (core_event_handler.go:139-144).
THEOREM PairedDeviceHasJid == LifecycleSpec => []PairedHasJid
<1>1. LifecycleInit => PairedHasJid
  BY DEF LifecycleInit, PairedHasJid
<1>2. QED
  BY <1>1, LifecycleTypeCorrect, JidStep, PTL DEF LifecycleSpec

-----------------------------------------------------------------------------
(* The map holds the client that is logged in. Two things have to be added *)
(* to make this inductive: a websocket that is up, or about to be opened,  *)
(* is that of the entry; and what is about to be removed from the map was  *)
(* disconnected and will not be connected again.                           *)

NoTrouble == "mixed" \notin trouble

EntryIsMade == running # NoClient => pc[running] \notin {"new", "called", "made"}

UpIsEntry ==
    NoTrouble => \A n \in Starts : link[n] # "down" \/ pc[n] = "mapped" => n = running

EndingIsDown ==
    NoTrouble /\ ending # NoClient
        => link[ending] = "down" /\ pc[ending] \notin {"new", "called", "made", "mapped"}

MapInv == EntryIsMade /\ UpIsEntry /\ EndingIsDown

LEMMA MapInit == LifecycleInit => MapInv
BY DEF LifecycleInit, MapInv, EntryIsMade, UpIsEntry, EndingIsDown

LEMMA MapStep ==
    LifecycleTypeOK /\ MapInv /\ [LifecycleNext]_lifecycleVars => MapInv'
<1> SUFFICES ASSUME LifecycleTypeOK, MapInv, [LifecycleNext]_lifecycleVars
             PROVE  MapInv'
    OBVIOUS
<1> USE DEF LifecycleTypeOK, MapInv, EntryIsMade, UpIsEntry, EndingIsDown, NoTrouble,
            mapVars, clientVars, Goto, Disconnected
<1>1. CASE UNCHANGED lifecycleVars
  BY <1>1 DEF lifecycleVars
<1>2. CASE LifecycleNext
  <2>0. trouble \subseteq trouble'
    BY <1>2, TroubleGrows
  <2>1. ASSUME NEW n \in Starts, StartStep(n) PROVE MapInv'
    <3>1. CASE ConnectDevice(n) \/ GetDeviceQR(n)
      BY <3>1 DEF ConnectDevice, GetDeviceQR, CallStart
    <3>2. CASE MakeClient(n)
      BY <3>2 DEF MakeClient
    <3>3. CASE PutInMap(n)
      <4>1. CASE running = NoClient
        BY <3>3, <4>1 DEF PutInMap, Starts
      <4>2. CASE running # NoClient
        BY <3>3, <4>2 DEF PutInMap, Starts
      <4>3. QED
        BY <4>1, <4>2
    <3>4. CASE OpenWebsocket(n)
      BY <3>4 DEF OpenWebsocket
    <3>5. CASE OpenWebsocketFails(n)
      BY <3>5 DEF OpenWebsocketFails
    <3>6. QED
      BY <2>1, <3>1, <3>2, <3>3, <3>4, <3>5 DEF StartStep
  <2>2. ASSUME NEW n \in Starts, Watcher(n) PROVE MapInv'
    <3>1. CASE ReceiveCode(n)
      BY <2>0, <3>1 DEF ReceiveCode
    <3>2. CASE ReceiveSuccess(n)
      BY <2>0, <3>2 DEF ReceiveSuccess
    <3>3. CASE ReceiveTimeout(n)
      BY <2>0, <3>3 DEF ReceiveTimeout, AfterTimeout
    <3>4. CASE ClearCode(n)
      BY <2>0, <3>4 DEF ClearCode
    <3>5. CASE ReceiveOther(n)
      BY <2>0, <3>5 DEF ReceiveOther
    <3>6. QED
      BY <2>2, <3>1, <3>2, <3>3, <3>4, <3>5 DEF Watcher
  <2>3. ASSUME NEW n \in Starts, PhoneStep(n) PROVE MapInv'
    <3>1. CASE RunOutOfCodes(n)
      BY <3>1 DEF RunOutOfCodes
    <3>2. CASE Scan(n)
      BY <3>2 DEF Scan
    <3>3. CASE Login(n)
      BY <3>3 DEF Login
    <3>4. CASE LoseConnection(n)
      BY <3>4 DEF LoseConnection
    <3>5. CASE Unlink(n)
      BY <3>5 DEF Unlink
    <3>6. CASE RefusePairing(n)
      BY <3>6 DEF RefusePairing
    <3>7. QED
      BY <2>3, <3>1, <3>2, <3>3, <3>4, <3>5, <3>6 DEF PhoneStep
  <2>4. ASSUME NEW n \in Starts, HandleEvent(n) PROVE MapInv'
    <3>1. CASE DropEvent(n) \/ StorePaired(n) \/ HandleRefused(n) \/ HandleDisconnected(n)
      <4>1. link' = link /\ running' = running /\ ending' = ending
        BY <3>1 DEF DropEvent, StorePaired, HandleRefused, HandleDisconnected
      <4>2. \/ pc' = pc
            \/ \E item \in {"success", "timeout", "other"} : pc' = [pc EXCEPT ![n] = item]
        BY <3>1 DEF DropEvent, StorePaired, HandleRefused, HandleDisconnected, AfterEvent,
                    LastItem
      <4>3. QED
        BY <2>0, <4>1, <4>2
    <3>2. CASE HandleConnected(n) \/ StoreJid(n)
      BY <2>0, <3>2 DEF HandleConnected, StoreJid
    <3>3. CASE HandleLoggedOut(n)
      <4>1. CASE running = NoClient
        BY <2>0, <3>3, <4>1 DEF HandleLoggedOut
      <4>2. CASE running # NoClient
        <5>1. Early(running) \subseteq trouble'
          BY <3>3, <4>2, StoredFacts DEF HandleLoggedOut
        <5>2. QED
          BY <2>0, <3>3, <4>2, <5>1 DEF HandleLoggedOut, Early
      <4>3. QED
        BY <4>1, <4>2
    <3>4. QED
      BY <2>4, <3>1, <3>2, <3>3 DEF HandleEvent
  <2>5. CASE DisconnectDevice
    BY <2>5 DEF DisconnectDevice, Early
  <2>6. CASE DeleteFromMap
    BY <2>6 DEF DeleteFromMap
  <2>7. CASE DeviceCrash
    BY <2>7 DEF DeviceCrash
  <2>8. QED
    BY <1>2, <2>1, <2>2, <2>3, <2>4, <2>5, <2>6, <2>7, NextByActor
<1>3. QED
  BY <1>1, <1>2

\* Every client that is logged in is the one the map holds, unless an entry was
\* replaced or one of another client deleted, or a client disconnected before it
\* was connected (core.go:68, core_device.go:49-56, core_pairing.go:25-27).
THEOREM LoggedInClientIsInMap == LifecycleSpec => []LoggedInIsInMap
<1>1. MapInv => LoggedInIsInMap
  BY DEF MapInv, UpIsEntry, NoTrouble, LoggedInIsInMap
<1>2. QED
  BY <1>1, LifecycleTypeCorrect, MapInit, MapStep, PTL DEF LifecycleSpec
=============================================================================
