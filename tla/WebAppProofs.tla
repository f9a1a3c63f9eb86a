---------------------------- MODULE WebAppProofs ----------------------------
(* What the pages promise, promised by the web client as a whole: every    *)
(* step of it is a step of one page and none of the others. First the      *)
(* pages whose proofs have no module of their own.                         *)
EXTENDS WebApp, ThreadProofs, NewMessageProofs, BroadcastPageProofs, DeviceLifecycleProofs,
        SubscriptionsProofs, FiniteSetTheorems

-----------------------------------------------------------------------------
(* Registering devices. Every submission is under way or was answered, and *)
(* an answer always says that it failed: a number comes twice only by a    *)
(* double click or after a failure.                                        *)

ExecutingType == [n : Submissions, stage : {"out", "registered", "failed"}]

EverySubmissionIsTold ==
    \A n \in DOMAIN submitted : n \in failedTold \/ \E p \in executing : p.n = n

SubmittedDiffer ==
    again = {} => \A m, n \in DOMAIN submitted : submitted[m] = submitted[n] => m = n

DevicesAreSubmitted ==
    devices \subseteq DOMAIN submitted /\ \A p \in executing : p.n \in DOMAIN submitted

RegisterInv ==
    /\ submitted \in Seq(Numbers) /\ typed \in Numbers \cup {None}
    /\ place.kind \in {"dialog", "page"}
    /\ executing \subseteq ExecutingType
    /\ EverySubmissionIsTold /\ SubmittedDiffer /\ DevicesAreSubmitted

LEMMA RegisterStep == RegisterInv /\ [RegisterNext]_registerVars => RegisterInv'
<1> SUFFICES ASSUME RegisterInv, [RegisterNext]_registerVars PROVE RegisterInv'
    OBVIOUS
<1> USE RegisterAssumption
        DEF RegisterInv, EverySubmissionIsTold, SubmittedDiffer, DevicesAreSubmitted
<1>1. ASSUME UNCHANGED <<submitted, executing, devices, failedTold, again>>,
             place'.kind \in {"dialog", "page"}, typed' \in Numbers \cup {None}
      PROVE  RegisterInv'
  BY <1>1
<1>2. CASE ToggleRegister
  <2>1. place'.kind \in {"dialog", "page"}
    BY <1>2 DEF ToggleRegister
  <2>2. QED
    BY <1>1, <1>2, <2>1 DEF ToggleRegister
<1>3. ASSUME NEW t \in Numbers, TypeNumber(t) PROVE RegisterInv'
  BY <1>1, <1>3 DEF TypeNumber
<1>4. CASE ReloadDevices
  BY <1>1, <1>4 DEF ReloadDevices
<1>5. CASE UNCHANGED registerVars
  BY <1>1, <1>5 DEF registerVars
<1>6. CASE PressRegister
  <2> DEFINE p == [n |-> Len(submitted) + 1, stage |-> "out"]
             same == {n \in DOMAIN submitted : submitted[n] = typed}
  <2>0. typed \in Numbers /\ Len(submitted) < MaxRegistrations
    BY <1>6 DEF PressRegister
  <2>1. /\ submitted' = Append(submitted, typed)
        /\ executing' = executing \cup {p}
        /\ UNCHANGED <<place, typed, devices, failedTold>>
    BY <1>6 DEF PressRegister
  <2>2. /\ submitted' \in Seq(Numbers)
        /\ DOMAIN submitted' = DOMAIN submitted \cup {p.n}
        /\ p.n \notin DOMAIN submitted
        /\ submitted'[p.n] = typed
        /\ \A n \in DOMAIN submitted : submitted'[n] = submitted[n]
    BY <2>0, <2>1
  <2>3. p \in ExecutingType
    BY <2>0 DEF ExecutingType, Submissions
  <2>4. again' = {} => again = {} /\ same = {}
    <3>1. CASE place.kind = "page"
      BY <1>6, <3>1 DEF PressRegister, Repeated
    <3>2. CASE place.kind # "page"
      BY <1>6, <3>2 DEF PressRegister, Repeated, RegisterEnabled
    <3>3. QED
      BY <3>1, <3>2
  <2> HIDE DEF p
  <2>5. QED
    BY <2>1, <2>2, <2>3, <2>4
<1>7. ASSUME NEW p \in executing, RegisterDevice(p) \/ RegisterFails(p) PROVE RegisterInv'
  <2>1. PICK s \in {"registered", "failed"} :
            executing' = (executing \ {p}) \cup {[p EXCEPT !.stage = s]}
    BY <1>7 DEF RegisterDevice, RegisterFails
  <2> DEFINE q == [p EXCEPT !.stage = s]
  <2>2. q \in ExecutingType /\ q.n = p.n /\ executing' = (executing \ {p}) \cup {q}
    BY <2>1 DEF ExecutingType
  <2>3. /\ devices' = devices \/ devices' = devices \cup {p.n}
        /\ UNCHANGED <<submitted, place, typed, failedTold, again>>
    BY <1>7 DEF RegisterDevice, RegisterFails
  <2> HIDE DEF q
  <2>4. QED
    BY <2>2, <2>3
<1>8. ASSUME NEW p \in executing, RegisterAnswered(p) PROVE RegisterInv'
  BY <1>8 DEF RegisterAnswered
<1>9. QED
  BY <1>2, <1>3, <1>4, <1>5, <1>6, <1>7, <1>8 DEF RegisterNext

LEMMA RegisterInvariant == RegisterSpec => []RegisterInv
<1>1. RegisterInit => RegisterInv
  BY DEF RegisterInit, RegisterInv, EverySubmissionIsTold, SubmittedDiffer,
         DevicesAreSubmitted
<1>2. QED
  BY <1>1, RegisterStep, PTL DEF RegisterSpec

\* The type invariant of the two forms and of the rows they make.
THEOREM RegisterTypeCorrect == RegisterSpec => []RegisterTypeOK
<1>1. RegisterInit => RegisterTypeOK
  <2> SUFFICES ASSUME RegisterInit PROVE RegisterTypeOK
      OBVIOUS
  <2>1. place \in [kind : {"dialog", "page"}, open : BOOLEAN]
    <3>1. CASE place = [kind |-> "dialog", open |-> FALSE]
      BY <3>1
    <3>2. CASE place = [kind |-> "page", open |-> TRUE]
      BY <3>2
    <3>3. QED
      BY <3>1, <3>2 DEF RegisterInit
  <2>2. submitted \in Seq(Numbers) /\ Len(submitted) = 0
    BY DEF RegisterInit
  <2>3. QED
    BY <2>1, <2>2, RegisterAssumption, BrowserAssumption DEF RegisterInit, RegisterTypeOK
<1>2. RegisterInv /\ RegisterInv' /\ RegisterTypeOK /\ [RegisterNext]_registerVars
        => RegisterTypeOK'
  <2> SUFFICES ASSUME RegisterInv, RegisterInv', RegisterTypeOK, [RegisterNext]_registerVars
               PROVE  RegisterTypeOK'
      OBVIOUS
  <2>1. /\ submitted' \in Seq(Numbers) /\ typed' \in Numbers \cup {None}
        /\ executing' \subseteq ExecutingType /\ devices' \subseteq DOMAIN submitted'
        /\ \A p \in executing : p.n \in Submissions
    BY DEF RegisterInv, DevicesAreSubmitted, ExecutingType
  <2>2. Len(submitted') <= MaxRegistrations /\ registerFaults' \in 0..MaxFaults
    BY RegisterAssumption, BrowserAssumption
       DEF RegisterTypeOK, RegisterNext, registerVars, ToggleRegister, TypeNumber, PressRegister,
           RegisterDevice, RegisterFails, RegisterFault, RegisterAnswered, ReloadDevices
  <2>3. place' \in [kind : {"dialog", "page"}, open : BOOLEAN]
    <3> DEFINE Places == [kind : {"dialog", "page"}, open : BOOLEAN]
    <3>1. place \in Places
      BY DEF RegisterTypeOK
    <3>2. \A b \in BOOLEAN : [place EXCEPT !.open = b] \in Places
      BY <3>1
    <3>3. CASE ToggleRegister
      <4>1. (~ place.open) \in BOOLEAN
        BY <3>1
      <4>2. place' = [place EXCEPT !.open = ~ place.open]
        BY <3>3 DEF ToggleRegister
      <4>3. QED
        BY <3>2, <4>1, <4>2
    <3>4. CASE ReloadDevices
      BY <3>4 DEF ReloadDevices
    <3>5. CASE UNCHANGED place
      BY <3>1, <3>5
    <3>6. QED
      BY <3>3, <3>4, <3>5 DEF RegisterNext, registerVars, TypeNumber, PressRegister,
                              RegisterDevice, RegisterFails, RegisterAnswered
  <2>4. failedTold' \subseteq Submissions /\ renderedOf' \subseteq Submissions
    BY <2>1 DEF RegisterTypeOK, RegisterNext, registerVars, ToggleRegister, TypeNumber,
       PressRegister, RegisterDevice, RegisterFails, RegisterAnswered, ReloadDevices
  <2>5. again' \subseteq {"double", "failure"}
    BY DEF RegisterTypeOK, RegisterNext, registerVars, ToggleRegister, TypeNumber, PressRegister,
           Repeated, RegisterDevice, RegisterFails, RegisterAnswered, ReloadDevices
  <2>6. DOMAIN submitted' \subseteq Submissions
    BY <2>1, <2>2, RegisterAssumption DEF Submissions
  <2>7. QED
    BY <2>1, <2>2, <2>3, <2>4, <2>5, <2>6 DEF RegisterTypeOK, ExecutingType
<1>3. QED
  BY <1>1, <1>2, RegisterInvariant, PTL DEF RegisterSpec

\* A number makes one device, unless it is submitted twice by a double click or
\* after the form said it had failed (add-device-dialog.tsx:60-71, 130).
THEOREM RegisteredOnceCorrect == RegisterSpec => []RegisteredOnce
<1>1. RegisterInv => RegisteredOnce
  BY DEF RegisterInv, SubmittedDiffer, DevicesAreSubmitted, RegisteredOnce
<1>2. QED
  BY <1>1, RegisterInvariant, PTL

-----------------------------------------------------------------------------
(* The pairing dialog. What SWR keeps, or is waiting for, under the key of *)
(* a device is of that device.                                             *)

AnswerOf(d, answer) ==
    answer \in Answers /\ answer.of = d /\ (answer.what = "connected" => d \in paired)

PairingInv ==
    /\ offer \in [PairingDevices -> Offers]
    /\ codes \in [PairingDevices -> SUBSET Answers]
    /\ codeDue \in [PairingDevices -> SUBSET Answers]
    /\ pairing \in PairingDevices \cup {None}
    /\ \A d \in PairingDevices :
        /\ offer[d] = "connected" => d \in paired
        /\ \A answer \in codes[d] \cup codeDue[d] : AnswerOf(d, answer)

LEMMA AskCodeFacts ==
    ASSUME PairingInv, NEW d \in PairingDevices, AskCode(d),
           UNCHANGED <<codes, serverOffers>>, pairing' \in PairingDevices \cup {None}
    PROVE  PairingInv'
<1> DEFINE a == [of |-> d, what |-> offer[d]]
<1>1. AnswerOf(d, a)
  BY DEF AnswerOf, Answers, PairingInv
<1>2. /\ codeDue' \in [PairingDevices -> SUBSET Answers]
      /\ codeDue'[d] = {a}
      /\ \A e \in PairingDevices \ {d} : codeDue'[e] = codeDue[e]
  BY <1>1 DEF AskCode, PairingInv, AnswerOf
<1> HIDE DEF a
<1>3. QED
  BY <1>1, <1>2 DEF PairingInv, AnswerOf, serverOffers

LEMMA PairingStep == PairingInv /\ [PairingNext]_pairingVars => PairingInv'
<1> SUFFICES ASSUME PairingInv, [PairingNext]_pairingVars PROVE PairingInv'
    OBVIOUS
<1>1. ASSUME NEW d \in PairingDevices, OpenPairing(d) PROVE PairingInv'
  BY <1>1, AskCodeFacts DEF OpenPairing
<1>2. CASE PollCode
  BY <1>2, AskCodeFacts, PairingAssumption DEF PollCode, PairingInv
<1>3. CASE ClosePairing \/ UNCHANGED pairingVars
  BY <1>3 DEF ClosePairing, pairingVars, serverOffers, PairingInv, AnswerOf
<1>4. ASSUME NEW d \in PairingDevices, CodeAnswered(d) PROVE PairingInv'
  <2>1. PICK answer \in codeDue[d] :
          /\ codes' = [codes EXCEPT ![d] = {answer}]
          /\ codeDue' = [codeDue EXCEPT ![d] = {}]
          /\ UNCHANGED <<pairing, serverOffers>>
    BY <1>4 DEF CodeAnswered, KeptUnder
  <2>2. AnswerOf(d, answer)
    BY DEF PairingInv
  <2>3. /\ codes' \in [PairingDevices -> SUBSET Answers]
        /\ codeDue' \in [PairingDevices -> SUBSET Answers]
    BY <2>1, <2>2 DEF PairingInv, AnswerOf
  <2>4. /\ codes'[d] = {answer} /\ codeDue'[d] = {}
        /\ \A e \in PairingDevices \ {d} : codes'[e] = codes[e] /\ codeDue'[e] = codeDue[e]
    BY <2>1 DEF PairingInv
  <2>5. QED
    BY <2>1, <2>2, <2>3, <2>4 DEF PairingInv, AnswerOf, serverOffers
<1>5. ASSUME NEW d \in PairingDevices, CodeFails(d) PROVE PairingInv'
  <2>1. /\ codeDue' \in [PairingDevices -> SUBSET Answers]
        /\ \A e \in PairingDevices : codeDue'[e] \subseteq codeDue[e]
    BY <1>5 DEF CodeFails, PairingInv
  <2>2. QED
    BY <1>5, <2>1 DEF CodeFails, PairingInv, AnswerOf, serverOffers
<1>6. ASSUME NEW d \in PairingDevices, NEW what \in Offers, OfferChanges(d, what)
      PROVE  PairingInv'
  <2>1. /\ offer' \in [PairingDevices -> Offers] /\ offer'[d] = what
        /\ \A e \in PairingDevices \ {d} : offer'[e] = offer[e]
    BY <1>6 DEF OfferChanges, PairingInv
  <2>2. paired \subseteq paired' /\ (what = "connected" => d \in paired')
    BY <1>6 DEF OfferChanges
  <2>3. QED
    BY <1>6, <2>1, <2>2 DEF OfferChanges, PairingInv, AnswerOf
<1>7. QED
  BY <1>1, <1>2, <1>3, <1>4, <1>5, <1>6 DEF PairingNext, CodeMissing, CodeLost

LEMMA PairingInvariant == PairingSpec => []PairingInv
<1>1. PairingInit => PairingInv
  <2> SUFFICES ASSUME PairingInit PROVE PairingInv
      OBVIOUS
  <2>1. \A d \in PairingDevices :
          /\ offer[d] = "none" /\ codes[d] = {}
          /\ codeDue[d] \in {{}, {[of |-> d, what |-> "none"]}}
    BY DEF PairingInit
  <2>2. \A d \in PairingDevices : AnswerOf(d, [of |-> d, what |-> "none"])
    BY DEF AnswerOf, Answers, Offers
  <2>3. codeDue \in [PairingDevices -> SUBSET Answers]
    BY <2>1, <2>2 DEF PairingInit, AnswerOf
  <2>4. QED
    BY <2>1, <2>2, <2>3 DEF PairingInit, PairingInv, Offers
<1>2. QED
  BY <1>1, PairingStep, PTL DEF PairingSpec

\* The type invariant of the pairing dialog and of SWR's cache.
THEOREM PairingTypeCorrect == PairingSpec => []PairingTypeOK
<1> DEFINE Rest == /\ codeError \subseteq PairingDevices /\ paired \subseteq PairingDevices
                   /\ offered \in 0..MaxOffers /\ pairingFaults \in 0..MaxFaults
                   /\ qrPage \in BOOLEAN
<1>1. PairingInit => Rest
  BY PairingAssumption, BrowserAssumption DEF PairingInit
<1>2. PairingInv /\ Rest /\ [PairingNext]_pairingVars => Rest'
  <2> SUFFICES ASSUME PairingInv, Rest, [PairingNext]_pairingVars PROVE Rest'
      OBVIOUS
  <2> USE PairingAssumption, BrowserAssumption
  <2>1. ASSUME NEW d \in PairingDevices, CodeFails(d),
               PairingFault \/ UNCHANGED pairingFaults
        PROVE  Rest'
    BY <2>1 DEF CodeFails, PairingFault, serverOffers
  <2>2. ASSUME NEW d \in PairingDevices, OpenPairing(d) \/ CodeAnswered(d) PROVE Rest'
    BY <2>2 DEF OpenPairing, CodeAnswered, serverOffers
  <2>3. CASE ClosePairing \/ PollCode \/ UNCHANGED pairingVars
    BY <2>3 DEF ClosePairing, PollCode, pairingVars, serverOffers
  <2>4. ASSUME NEW d \in PairingDevices, NEW what \in Offers, OfferChanges(d, what)
        PROVE  Rest'
    BY <2>4 DEF OfferChanges
  <2> HIDE DEF Rest
  <2>5. QED
    BY <2>1, <2>2, <2>3, <2>4 DEF PairingNext, CodeMissing, CodeLost
<1>3. PairingInv /\ Rest => PairingTypeOK
  BY DEF PairingInv, PairingTypeOK
<1>4. QED
  BY <1>1, <1>2, <1>3, PairingInvariant, PTL DEF PairingSpec

\* The code the dialog shows pairs the device it is headed by, and only a device
\* that was connected is said to be (qr-pairing-dialog.tsx:28-44, 61-101).
THEOREM CodeIsOfDeviceCorrect == PairingSpec => []CodeIsOfDevice
<1>1. PairingInv => CodeIsOfDevice
  <2> SUFFICES ASSUME PairingInv, Shown \in {"code", "connected"}
               PROVE  /\ \A answer \in codes[pairing] : answer.of = pairing
                      /\ Shown = "connected" => pairing \in paired
      BY DEF CodeIsOfDevice
  <2>1. pairing \in PairingDevices
    BY PairingAssumption DEF Shown, PairingInv
  <2>2. \A answer \in codes[pairing] : AnswerOf(pairing, answer)
    BY <2>1 DEF PairingInv
  <2>3. Shown = "connected" => \E answer \in codes[pairing] : answer.what = "connected"
    BY <2>1, PairingAssumption DEF Shown
  <2>4. QED
    BY <2>2, <2>3 DEF AnswerOf
<1>2. QED
  BY <1>1, PairingInvariant, PTL

-----------------------------------------------------------------------------
(* The cards. Inductive as it stands.                                      *)

OrderInv ==
    /\ orders \subseteq Order
    /\ flags \in [connect : BOOLEAN, disconnect : BOOLEAN]
    /\ ordered \in 0..MaxOrders
    /\ OneOrderOfAKind

LEMMA OrderStep == OrderInv /\ [DevicePageNext]_cardVars => OrderInv'
<1> SUFFICES ASSUME OrderInv, [DevicePageNext]_cardVars PROVE OrderInv'
    OBVIOUS
<1> DEFINE Kinds == {"connect", "disconnect"}
<1>0. /\ orders \subseteq Order /\ flags \in [connect : BOOLEAN, disconnect : BOOLEAN]
      /\ \A via \in Kinds :
            /\ flags[via] <=> \E p \in orders : p.via = via
            /\ \A p, q \in orders : p.via = via /\ q.via = via => p = q
  BY DEF OrderInv, OneOrderOfAKind
<1>1. CASE UNCHANGED orderVars
  BY <1>1 DEF orderVars, OrderInv, OneOrderOfAKind
<1>2. ASSUME NEW via \in Kinds, NEW d \in CardDevices, GiveOrder(via, d) PROVE OrderInv'
  <2> DEFINE p == [n |-> ordered + 1, via |-> via, device |-> d, stage |-> "out"]
  <2>1. p \in Order /\ p.via = via
    BY <1>2, DevicePageAssumption DEF GiveOrder, OrderInv, Order
  <2>2. orders' = orders \cup {p} /\ ordered' \in 0..MaxOrders
    BY <1>2, DevicePageAssumption DEF GiveOrder, OrderInv
  <2>3. /\ ~ flags[via] /\ flags' \in [connect : BOOLEAN, disconnect : BOOLEAN] /\ flags'[via]
        /\ \A k \in Kinds \ {via} : flags'[k] = flags[k]
    BY <1>0, <1>2 DEF GiveOrder, ItemEnabled
  <2> HIDE DEF p
  <2>4. QED
    BY <1>0, <2>1, <2>2, <2>3 DEF OrderInv, OneOrderOfAKind
<1>3. ASSUME NEW p \in orders, NEW s \in {"done", "failed"}, Outcome(p, s),
             UNCHANGED <<flags, ordered>>
      PROVE  OrderInv'
  <2> DEFINE q == [p EXCEPT !.stage = s]
  <2>1. q \in Order /\ q.via = p.via /\ p.via \in Kinds
        /\ orders' = (orders \ {p}) \cup {q}
    BY <1>0, <1>3 DEF Outcome, Order
  <2> HIDE DEF q
  <2>2. QED
    BY <1>0, <1>3, <2>1 DEF OrderInv, OneOrderOfAKind
<1>4. ASSUME NEW p \in orders, OrderAnswered(p) PROVE OrderInv'
  <2>1. p.via \in Kinds
    BY <1>0 DEF Order
  <2>2. /\ orders' = orders \ {p} /\ ordered' = ordered
        /\ flags' \in [connect : BOOLEAN, disconnect : BOOLEAN] /\ ~ flags'[p.via]
        /\ \A k \in Kinds \ {p.via} : flags'[k] = flags[k]
    BY <1>0, <1>4, <2>1 DEF OrderAnswered
  <2>3. QED
    BY <1>0, <2>1, <2>2 DEF OrderInv, OneOrderOfAKind
<1>5. ASSUME NEW d \in CardDevices,
             \/ AskStatus(d) \/ StatusAnswered(d) \/ StatusFailed(d) \/ StatusChanges(d)
             \/ PressConnect(d) \/ PressDisconnect(d)
      PROVE  OrderInv'
  BY <1>1, <1>2, <1>5 DEF AskStatus, StatusAnswered, StatusFailed, StatusChanges,
                          PressConnect, PressDisconnect
<1>6. ASSUME NEW p \in orders, OrderDone(p) \/ OrderRefused(p) PROVE OrderInv'
  BY <1>3, <1>6 DEF OrderDone, OrderRefused
<1>7. QED
  BY <1>1, <1>4, <1>5, <1>6 DEF DevicePageNext, cardVars, orderVars

LEMMA OrderInvariant == DevicePageSpec => []OrderInv
<1>1. DevicePageInit => OrderInv
  BY DevicePageAssumption DEF DevicePageInit, OrderInv, OneOrderOfAKind
<1>2. QED
  BY <1>1, OrderStep, PTL DEF DevicePageSpec

\* The type invariant of the cards and of the polling behind them.
THEOREM DevicePageTypeCorrect == DevicePageSpec => []DevicePageTypeOK
<1> DEFINE Rest == /\ online \subseteq CardDevices /\ rendered \subseteq CardDevices
                   /\ statuses \in [CardDevices -> SUBSET BOOLEAN]
                   /\ statusDue \in [CardDevices -> SUBSET BOOLEAN]
                   /\ cardFaults \in 0..MaxFaults
<1>1. DevicePageInit => Rest
  BY DevicePageAssumption, BrowserAssumption DEF DevicePageInit
<1>2. OrderInv /\ Rest /\ [DevicePageNext]_cardVars => Rest'
  <2> SUFFICES ASSUME OrderInv, Rest, [DevicePageNext]_cardVars PROVE Rest'
      OBVIOUS
  <2> USE DevicePageAssumption, BrowserAssumption
  <2>1. ASSUME NEW d \in CardDevices,
               AskStatus(d) \/ StatusAnswered(d) \/ StatusFailed(d) \/ StatusChanges(d)
        PROVE  Rest'
    BY <2>1 DEF AskStatus, StatusAnswered, StatusFailed, StatusChanges, CardFault, pollVars
  <2>2. ASSUME NEW d \in CardDevices, PressConnect(d) \/ PressDisconnect(d) PROVE Rest'
    BY <2>2 DEF PressConnect, PressDisconnect, GiveOrder, pollVars
  <2>3. ASSUME NEW p \in orders, OrderDone(p) \/ OrderRefused(p) \/ OrderAnswered(p)
        PROVE  Rest'
    <3>1. p.device \in CardDevices
      BY DEF OrderInv, Order
    <3>2. QED
      BY <2>3, <3>1 DEF OrderDone, OrderRefused, OrderAnswered, CardFault, pollVars
  <2>4. CASE UNCHANGED cardVars
    BY <2>4 DEF cardVars
  <2> HIDE DEF Rest
  <2>5. QED
    BY <2>1, <2>2, <2>3, <2>4 DEF DevicePageNext
<1>3. OrderInv /\ Rest => DevicePageTypeOK
  BY DEF OrderInv, DevicePageTypeOK
<1>4. QED
  BY <1>1, <1>2, <1>3, OrderInvariant, PTL DEF DevicePageSpec

\* One flag for all cards, and still the flag is up exactly while an order of its
\* kind is under way, and there is one at most (kontak-providers.tsx:67-117).
THEOREM OneOrderCorrect == DevicePageSpec => []OneOrderOfAKind
<1>1. OrderInv => OneOrderOfAKind
  BY DEF OrderInv
<1>2. QED
  BY <1>1, OrderInvariant, PTL

-----------------------------------------------------------------------------
(* Contacts and groups. The list of toasts has one at most, an open one has *)
(* no removal pending, and there is a synchronisation while the flag is up. *)

ViewType == [kind : {"contacts", "groups"}, device : DirectoryDevices \cup {None},
             search : BOOLEAN, page : Nat \ {0}, syncing : BOOLEAN,
             details : Entries \cup {None}]

DirectoryShape ==
    /\ view \in ViewType
    /\ table \in [DirectoryDevices -> SUBSET Listing]
    /\ failing \subseteq DirectoryDevices
    /\ loads \in [DirectoryDevices -> SUBSET Listing]
    /\ syncs \subseteq Sync
    /\ rows \in [DirectoryDevices -> Listing]
    /\ toasts \in [count : 0..MaxToasts, list : SUBSET Toasts]
    /\ timers \subseteq 1..MaxToasts
    /\ directoryFaults \in 0..MaxFaults
    /\ syncs # {} => view.device # None

ToastInv ==
    /\ \A s, t \in toasts.list : s = t
    /\ \A t \in toasts.list : t.id <= toasts.count
    /\ \A id \in timers : id <= toasts.count
    /\ \A t \in toasts.list : t.open => t.id \notin timers

\* What of a synchronisation's names has been stored, given the rows.
KeepsWord(p, table0) ==
    /\ p.stage \in {"stored", "refresh"} => p.left = {}
    /\ \A e \in p.left : p.names[e] # "absent"
    /\ p.stage # "failed" =>
        \A e \in Entries \ p.left : p.names[e] # "absent" => table0[p.device][e] = p.names[e]

StoredInv == (\A p \in syncs : KeepsWord(p, rows)) /\ SuccessMeansStored

DirectoryInv == DirectoryShape /\ OneSyncAtATime /\ ToastInv /\ StoredInv

LEMMA DirectoryStart == DirectoryInit => DirectoryInv
<1> SUFFICES ASSUME DirectoryInit PROVE DirectoryInv
    OBVIOUS
<1> USE DirectoryAssumption, BrowserAssumption
<1>1. DirectoryShape
  BY DEF DirectoryInit, DirectoryShape, ViewType, Listing
<1>2. QED
  BY <1>1 DEF DirectoryInit, DirectoryInv, OneSyncAtATime, ToastInv, StoredInv,
              SuccessMeansStored

\* A step that touches only the table and its view.
LEMMA ViewStep ==
    ASSUME DirectoryInv, DirectoryShape', UNCHANGED <<syncs, rows, toasts, timers>>,
           view'.syncing = view.syncing
    PROVE  DirectoryInv'
  BY DEF DirectoryInv, OneSyncAtATime, ToastInv, StoredInv, SuccessMeansStored

LEMMA RequestRowsType ==
    ASSUME DirectoryInv, NEW d \in DirectoryDevices \cup {None}, RequestRows(d)
    PROVE  loads' \in [DirectoryDevices -> SUBSET Listing]
<1>1. CASE d \in DirectoryDevices
  BY <1>1 DEF RequestRows, DirectoryInv, DirectoryShape
<1>2. CASE d \notin DirectoryDevices
  BY <1>2 DEF RequestRows, DirectoryInv, DirectoryShape
<1>3. QED
  BY <1>1, <1>2

\* A change of one field keeps the type of the view.
LEMMA ViewField ==
    ASSUME NEW v \in ViewType
    PROVE  /\ \A d \in DirectoryDevices :
                [v EXCEPT !.device = d] \in ViewType
                /\ [v EXCEPT !.device = d].syncing = v.syncing
                /\ [v EXCEPT !.device = d].device = d
           /\ \A b \in BOOLEAN :
                [v EXCEPT !.search = b] \in ViewType
                /\ [v EXCEPT !.search = b].syncing = v.syncing
                /\ [v EXCEPT !.search = b].device = v.device
           /\ \A n \in Nat \ {0} :
                [v EXCEPT !.page = n] \in ViewType
                /\ [v EXCEPT !.page = n].syncing = v.syncing
                /\ [v EXCEPT !.page = n].device = v.device
           /\ \A b \in BOOLEAN :
                [v EXCEPT !.syncing = b] \in ViewType
                /\ [v EXCEPT !.syncing = b].syncing = b
                /\ [v EXCEPT !.syncing = b].device = v.device
           /\ \A e \in Entries \cup {None} :
                [v EXCEPT !.details = e] \in ViewType
                /\ [v EXCEPT !.details = e].syncing = v.syncing
                /\ [v EXCEPT !.details = e].device = v.device
  BY DEF ViewType

LEMMA NoRowsType == NoRows \in Listing
  BY DEF NoRows, Listing

LEMMA TableSteps ==
    ASSUME DirectoryInv, NEW d \in DirectoryDevices,
           \/ SelectDevice(d) \/ TableAnswered(d) \/ TableRefused(d) \/ TableFailed(d)
           \/ Revalidate
    PROVE  DirectoryInv'
<1> USE BrowserAssumption
<1>0. DirectoryShape
  BY DEF DirectoryInv
<1>1. CASE SelectDevice(d)
  <2>1. view' \in ViewType /\ view'.syncing = view.syncing /\ view'.device = d /\ d # None
    <3> DEFINE v1 == [view EXCEPT !.device = d]
               v2 == [v1 EXCEPT !.search = FALSE]
    <3>1. view' = [v2 EXCEPT !.page = 1]
      BY <1>1 DEF SelectDevice, ForDevice
    <3>2. v1 \in ViewType /\ v1.syncing = view.syncing /\ v1.device = d
      BY <1>0, ViewField DEF DirectoryShape
    <3> HIDE DEF v1
    <3>3. v2 \in ViewType /\ v2.syncing = view.syncing /\ v2.device = d
      BY <3>2, ViewField
    <3> HIDE DEF v2
    <3>4. QED
      BY <3>1, <3>3, ViewField, DirectoryAssumption
  <2>2. DirectoryShape'
    BY <1>0, <1>1, <2>1, RequestRowsType DEF SelectDevice, DirectoryShape, toastVars
  <2>3. QED
    BY <1>1, <2>1, <2>2, ViewStep DEF SelectDevice, toastVars
<1>2. CASE Revalidate
  <2>1. DirectoryShape'
    BY <1>0, <1>2, RequestRowsType DEF Revalidate, DirectoryShape, ViewType, toastVars
  <2>2. QED
    BY <1>2, <2>1, ViewStep DEF Revalidate, toastVars
<1>3. CASE TableAnswered(d)
  <2>1. DirectoryShape'
    BY <1>0, <1>3 DEF TableAnswered, DirectoryShape, toastVars
  <2>2. QED
    BY <1>3, <2>1, ViewStep DEF TableAnswered, toastVars
<1>4. CASE TableRefused(d)
  <2>1. DirectoryShape'
    BY <1>0, <1>4, NoRowsType DEF TableRefused, DirectoryFault, DirectoryShape, toastVars
  <2>2. QED
    BY <1>4, <2>1, ViewStep DEF TableRefused, toastVars
<1>5. CASE TableFailed(d)
  <2>1. DirectoryShape'
    BY <1>0, <1>5 DEF TableFailed, DirectoryFault, DirectoryShape, toastVars
  <2>2. QED
    BY <1>5, <2>1, ViewStep DEF TableFailed, toastVars
<1>6. QED
  BY <1>1, <1>2, <1>3, <1>4, <1>5

\* The pages of a table can be counted.
LEMMA TotalPagesType == TotalPages \in Nat
<1>1. Filtered \in SUBSET Entries
  BY DEF Filtered, Matching, Data
<1>2. IsFiniteSet(Filtered) /\ Cardinality(Filtered) \in Nat
  BY <1>1, DirectoryAssumption, FS_Subset, FS_CardinalityType
<1>3. QED
  BY <1>2, DirectoryAssumption DEF TotalPages

LEMMA ViewSteps ==
    ASSUME DirectoryInv,
           \/ Search \/ ClearSearch \/ CloseGroup
           \/ PreviousPage \/ NextPage \/ Sort
           \/ \E e \in Entries : ShowGroup(e)
    PROVE  DirectoryInv'
<1>0. DirectoryShape /\ view.page \in Nat \ {0} /\ TotalPages \in Nat
  BY TotalPagesType DEF DirectoryInv, DirectoryShape, ViewType
<1>2. /\ view' \in ViewType /\ view'.syncing = view.syncing /\ view'.device = view.device
      /\ UNCHANGED <<table, failing, loads, syncs, rows, toasts, timers, directoryFaults>>
  <2>1. CASE Search
    <3> DEFINE v1 == [view EXCEPT !.search = TRUE]
    <3>1. /\ view' = [v1 EXCEPT !.page = 1]
          /\ UNCHANGED <<table, failing, loads, syncs, rows, toasts, timers, directoryFaults>>
      BY <2>1 DEF Search, swrVars, toastVars
    <3>2. v1 \in ViewType /\ v1.syncing = view.syncing /\ v1.device = view.device
      BY <1>0, ViewField DEF DirectoryShape
    <3> HIDE DEF v1
    <3>3. QED
      BY <3>1, <3>2, ViewField
  <2>2. CASE ClearSearch
    BY <1>0, <2>2, ViewField DEF ClearSearch, DirectoryShape, swrVars, toastVars
  <2>3. CASE CloseGroup
    BY <1>0, <2>3, ViewField DEF CloseGroup, DirectoryShape, swrVars, toastVars
  <2>4. ASSUME NEW page \in Nat \ {0}, Turn(page)
        PROVE  /\ view' \in ViewType /\ view'.syncing = view.syncing
               /\ view'.device = view.device
               /\ UNCHANGED <<table, failing, loads, syncs, rows, toasts, timers, directoryFaults>>
    BY <1>0, <2>4, ViewField DEF Turn, DirectoryShape, swrVars, toastVars
  <2>5. ASSUME NEW e \in Entries, ShowGroup(e)
        PROVE  /\ view' \in ViewType /\ view'.syncing = view.syncing
               /\ view'.device = view.device
               /\ UNCHANGED <<table, failing, loads, syncs, rows, toasts, timers, directoryFaults>>
    BY <1>0, <2>5, ViewField DEF ShowGroup, DirectoryShape, swrVars, toastVars
  <2>6. CASE PreviousPage \/ NextPage \/ Sort
    <3>1. PICK page \in Nat \ {0} : Turn(page)
      BY <1>0, <2>6 DEF PreviousPage, NextPage, Sort
    <3>2. QED
      BY <2>4, <3>1
  <2>7. QED
    BY <2>1, <2>2, <2>3, <2>5, <2>6
<1>3. DirectoryShape'
  BY <1>0, <1>2 DEF DirectoryShape
<1>4. QED
  BY <1>2, <1>3, ViewStep

LEMMA ToastSteps ==
    ASSUME DirectoryInv, DismissToast \/ \E id \in 1..MaxToasts : RemoveToast(id)
    PROVE  DirectoryInv'
<1>0. DirectoryShape /\ OneSyncAtATime /\ ToastInv /\ StoredInv
  BY DEF DirectoryInv
<1>1. CASE DismissToast
  <2>1. PICK t \in toasts.list :
          /\ t.open
          /\ toasts' = [toasts EXCEPT !.list = {[t EXCEPT !.open = FALSE]}]
          /\ timers' = timers \cup {t.id}
          /\ UNCHANGED <<view, table, failing, loads, syncs, rows, directoryFaults>>
    BY <1>1 DEF DismissToast, swrVars
  <2> DEFINE u == [t EXCEPT !.open = FALSE]
  <2>2. t \in Toasts /\ u \in Toasts /\ ~ u.open /\ u.id = t.id /\ u.device = t.device /\ u.ok = t.ok
        /\ u.names = t.names
    BY <1>0, <2>1 DEF DirectoryShape, Toasts
  <2>3. toasts'.list = {u} /\ toasts'.count = toasts.count
        /\ toasts' \in [count : 0..MaxToasts, list : SUBSET Toasts]
    BY <1>0, <2>1, <2>2 DEF DirectoryShape
  <2> HIDE DEF u
  <2>4. DirectoryShape'
    <3>1. t.id \in 1..MaxToasts
      BY <2>2 DEF Toasts
    <3>2. QED
      BY <1>0, <2>1, <2>3, <3>1 DEF DirectoryShape
  <2>5. t.id <= toasts.count
    BY <1>0 DEF ToastInv
  <2>6. ToastInv'
    BY <1>0, <2>1, <2>3, <2>2, <2>5 DEF ToastInv
  <2>7. OneSyncAtATime' /\ StoredInv'
    BY <1>0, <2>1, <2>2, <2>3 DEF OneSyncAtATime, StoredInv, SuccessMeansStored
  <2>8. QED
    BY <2>4, <2>6, <2>7 DEF DirectoryInv
<1>2. ASSUME NEW id \in 1..MaxToasts, RemoveToast(id) PROVE DirectoryInv'
  <2>1. /\ timers' = timers \ {id}
        /\ toasts'.list \subseteq toasts.list /\ toasts'.count = toasts.count
        /\ toasts' \in [count : 0..MaxToasts, list : SUBSET Toasts]
        /\ UNCHANGED <<view, table, failing, loads, syncs, rows, directoryFaults>>
    BY <1>0, <1>2 DEF RemoveToast, Without, swrVars, DirectoryShape
  <2>2. DirectoryShape'
    BY <1>0, <2>1 DEF DirectoryShape
  <2>3. QED
    BY <1>0, <2>1, <2>2
       DEF DirectoryInv, OneSyncAtATime, ToastInv, StoredInv, SuccessMeansStored
<1>3. QED
  BY <1>1, <1>2

\* A step of the only synchronisation there is.
LEMMA SyncMoves ==
    ASSUME DirectoryInv, NEW p \in syncs, NEW q \in Sync, SyncStep(p, q), KeepsWord(q, rows'),
           rows' \in [DirectoryDevices -> Listing],
           \A d \in DirectoryDevices, e \in Entries :
                rows[d][e] # "absent" => rows'[d][e] # "absent",
           loads' \in [DirectoryDevices -> SUBSET Listing],
           directoryFaults' \in 0..MaxFaults,
           UNCHANGED <<view, table, failing, toasts, timers>>
    PROVE  DirectoryInv'
<1>0. DirectoryShape /\ OneSyncAtATime /\ ToastInv /\ StoredInv
  BY DEF DirectoryInv
<1>1. syncs' = {q} /\ syncs # {}
  BY <1>0 DEF SyncStep, OneSyncAtATime
<1>2. DirectoryShape'
  BY <1>0, <1>1 DEF DirectoryShape
<1>3. OneSyncAtATime' /\ ToastInv'
  BY <1>0, <1>1 DEF OneSyncAtATime, ToastInv
<1>4. StoredInv'
  <2>1. \A t \in toasts.list : t.device \in DirectoryDevices
    BY <1>0 DEF DirectoryShape, Toasts
  <2>2. SuccessMeansStored'
    BY <1>0, <1>1, <2>1 DEF StoredInv, SuccessMeansStored
  <2>3. QED
    BY <1>1, <2>2 DEF StoredInv
<1>5. QED
  BY <1>2, <1>3, <1>4 DEF DirectoryInv

\* The end of a synchronisation, with a toast that says the truth.
LEMMA SyncEnds ==
    ASSUME DirectoryInv, NEW p \in syncs, NEW ok \in BOOLEAN,
           ok => p.stage = "refresh",
           syncs' = syncs \ {p}, view' = [view EXCEPT !.syncing = FALSE],
           AddToast(p, ok), UNCHANGED <<swrVars, rows, directoryFaults>>
    PROVE  DirectoryInv'
<1>0. DirectoryShape /\ OneSyncAtATime /\ ToastInv /\ StoredInv
  BY DEF DirectoryInv
<1> DEFINE t == [id |-> toasts.count + 1, device |-> p.device, ok |-> ok, open |-> TRUE,
                 names |-> p.names]
<1>1. t \in Toasts /\ t.id = toasts.count + 1 /\ t.device = p.device /\ t.ok = ok
      /\ t.names = p.names /\ toasts.count \in Nat /\ toasts.count + 1 \in 0..MaxToasts
  BY <1>0, DirectoryAssumption DEF AddToast, DirectoryShape, Toasts, Sync
<1>2. toasts' = [count |-> toasts.count + 1, list |-> {t}] /\ timers' = timers
  BY DEF AddToast
<1> HIDE DEF t
<1>3. syncs' = {}
  BY <1>0 DEF OneSyncAtATime
<1>4. DirectoryShape'
  <2>1. view' \in ViewType
    BY <1>0, ViewField DEF DirectoryShape
  <2>2. toasts' \in [count : 0..MaxToasts, list : SUBSET Toasts]
    BY <1>1, <1>2
  <2>3. QED
    BY <1>0, <1>2, <1>3, <2>1, <2>2 DEF DirectoryShape, swrVars
<1>5. OneSyncAtATime'
  BY <1>0, <1>3, ViewField DEF OneSyncAtATime, DirectoryShape
<1>6. ToastInv'
  <2>1. \A id \in timers : id \in 1..MaxToasts /\ id <= toasts.count
    BY <1>0 DEF DirectoryShape, ToastInv
  <2>2. QED
    BY <1>1, <1>2, <2>1 DEF ToastInv
<1>7. StoredInv'
  <2>1. ok => \A e \in Entries : p.names[e] # "absent" => rows[p.device][e] = p.names[e]
    BY <1>0 DEF StoredInv, KeepsWord
  <2>2. QED
    BY <1>1, <1>2, <1>3, <2>1 DEF StoredInv, SuccessMeansStored
<1>8. QED
  BY <1>4, <1>5, <1>6, <1>7 DEF DirectoryInv

LEMMA SyncSteps ==
    ASSUME DirectoryInv, NEW p \in syncs,
           \/ FetchContacts(p) \/ FetchGroups(p) \/ \E e \in Entries : Upsert(p, e)
           \/ AllStored(p) \/ StoreFails(p)
           \/ SyncAnswered(p) \/ SyncDone(p) \/ SyncFailed(p)
    PROVE  DirectoryInv'
<1>0. /\ DirectoryShape /\ p \in Sync /\ p.device \in DirectoryDevices
      /\ p.names \in Listing /\ p.left \in SUBSET Entries
      /\ OnPhone \in [DirectoryDevices -> SUBSET Listing]
      /\ rows \in [DirectoryDevices -> Listing]
      /\ loads \in [DirectoryDevices -> SUBSET Listing]
      /\ directoryFaults \in 0..MaxFaults
      /\ KeepsWord(p, rows)
  BY DirectoryAssumption DEF DirectoryInv, DirectoryShape, StoredInv, Sync
<1>1. CASE FetchContacts(p) \/ FetchGroups(p)
  <2>1. PICK names \in OnPhone[p.device] : Fetch(p, names)
    BY <1>1 DEF FetchContacts, FetchGroups
  <2> DEFINE left == {e \in Entries : names[e] # "absent"}
             q    == [p EXCEPT !.stage = "storing", !.names = names, !.left = left]
  <2>2. names \in Listing /\ left \in SUBSET Entries
    BY <1>0
  <2>3. q \in Sync /\ q.stage = "storing" /\ q.names = names /\ q.left = left
    <3> HIDE DEF left
    <3> DEFINE v1 == [p EXCEPT !.stage = "storing"]
               v2 == [v1 EXCEPT !.names = names]
    <3>1. q = [v2 EXCEPT !.left = left]
      OBVIOUS
    <3> HIDE DEF q
    <3>2. v1 \in Sync /\ v1.stage = "storing"
      BY <1>0 DEF Sync
    <3> HIDE DEF v1
    <3>3. v2 \in Sync /\ v2.stage = "storing" /\ v2.names = names
      BY <2>2, <3>2 DEF Sync
    <3> HIDE DEF v2
    <3>4. QED
      BY <2>2, <3>1, <3>3 DEF Sync
  <2>4. SyncStep(p, q) /\ UNCHANGED <<view, table, failing, loads, rows, toasts, timers,
                                      directoryFaults>>
    BY <2>1 DEF Fetch, swrVars, toastVars
  <2>5. KeepsWord(q, rows')
    BY <2>3 DEF KeepsWord
  <2> HIDE DEF q
  <2>6. QED
    BY <1>0, <2>3, <2>4, <2>5, SyncMoves
<1>2. ASSUME NEW e \in Entries, Upsert(p, e) PROVE DirectoryInv'
  <2> DEFINE q == [p EXCEPT !.left = p.left \ {e}]
  <2>1. /\ q \in Sync /\ q.stage = p.stage /\ q.names = p.names /\ q.device = p.device
        /\ q.left = p.left \ {e}
    BY <1>0 DEF Sync
  <2>2. /\ p.stage = "storing" /\ e \in p.left
        /\ rows' = Upserted(p, e) /\ SyncStep(p, q)
        /\ UNCHANGED <<view, table, failing, loads, toasts, timers, directoryFaults>>
    BY <1>2 DEF Upsert, swrVars, toastVars
  <2> HIDE DEF q
  <2>3. p.names[e] \in {"found", "other"} /\ rows[p.device] \in Listing
    BY <1>0, <2>2 DEF KeepsWord, Listing
  <2>4. /\ rows' \in [DirectoryDevices -> Listing]
        /\ rows'[p.device] = [rows[p.device] EXCEPT ![e] = p.names[e]]
        /\ \A d \in DirectoryDevices : d # p.device => rows'[d] = rows[d]
    BY <1>0, <2>2, <2>3 DEF Upserted, Listing
  <2>5. /\ rows'[p.device][e] = p.names[e]
        /\ \A f \in Entries : f # e => rows'[p.device][f] = rows[p.device][f]
    BY <2>3, <2>4 DEF Listing
  <2>6. KeepsWord(q, rows')
    BY <1>0, <2>1, <2>2, <2>5 DEF KeepsWord
  <2>7. \A d \in DirectoryDevices, f \in Entries :
          rows[d][f] # "absent" => rows'[d][f] # "absent"
    BY <2>3, <2>4, <2>5
  <2>8. QED
    BY <1>0, <2>1, <2>2, <2>4, <2>6, <2>7, SyncMoves
<1>3. CASE AllStored(p)
  <2> DEFINE q == [p EXCEPT !.stage = "stored"]
  <2>1. /\ q \in Sync /\ q.stage = "stored" /\ q.names = p.names /\ q.device = p.device
        /\ q.left = p.left
    BY <1>0 DEF Sync
  <2>2. /\ p.stage = "storing" /\ p.left = {} /\ SyncStep(p, q)
        /\ UNCHANGED <<view, table, failing, loads, rows, toasts, timers, directoryFaults>>
    BY <1>3 DEF AllStored, swrVars, toastVars
  <2>3. KeepsWord(q, rows')
    BY <1>0, <2>1, <2>2 DEF KeepsWord
  <2> HIDE DEF q
  <2>4. QED
    BY <1>0, <2>1, <2>2, <2>3, SyncMoves
<1>4. CASE StoreFails(p)
  <2> DEFINE q == [p EXCEPT !.stage = "failed"]
  <2>1. q \in Sync /\ q.stage = "failed" /\ q.names = p.names /\ q.left = p.left
    BY <1>0 DEF Sync
  <2>2. /\ SyncStep(p, q)
        /\ directoryFaults' \in 0..MaxFaults
        /\ UNCHANGED <<view, table, failing, loads, rows, toasts, timers>>
    BY <1>0, <1>4, BrowserAssumption DEF StoreFails, DirectoryFault, swrVars, toastVars
  <2>3. KeepsWord(q, rows')
    BY <1>0, <2>1, <2>2 DEF KeepsWord
  <2> HIDE DEF q
  <2>4. QED
    BY <1>0, <2>1, <2>2, <2>3, SyncMoves
<1>5. CASE SyncAnswered(p)
  <2> DEFINE q == [p EXCEPT !.stage = "refresh", !.asked = view.device]
  <2>1. view.device \in DirectoryDevices
    BY <1>0 DEF DirectoryShape, ViewType
  <2>2. /\ q \in Sync /\ q.stage = "refresh" /\ q.names = p.names /\ q.device = p.device
        /\ q.left = p.left
    BY <1>0, <2>1 DEF Sync
  <2>3. /\ SyncStep(p, q) /\ p.stage = "stored" /\ RequestRows(view.device)
        /\ UNCHANGED <<view, table, failing, rows, toasts, timers, directoryFaults>>
    BY <1>5 DEF SyncAnswered, Synced, toastVars
  <2>4. loads' \in [DirectoryDevices -> SUBSET Listing]
    BY <2>1, <2>3, RequestRowsType
  <2>5. KeepsWord(q, rows')
    BY <1>0, <2>2, <2>3 DEF KeepsWord
  <2> HIDE DEF q
  <2>6. QED
    BY <1>0, <2>2, <2>3, <2>4, <2>5, SyncMoves
<1>6. CASE SyncDone(p)
  BY <1>6, SyncEnds DEF SyncDone
<1>7. CASE SyncFailed(p)
  BY <1>7, SyncEnds DEF SyncFailed
<1>8. QED
  BY <1>1, <1>2, <1>3, <1>4, <1>5, <1>6, <1>7

LEMMA SyncStarts ==
    ASSUME DirectoryInv, PressSync \/ PressSyncEmpty
    PROVE  DirectoryInv'
<1>0. DirectoryShape /\ OneSyncAtATime /\ ToastInv /\ StoredInv
  BY DEF DirectoryInv
<1> DEFINE p == [device |-> view.device, stage |-> "out", asked |-> view.device,
                 names |-> NoRows, left |-> {}]
<1>1. /\ ~ view.syncing /\ view.device \in DirectoryDevices
      /\ view' = [view EXCEPT !.syncing = TRUE]
      /\ syncs' = syncs \cup {p}
      /\ UNCHANGED <<table, failing, loads, rows, toasts, timers, directoryFaults>>
  BY <1>0 DEF PressSync, PressSyncEmpty, SyncButton, EmptySyncButton, StartSync,
              DirectoryShape, ViewType, swrVars, toastVars
<1>2. p \in Sync /\ p.stage = "out" /\ KeepsWord(p, rows)
  BY <1>1, NoRowsType DEF Sync, KeepsWord, NoRows
<1>3. syncs' = {p}
  BY <1>0, <1>1 DEF OneSyncAtATime
<1> HIDE DEF p
<1>4. view' \in ViewType /\ view'.syncing = TRUE /\ view'.device = view.device
  BY <1>0, <1>1, ViewField DEF DirectoryShape
<1>5. DirectoryShape'
  BY <1>0, <1>1, <1>2, <1>3, <1>4, DirectoryAssumption DEF DirectoryShape
<1>6. OneSyncAtATime' /\ ToastInv' /\ StoredInv'
  BY <1>0, <1>1, <1>2, <1>3, <1>4
     DEF OneSyncAtATime, ToastInv, StoredInv, SuccessMeansStored
<1>7. QED
  BY <1>5, <1>6 DEF DirectoryInv

LEMMA DirectoryStep == DirectoryInv /\ [DirectoryNext]_directoryVars => DirectoryInv'
<1> SUFFICES ASSUME DirectoryInv, [DirectoryNext]_directoryVars PROVE DirectoryInv'
    OBVIOUS
<1>1. CASE UNCHANGED directoryVars
  <2>1. DirectoryShape'
    BY <1>1 DEF directoryVars, DirectoryInv, DirectoryShape
  <2>2. QED
    BY <1>1, <2>1, ViewStep DEF directoryVars
<1>2. CASE Revalidate
  <2>1. view.device \in DirectoryDevices
    BY <1>2 DEF Revalidate, DirectoryInv, DirectoryShape, ViewType
  <2>2. QED
    BY <1>2, <2>1, TableSteps
<1>3. QED
  BY <1>1, <1>2, TableSteps, ViewSteps, ToastSteps, SyncStarts, SyncSteps DEF DirectoryNext

LEMMA DirectoryInvariant == DirectorySpec => []DirectoryInv
  BY DirectoryStart, DirectoryStep, PTL DEF DirectorySpec

\* The type invariant of the contacts and groups pages.
THEOREM DirectoryTypeCorrect == DirectorySpec => []DirectoryTypeOK
<1>1. DirectoryInv => DirectoryTypeOK
  BY DEF DirectoryInv, DirectoryShape, DirectoryTypeOK, ViewType
<1>2. QED
  BY <1>1, DirectoryInvariant, PTL

\* The buttons spin exactly while a synchronisation is under way, and there is one
\* at a time (contacts-management-client.tsx:146-169, 223, 391).
THEOREM OneSyncCorrect == DirectorySpec => []OneSyncAtATime
<1>1. DirectoryInv => OneSyncAtATime
  BY DEF DirectoryInv
<1>2. QED
  BY <1>1, DirectoryInvariant, PTL

\* A toast reports success only of what was stored
\* (contacts-management-client.tsx:146-169, store.go:186-217).
THEOREM SuccessCorrect == DirectorySpec => []SuccessMeansStored
<1>1. DirectoryInv => SuccessMeansStored
  BY DEF DirectoryInv, StoredInv
<1>2. QED
  BY <1>1, DirectoryInvariant, PTL

\* Only a newer toast or its own removal takes an open toast away.
LEMMA ToastKept ==
    ASSUME DirectoryInv, [DirectoryNext]_directoryVars, NEW t \in toasts.list, t.open,
           t \notin toasts'.list
    PROVE  toasts'.count > toasts.count \/ t.id \in timers'
<1>0. /\ toasts \in [count : 0..MaxToasts, list : SUBSET Toasts]
      /\ \A s \in toasts.list : s = t
      /\ t.id \notin timers
  BY DEF DirectoryInv, DirectoryShape, ToastInv
<1>1. CASE UNCHANGED toasts
  BY <1>1
<1>2. CASE DismissToast
  BY <1>0, <1>2 DEF DismissToast
<1>3. ASSUME NEW id \in 1..MaxToasts, RemoveToast(id)
      PROVE  FALSE
  <2>1. toasts'.list = Without(id) /\ id \in timers
    BY <1>0, <1>3 DEF RemoveToast
  <2>2. QED
    BY <1>0, <2>1 DEF Without
<1>4. ASSUME NEW d, NEW ok, AddToast(d, ok) PROVE toasts'.count > toasts.count
  BY <1>0, <1>4 DEF AddToast
<1>5. ASSUME NEW p \in syncs, SyncDone(p) \/ SyncFailed(p)
      PROVE  toasts'.count > toasts.count
  BY <1>4, <1>5 DEF SyncDone, SyncFailed
<1>6. UNCHANGED toasts \/ DismissToast \/ (\E id \in 1..MaxToasts : RemoveToast(id))
      \/ \E p \in syncs : SyncDone(p) \/ SyncFailed(p)
  BY Zenon DEF DirectoryNext, directoryVars, toastVars, SelectDevice, TableAnswered, TableRefused,
         TableFailed, Revalidate, Search, ClearSearch, Turn, ShowGroup, CloseGroup, PressSync,
         PressSyncEmpty, StartSync, PreviousPage, NextPage, Sort, FetchContacts, FetchGroups,
         Fetch, Upsert, AllStored, StoreFails, SyncAnswered
<1>7. QED
  BY <1>1, <1>2, <1>3, <1>5, <1>6

\* A report stays in sight until it is dismissed or replaced
\* (use-toast.ts:59-75, 118-128).
THEOREM ToastStaysCorrect == DirectorySpec => ToastStays
<1>1. DirectoryInv /\ [DirectoryNext]_directoryVars
        => [\A t \in toasts.list :
              t.open /\ t \notin toasts'.list
                => \/ toasts'.count > toasts.count
                   \/ t.id \in timers']_directoryVars
  BY ToastKept
<1>2. QED
  BY <1>1, DirectoryInvariant, PTL DEF DirectorySpec, ToastStays

-----------------------------------------------------------------------------
(* The pages of a table. A step that leaves the table alone changes the    *)
(* page number, the device or the search, and keeps the number in range.   *)

\* More entries have at least as many pages.
LEMMA MorePages ==
    ASSUME NEW m \in Nat, NEW n \in Nat, m <= n
    PROVE  (m + PageSize - 1) \div PageSize <= (n + PageSize - 1) \div PageSize
<1> USE DirectoryAssumption
<1> DEFINE a == m + PageSize - 1
           b == n + PageSize - 1
<1>1. PageSize \in Nat \ {0} /\ a \in Nat /\ b \in Nat /\ a <= b
  OBVIOUS
<1> HIDE DEF a, b
<1>2. a = PageSize * (a \div PageSize) + (a % PageSize) /\ a % PageSize \in 0..(PageSize - 1)
      /\ b = PageSize * (b \div PageSize) + (b % PageSize) /\ b % PageSize \in 0..(PageSize - 1)
      /\ a \div PageSize \in Int /\ b \div PageSize \in Int
  BY <1>1
<1>3. CASE a \div PageSize > b \div PageSize
  <2>1. PageSize * (a \div PageSize) >= PageSize * (b \div PageSize + 1)
    BY <1>1, <1>2, <1>3
  <2>2. QED
    BY <1>1, <1>2, <2>1
<1>4. QED
  BY <1>2, <1>3 DEF a, b

LEMMA PageKept ==
    ASSUME DirectoryInv, DirectoryNext, table' = table, PageInRange
    PROVE  PageInRange'
<1>0. view \in ViewType /\ view.page \in Nat \ {0} /\ TotalPages \in Nat
  BY TotalPagesType DEF DirectoryInv, DirectoryShape, ViewType
<1>1. CASE view'.page = 1
  BY <1>1 DEF PageInRange
<1>2. CASE view' = view
  BY <1>2 DEF PageInRange, TotalPages, Filtered, Matching, Data, Answer
<1>3. CASE UNCHANGED <<view.device, view.search, view.page>>
  BY <1>3 DEF PageInRange, TotalPages, Filtered, Matching, Data, Answer
<1>4. CASE ClearSearch
  <2>1. view'.device = view.device /\ view'.search = FALSE /\ view'.page = view.page
        /\ view.search = TRUE
    BY <1>0, <1>4 DEF ClearSearch, ViewType
  <2>2. Filtered' = Data /\ Filtered = Matching /\ Matching \subseteq Data
        /\ Data \in SUBSET Entries
    BY <2>1 DEF Filtered, Matching, Data, Answer
  <2>3. /\ Cardinality(Filtered) \in Nat /\ Cardinality(Filtered') \in Nat
        /\ Cardinality(Filtered) <= Cardinality(Filtered')
    BY <2>2, DirectoryAssumption, FS_Subset, FS_CardinalityType
  <2>4. TotalPages <= TotalPages'
    BY <2>3, MorePages DEF TotalPages
  <2>5. TotalPages' \in Nat
    BY <2>3, DirectoryAssumption DEF TotalPages
  <2>6. QED
    BY <1>0, <2>1, <2>4, <2>5 DEF PageInRange
<1>5. CASE PreviousPage \/ NextPage
  <2>1. PICK page \in Nat \ {0} : Turn(page) /\ page <= TotalPages
    BY <1>0, <1>5 DEF PreviousPage, NextPage, PageInRange
  <2>2. view'.device = view.device /\ view'.search = view.search /\ view'.page = page
    BY <1>0, <2>1 DEF Turn, ViewType
  <2>3. TotalPages' = TotalPages
    BY <2>2 DEF TotalPages, Filtered, Matching, Data, Answer
  <2>4. QED
    BY <2>1, <2>2, <2>3 DEF PageInRange
<1>6. CASE \/ \E d \in DirectoryDevices : SelectDevice(d)
           \/ Search \/ Sort
  <2>1. \/ \E d \in DirectoryDevices :
            view' = [view EXCEPT !.device = d, !.search = FALSE, !.page = 1]
        \/ view' = [view EXCEPT !.search = TRUE, !.page = 1]
        \/ view' = [view EXCEPT !.page = 1]
    BY <1>6, Zenon DEF SelectDevice, ForDevice, Search, Sort, Turn
  <2>2. view'.page = 1
    <3>1. ASSUME NEW d \in DirectoryDevices,
                 view' = [view EXCEPT !.device = d, !.search = FALSE, !.page = 1]
          PROVE  view'.page = 1
      BY <1>0, <3>1 DEF ViewType
    <3>2. CASE view' = [view EXCEPT !.search = TRUE, !.page = 1]
      BY <1>0, <3>2 DEF ViewType
    <3>3. CASE view' = [view EXCEPT !.page = 1]
      BY <1>0, <3>3 DEF ViewType
    <3>4. QED
      BY <2>1, <3>1, <3>2, <3>3, Zenon
  <2>3. QED
    BY <1>1, <2>2
<1>7. CASE \/ \E e \in Entries : ShowGroup(e)
           \/ CloseGroup \/ PressSync \/ PressSyncEmpty
           \/ \E p \in syncs : SyncDone(p) \/ SyncFailed(p)
  <2>1. \E x : view' = [view EXCEPT !.details = x] \/ view' = [view EXCEPT !.syncing = x]
    BY <1>7, Zenon DEF ShowGroup, CloseGroup, PressSync, PressSyncEmpty, StartSync, SyncDone,
                       SyncFailed
  <2>2. UNCHANGED <<view.device, view.search, view.page>>
    BY <1>0, <2>1 DEF ViewType
  <2>3. QED
    BY <1>3, <2>2
<1>8. CASE \/ \E d \in DirectoryDevices : TableAnswered(d) \/ TableRefused(d) \/ TableFailed(d)
           \/ Revalidate \/ DismissToast \/ \E id \in 1..MaxToasts : RemoveToast(id)
           \/ \E p \in syncs : \/ FetchContacts(p) \/ FetchGroups(p)
                               \/ \E e \in Entries : Upsert(p, e)
                               \/ AllStored(p) \/ StoreFails(p) \/ SyncAnswered(p)
  <2>1. view' = view
    BY <1>8, Zenon
       DEF TableAnswered, TableRefused, TableFailed, Revalidate, DismissToast, RemoveToast,
           FetchContacts, FetchGroups, Fetch, Upsert, AllStored, StoreFails, SyncAnswered
  <2>2. QED
    BY <1>2, <2>1
<1>9. QED
  BY <1>4, <1>5, <1>6, <1>7, <1>8 DEF DirectoryNext

\* Whatever is typed, cleared, sorted, turned or chosen: only an answer that is
\* taken into the table can leave the page number behind the last page
\* (contacts-management-client.tsx:129-144, 295-299, 335-350).
THEOREM GestureKeepsPageCorrect == DirectorySpec => GestureKeepsPage
<1>1. DirectoryInv /\ [DirectoryNext]_directoryVars
        => [PageInRange /\ ~ PageInRange' => table' # table]_directoryVars
  BY PageKept
<1>2. QED
  BY <1>1, DirectoryInvariant, PTL DEF DirectorySpec, GestureKeepsPage

-----------------------------------------------------------------------------
(* API keys. While no two creations overlap, the one under way has counted  *)
(* every active key, and no earlier secret is still on show.                *)

KeyRow == [name : KeyNames, active : BOOLEAN]

RequestOK(p) ==
    /\ p \in [n : {p.n}, via : {p.via}, name : {p.name}, key : {p.key}, list : {p.list},
              lost : {p.lost}, stage : {p.stage}]
    /\ p.via \in {"create", "delete"}
    /\ p.via = "create" => p.name \in KeyNames
    /\ p.stage = "checked" => p.via = "create"
    /\ p.via = "create" /\ p.key # None => p.stage \in {"back", "refresh"}

ApiKeyShape ==
    /\ keyPage = [list |-> keyPage.list, loading |-> keyPage.loading, dialog |-> keyPage.dialog,
                  generating |-> keyPage.generating, created |-> keyPage.created]
    /\ \A p \in requests : RequestOK(p) /\ (p.lost => "lost" \in accidents)
    /\ keys \in Seq(KeyRow)

LimitInv ==
    "creations" \notin accidents =>
        /\ Cardinality(Active) <= MaxKeys
        /\ \A p, q \in requests : p.via = "create" /\ q.via = "create" => p = q
        /\ \A p \in requests : p.stage = "checked" => Cardinality(Active) < MaxKeys
        /\ keyPage.created # None => \A p \in requests : p.via # "create"

ListInv ==
    accidents = {} =>
        /\ \A p, q \in requests : p = q
        /\ \A p \in requests : ~ p.lost /\ (p.stage = "refresh" => p.list = Newest)
        /\ \/ keyPage.loading \/ keyPage.list = Newest
           \/ \E p \in requests : p.stage \in {"back", "refresh"}

ApiKeyInv == ApiKeyShape /\ LimitInv /\ ListInv

ActiveOf(k) == {id \in DOMAIN k : k[id].active}

LEMMA ActiveIsFinite ==
    ASSUME NEW k \in Seq(KeyRow)
    PROVE  IsFiniteSet(ActiveOf(k)) /\ Cardinality(ActiveOf(k)) \in Nat
<1>1. IsFiniteSet(DOMAIN k)
  BY FS_Interval
<1>2. ActiveOf(k) \subseteq DOMAIN k
  BY DEF ActiveOf
<1>3. QED
  BY <1>1, <1>2, FS_Subset, FS_CardinalityType

\* Below the limit the count of the newest keys is the count of all.
LEMMA NewestIsAll ==
    ASSUME keys \in Seq(KeyRow), Cardinality(Active) <= MaxKeys
    PROVE  Newest = Active
<1>1. ASSUME NEW id \in Active PROVE Cardinality({other \in Active : other > id}) < MaxKeys
  <2> DEFINE newer == {other \in Active : other > id}
  <2>1. IsFiniteSet(Active) /\ Cardinality(Active) \in Nat
    BY ActiveIsFinite DEF Active, ActiveOf
  <2>2. /\ IsFiniteSet(Active \ {id})
        /\ Cardinality(Active \ {id}) = Cardinality(Active) - 1
    BY <2>1, FS_RemoveElement
  <2>3. newer \subseteq Active \ {id}
    BY DEF Active
  <2> HIDE DEF newer
  <2>4. Cardinality(newer) <= Cardinality(Active \ {id}) /\ Cardinality(newer) \in Nat
    BY <2>2, <2>3, FS_Subset, FS_CardinalityType
  <2>5. Cardinality(newer) < MaxKeys
    BY <2>1, <2>2, <2>4, ApiKeyAssumption
  <2>6. QED
    BY <2>5 DEF newer
<1>2. QED
  BY <1>1 DEF Newest

LEMMA ApiKeyStart == ApiKeyInit => ApiKeyInv
<1> SUFFICES ASSUME ApiKeyInit PROVE ApiKeyInv
    OBVIOUS
<1>1. ApiKeyShape
  BY DEF ApiKeyInit, ApiKeyShape
<1>2. Active = {}
  BY DEF ApiKeyInit, Active
<1>3. Cardinality(Active) = 0
  BY <1>2, FS_EmptySet
<1>4. QED
  BY <1>1, <1>3, ApiKeyAssumption DEF ApiKeyInit, ApiKeyInv, LimitInv, ListInv

\* A step of the page alone.
LEMMA KeyPageStep ==
    ASSUME ApiKeyInv, UNCHANGED <<requests, keys>>,
           keyPage' = [list |-> keyPage'.list, loading |-> keyPage'.loading,
                       dialog |-> keyPage'.dialog, generating |-> keyPage'.generating,
                       created |-> keyPage'.created],
           keyPage'.created \in {keyPage.created, None},
           accidents \subseteq accidents',
           accidents' = {} => \/ keyPage'.list = keyPage.list /\ keyPage'.loading = keyPage.loading
                              \/ keyPage'.list = Newest
    PROVE  ApiKeyInv'
<1>1. Active' = Active /\ Newest' = Newest
  BY DEF Active, Newest
<1>2. QED
  BY <1>1 DEF ApiKeyInv, ApiKeyShape, RequestOK, LimitInv, ListInv

LEMMA KeyPageSteps ==
    ASSUME ApiKeyInv,
           KeysLoaded \/ KeysNotLoaded \/ OpenKeyDialog \/ CancelKeyDialog \/ CloseCreatedKey
           \/ UNCHANGED keyVars
    PROVE  ApiKeyInv'
<1> USE DEF ApiKeyInv, ApiKeyShape
<1>1. CASE KeysLoaded
  BY <1>1, KeyPageStep DEF KeysLoaded, LoadKeys
<1>2. CASE KeysNotLoaded
  BY <1>2, KeyPageStep DEF KeysNotLoaded, LoadKeys, KeyFault
<1>3. CASE OpenKeyDialog
  BY <1>3, KeyPageStep DEF OpenKeyDialog
<1>4. CASE CancelKeyDialog
  BY <1>4, KeyPageStep DEF CancelKeyDialog
<1>5. CASE CloseCreatedKey
  BY <1>5, KeyPageStep DEF CloseCreatedKey
<1>6. CASE UNCHANGED keyVars
  BY <1>6, KeyPageStep DEF keyVars
<1>7. QED
  BY <1>1, <1>2, <1>3, <1>4, <1>5, <1>6

LEMMA BeginSteps ==
    ASSUME ApiKeyInv,
           \/ \E name \in KeyNames : PressCreate(name) \/ PressEnter(name)
           \/ \E id \in KeyIds : Delete(id)
    PROVE  ApiKeyInv'
<1>0. ApiKeyShape /\ LimitInv /\ ListInv
  BY DEF ApiKeyInv
<1>1. PICK via, name, key :
        /\ via \in {"create", "delete"}
        /\ Begin(via, name, key)
        /\ via = "create" => name \in KeyNames /\ key = None /\ keyPage.created = None
        /\ keyPage' \in {keyPage, [keyPage EXCEPT !.generating = TRUE]}
        /\ UNCHANGED keys
  <2>1. CASE \E name \in KeyNames : PressCreate(name) \/ PressEnter(name)
    BY <2>1 DEF PressCreate, PressEnter, Create
  <2>2. CASE \E id \in KeyIds : Delete(id)
    BY <2>2 DEF Delete
  <2>3. QED
    BY <2>1, <2>2
<1> DEFINE p == [n |-> requested + 1, via |-> via, name |-> name, key |-> key,
                 list |-> {}, lost |-> FALSE, stage |-> "out"]
<1>2. RequestOK(p) /\ p.via = via /\ p.stage = "out" /\ ~ p.lost
  BY <1>1 DEF RequestOK
<1>3. requests' = requests \cup {p}
  BY <1>1 DEF Begin
<1> HIDE DEF p
<1>4. /\ keyPage'.list = keyPage.list /\ keyPage'.loading = keyPage.loading
      /\ keyPage'.created = keyPage.created
      /\ keyPage' = [list |-> keyPage'.list, loading |-> keyPage'.loading,
                     dialog |-> keyPage'.dialog, generating |-> keyPage'.generating,
                     created |-> keyPage'.created]
  BY <1>0, <1>1 DEF ApiKeyShape
<1>5. Active' = Active /\ Newest' = Newest
  BY <1>1 DEF Active, Newest
<1>6. /\ accidents \subseteq accidents'
      /\ requests # {} => "together" \in accidents'
      /\ via = "create" /\ (\E q \in requests : q.via = "create") => "creations" \in accidents'
  BY <1>1 DEF Begin
<1>7. ApiKeyShape'
  BY <1>0, <1>1, <1>2, <1>3, <1>4, <1>6 DEF ApiKeyShape
<1>8. LimitInv'
  BY <1>0, <1>1, <1>2, <1>3, <1>4, <1>5, <1>6 DEF LimitInv
<1>9. ListInv'
  BY <1>0, <1>1, <1>2, <1>3, <1>4, <1>5, <1>6 DEF ListInv
<1>10. QED
  BY <1>7, <1>8, <1>9 DEF ApiKeyInv

\* A request goes on, whether the page hears of it or not.
LEMMA RequestGoesOn ==
    ASSUME ApiKeyInv, NEW p \in requests, NEW q, Step(p, q),
           RequestOK(q), q.via = p.via,
           UNCHANGED <<keyPage.list, keyPage.loading, keyPage.created>>,
           keyPage' = [list |-> keyPage'.list, loading |-> keyPage'.loading,
                       dialog |-> keyPage'.dialog, generating |-> keyPage'.generating,
                       created |-> keyPage'.created],
           keys' \in Seq(KeyRow), accidents \subseteq accidents',
           "creations" \notin accidents' =>
              /\ Cardinality(Active') <= MaxKeys
              /\ p.stage # "checked" => Cardinality(Active') <= Cardinality(Active)
              /\ q.stage = "checked" => Cardinality(Active') < MaxKeys,
           accidents' = {} =>
              /\ q.stage = "refresh" => q.list = Newest'
              /\ UNCHANGED keys \/ q.stage = "back"
              /\ p.stage \in {"back", "refresh"} => q.stage \in {"back", "refresh"},
           q.lost => p.lost \/ "lost" \in accidents',
           p.stage = "checked" => p.via = "create"
    PROVE  ApiKeyInv'
<1>0. ApiKeyShape /\ LimitInv /\ ListInv
  BY DEF ApiKeyInv
<1>1. requests' = (requests \ {p}) \cup {q}
  BY DEF Step
<1>2. ApiKeyShape'
  BY <1>0, <1>1 DEF ApiKeyShape, RequestOK
<1>3. Cardinality(Active) \in Nat /\ Cardinality(Active)' \in Nat /\ MaxKeys \in Nat
  BY <1>0, <1>2, ActiveIsFinite, ApiKeyAssumption DEF ApiKeyShape, Active, ActiveOf
<1>4. LimitInv'
  BY <1>0, <1>1, <1>3 DEF LimitInv, ApiKeyShape, RequestOK
<1>5. ListInv'
  <2>1. UNCHANGED keys => Newest' = Newest
    BY DEF Newest, Active
  <2>2. QED
    BY <1>0, <1>1, <2>1 DEF ListInv
<1>6. QED
  BY <1>2, <1>4, <1>5 DEF ApiKeyInv

\* A step of the server on a request.
LEMMA RequestMoves ==
    ASSUME ApiKeyInv, NEW p \in requests, NEW q, Step(p, q),
           RequestOK(q), q.via = p.via,
           UNCHANGED keyPage, keys' \in Seq(KeyRow), accidents \subseteq accidents',
           "creations" \notin accidents' =>
              /\ Cardinality(Active') <= MaxKeys
              /\ p.stage # "checked" => Cardinality(Active') <= Cardinality(Active)
              /\ q.stage = "checked" => Cardinality(Active') < MaxKeys,
           accidents' = {} =>
              /\ q.stage = "refresh" => q.list = Newest'
              /\ UNCHANGED keys \/ q.stage = "back"
              /\ p.stage \in {"back", "refresh"} => q.stage \in {"back", "refresh"},
           q.lost => p.lost \/ "lost" \in accidents',
           p.stage = "checked" => p.via = "create"
    PROVE  ApiKeyInv'
<1>1. keyPage' = [list |-> keyPage'.list, loading |-> keyPage'.loading,
                  dialog |-> keyPage'.dialog, generating |-> keyPage'.generating,
                  created |-> keyPage'.created]
  BY DEF ApiKeyInv, ApiKeyShape
<1>2. UNCHANGED <<keyPage.list, keyPage.loading, keyPage.created>>
  OBVIOUS
<1>3. QED
  BY <1>1, <1>2, RequestGoesOn

LEMMA KeyServerSteps ==
    ASSUME ApiKeyInv, NEW p \in requests,
           CheckLimit(p) \/ InsertKey(p) \/ DeleteKey(p) \/ ServerFails(p) \/ AskForKeys(p)
    PROVE  ApiKeyInv'
<1>0. /\ RequestOK(p) /\ keys \in Seq(KeyRow) /\ LimitInv /\ ListInv
      /\ p.stage = "checked" => p.via = "create"
  BY DEF ApiKeyInv, ApiKeyShape, RequestOK
<1>a. IsFiniteSet(Active) /\ Cardinality(Active) \in Nat /\ MaxKeys \in Nat
  BY <1>0, ActiveIsFinite, ApiKeyAssumption DEF Active, ActiveOf
<1>2. CASE CheckLimit(p)
  <2> DEFINE q == [p EXCEPT !.stage = IF BelowLimit THEN "checked" ELSE "refused"]
  <2>1. /\ Step(p, q) /\ p.via = "create" /\ p.stage = "out"
        /\ UNCHANGED <<keyPage, keys, requested, accidents, keyFaults>>
    BY <1>2 DEF CheckLimit
  <2>2. /\ RequestOK(q) /\ q.via = p.via /\ q.lost = p.lost /\ q.stage \in {"checked", "refused"}
        /\ q.stage = "checked" => BelowLimit
    BY <1>0, <2>1 DEF RequestOK
  <2> HIDE DEF q
  <2>3. Active' = Active /\ Newest' = Newest
    BY <2>1 DEF Active, Newest
  <2>4. "creations" \notin accidents' =>
           Cardinality(Active') <= MaxKeys /\ (q.stage = "checked" => Cardinality(Active') < MaxKeys)
    <3>1. SUFFICES ASSUME "creations" \notin accidents
                   PROVE  /\ Cardinality(Active) <= MaxKeys
                          /\ q.stage = "checked" => Cardinality(Active) < MaxKeys
      BY <2>1, <2>3
    <3>2. Cardinality(Active) <= MaxKeys
      BY <1>0, <3>1 DEF LimitInv
    <3>3. Newest = Active
      BY <1>0, <3>2, NewestIsAll
    <3>4. QED
      BY <2>2, <3>2, <3>3 DEF BelowLimit
  <2>5. QED
    BY <1>0, <1>a, <2>1, <2>2, <2>3, <2>4, RequestMoves
<1>3. CASE InsertKey(p)
  <2>1. /\ p.stage = "checked" /\ p.via = "create" /\ p.name \in KeyNames
        /\ UNCHANGED <<keyPage, requested, accidents, keyFaults>>
    BY <1>0, <1>3 DEF InsertKey, RequestOK
  <2>2. CASE NameTaken(p.name)
    <3> DEFINE q == [p EXCEPT !.stage = "refused"]
    <3>1. Step(p, q) /\ UNCHANGED keys
      BY <1>3, <2>2 DEF InsertKey
    <3>2. RequestOK(q) /\ q.via = p.via /\ q.lost = p.lost /\ q.stage = "refused"
      BY <1>0, <2>1 DEF RequestOK
    <3> HIDE DEF q
    <3>3. Active' = Active /\ Newest' = Newest
      BY <3>1 DEF Active, Newest
    <3>4. QED
      BY <1>0, <1>a, <2>1, <3>1, <3>2, <3>3, RequestMoves DEF LimitInv
  <2>3. CASE ~ NameTaken(p.name)
    <3> DEFINE q == [p EXCEPT !.stage = "back", !.key = Len(keys) + 1]
               k == [name |-> p.name, active |-> TRUE]
    <3>1. Step(p, q) /\ keys' = Append(keys, k)
      BY <1>3, <2>3 DEF InsertKey
    <3>2. RequestOK(q) /\ q.via = p.via /\ q.lost = p.lost /\ q.stage = "back"
      <4>1. q \in [n : {p.n}, via : {p.via}, name : {p.name}, key : {Len(keys) + 1},
                   list : {p.list}, lost : {p.lost}, stage : {"back"}]
        BY <1>0 DEF RequestOK
      <4>2. QED
        BY <1>0, <4>1 DEF RequestOK
    <3>3. k \in KeyRow
      BY <2>1 DEF KeyRow
    <3> HIDE DEF q, k
    <3>4. keys' \in Seq(KeyRow) /\ Active' \subseteq Active \cup {Len(keys) + 1}
      BY <1>0, <3>1, <3>3 DEF Active
    <3>5. /\ IsFiniteSet(Active \cup {Len(keys) + 1})
          /\ Cardinality(Active \cup {Len(keys) + 1}) <= Cardinality(Active) + 1
          /\ Cardinality(Active \cup {Len(keys) + 1}) \in Nat
      BY <1>a, FS_AddElement, FS_CardinalityType
    <3>6. Cardinality(Active') <= Cardinality(Active) + 1 /\ Cardinality(Active') \in Nat
      BY <1>a, <3>4, <3>5, FS_Subset, FS_CardinalityType
    <3>7. "creations" \notin accidents' => Cardinality(Active') <= MaxKeys
      BY <1>0, <1>a, <2>1, <3>6 DEF LimitInv
    <3>8. QED
      BY <1>0, <2>1, <3>1, <3>2, <3>4, <3>7, RequestMoves
  <2>4. QED
    BY <2>2, <2>3
<1>4. CASE DeleteKey(p)
  <2> DEFINE q == [p EXCEPT !.stage = "back"]
  <2>1. /\ Step(p, q) /\ p.stage = "out" /\ keys' = [keys EXCEPT ![p.key].active = FALSE]
        /\ UNCHANGED <<keyPage, requested, accidents, keyFaults>>
    BY <1>4 DEF DeleteKey, Deleted
  <2>2. RequestOK(q) /\ q.via = p.via /\ q.lost = p.lost /\ q.stage = "back"
    BY <1>0 DEF RequestOK
  <2> HIDE DEF q
  <2>3. keys' \in Seq(KeyRow) /\ Active' \subseteq Active
    <3>1. \A id \in DOMAIN keys : [keys[id] EXCEPT !.active = FALSE] \in KeyRow
      <4>1. SUFFICES ASSUME NEW id \in DOMAIN keys
                     PROVE  [keys[id] EXCEPT !.active = FALSE] \in KeyRow
        OBVIOUS
      <4>2. keys[id] \in KeyRow
        BY <1>0
      <4>3. QED
        BY <4>2 DEF KeyRow
    <3>2. /\ DOMAIN keys' = DOMAIN keys
          /\ \A id \in DOMAIN keys : \/ keys'[id] = keys[id]
                                     \/ keys'[id] = [keys[id] EXCEPT !.active = FALSE]
      BY <1>0, <2>1
    <3>3. keys' \in Seq(KeyRow)
      <4>1. PICK n \in Nat : keys \in [1..n -> KeyRow]
        BY <1>0
      <4>2. keys' \in [1..n -> KeyRow]
        BY <2>1, <3>1, <3>2, <4>1
      <4>3. QED
        BY <4>2
    <3>4. QED
      <4>1. SUFFICES ASSUME NEW id \in DOMAIN keys, keys'[id].active PROVE keys[id].active
        BY <3>2, <3>3 DEF Active
      <4>2. keys[id] \in KeyRow
        BY <1>0
      <4>3. [keys[id] EXCEPT !.active = FALSE].active = FALSE
        BY <4>2 DEF KeyRow
      <4>4. QED
        BY <3>2, <4>1, <4>3
  <2>4. Cardinality(Active') <= Cardinality(Active) /\ Cardinality(Active') \in Nat
    BY <1>a, <2>3, FS_Subset, FS_CardinalityType
  <2>5. "creations" \notin accidents' => Cardinality(Active') <= MaxKeys
    BY <1>0, <1>a, <2>1, <2>4 DEF LimitInv
  <2>6. QED
    BY <1>0, <2>1, <2>2, <2>3, <2>4, <2>5, RequestMoves
<1>5. CASE ServerFails(p)
  <2> DEFINE q == [p EXCEPT !.stage = IF p.via = "create" THEN "refused" ELSE "back"]
  <2>1. /\ Step(p, q) /\ p.stage = "out" /\ accidents' = accidents \cup {"failed"}
        /\ UNCHANGED <<keyPage, keys, requested>>
    BY <1>5 DEF ServerFails, KeyFault
  <2>2. RequestOK(q) /\ q.via = p.via /\ q.lost = p.lost /\ q.stage \in {"refused", "back"}
    BY <1>0, <2>1 DEF RequestOK
  <2> HIDE DEF q
  <2>3. Active' = Active
    BY <2>1 DEF Active
  <2>4. "creations" \notin accidents' => Cardinality(Active') <= MaxKeys
    BY <1>0, <2>1, <2>3 DEF LimitInv
  <2>5. QED
    BY <1>0, <1>a, <2>1, <2>2, <2>3, <2>4, RequestMoves
<1>6. CASE AskForKeys(p)
  <2> DEFINE q == [p EXCEPT !.stage = "refresh", !.list = Newest]
  <2>1. /\ Step(p, q) /\ p.stage = "back"
        /\ UNCHANGED <<keyPage, keys, requested, accidents, keyFaults>>
    BY <1>6 DEF AskForKeys, ListNow
  <2>2. RequestOK(q) /\ q.via = p.via /\ q.lost = p.lost /\ q.stage = "refresh" /\ q.list = Newest
    <3>1. q \in [n : {p.n}, via : {p.via}, name : {p.name}, key : {p.key},
                 list : {Newest}, lost : {p.lost}, stage : {"refresh"}]
      BY <1>0 DEF RequestOK
    <3>2. QED
      BY <1>0, <2>1, <3>1 DEF RequestOK
  <2> HIDE DEF q
  <2>3. Active' = Active /\ Newest' = Newest
    BY <2>1 DEF Active, Newest
  <2>4. "creations" \notin accidents' => Cardinality(Active') <= MaxKeys
    BY <1>0, <2>1, <2>3 DEF LimitInv
  <2>5. QED
    BY <1>0, <1>a, <2>1, <2>2, <2>3, <2>4, RequestMoves
<1>7. QED
  BY <1>2, <1>3, <1>4, <1>5, <1>6

\* The end of a request.
LEMMA KeyAnswerSteps ==
    ASSUME ApiKeyInv, NEW p \in requests,
           \/ KeysRefreshed(p) \/ RefreshIgnored(p) \/ RefreshRefused(p)
           \/ RequestRefused(p) \/ Forgotten(p)
    PROVE  ApiKeyInv'
<1>0. ApiKeyShape /\ LimitInv /\ ListInv /\ RequestOK(p)
  BY DEF ApiKeyInv, ApiKeyShape
<1>1. /\ requests' = requests \ {p} /\ keys' = keys /\ accidents \subseteq accidents'
      /\ keyPage'.loading = keyPage.loading
      /\ keyPage' = [list |-> keyPage'.list, loading |-> keyPage'.loading,
                     dialog |-> keyPage'.dialog, generating |-> keyPage'.generating,
                     created |-> keyPage'.created]
      /\ keyPage'.created # keyPage.created => p.via = "create"
      /\ accidents' = {} =>
            \/ p.stage = "refused" /\ keyPage'.list = keyPage.list
            \/ p.stage = "refresh" /\ keyPage'.list = p.list
            \/ p.lost /\ keyPage'.list = keyPage.list
  <2>1. CASE KeysRefreshed(p)
    BY <1>0, <2>1 DEF KeysRefreshed, Conclude, ApiKeyShape
  <2>2. CASE RefreshIgnored(p)
    BY <1>0, <2>2 DEF RefreshIgnored, Conclude, KeyFault, ApiKeyShape
  <2>3. CASE RefreshRefused(p)
    BY <1>0, <2>3 DEF RefreshRefused, Conclude, KeyFault, ApiKeyShape
  <2>4. CASE RequestRefused(p)
    BY <1>0, <2>4 DEF RequestRefused, AfterKeyError, ApiKeyShape
  <2>5. CASE Forgotten(p)
    BY <1>0, <2>5 DEF Forgotten, ApiKeyShape
  <2>6. QED
    BY <2>1, <2>2, <2>3, <2>4, <2>5
<1>2. Active' = Active /\ Newest' = Newest
  BY <1>1 DEF Active, Newest
<1>3. ApiKeyShape'
  BY <1>0, <1>1 DEF ApiKeyShape, RequestOK
<1>4. LimitInv'
  BY <1>0, <1>1, <1>2 DEF LimitInv
<1>5. ListInv'
  BY <1>0, <1>1, <1>2 DEF ListInv
<1>6. QED
  BY <1>3, <1>4, <1>5 DEF ApiKeyInv

\* A request is lost: it goes on without the page.
LEMMA LostSteps ==
    ASSUME ApiKeyInv, NEW p \in requests, RequestLost(p) PROVE ApiKeyInv'
<1> DEFINE q == [p EXCEPT !.lost = TRUE]
<1>1. ApiKeyShape /\ LimitInv /\ RequestOK(p)
  BY DEF ApiKeyInv, ApiKeyShape
<1>2. /\ Step(p, q) /\ accidents' = accidents \cup {"lost"} /\ UNCHANGED <<keys, requested>>
      /\ keyPage' = AfterKeyError(p)
  BY DEF RequestLost, KeyFault
<1>3. RequestOK(q) /\ q.via = p.via /\ q.stage = p.stage
  BY <1>1 DEF RequestOK
<1> HIDE DEF q
<1>4. /\ keyPage' = [list |-> keyPage'.list, loading |-> keyPage'.loading,
                     dialog |-> keyPage'.dialog, generating |-> keyPage'.generating,
                     created |-> keyPage'.created]
      /\ UNCHANGED <<keyPage.list, keyPage.loading, keyPage.created>>
  BY <1>1, <1>2 DEF AfterKeyError, ApiKeyShape
<1>5. Active' = Active /\ keys' \in Seq(KeyRow)
  BY <1>1, <1>2 DEF Active, ApiKeyShape
<1>6. Cardinality(Active) \in Nat
  BY <1>1, ActiveIsFinite DEF ApiKeyShape, Active, ActiveOf
<1>7. "creations" \notin accidents' =>
         /\ Cardinality(Active') <= MaxKeys
         /\ p.stage # "checked" => Cardinality(Active') <= Cardinality(Active)
         /\ q.stage = "checked" => Cardinality(Active') < MaxKeys
  BY <1>1, <1>2, <1>3, <1>5, <1>6 DEF LimitInv
<1>8. p.stage = "checked" => p.via = "create"
  BY <1>1 DEF RequestOK
<1>9. QED
  BY <1>2, <1>3, <1>4, <1>5, <1>7, <1>8, RequestGoesOn

LEMMA ApiKeyStep == ApiKeyInv /\ [ApiKeyNext]_keyVars => ApiKeyInv'
  BY KeyPageSteps, BeginSteps, KeyServerSteps, KeyAnswerSteps, LostSteps DEF ApiKeyNext

LEMMA ApiKeyInvariant == ApiKeySpec => []ApiKeyInv
  BY ApiKeyStart, ApiKeyStep, PTL DEF ApiKeySpec

\* No more keys are made than were asked for: those there are and the creations
\* that may still make one are no more than the requests there have been.
Creating == {p \in requests : p.via = "create" /\ p.stage \in {"out", "checked"}}

KeyCountInv ==
    /\ \A p \in requests : p \in Requests
    /\ keys \in Seq(KeyRow)
    /\ requested \in 0..MaxRequests
    /\ IsFiniteSet(Creating) /\ Len(keys) + Cardinality(Creating) <= requested
    /\ \A p \in requests : p.via = "delete" => p.key \in KeyIds

LEMMA KeyCounted ==
    ASSUME KeyCountInv
    PROVE  Len(keys) \in 0..MaxRequests /\ Active \subseteq KeyIds /\ Newest \subseteq KeyIds
<1>1. Cardinality(Creating) \in Nat /\ Len(keys) \in Nat /\ DOMAIN keys = 1..Len(keys)
  BY FS_CardinalityType DEF KeyCountInv
<1>2. Len(keys) <= MaxRequests
  BY <1>1, ApiKeyAssumption DEF KeyCountInv
<1>3. QED
  BY <1>1, <1>2, ApiKeyAssumption DEF Active, Newest, KeyIds

\* A request moves on: a creation counts until it has made its key.
LEMMA KeyCountMoves ==
    ASSUME KeyCountInv, NEW p \in requests, NEW q, Step(p, q), q \in Requests,
           q.via = p.via, p.via = "delete" => q.key = p.key,
           UNCHANGED requested, keys' \in Seq(KeyRow),
           q \in Creating' => p \in Creating,
           \/ Len(keys') = Len(keys)
           \/ Len(keys') = Len(keys) + 1 /\ p \in Creating /\ q \notin Creating'
    PROVE  KeyCountInv'
<1> USE DEF KeyCountInv
<1>1. requests' = (requests \ {p}) \cup {q}
  BY DEF Step
<1>2. Len(keys) \in Nat /\ Len(keys') \in Nat /\ Cardinality(Creating) \in Nat
      /\ requested \in Nat
  BY FS_CardinalityType, ApiKeyAssumption
<1>3. CASE p \in Creating
  <2>1. /\ IsFiniteSet(Creating \ {p}) /\ Cardinality(Creating \ {p}) = Cardinality(Creating) - 1
    BY <1>3, FS_RemoveElement
  <2>2. /\ IsFiniteSet((Creating \ {p}) \cup {q})
        /\ Cardinality((Creating \ {p}) \cup {q}) <= Cardinality(Creating)
    <3> DEFINE others == Creating \ {p}
    <3>1. IsFiniteSet(others) /\ Cardinality(others) = Cardinality(Creating) - 1
      BY <2>1
    <3> HIDE DEF others
    <3>2. Cardinality(others) \in Nat
      BY <3>1, FS_CardinalityType
    <3>3. /\ IsFiniteSet(others \cup {q})
          /\ Cardinality(others \cup {q}) \in {Cardinality(others), Cardinality(others) + 1}
      BY <3>1, FS_AddElement
    <3>4. Cardinality(others \cup {q}) <= Cardinality(Creating)
      BY <1>2, <3>1, <3>2, <3>3
    <3>5. QED
      BY <3>3, <3>4 DEF others
  <2>3. CASE q \in Creating'
    <3>1. Creating' \subseteq (Creating \ {p}) \cup {q}
      BY <1>1 DEF Creating
    <3>2. IsFiniteSet(Creating') /\ Cardinality(Creating') <= Cardinality(Creating)
          /\ Cardinality(Creating') \in Nat
      BY <1>2, <2>2, <3>1, FS_Subset, FS_CardinalityType
    <3>3. QED
      BY <1>1, <1>2, <2>3, <3>2
  <2>4. CASE q \notin Creating'
    <3>1. Creating' \subseteq Creating \ {p}
      BY <1>1, <2>4 DEF Creating
    <3>2. IsFiniteSet(Creating') /\ Cardinality(Creating') <= Cardinality(Creating) - 1
          /\ Cardinality(Creating') \in Nat
      BY <1>2, <2>1, <3>1, FS_Subset, FS_CardinalityType
    <3>3. Len(keys') + Cardinality(Creating') <= requested'
      BY <1>2, <3>2
    <3>4. QED
      BY <1>1, <1>2, <3>2, <3>3
  <2>5. QED
    BY <2>3, <2>4
<1>4. CASE p \notin Creating
  <2>1. Creating' \subseteq Creating
    BY <1>1, <1>4 DEF Creating
  <2>2. IsFiniteSet(Creating') /\ Cardinality(Creating') <= Cardinality(Creating)
        /\ Cardinality(Creating') \in Nat
    BY <1>2, <2>1, FS_Subset, FS_CardinalityType
  <2>3. QED
    BY <1>1, <1>2, <1>4, <2>2
<1>5. QED
  BY <1>3, <1>4

LEMMA KeyCountServer ==
    ASSUME ApiKeyInv, KeyCountInv, NEW p \in requests,
           CheckLimit(p) \/ InsertKey(p) \/ DeleteKey(p) \/ ServerFails(p) \/ AskForKeys(p)
    PROVE  KeyCountInv'
<1>0. /\ p \in Requests /\ keys \in Seq(KeyRow) /\ keys' \in Seq(KeyRow)
      /\ p.stage = "checked" => p.via = "create"
      /\ p.stage = "checked" => p.name \in KeyNames
  BY KeyServerSteps DEF ApiKeyInv, ApiKeyShape, RequestOK, KeyCountInv
<1>1. CASE CheckLimit(p)
  <2> DEFINE q == [p EXCEPT !.stage = IF BelowLimit THEN "checked" ELSE "refused"]
  <2>1. /\ q \in Requests /\ q.via = p.via /\ q.key = p.key
    BY <1>0 DEF Requests
  <2>2. Step(p, q) /\ p \in Creating /\ UNCHANGED <<keys, requested>>
    BY <1>1 DEF CheckLimit, Creating
  <2> HIDE DEF q
  <2>3. QED
    BY <1>0, <2>1, <2>2, KeyCountMoves
<1>2. CASE InsertKey(p)
  <2>0. p.stage = "checked" /\ p.via = "create" /\ p \in Creating /\ UNCHANGED requested
    BY <1>0, <1>2 DEF InsertKey, Creating
  <2>1. CASE NameTaken(p.name)
    <3> DEFINE q == [p EXCEPT !.stage = "refused"]
    <3>1. q \in Requests /\ q.via = p.via /\ q.key = p.key
      BY <1>0 DEF Requests
    <3>2. Step(p, q) /\ UNCHANGED keys
      BY <1>2, <2>1 DEF InsertKey
    <3> HIDE DEF q
    <3>3. QED
      BY <1>0, <2>0, <3>1, <3>2, KeyCountMoves
  <2>2. CASE ~ NameTaken(p.name)
    <3> DEFINE q == [p EXCEPT !.stage = "back", !.key = Len(keys) + 1]
               k == [name |-> p.name, active |-> TRUE]
    <3>1. Step(p, q) /\ keys' = Append(keys, k)
      BY <1>2, <2>2 DEF InsertKey
    <3>2. Len(keys) + 1 \in KeyIds
      <4>1. Cardinality(Creating) # 0 /\ Cardinality(Creating) \in Nat
        BY <2>0, FS_EmptySet, FS_CardinalityType DEF KeyCountInv
      <4>2. QED
        BY <1>0, <4>1, ApiKeyAssumption DEF KeyCountInv, KeyIds
    <3>3. q \in Requests /\ q.via = p.via /\ q.stage = "back"
      BY <1>0, <3>2 DEF Requests
    <3>4. k \in KeyRow
      BY <1>0, <2>0 DEF KeyRow
    <3> HIDE DEF q, k
    <3>5. Len(keys') = Len(keys) + 1 /\ q \notin Creating'
      BY <1>0, <3>1, <3>3, <3>4 DEF Creating
    <3>6. QED
      BY <1>0, <2>0, <3>1, <3>3, <3>5, KeyCountMoves
  <2>3. QED
    BY <2>1, <2>2
<1>3. CASE DeleteKey(p) \/ ServerFails(p)
  <2>1. PICK s \in {"back", "refused"} :
          Step(p, [p EXCEPT !.stage = s]) /\ p.stage = "out" /\ UNCHANGED requested
    BY <1>3 DEF DeleteKey, ServerFails
  <2> DEFINE q == [p EXCEPT !.stage = s]
  <2>2. q \in Requests /\ q.via = p.via /\ q.key = p.key /\ q.stage = s
    BY <1>0 DEF Requests
  <2>3. Step(p, q)
    BY <2>1
  <2> HIDE DEF q
  <2>4. Len(keys') = Len(keys)
    BY <1>0, <1>3 DEF DeleteKey, Deleted, ServerFails
  <2>5. q \notin Creating'
    BY <2>2 DEF Creating
  <2>6. QED
    BY <1>0, <2>1, <2>2, <2>3, <2>4, <2>5, KeyCountMoves
<1>4. CASE AskForKeys(p)
  <2> DEFINE q == [p EXCEPT !.stage = "refresh", !.list = Newest]
  <2>1. Newest \subseteq KeyIds
    BY KeyCounted
  <2>2. q \in Requests /\ q.via = p.via /\ q.key = p.key /\ q.stage = "refresh"
    BY <1>0, <2>1 DEF Requests
  <2>3. Step(p, q) /\ UNCHANGED <<keys, requested>>
    BY <1>4 DEF AskForKeys, ListNow
  <2> HIDE DEF q
  <2>4. q \notin Creating'
    BY <2>2 DEF Creating
  <2>5. QED
    BY <1>0, <2>2, <2>3, <2>4, KeyCountMoves
<1>5. QED
  BY <1>1, <1>2, <1>3, <1>4

LEMMA KeyCountStep ==
    ApiKeyInv /\ KeyCountInv /\ keyPage.list \subseteq KeyIds /\ [ApiKeyNext]_keyVars => KeyCountInv'
<1> SUFFICES ASSUME ApiKeyInv, KeyCountInv, keyPage.list \subseteq KeyIds, [ApiKeyNext]_keyVars
             PROVE  KeyCountInv'
    OBVIOUS
<1>1. CASE UNCHANGED <<requests, keys, requested>>
  BY <1>1 DEF KeyCountInv, Creating
<1>2. ASSUME NEW via \in {"create", "delete"}, NEW n \in KeyNames \cup {None},
             NEW k \in KeyIds \cup {None}, Begin(via, n, k), UNCHANGED keys,
             via = "delete" => k \in KeyIds
      PROVE  KeyCountInv'
  <2> DEFINE p == [n |-> requested + 1, via |-> via, name |-> n, key |-> k, list |-> {},
                   lost |-> FALSE, stage |-> "out"]
  <2>1. p \in Requests /\ p.via = via /\ p.key = k
    BY <1>2, ApiKeyAssumption DEF Begin, KeyCountInv, Requests
  <2>2. requests' = requests \cup {p} /\ requested' = requested + 1 /\ requested < MaxRequests
    BY <1>2 DEF Begin
  <2> HIDE DEF p
  <2>3. /\ IsFiniteSet(Creating \cup {p}) /\ Cardinality(Creating) \in Nat
        /\ Cardinality(Creating \cup {p}) <= Cardinality(Creating) + 1
    BY FS_AddElement, FS_CardinalityType DEF KeyCountInv
  <2>4. Creating' \subseteq Creating \cup {p}
    BY <2>2 DEF Creating
  <2>5. /\ IsFiniteSet(Creating') /\ Cardinality(Creating') \in Nat
        /\ Cardinality(Creating') <= Cardinality(Creating) + 1
    BY <2>3, <2>4, FS_Subset, FS_CardinalityType
  <2>6. QED
    BY <1>2, <2>1, <2>2, <2>3, <2>5, ApiKeyAssumption DEF KeyCountInv
<1>3. ASSUME NEW p \in requests, requests' = requests \ {p}, UNCHANGED <<keys, requested>>
      PROVE  KeyCountInv'
  <2>1. Creating' \subseteq Creating
    BY <1>3 DEF Creating
  <2>2. /\ IsFiniteSet(Creating') /\ Cardinality(Creating') \in Nat
        /\ Cardinality(Creating) \in Nat /\ Cardinality(Creating') <= Cardinality(Creating)
    BY <2>1, FS_Subset, FS_CardinalityType DEF KeyCountInv
  <2>3. QED
    BY <1>3, <2>2, ApiKeyAssumption DEF KeyCountInv
<1>4. CASE KeysLoaded \/ KeysNotLoaded \/ OpenKeyDialog \/ CancelKeyDialog \/ CloseCreatedKey
           \/ UNCHANGED keyVars
  BY <1>1, <1>4 DEF KeysLoaded, KeysNotLoaded, LoadKeys, OpenKeyDialog, CancelKeyDialog,
                    CloseCreatedKey, keyVars
<1>5. CASE \E name \in KeyNames : PressCreate(name) \/ PressEnter(name)
  BY <1>2, <1>5 DEF PressCreate, PressEnter, Create
<1>6. CASE \E id \in KeyIds : Delete(id)
  BY <1>2, <1>6 DEF Delete
<1>7. ASSUME NEW p \in requests,
             KeysRefreshed(p) \/ RefreshIgnored(p) \/ RefreshRefused(p)
             \/ RequestRefused(p) \/ Forgotten(p)
      PROVE  KeyCountInv'
  BY <1>3, <1>7 DEF KeysRefreshed, RefreshIgnored, RefreshRefused, Conclude, RequestRefused,
                    Forgotten
<1>8. ASSUME NEW p \in requests, RequestLost(p) PROVE KeyCountInv'
  <2> DEFINE q == [p EXCEPT !.lost = TRUE]
  <2>1. p \in Requests /\ keys \in Seq(KeyRow)
    BY DEF KeyCountInv
  <2>2. q \in Requests /\ q.via = p.via /\ q.key = p.key /\ q.stage = p.stage
    BY <2>1 DEF Requests
  <2>3. Step(p, q) /\ UNCHANGED <<keys, requested>>
    BY <1>8 DEF RequestLost
  <2> HIDE DEF q
  <2>4. q \in Creating' => p \in Creating
    BY <2>2 DEF Creating
  <2>5. QED
    BY <2>1, <2>2, <2>3, <2>4, KeyCountMoves
<1>9. QED
  BY <1>4, <1>5, <1>6, <1>7, <1>8, KeyCountServer DEF ApiKeyNext

KeyPageOK ==
    /\ keyPage \in [list : SUBSET KeyIds, loading : BOOLEAN, dialog : BOOLEAN,
                    generating : BOOLEAN, created : KeyIds \cup {None}]
    /\ accidents \subseteq {"together", "creations", "failed", "lost"}
    /\ keyFaults \in 0..MaxFaults

LEMMA KeyPageOKStep ==
    KeyCountInv /\ KeyPageOK /\ [ApiKeyNext]_keyVars => KeyPageOK'
<1> SUFFICES ASSUME KeyCountInv, KeyPageOK, [ApiKeyNext]_keyVars PROVE KeyPageOK'
    OBVIOUS
<1> USE BrowserAssumption DEF KeyPageOK, KeyFault
<1>0. Newest \subseteq KeyIds
  BY KeyCounted
<1>a. ASSUME NEW answer \in SUBSET KeyIds, LoadKeys(answer)
      PROVE  keyPage' \in [list : SUBSET KeyIds, loading : BOOLEAN, dialog : BOOLEAN,
                           generating : BOOLEAN, created : KeyIds \cup {None}]
  BY <1>a DEF LoadKeys
<1>1. CASE KeysLoaded \/ KeysNotLoaded
  <2>1. PICK answer \in SUBSET KeyIds : LoadKeys(answer)
    BY <1>0, <1>1 DEF KeysLoaded, KeysNotLoaded
  <2>2. accidents' \subseteq {"together", "creations", "failed", "lost"}
    BY <1>1 DEF KeysLoaded, KeysNotLoaded
  <2>3. keyFaults' \in 0..MaxFaults
    BY <1>1 DEF KeysLoaded, KeysNotLoaded
  <2>4. QED
    BY <1>a, <2>1, <2>2, <2>3
<1>2. CASE OpenKeyDialog \/ CancelKeyDialog \/ CloseCreatedKey
  BY <1>2 DEF OpenKeyDialog, CancelKeyDialog, CloseCreatedKey
<1>3. ASSUME NEW via, NEW n, NEW k, Begin(via, n, k), UNCHANGED keyFaults,
             keyPage' \in {keyPage, [keyPage EXCEPT !.generating = TRUE]}
      PROVE  KeyPageOK'
  BY <1>3 DEF Begin
<1>4. CASE \E name \in KeyNames : PressCreate(name) \/ PressEnter(name)
  BY <1>3, <1>4 DEF PressCreate, PressEnter, Create
<1>5. CASE \E id \in KeyIds : Delete(id)
  BY <1>3, <1>5 DEF Delete
<1>6. ASSUME NEW p \in requests,
             CheckLimit(p) \/ InsertKey(p) \/ DeleteKey(p) \/ ServerFails(p) \/ AskForKeys(p)
      PROVE  KeyPageOK'
  BY <1>6 DEF CheckLimit, InsertKey, DeleteKey, ServerFails, AskForKeys
<1>7. ASSUME NEW p \in requests, NEW answer \in SUBSET KeyIds, Conclude(p, answer),
             KeyFault("failed") \/ UNCHANGED <<accidents, keyFaults>>
      PROVE  KeyPageOK'
  <2>1. p.key \in KeyIds \cup {None}
    BY DEF KeyCountInv, Requests
  <2>2. keyPage' \in [list : SUBSET KeyIds, loading : BOOLEAN, dialog : BOOLEAN,
                      generating : BOOLEAN, created : KeyIds \cup {None}]
    BY <1>7, <2>1 DEF Conclude, ShownKey
  <2>3. accidents' \subseteq {"together", "creations", "failed", "lost"}
    BY <1>7
  <2>4. keyFaults' \in 0..MaxFaults
    BY <1>7
  <2>5. QED
    BY <2>2, <2>3, <2>4
<1>8. ASSUME NEW p \in requests, KeysRefreshed(p) \/ RefreshIgnored(p) \/ RefreshRefused(p)
      PROVE  KeyPageOK'
  <2>1. p.list \subseteq KeyIds /\ keyPage.list \subseteq KeyIds
    BY DEF KeyCountInv, Requests
  <2>2. QED
    BY <1>7, <1>8, <2>1 DEF KeysRefreshed, RefreshIgnored, RefreshRefused
<1>9. ASSUME NEW p \in requests, RequestRefused(p) \/ RequestLost(p) \/ Forgotten(p)
      PROVE  KeyPageOK'
  <2>1. keyPage' \in [list : SUBSET KeyIds, loading : BOOLEAN, dialog : BOOLEAN,
                      generating : BOOLEAN, created : KeyIds \cup {None}]
    BY <1>9 DEF RequestRefused, RequestLost, Forgotten, AfterKeyError
  <2>2. accidents' \subseteq {"together", "creations", "failed", "lost"}
    BY <1>9 DEF RequestRefused, RequestLost, Forgotten
  <2>3. keyFaults' \in 0..MaxFaults
    BY <1>9 DEF RequestRefused, RequestLost, Forgotten
  <2>4. QED
    BY <2>1, <2>2, <2>3
<1>10. CASE UNCHANGED keyVars
  BY <1>10 DEF keyVars
<1> HIDE DEF KeyPageOK, KeyFault
<1>11. QED
  BY <1>1, <1>2, <1>4, <1>5, <1>6, <1>8, <1>9, <1>10 DEF ApiKeyNext

\* The type invariant of the page of keys; that there are never more keys than
\* creations (api-key-client.tsx:95-108, auth_handler.go:219-304) is what it rests on.
THEOREM ApiKeyTypeCorrect == ApiKeySpec => []ApiKeyTypeOK
<1>1. ApiKeyInit => KeyCountInv /\ KeyPageOK
  <2> SUFFICES ASSUME ApiKeyInit PROVE KeyCountInv /\ KeyPageOK
      OBVIOUS
  <2>1. Creating = {}
    BY DEF ApiKeyInit, Creating
  <2>2. IsFiniteSet(Creating) /\ Cardinality(Creating) = 0
    BY <2>1, FS_EmptySet
  <2>3. QED
    BY <2>2, ApiKeyAssumption, BrowserAssumption DEF ApiKeyInit, KeyCountInv, KeyPageOK
<1>2. KeyPageOK => keyPage.list \subseteq KeyIds
  BY DEF KeyPageOK
<1>3. KeyCountInv /\ KeyPageOK => ApiKeyTypeOK
  BY KeyCounted, ApiKeyAssumption DEF KeyCountInv, KeyPageOK, ApiKeyTypeOK, KeyRow
<1>4. QED
  BY <1>1, <1>2, <1>3, ApiKeyInvariant, KeyCountStep, KeyPageOKStep, PTL DEF ApiKeySpec

\* A user has at most MaxKeys keys, unless two creations were under way at once
\* (auth_handler.go:247-287).
THEOREM KeyLimitCorrect == ApiKeySpec => []KeyLimit
<1>1. ApiKeyInv => KeyLimit
  BY DEF ApiKeyInv, LimitInv, KeyLimit
<1>2. QED
  BY <1>1, ApiKeyInvariant, PTL

\* With no request under way the page lists what the server would, unless a
\* refresh failed or could be overtaken (kontak-providers.tsx:182-196).
THEOREM ListIsCurrentCorrect == ApiKeySpec => []ListIsCurrent
<1>1. ApiKeyInv => ListIsCurrent
  BY DEF ApiKeyInv, ListInv, ListIsCurrent
<1>2. QED
  BY <1>1, ApiKeyInvariant, PTL

\* A creation ends with its secret on show, and nothing but the user or another
\* creation takes it away.
LEMMA SecretsKept ==
    ASSUME ApiKeyInv, [ApiKeyNext]_keyVars
    PROVE  SecretIsShown /\ SecretStays
<1>0. ApiKeyShape /\ LimitInv /\ ListInv
  BY DEF ApiKeyInv
<1>1. CASE /\ \A p \in requests : \E q \in requests' : q.n = p.n
           /\ keyPage'.created = keyPage.created \/ requests' = requests
  BY <1>1 DEF SecretIsShown, SecretStays
<1>2. ASSUME NEW p \in requests, NEW answer, Conclude(p, answer)
      PROVE  SecretIsShown /\ SecretStays
  <2>1. /\ requests' = requests \ {p}
        /\ p.via = "create" => keyPage'.created = p.key
        /\ p.via # "create" => keyPage'.created = keyPage.created
    BY <1>0, <1>2 DEF Conclude, ShownKey, ApiKeyShape
  <2>2. SecretIsShown
    BY <2>1 DEF SecretIsShown
  <2>3. keyPage.created # None /\ p.via = "create" => "creations" \in accidents
    BY <1>0 DEF LimitInv
  <2>4. QED
    BY <2>1, <2>2, <2>3 DEF SecretStays
<1>3. ASSUME NEW p \in requests, RequestRefused(p) \/ Forgotten(p)
      PROVE  SecretIsShown /\ SecretStays
  <2>1. /\ requests' = requests \ {p} /\ keyPage'.created = keyPage.created
        /\ p.stage = "refused" \/ (p.lost /\ accidents' = accidents)
    BY <1>0, <1>3 DEF RequestRefused, Forgotten, AfterKeyError, ApiKeyShape
  <2>2. RequestOK(p) /\ (p.lost => "lost" \in accidents)
    BY <1>0 DEF ApiKeyShape
  <2>3. QED
    BY <2>1, <2>2 DEF SecretIsShown, SecretStays, RequestOK
<1>12. ASSUME NEW p \in requests, RequestLost(p) PROVE SecretIsShown /\ SecretStays
  <2>1. RequestOK(p) /\ keyPage'.created = keyPage.created
    BY <1>0, <1>12 DEF ApiKeyShape, RequestLost, AfterKeyError
  <2>2. PICK q : Step(p, q) /\ q.n = p.n
    <3>1. Step(p, [p EXCEPT !.lost = TRUE]) /\ [p EXCEPT !.lost = TRUE].n = p.n
      BY <1>12, <2>1 DEF RequestLost, RequestOK
    <3>2. QED
      BY <3>1
  <2>3. QED
    BY <1>1, <2>1, <2>2 DEF Step
<1>4. ASSUME NEW p \in requests,
             CheckLimit(p) \/ InsertKey(p) \/ DeleteKey(p) \/ ServerFails(p) \/ AskForKeys(p)
      PROVE  SecretIsShown /\ SecretStays
  <2>1. RequestOK(p) /\ keyPage' = keyPage
    BY <1>0, <1>4 DEF ApiKeyShape, CheckLimit, InsertKey, DeleteKey, ServerFails, AskForKeys
  <2>2. PICK q : Step(p, q) /\ q.n = p.n
    <3>1. ASSUME NEW s, NEW key, NEW answer
          PROVE  /\ [p EXCEPT !.stage = s].n = p.n
                 /\ [p EXCEPT !.stage = s, !.key = key].n = p.n
                 /\ [p EXCEPT !.stage = s, !.list = answer].n = p.n
      BY <2>1 DEF RequestOK
    <3>2. CASE CheckLimit(p)
      BY <3>1, <3>2 DEF CheckLimit
    <3>3. CASE InsertKey(p)
      <4> DEFINE no == [p EXCEPT !.stage = "refused"]
                 yes == [p EXCEPT !.stage = "back", !.key = Len(keys) + 1]
      <4>1. (Step(p, no) \/ Step(p, yes)) /\ no.n = p.n /\ yes.n = p.n
        BY <3>1, <3>3 DEF InsertKey
      <4> HIDE DEF no, yes
      <4>2. QED
        BY <4>1
    <3>4. CASE DeleteKey(p)
      BY <3>1, <3>4 DEF DeleteKey
    <3>5. CASE ServerFails(p)
      BY <3>1, <3>5 DEF ServerFails
    <3>6. CASE AskForKeys(p)
      <4> DEFINE new == [p EXCEPT !.stage = "refresh", !.list = ListNow]
      <4>1. Step(p, new) /\ new.n = p.n
        BY <3>1, <3>6 DEF AskForKeys
      <4> HIDE DEF new
      <4>2. QED
        BY <4>1
    <3>7. QED
      BY <1>4, <3>2, <3>3, <3>4, <3>5, <3>6
  <2>3. QED
    BY <1>1, <2>1, <2>2 DEF Step
<1>5. ASSUME NEW via, NEW name, NEW key, Begin(via, name, key),
             keyPage' \in {keyPage, [keyPage EXCEPT !.generating = TRUE]}
      PROVE  SecretIsShown /\ SecretStays
  <2>1. requests \subseteq requests' /\ keyPage'.created = keyPage.created
    BY <1>0, <1>5 DEF Begin, ApiKeyShape
  <2>2. QED
    BY <1>1, <2>1
<1>6. CASE requests' = requests
  BY <1>1, <1>6
<1>7. CASE \E name \in KeyNames : PressCreate(name) \/ PressEnter(name)
  BY <1>5, <1>7 DEF PressCreate, PressEnter, Create
<1>8. CASE \E id \in KeyIds : Delete(id)
  BY <1>5, <1>8 DEF Delete
<1>9. CASE \E p \in requests : KeysRefreshed(p) \/ RefreshIgnored(p) \/ RefreshRefused(p)
  BY <1>2, <1>9 DEF KeysRefreshed, RefreshIgnored, RefreshRefused
<1>10. CASE KeysLoaded \/ KeysNotLoaded \/ OpenKeyDialog \/ CancelKeyDialog
            \/ CloseCreatedKey \/ UNCHANGED keyVars
  BY <1>6, <1>10 DEF KeysLoaded, KeysNotLoaded, LoadKeys, OpenKeyDialog, CancelKeyDialog,
                     CloseCreatedKey, keyVars
<1>11. QED
  BY <1>3, <1>4, <1>7, <1>8, <1>9, <1>10, <1>12 DEF ApiKeyNext

\* The secret of a new key is shown when the creation ends and stays until its
\* user closes it (api-key-client.tsx:95-108, 392-431, kontak-providers.tsx:218-253).
THEOREM SecretReachesUserCorrect == ApiKeySpec => SecretReachesUser
<1>1. ApiKeyInv /\ [ApiKeyNext]_keyVars => [SecretIsShown /\ SecretStays]_keyVars
  BY SecretsKept
<1>2. QED
  BY <1>1, ApiKeyInvariant, PTL DEF ApiKeySpec, SecretReachesUser

-----------------------------------------------------------------------------
(* Templates. Cards and rows agree, or a rendering of the rows is on its    *)
(* way, or the answer that asks for one.                                    *)

TemplateShape ==
    /\ TemplateTypeOK
    /\ \A p, q \in saving : p = q
    /\ \A p, q \in removing : p = q
    /\ \A p \in saving : p.text \in Texts
    /\ \A p \in adrift : p.kind # "delete" => p.text \in Texts
    /\ \A p \in removing : p.kind = "delete"
    /\ adrift # {} => "lost" \in odd
    /\ \A id \in TemplateIds : id > made => templates[id] = None

AnswerDue == \E p \in saving \cup removing : p.stage = "done"

CardsInv ==
    \/ "lost" \in odd
    \/ AnswerDue
    \/ refresh = {} /\ cards = templates
    \/ refresh = {templates}

ToldInv ==
    /\ ToldIsStored
    /\ \A p \in saving :
        /\ p.stage = "done" => p.text \in stored
        /\ p.stage = "undefined" => "refused" \in odd

TemplateInv == TemplateShape /\ CardsInv /\ ToldInv

LEMMA TemplateStart == TemplateInit => TemplateInv
<1> SUFFICES ASSUME TemplateInit PROVE TemplateInv
    OBVIOUS
<1>1. templates \in Rows0 /\ \A id \in TemplateIds : id > made => templates[id] = None
  BY TemplateAssumption DEF TemplateInit, Rows0, TemplateIds
<1>2. TemplateShape
  BY <1>1, TemplateAssumption, BrowserAssumption
     DEF TemplateInit, TemplateShape, TemplateTypeOK, Editors, Closed
<1>3. QED
  BY <1>2 DEF TemplateInit, TemplateInv, CardsInv, ToldInv, ToldIsStored

\* A step of the dialogs alone.
LEMMA DialogStep ==
    ASSUME TemplateInv, editor' \in Editors, deleting' \in TemplateIds \cup {None},
           UNCHANGED <<cards, saving, removing, refresh, rowVars, told, odd, adrift, templateFaults>>
    PROVE  TemplateInv'
  BY DEF TemplateInv, TemplateShape, TemplateTypeOK, CardsInv, AnswerDue, ToldInv,
         ToldIsStored, rowVars

LEMMA DialogSteps ==
    ASSUME TemplateInv,
           \/ OpenCreate \/ CancelEditor \/ CancelDelete
           \/ \E id \in TemplateIds : OpenEdit(id) \/ OpenCopy(id) \/ OpenDelete(id)
           \/ \E t \in Texts : WriteTemplate(t)
    PROVE  TemplateInv'
<1>0. editor \in Editors /\ deleting \in TemplateIds \cup {None} /\ cards \in Rows0
  BY DEF TemplateInv, TemplateShape, TemplateTypeOK
<1>1. CASE OpenCreate
  BY <1>0, <1>1, DialogStep DEF OpenCreate, OpenEditor, Editors
<1>2. CASE CancelEditor
  BY <1>0, <1>2, DialogStep DEF CancelEditor, Closed, Editors
<1>3. CASE CancelDelete
  BY <1>0, <1>3, DialogStep DEF CancelDelete
<1>4. ASSUME NEW id \in TemplateIds, OpenEdit(id) \/ OpenCopy(id) PROVE TemplateInv'
  <2>1. cards[id] \in Texts \cup {None}
    BY <1>0 DEF Rows0
  <2>2. PICK kind \in {"edit", "copy"} : OpenEditor(kind, id, cards[id])
    BY <1>4 DEF OpenEdit, OpenCopy
  <2>3. [kind |-> kind, of |-> id, text |-> cards[id]] \in Editors
    BY <2>1 DEF Editors
  <2>4. QED
    BY <1>0, <2>2, <2>3, DialogStep DEF OpenEditor
<1>5. ASSUME NEW id \in TemplateIds, OpenDelete(id) PROVE TemplateInv'
  BY <1>0, <1>5, DialogStep DEF OpenDelete
<1>6. ASSUME NEW t \in Texts, WriteTemplate(t) PROVE TemplateInv'
  <2>1. [editor EXCEPT !.text = t] \in Editors
    BY <1>0 DEF Editors
  <2>2. QED
    BY <1>0, <1>6, <2>1, DialogStep DEF WriteTemplate
<1>7. QED
  BY <1>1, <1>2, <1>3, <1>4, <1>5, <1>6

LEMMA SubmitSteps ==
    ASSUME TemplateInv, SubmitTemplate \/ ConfirmDelete PROVE TemplateInv'
<1>0. TemplateShape /\ CardsInv /\ ToldInv
  BY DEF TemplateInv
<1>1. CASE SubmitTemplate
  <2> DEFINE p == [kind |-> editor.kind, of |-> editor.of, text |-> editor.text, stage |-> "out"]
  <2>1. p \in TemplateCalls /\ p.stage = "out" /\ p.text \in Texts
    BY <1>0, <1>1 DEF SubmitTemplate, TemplateShape, TemplateTypeOK, Editors, TemplateCalls
  <2>2. /\ saving = {} /\ saving' = {p}
        /\ UNCHANGED <<cards, editor, deleting, removing, refresh, templates, made, stored,
                       told, odd, adrift, templateFaults>>
    BY <1>1 DEF SubmitTemplate, dialogVars, rowVars
  <2> HIDE DEF p
  <2>3. TemplateShape'
    BY <1>0, <2>1, <2>2 DEF TemplateShape, TemplateTypeOK
  <2>4. CardsInv' /\ ToldInv'
    BY <1>0, <2>1, <2>2 DEF CardsInv, AnswerDue, ToldInv, ToldIsStored
  <2>5. QED
    BY <2>3, <2>4 DEF TemplateInv
<1>2. CASE ConfirmDelete
  <2> DEFINE p == [kind |-> "delete", of |-> deleting, text |-> None, stage |-> "out"]
  <2>1. p \in TemplateCalls /\ p.stage = "out" /\ p.kind = "delete"
    BY <1>0, <1>2 DEF ConfirmDelete, TemplateShape, TemplateTypeOK, TemplateCalls
  <2>2. /\ removing = {} /\ removing' = {p} /\ deleting' = None
        /\ UNCHANGED <<cards, editor, saving, refresh, templates, made, stored,
                       told, odd, adrift, templateFaults>>
    BY <1>2 DEF ConfirmDelete, rowVars
  <2> HIDE DEF p
  <2>3. TemplateShape'
    BY <1>0, <2>1, <2>2 DEF TemplateShape, TemplateTypeOK
  <2>4. CardsInv' /\ ToldInv'
    BY <1>0, <2>1, <2>2 DEF CardsInv, AnswerDue, ToldInv, ToldIsStored
  <2>5. QED
    BY <2>3, <2>4 DEF TemplateInv
<1>3. QED
  BY <1>1, <1>2

\* The next stage of a submission or a deletion.
LEMMA NextStage ==
    ASSUME NEW p \in TemplateCalls, NEW s \in {"done", "undefined", "failed"}
    PROVE  \E q \in TemplateCalls :
              /\ q = [p EXCEPT !.stage = s]
              /\ q.stage = s /\ q.text = p.text /\ q.kind = p.kind
<1> DEFINE q == [p EXCEPT !.stage = s]
<1>1. q \in TemplateCalls /\ q.stage = s /\ q.text = p.text /\ q.kind = p.kind
  BY DEF TemplateCalls
<1>2. QED
  BY <1>1

\* Overwriting a row that there is, or the next one.
LEMMA RowWritten ==
    ASSUME templates \in Rows0, made \in Nat, \A id \in TemplateIds : id > made => templates[id] = None,
           NEW of, NEW text \in Texts \cup {None}, made' \in {made, made + 1},
           of \in TemplateIds /\ of > made' => text = None,
           templates' = [templates EXCEPT ![of] = text]
    PROVE  templates' \in Rows0 /\ \A id \in TemplateIds : id > made' => templates'[id] = None
<1>1. templates' \in Rows0
  BY DEF Rows0
<1>2. \A id \in TemplateIds : templates'[id] = IF id = of THEN text ELSE templates[id]
  BY DEF Rows0
<1>3. QED
  BY <1>1, <1>2 DEF TemplateIds

LEMMA RowInserted ==
    ASSUME TemplateShape, NEW text \in Texts, Inserted(text)
    PROVE  /\ templates' \in Rows0 /\ made' \in 0..MaxTemplates
           /\ stored' = stored \cup {text}
           /\ \A n \in TemplateIds : n > made' => templates'[n] = None
<1>1. /\ templates \in Rows0 /\ made \in 0..MaxTemplates /\ made \in Nat
      /\ \A n \in TemplateIds : n > made => templates[n] = None
  BY TemplateAssumption DEF TemplateShape, TemplateTypeOK
<1>2. /\ made' = made + 1 /\ made' \in 0..MaxTemplates
      /\ templates' = [templates EXCEPT ![made + 1] = text]
      /\ stored' = stored \cup {text}
  BY <1>1, TemplateAssumption DEF Inserted
<1>3. made + 1 \in TemplateIds /\ ~ made + 1 > made'
  BY <1>1, <1>2, TemplateAssumption DEF TemplateIds
<1>4. templates' \in Rows0 /\ \A n \in TemplateIds : n > made' => templates'[n] = None
  BY <1>1, <1>2, <1>3, RowWritten
<1>5. QED
  BY <1>2, <1>4

LEMMA TemplateServerSteps ==
    ASSUME TemplateInv,
           CreateTemplate \/ UpdateTemplate \/ DeleteTemplate \/ ApiRefuses
    PROVE  TemplateInv'
<1>0. TemplateShape /\ CardsInv /\ ToldInv
  BY DEF TemplateInv
<1>a. /\ templates \in Rows0 /\ made \in 0..MaxTemplates /\ made \in Nat /\ stored \subseteq Texts
      /\ saving \subseteq TemplateCalls /\ removing \subseteq TemplateCalls
      /\ \A p, q \in saving : p = q
      /\ \A p, q \in removing : p = q
  BY <1>0, TemplateAssumption DEF TemplateShape, TemplateTypeOK
<1>b. \A id \in TemplateIds : id > made => templates[id] = None
  BY <1>0 DEF TemplateShape
<1>1. CASE CreateTemplate
  <2>1. PICK p \in saving :
          /\ p.kind = "create" /\ p.stage = "out"
          /\ Inserted(p.text)
          /\ refresh' = {templates'}
          /\ saving' = {[p EXCEPT !.stage = "done"]}
          /\ UNCHANGED <<cards, editor, deleting, removing, told, odd, adrift, templateFaults>>
    BY <1>1 DEF CreateTemplate, dialogVars
  <2>2. p.text \in Texts
    BY <1>0, <2>1 DEF TemplateShape
  <2>3. PICK q \in TemplateCalls : saving' = {q} /\ q.stage = "done" /\ q.text = p.text
    BY <1>a, <2>1, NextStage
  <2>4. /\ templates' \in Rows0 /\ made' \in 0..MaxTemplates /\ stored' = stored \cup {p.text}
        /\ \A n \in TemplateIds : n > made' => templates'[n] = None
    BY <1>0, <2>1, <2>2, RowInserted
  <2>5. TemplateShape'
    BY <1>0, <1>a, <2>1, <2>2, <2>3, <2>4 DEF TemplateShape, TemplateTypeOK
  <2>6. CardsInv' /\ ToldInv'
    BY <1>0, <1>a, <2>1, <2>3, <2>4 DEF CardsInv, ToldInv, ToldIsStored
  <2>7. QED
    BY <2>5, <2>6 DEF TemplateInv
<1>2. CASE UpdateTemplate
  <2>1. PICK p \in saving :
          /\ p.kind \in {"edit", "copy"} /\ p.stage = "out"
          /\ \/ /\ UNCHANGED <<templates, made, stored, odd>>
                /\ saving' = {[p EXCEPT !.stage = "failed"]}
             \/ /\ UNCHANGED <<templates, made, stored>>
                /\ odd' = odd \cup {"refused"}
                /\ saving' = {[p EXCEPT !.stage = "undefined"]}
             \/ /\ templates[Target(p)] # None
                /\ templates' = [templates EXCEPT ![Target(p)] = p.text]
                /\ stored' = stored \cup {p.text}
                /\ saving' = {[p EXCEPT !.stage = "done"]}
                /\ UNCHANGED <<made, odd>>
          /\ UNCHANGED <<cards, editor, deleting, removing, refresh, told, adrift,
                         templateFaults>>
    BY <1>2 DEF UpdateTemplate, Overwritten, dialogVars, rowVars
  <2>2. p \in TemplateCalls /\ p.text \in Texts
    BY <1>0, <1>a, <2>1 DEF TemplateShape
  <2>3. PICK q \in TemplateCalls :
          /\ saving' = {q} /\ q.text = p.text
          /\ \/ q.stage = "failed" /\ UNCHANGED <<templates, stored, odd>>
             \/ q.stage = "undefined" /\ odd' = odd \cup {"refused"} /\ UNCHANGED <<templates, stored>>
             \/ q.stage = "done" /\ stored' = stored \cup {p.text} /\ UNCHANGED odd
    <3>1. CASE saving' = {[p EXCEPT !.stage = "failed"]} /\ UNCHANGED <<templates, stored, odd>>
      <4>1. PICK q \in TemplateCalls : /\ q = [p EXCEPT !.stage = "failed"]
                                      /\ q.stage = "failed" /\ q.text = p.text
        BY <2>2, NextStage
      <4>2. QED
        BY <3>1, <4>1
    <3>2. CASE /\ saving' = {[p EXCEPT !.stage = "undefined"]}
               /\ odd' = odd \cup {"refused"} /\ UNCHANGED <<templates, stored>>
      <4>1. PICK q \in TemplateCalls : /\ q = [p EXCEPT !.stage = "undefined"]
                                      /\ q.stage = "undefined" /\ q.text = p.text
        BY <2>2, NextStage
      <4>2. QED
        BY <3>2, <4>1
    <3>3. CASE /\ saving' = {[p EXCEPT !.stage = "done"]}
               /\ stored' = stored \cup {p.text} /\ UNCHANGED odd
      <4>1. PICK q \in TemplateCalls : /\ q = [p EXCEPT !.stage = "done"]
                                      /\ q.stage = "done" /\ q.text = p.text
        BY <2>2, NextStage
      <4>2. QED
        BY <3>3, <4>1
    <3>4. QED
      BY <2>1, <3>1, <3>2, <3>3
  <2>4. templates' \in Rows0 /\ \A n \in TemplateIds : n > made' => templates'[n] = None
    <3>1. CASE UNCHANGED templates
      BY <1>a, <1>b, <2>1, <3>1
    <3>2. CASE templates[Target(p)] # None /\ templates' = [templates EXCEPT ![Target(p)] = p.text]
      BY <1>a, <1>b, <2>1, <2>2, <3>2, RowWritten
    <3>3. QED
      BY <2>1, <3>1, <3>2
  <2>5. TemplateShape'
    BY <1>0, <1>a, <2>1, <2>2, <2>3, <2>4 DEF TemplateShape, TemplateTypeOK
  <2>6. CardsInv'
    BY <1>0, <1>a, <2>1, <2>3 DEF CardsInv, AnswerDue
  <2>7. ToldInv'
    BY <1>0, <1>a, <2>1, <2>3 DEF ToldInv, ToldIsStored
  <2>8. QED
    BY <2>5, <2>6, <2>7 DEF TemplateInv
<1>3. CASE DeleteTemplate
  <2>1. PICK p \in removing :
          /\ templates' = [templates EXCEPT ![p.of] = None]
          /\ removing' = {[p EXCEPT !.stage = "done"]}
          /\ UNCHANGED <<cards, editor, deleting, saving, refresh, made, stored, told, odd, adrift,
                         templateFaults>>
    BY <1>3 DEF DeleteTemplate, Removed, dialogVars
  <2>2. PICK q \in TemplateCalls : removing' = {q} /\ q.stage = "done" /\ q.kind = "delete"
    <3>1. PICK q \in TemplateCalls : /\ q = [p EXCEPT !.stage = "done"]
                                    /\ q.stage = "done" /\ q.kind = p.kind
      BY <1>a, NextStage
    <3>2. QED
      BY <1>0, <2>1, <3>1 DEF TemplateShape
  <2>3. templates' \in Rows0 /\ \A n \in TemplateIds : n > made' => templates'[n] = None
    BY <1>a, <1>b, <2>1, RowWritten
  <2>4. TemplateShape'
    BY <1>0, <1>a, <2>1, <2>2, <2>3 DEF TemplateShape, TemplateTypeOK
  <2>5. CardsInv' /\ ToldInv'
    BY <1>0, <1>a, <2>1, <2>2 DEF CardsInv, AnswerDue, ToldInv, ToldIsStored
  <2>6. QED
    BY <2>4, <2>5 DEF TemplateInv
<1>4. CASE ApiRefuses
  <2>1. /\ odd' = odd \cup {"refused"} /\ templateFaults' \in 0..MaxFaults
        /\ UNCHANGED <<cards, editor, deleting, templates, made, stored, told, adrift>>
    BY <1>0, <1>4, BrowserAssumption DEF ApiRefuses, TemplateFault, dialogVars, rowVars,
       TemplateShape, TemplateTypeOK
  <2>2. ASSUME NEW p \in saving, p.stage = "out", saving' = {[p EXCEPT !.stage = "undefined"]},
               refresh' \in {{templates}, refresh}, UNCHANGED removing
        PROVE  TemplateInv'
    <3>1. PICK q \in TemplateCalls : saving' = {q} /\ q.stage = "undefined" /\ q.text = p.text
      BY <1>a, <2>2, NextStage
    <3>2. refresh' \subseteq Rows0 /\ p.text \in Texts
      BY <1>0, <1>a, <2>2 DEF TemplateShape, TemplateTypeOK
    <3>3. TemplateShape'
      BY <1>0, <1>a, <2>1, <2>2, <3>1, <3>2 DEF TemplateShape, TemplateTypeOK
    <3>4. CardsInv' /\ ToldInv'
      BY <1>0, <1>a, <2>1, <2>2, <3>1 DEF CardsInv, AnswerDue, ToldInv, ToldIsStored
    <3>5. QED
      BY <3>3, <3>4 DEF TemplateInv
  <2>3. ASSUME NEW p \in removing, p.stage = "out", removing' = {[p EXCEPT !.stage = "failed"]},
               UNCHANGED <<saving, refresh>>
        PROVE  TemplateInv'
    <3>1. PICK q \in TemplateCalls : removing' = {q} /\ q.stage = "failed" /\ q.kind = "delete"
      <4>1. PICK q \in TemplateCalls : /\ q = [p EXCEPT !.stage = "failed"]
                                      /\ q.stage = "failed" /\ q.kind = p.kind
        BY <1>a, NextStage
      <4>2. QED
        BY <1>0, <2>3, <4>1 DEF TemplateShape
    <3>2. TemplateShape'
      BY <1>0, <1>a, <2>1, <2>3, <3>1 DEF TemplateShape, TemplateTypeOK
    <3>3. CardsInv' /\ ToldInv'
      BY <1>0, <1>a, <2>1, <2>3, <3>1 DEF CardsInv, AnswerDue, ToldInv, ToldIsStored
    <3>4. QED
      BY <3>2, <3>3 DEF TemplateInv
  <2>4. QED
    BY <1>4, <2>2, <2>3 DEF ApiRefuses
<1>5. QED
  BY <1>1, <1>2, <1>3, <1>4

\* The server ends a call that was lost.
LEMMA LateSteps ==
    ASSUME TemplateInv, NEW p \in adrift, LateEffect(p) PROVE TemplateInv'
<1>0. TemplateShape /\ CardsInv /\ ToldInv
  BY DEF TemplateInv
<1>1. /\ templates \in Rows0 /\ made \in 0..MaxTemplates /\ made \in Nat /\ stored \subseteq Texts
      /\ \A n \in TemplateIds : n > made => templates[n] = None
      /\ p.kind # "delete" => p.text \in Texts
  BY <1>0, TemplateAssumption DEF TemplateShape, TemplateTypeOK
<1>2. /\ adrift' = adrift \ {p} /\ "lost" \in odd
      /\ UNCHANGED <<cards, editor, deleting, saving, removing, refresh, told, odd, templateFaults>>
  BY <1>0 DEF LateEffect, dialogVars, CardsInv, TemplateShape
<1>3. /\ templates' \in Rows0 /\ made' \in 0..MaxTemplates
      /\ stored \subseteq stored' /\ stored' \subseteq Texts
      /\ \A n \in TemplateIds : n > made' => templates'[n] = None
  <2>1. CASE UNCHANGED rowVars
    BY <1>1, <2>1 DEF rowVars
  <2>2. CASE p.kind = "create" /\ Inserted(p.text)
    BY <1>0, <1>1, <2>2, RowInserted
  <2>3. CASE p.kind = "edit" /\ templates[p.of] # None /\ Overwritten(p.of, p.text)
    <3>1. templates' = [templates EXCEPT ![p.of] = p.text] /\ stored' = stored \cup {p.text}
          /\ made' = made /\ p.text \in Texts
      BY <1>1, <2>3 DEF Overwritten
    <3>2. templates' \in Rows0 /\ \A n \in TemplateIds : n > made' => templates'[n] = None
      BY <1>1, <2>3, <3>1, RowWritten
    <3>3. QED
      BY <1>1, <3>1, <3>2
  <2>4. CASE p.kind = "delete" /\ Removed(p.of)
    <3>1. templates' = [templates EXCEPT ![p.of] = None] /\ UNCHANGED <<made, stored>>
      BY <2>4 DEF Removed
    <3>2. templates' \in Rows0 /\ \A n \in TemplateIds : n > made' => templates'[n] = None
      BY <1>1, <3>1, RowWritten
    <3>3. QED
      BY <1>1, <3>1, <3>2
  <2>5. QED
    BY <2>1, <2>2, <2>3, <2>4 DEF LateEffect
<1>4. TemplateShape'
  BY <1>0, <1>2, <1>3 DEF TemplateShape, TemplateTypeOK
<1>5. CardsInv' /\ ToldInv'
  BY <1>0, <1>2, <1>3 DEF CardsInv, ToldInv, ToldIsStored
<1>6. QED
  BY <1>4, <1>5 DEF TemplateInv

LEMMA TemplateAnswerSteps ==
    ASSUME TemplateInv,
           \/ SubmissionAnswered \/ SubmissionFailed \/ DeleteAnswered \/ DeleteFailed
           \/ TemplateCallLost \/ PageRendered
    PROVE  TemplateInv'
<1>0. TemplateShape /\ CardsInv /\ ToldInv
  BY DEF TemplateInv
<1> USE DEF dialogVars, rowVars
<1>1. CASE SubmissionAnswered
  <2>1. PICK p \in saving :
          /\ SaidDone(p)
          /\ saving' = {} /\ told' = told \cup {p.text} /\ editor' = Closed
          /\ refresh' = {templates}
          /\ UNCHANGED <<cards, deleting, removing, rowVars, odd, adrift, templateFaults>>
    BY <1>1 DEF SubmissionAnswered
  <2>2. p.text \in Texts /\ Closed \in Editors
    BY <1>0 DEF TemplateShape, Closed, Editors
  <2>3. TemplateShape'
    BY <1>0, <2>1, <2>2 DEF TemplateShape, TemplateTypeOK
  <2>4. CardsInv' /\ ToldInv'
    BY <1>0, <2>1 DEF CardsInv, ToldInv, ToldIsStored, SaidDone
  <2>5. QED
    BY <2>3, <2>4 DEF TemplateInv
<1>2. CASE SubmissionFailed
  <2>1. TemplateShape'
    BY <1>0, <1>2 DEF SubmissionFailed, TemplateShape, TemplateTypeOK
  <2>2. CardsInv' /\ ToldInv'
    BY <1>0, <1>2 DEF SubmissionFailed, TemplateShape, CardsInv, AnswerDue, ToldInv, ToldIsStored
  <2>3. QED
    BY <2>1, <2>2 DEF TemplateInv
<1>3. CASE DeleteAnswered
  <2>1. TemplateShape'
    BY <1>0, <1>3 DEF DeleteAnswered, AfterDeletion, TemplateShape, TemplateTypeOK
  <2>2. CardsInv' /\ ToldInv'
    BY <1>0, <1>3 DEF DeleteAnswered, AfterDeletion, CardsInv, ToldInv, ToldIsStored
  <2>3. QED
    BY <2>1, <2>2 DEF TemplateInv
<1>4. CASE DeleteFailed
  <2>1. TemplateShape'
    BY <1>0, <1>4 DEF DeleteFailed, TemplateShape, TemplateTypeOK
  <2>2. CardsInv' /\ ToldInv'
    BY <1>0, <1>4 DEF DeleteFailed, TemplateShape, CardsInv, AnswerDue, ToldInv, ToldIsStored
  <2>3. QED
    BY <2>1, <2>2 DEF TemplateInv
<1>5. CASE TemplateCallLost
  <2>1. /\ saving' \subseteq saving /\ removing' \subseteq removing
        /\ adrift' \subseteq adrift \cup saving \cup removing
        /\ odd' = odd \cup {"lost"} /\ templateFaults' \in 0..MaxFaults
        /\ UNCHANGED <<cards, editor, deleting, refresh, templates, made, stored, told>>
    BY <1>0, <1>5, BrowserAssumption DEF TemplateCallLost, TemplateFault, TemplateShape, TemplateTypeOK
  <2>2. TemplateShape'
    BY <1>0, <2>1 DEF TemplateShape, TemplateTypeOK
  <2>3. CardsInv' /\ ToldInv'
    BY <1>0, <2>1 DEF CardsInv, ToldInv, ToldIsStored
  <2>4. QED
    BY <2>2, <2>3 DEF TemplateInv
<1>6. CASE PageRendered
  <2>1. TemplateShape'
    BY <1>0, <1>6 DEF PageRendered, TemplateShape, TemplateTypeOK
  <2>2. CardsInv' /\ ToldInv'
    BY <1>0, <1>6 DEF PageRendered, CardsInv, AnswerDue, ToldInv, ToldIsStored
  <2>3. QED
    BY <2>1, <2>2 DEF TemplateInv
<1>7. QED
  BY <1>1, <1>2, <1>3, <1>4, <1>5, <1>6

LEMMA TemplateStep == TemplateInv /\ [TemplateNext]_templateVars => TemplateInv'
<1> SUFFICES ASSUME TemplateInv, [TemplateNext]_templateVars PROVE TemplateInv'
    OBVIOUS
<1>1. CASE UNCHANGED templateVars
  <2>1. editor' \in Editors /\ deleting' \in TemplateIds \cup {None}
    BY <1>1 DEF templateVars, TemplateInv, TemplateShape, TemplateTypeOK
  <2>2. QED
    BY <1>1, <2>1, DialogStep DEF templateVars, rowVars
<1>2. QED
  BY <1>1, DialogSteps, SubmitSteps, TemplateServerSteps, LateSteps, TemplateAnswerSteps
     DEF TemplateNext

LEMMA TemplateInvariant == TemplateSpec => []TemplateInv
  BY TemplateStart, TemplateStep, PTL DEF TemplateSpec

\* The type invariant of the templates page.
THEOREM TemplateTypeCorrect == TemplateSpec => []TemplateTypeOK
<1>1. TemplateInv => TemplateTypeOK
  BY DEF TemplateInv, TemplateShape
<1>2. QED
  BY <1>1, TemplateInvariant, PTL

\* What the page says was saved was stored, unless the API refused it
\* (create-template-dialog.tsx:175-199, kontak-shared.ts:206-240).
THEOREM ToldIsStoredCorrect == TemplateSpec => []ToldIsStored
<1>1. TemplateInv => ToldIsStored
  BY DEF TemplateInv, ToldInv
<1>2. QED
  BY <1>1, TemplateInvariant, PTL

\* With nothing under way the cards are the rows, unless a connection was lost
\* (template-management-client.tsx:48-50, actions.ts:31).
THEOREM CardsAreRowsCorrect == TemplateSpec => []CardsAreRows
<1>1. TemplateInv => CardsAreRows
  BY DEF TemplateInv, CardsInv, AnswerDue, CardsAreRows
<1>2. QED
  BY <1>1, TemplateInvariant, PTL

\* A row gets another text only from the submission that edits it.
LEMMA EditedOnly ==
    ASSUME TemplateInv, [TemplateNext]_templateVars, NEW id \in TemplateIds,
           templates[id] # None, templates'[id] \notin {templates[id], None}
    PROVE  \E p \in saving \cup adrift :
              p.kind = "edit" /\ p.of = id /\ p.text = templates'[id]
<1>0. /\ templates \in Rows0 /\ made \in Nat
      /\ \A n \in TemplateIds : n > made => templates[n] = None
  BY DEF TemplateInv, TemplateShape, TemplateTypeOK
<1>1. CASE UNCHANGED templates
  BY <1>1
<1>2. ASSUME NEW text, Inserted(text) PROVE FALSE
  BY <1>0, <1>2 DEF Inserted, Rows0
<1>3. ASSUME NEW n, Removed(n) PROVE FALSE
  BY <1>0, <1>3 DEF Removed, Rows0
<1>4. ASSUME NEW n, NEW text, Overwritten(n, text) PROVE id = n /\ templates'[id] = text
  BY <1>0, <1>4 DEF Overwritten, Rows0
<1>5. CASE UpdateTemplate
  <2>1. PICK p \in saving :
          /\ p.kind \in {"edit", "copy"}
          /\ Target(p) # None
          /\ Overwritten(Target(p), p.text)
    BY <1>1, <1>5 DEF UpdateTemplate, rowVars
  <2>2. p.kind = "edit" /\ Target(p) = p.of
    BY <2>1 DEF Target
  <2>3. id = p.of /\ templates'[id] = p.text
    BY <1>4, <2>1, <2>2
  <2>4. QED
    BY <2>2, <2>3
<1>6. CASE \E p \in adrift : LateEffect(p)
  <2>1. PICK p \in adrift : p.kind = "edit" /\ Overwritten(p.of, p.text)
    BY <1>1, <1>2, <1>3, <1>6 DEF LateEffect, rowVars
  <2>2. QED
    BY <1>4, <2>1
<1>7. CASE CreateTemplate \/ DeleteTemplate
  BY <1>2, <1>3, <1>7 DEF CreateTemplate, DeleteTemplate
<1>8. UNCHANGED templates \/ CreateTemplate \/ DeleteTemplate \/ UpdateTemplate
      \/ \E p \in adrift : LateEffect(p)
  BY Zenon DEF TemplateNext, templateVars, rowVars, OpenCreate, OpenEditor, CancelEditor,
         CancelDelete, SubmitTemplate, ConfirmDelete, OpenEdit, OpenCopy, OpenDelete,
         WriteTemplate, ApiRefuses, SubmissionAnswered, SubmissionFailed, DeleteAnswered,
         DeleteFailed, TemplateCallLost, PageRendered
<1>9. QED
  BY <1>1, <1>5, <1>6, <1>7, <1>8

\* A template changes only by a submission of its own "Edit" dialog
\* (template-management-client.tsx:35-42, create-template-dialog.tsx:175-199).
THEOREM OnlyEditedCorrect == TemplateSpec => OnlyEditedChanges
<1>1. TemplateInv /\ [TemplateNext]_templateVars
        => [\A id \in TemplateIds :
              templates[id] # None /\ templates'[id] \notin {templates[id], None}
                => \E p \in saving \cup adrift :
                        p.kind = "edit" /\ p.of = id /\ p.text = templates'[id]
           ]_templateVars
  BY EditedOnly
<1>2. QED
  BY <1>1, TemplateInvariant, PTL DEF TemplateSpec, OnlyEditedChanges

-----------------------------------------------------------------------------
(* Event subscriptions. The dialog leaves the store as its own module has  *)
(* it, but for a call that changes nothing. While nobody else writes and   *)
(* nothing is lost, the call of the one save under way is the only one     *)
(* that runs, and still has to set what the database does not hold yet.    *)

FormsOK ==
    /\ settings \subseteq Form /\ fetched \subseteq Form
    /\ switches \in Form
    /\ opened \in BOOLEAN
    /\ saves \subseteq [call : Calls, form : Form]
    /\ toggled \subseteq EventTypes
    /\ confirmed \in [EventTypes -> Setting]
    /\ outside \subseteq {"foreign", "error", "lost", "saved"}
    /\ subscriptionFaults \in 0..MaxFaults

Undisturbed == outside \cap {"foreign", "error", "lost"} = {}

Running(c) == cpc[c] \in {"store", "copy"}

\* What the call of a save has set of event type e, or will.
Handled(p, e) ==
    \/ body[p.call][e] = p.form.of[e] /\ Running(p.call)
    \/ body[p.call][e] = "absent" /\ p.form.of[e] \in {"absent", row[e]}
    \/ p.form.of[e] \in {"absent", row[e]} /\ ~ Running(p.call)

ReportedInv ==
    Undisturbed =>
        /\ switches.valid /\ \A f \in settings \cup fetched : f.valid
        /\ \A p, q \in saves : p = q
        /\ \A c \in Calls : cpc[c] # "error"
        /\ \A c \in Calls : Running(c) => \E p \in saves : p.call = c
        /\ \A p \in saves, e \in EventTypes : Handled(p, e)
        /\ saves = {} => \A e \in EventTypes : confirmed[e] \in {"absent", row[e]}

FirstInv ==
    outside = {} =>
        /\ saves = {} /\ \A c \in Calls : cpc[c] = "new"
        /\ \A f \in settings \cup fetched : f.of = Stored
        /\ settings # {} => \A e \in EventTypes \ toggled : switches.of[e] = Stored[e]

SwitchesInv == TypeInv /\ FormsOK /\ ReportedInv /\ FirstInv

LEMMA StoredIsForm == TypeInv => [of |-> Stored, valid |-> TRUE] \in Form
  BY DEF TypeInv, TypeOK, Stored, Form, Setting

LEMMA NothingIsForm == NoSwitches \in Form /\ ErrorForm \in Form /\ Nothing \in [EventTypes -> Setting]
  BY DEF NoSwitches, ErrorForm, Form, Nothing, Setting

LEMMA SwitchesStart == SubscriptionsPageInit => SwitchesInv
<1> SUFFICES ASSUME SubscriptionsPageInit PROVE SwitchesInv
    OBVIOUS
<1> USE DEF SubscriptionsPageInit
<1>1. TypeInv
  BY TypeInit
<1>2. FormsOK
  <2>1. fetched \subseteq Form
    BY <1>1, StoredIsForm
  <2>2. 0 \in 0..MaxFaults
    BY BrowserAssumption
  <2>3. QED
    BY <2>1, <2>2, NothingIsForm DEF FormsOK
<1>3. ReportedInv
  BY DEF ReportedInv, Running, Init, NoSwitches, Nothing
<1>4. FirstInv
  BY DEF FirstInv, Init
<1>5. QED
  BY <1>1, <1>2, <1>3, <1>4 DEF SwitchesInv

\* The store moves as in its module, or a call answers at once.
LEMMA StoreMoves ==
    ASSUME TypeInv, [SubscriptionsPageNext]_subscriptionsPageVars
    PROVE  \/ [Next]_vars
           \/ /\ \E c \in Calls : cpc[c] = "new" /\ cpc' = [cpc EXCEPT ![c] = "ok"]
              /\ UNCHANGED <<row, cache, body, event, value, crashes, unsettled>>
<1>1. CASE Reconnect \/ SettingsFetched \/ SettingsRefused \/ OpenSwitches \/ CloseSwitches
  BY <1>1 DEF Reconnect, SettingsFetched, SettingsRefused, Fetched, OpenSwitches, CloseSwitches
<1>2. CASE SaveAnswered \/ SaveLost
  BY <1>2 DEF SaveAnswered, SaveLost
<1>3. ASSUME NEW e \in EventTypes, Toggle(e) PROVE UNCHANGED vars
  BY <1>3 DEF Toggle
<1>4. ASSUME NEW c \in Calls, NEW b, UpdateDeviceSubscriptions(c, b) PROVE Next
  BY <1>4 DEF UpdateDeviceSubscriptions, Request, Next
<1>5. ASSUME NEW c \in Calls, SaveSwitches(c)
      PROVE  \/ Next
             \/ /\ cpc[c] = "new" /\ cpc' = [cpc EXCEPT ![c] = "ok"]
                /\ UNCHANGED <<row, cache, body, event, value, crashes, unsettled>>
  BY <1>4, <1>5 DEF SaveSwitches
<1>6. ASSUME NEW c \in Calls, CopyNext(c) PROVE Next
  BY <1>6 DEF CopyNext, Next
<1>7. ASSUME NEW c \in Calls, NEW e \in EventTypes, StoreNext(c, e) \/ StoreError(c, e)
      PROVE  Next
  BY <1>7 DEF StoreNext, StoreError, Next
<1>8. CASE CrashUnderPage
  BY <1>8 DEF CrashUnderPage, Next
<1>9. ASSUME NEW c \in Calls, NEW b, OtherUpdate(c, b) PROVE Next
  BY <1>4, <1>9 DEF OtherUpdate
<1>10. CASE UNCHANGED subscriptionsPageVars
  BY <1>10 DEF subscriptionsPageVars
<1>11. QED
  BY <1>1, <1>2, <1>3, <1>5, <1>6, <1>7, <1>8, <1>9, <1>10 DEF SubscriptionsPageNext

LEMMA StoreTypeStep ==
    TypeInv /\ [SubscriptionsPageNext]_subscriptionsPageVars => TypeInv'
<1> SUFFICES ASSUME TypeInv, [SubscriptionsPageNext]_subscriptionsPageVars PROVE TypeInv'
    OBVIOUS
<1>1. CASE [Next]_vars
  BY <1>1, TypeStep
<1>2. ASSUME NEW c \in Calls, cpc' = [cpc EXCEPT ![c] = "ok"],
             UNCHANGED <<row, cache, body, event, value, crashes, unsettled>>
      PROVE  TypeInv'
  BY <1>2 DEF TypeInv, TypeOK, CallLocals
<1>3. QED
  BY <1>1, <1>2, StoreMoves

\* The steps of the dialog itself.
LEMMA SwitchDialogSteps ==
    ASSUME SwitchesInv, TypeInv',
           \/ Reconnect \/ SettingsFetched \/ SettingsRefused \/ OpenSwitches \/ CloseSwitches
           \/ \E e \in EventTypes : Toggle(e)
           \/ UNCHANGED subscriptionsPageVars
    PROVE  SwitchesInv'
<1> USE DEF SwitchesInv, FormsOK
<1>1. UNCHANGED <<row, cache, callVars, saves, confirmed>>
  BY DEF Reconnect, SettingsFetched, SettingsRefused, Fetched, OpenSwitches, CloseSwitches,
         Toggle, vars, pastVars, subscriptionsPageVars, switchVars
<1>2. Stored' = Stored
  BY <1>1 DEF Stored
<1>3. SUFFICES
        /\ settings' \subseteq Form /\ fetched' \subseteq Form /\ switches' \in Form
        /\ opened' \in BOOLEAN /\ toggled' \subseteq EventTypes
        /\ outside' \in {outside, outside \cup {"error"}} /\ subscriptionFaults' \in 0..MaxFaults
        /\ Undisturbed' =>
              switches'.valid /\ \A f \in settings' \cup fetched' : f.valid
        /\ outside' = {} =>
              /\ \A f \in settings' \cup fetched' : f.of = Stored
              /\ settings' # {} => \A e \in EventTypes \ toggled' : switches'.of[e] = Stored[e]
  <2>1. ReportedInv'
    BY <1>1, <1>3 DEF ReportedInv, Undisturbed, Running, Handled, callVars
  <2>2. FirstInv'
    BY <1>1, <1>2, <1>3 DEF FirstInv, callVars
  <2>3. QED
    BY <1>1, <1>3, <2>1, <2>2
<1> DEFINE now == [of |-> Stored, valid |-> TRUE]
<1>4. now \in Form /\ now.of = Stored /\ now.valid
  BY StoredIsForm
<1> HIDE DEF now
<1>5. CASE Reconnect
  BY <1>4, <1>5 DEF Reconnect, pastVars, ReportedInv, Undisturbed, FirstInv, now
<1>6. CASE SettingsFetched
  BY <1>6 DEF SettingsFetched, Fetched, ReportedInv, Undisturbed, FirstInv
<1>7. CASE SettingsRefused
  BY <1>7, NothingIsForm, BrowserAssumption DEF SettingsRefused, Fetched, SubscriptionFault,
     Undisturbed
<1>8. CASE OpenSwitches
  BY <1>8 DEF OpenSwitches, ShownAgain, pastVars, ReportedInv, Undisturbed, FirstInv
<1>9. CASE CloseSwitches
  BY <1>9 DEF CloseSwitches, pastVars, ReportedInv, Undisturbed, FirstInv
<1>10. CASE \E e \in EventTypes : Toggle(e)
  <2>0. PICK e \in EventTypes : Toggle(e)
    BY <1>10
  <2> DEFINE v == IF switches.of[e] = "on" THEN "off" ELSE "on"
  <2>1. switches' = [switches EXCEPT !.of[e] = v]
    BY <2>0 DEF Toggle
  <2>2. /\ switches' \in Form /\ switches'.valid = switches.valid
        /\ \A other \in EventTypes \ {e} : switches'.of[other] = switches.of[other]
    BY <2>1 DEF Form, Setting
  <2>3. QED
    BY <2>0, <2>2 DEF Toggle, pastVars, ReportedInv, Undisturbed, FirstInv
<1>11. CASE UNCHANGED subscriptionsPageVars
  BY <1>11 DEF subscriptionsPageVars, switchVars, ReportedInv, Undisturbed, FirstInv
<1>12. QED
  BY <1>5, <1>6, <1>7, <1>8, <1>9, <1>10, <1>11

\* Steps after which somebody has interfered.
LEMMA DisturbedSteps ==
    ASSUME SwitchesInv, TypeInv',
           \/ SaveLost \/ CrashUnderPage
           \/ \E c \in Calls, b \in [EventTypes -> Setting] : OtherUpdate(c, b)
           \/ \E c \in Calls, e \in EventTypes : StoreError(c, e)
    PROVE  SwitchesInv'
<1> USE DEF SwitchesInv, FormsOK
<1>1. /\ UNCHANGED <<dialogStateVars, confirmed>> /\ saves' \subseteq saves
      /\ subscriptionFaults' \in 0..MaxFaults
      /\ \E what \in {"foreign", "error", "lost"} : outside' = outside \cup {what}
  BY BrowserAssumption
     DEF SaveLost, CrashUnderPage, OtherUpdate, StoreError, SubscriptionFault
<1>2. ~ Undisturbed' /\ outside' # {} /\ FormsOK'
  BY <1>1 DEF Undisturbed, dialogStateVars
<1>3. QED
  BY <1>2 DEF ReportedInv, FirstInv

LEMMA SaveStep ==
    ASSUME SwitchesInv, TypeInv', NEW c \in Calls, SaveSwitches(c)
    PROVE  SwitchesInv'
<1>p. PICK p : p = [call |-> c, form |-> switches]
  OBVIOUS
<1>0. TypeInv /\ FormsOK /\ ReportedInv /\ FirstInv
  BY DEF SwitchesInv
<1>1. /\ saves = {} /\ saves' = {p} /\ cpc[c] = "new"
      /\ outside' = outside \cup {"saved"}
      /\ UNCHANGED <<dialogStateVars, confirmed, subscriptionFaults, row>>
      /\ \/ /\ switches.valid /\ body' = [body EXCEPT ![c] = switches.of]
            /\ cpc' = [cpc EXCEPT ![c] = "store"]
         \/ /\ ~ (switches.valid /\ switches.of # Nothing)
            /\ cpc' = [cpc EXCEPT ![c] = "ok"]
  BY <1>p DEF SaveSwitches, Sent, UpdateDeviceSubscriptions
<1>2. p \in [call : Calls, form : Form] /\ p.call = c /\ p.form = switches
  BY <1>0, <1>p DEF FormsOK
<1>3. FormsOK'
  BY <1>0, <1>1, <1>2 DEF FormsOK, dialogStateVars
<1>4. FirstInv'
  BY <1>1 DEF FirstInv
<1>5. ReportedInv'
  <2>1. SUFFICES ASSUME Undisturbed' PROVE ReportedInv'
    BY DEF ReportedInv
  <2>2. Undisturbed
    BY <1>1, <2>1 DEF Undisturbed
  <2>3. \A d \in Calls : ~ Running(d) /\ cpc[d] # "error"
    BY <1>0, <1>1, <2>2 DEF ReportedInv
  <2>4. \A d \in Calls \ {c} : cpc'[d] = cpc[d]
    BY <1>0, <1>1 DEF TypeInv, TypeOK
  <2>5. cpc'[c] \in {"store", "ok"}
    BY <1>0, <1>1 DEF TypeInv, TypeOK
  <2>6. \A e \in EventTypes : Handled(p, e)'
    <3>1. CASE body' = [body EXCEPT ![c] = switches.of] /\ cpc' = [cpc EXCEPT ![c] = "store"]
      BY <1>0, <1>2, <3>1 DEF Handled, Running, TypeInv, TypeOK
    <3>2. CASE switches.of = Nothing /\ cpc' = [cpc EXCEPT ![c] = "ok"]
      BY <1>0, <1>2, <3>2 DEF Handled, Running, TypeInv, TypeOK, Nothing
    <3>3. QED
      BY <1>0, <1>1, <2>2, <3>1, <3>2 DEF ReportedInv
  <2>7. QED
    BY <1>0, <1>1, <1>2, <2>2, <2>3, <2>4, <2>5, <2>6 DEF ReportedInv, Running, dialogStateVars
<1>6. QED
  BY <1>3, <1>4, <1>5 DEF SwitchesInv

\* Storing a setting and copying it.
LEMMA CallSteps ==
    ASSUME SwitchesInv, TypeInv', NEW c \in Calls,
           CopyNext(c) \/ \E e \in EventTypes : StoreNext(c, e)
    PROVE  SwitchesInv'
<1>0. TypeInv /\ FormsOK /\ ReportedInv /\ FirstInv
  BY DEF SwitchesInv
<1>1. UNCHANGED switchVars /\ Running(c)
  BY DEF CopyNext, StoreNext, StoreSetting, CopyUnderLock, Running
<1>2. FormsOK'
  BY <1>0, <1>1 DEF FormsOK, switchVars
<1>3. FirstInv'
  BY <1>0, <1>1 DEF FirstInv, Running, switchVars
<1>4. ReportedInv'
  <2>1. SUFFICES ASSUME Undisturbed PROVE ReportedInv'
    BY <1>1 DEF ReportedInv, Undisturbed, switchVars
  <2>2. PICK p \in saves : p.call = c /\ \A q \in saves : q = p
    BY <1>0, <1>1, <2>1 DEF ReportedInv
  <2>3. saves = {p} /\ p.form.of \in [EventTypes -> Setting]
    BY <1>0, <2>2 DEF FormsOK, Form
  <2>4. SUFFICES /\ cpc'[c] # "error" /\ \A d \in Calls \ {c} : cpc'[d] = cpc[d]
                 /\ \A e \in EventTypes : Handled(p, e)'
    BY <1>0, <1>1, <2>1, <2>2, <2>3, <2>4 DEF ReportedInv, Running, switchVars
  <2>5. ASSUME NEW e \in EventTypes, StoreSetting(c, e)
        PROVE  /\ cpc'[c] # "error" /\ \A d \in Calls \ {c} : cpc'[d] = cpc[d]
               /\ \A x \in EventTypes : Handled(p, x)'
    <3>1. /\ cpc' = [cpc EXCEPT ![c] = "copy"] /\ row' = [row EXCEPT ![e] = body[c][e]]
          /\ body' = [body EXCEPT ![c][e] = "absent"] /\ body[c][e] # "absent"
      BY <2>5 DEF StoreSetting
    <3>2. /\ cpc'[c] = "copy" /\ row'[e] = body[c][e] /\ body'[c][e] = "absent"
          /\ \A d \in Calls \ {c} : cpc'[d] = cpc[d]
          /\ \A x \in EventTypes \ {e} : row'[x] = row[x] /\ body'[c][x] = body[c][x]
      BY <1>0, <3>1 DEF TypeInv, TypeOK
    <3>3. \A x \in EventTypes : Handled(p, x)
      BY <1>0, <2>1 DEF ReportedInv
    <3>4. QED
      BY <1>1, <2>2, <3>1, <3>2, <3>3 DEF Handled, Running
  <2>6. ASSUME CopyUnderLock(c)
        PROVE  /\ cpc'[c] # "error" /\ \A d \in Calls \ {c} : cpc'[d] = cpc[d]
               /\ \A x \in EventTypes : Handled(p, x)'
    <3>1. /\ cpc' = [cpc EXCEPT ![c] = IF body[c] = Nothing THEN "ok" ELSE "store"]
          /\ UNCHANGED <<row, body>>
      BY <2>6 DEF CopyUnderLock, NextSetting
    <3>2. /\ \/ body[c] = Nothing /\ cpc'[c] = "ok"
             \/ cpc'[c] = "store"
          /\ \A d \in Calls \ {c} : cpc'[d] = cpc[d]
      BY <1>0, <3>1 DEF TypeInv, TypeOK
    <3>3. \A x \in EventTypes : Handled(p, x)
      BY <1>0, <2>1 DEF ReportedInv
    <3>4. QED
      BY <1>1, <2>2, <3>1, <3>2, <3>3 DEF Handled, Running, Nothing
  <2>7. QED
    BY <2>5, <2>6 DEF CopyNext, StoreNext
<1>5. QED
  BY <1>2, <1>3, <1>4 DEF SwitchesInv

LEMMA AnswerStep == ASSUME SwitchesInv, TypeInv', SaveAnswered PROVE SwitchesInv'
<1>0. TypeInv /\ FormsOK /\ ReportedInv /\ FirstInv
  BY DEF SwitchesInv
<1>1. PICK p \in saves :
        /\ cpc[p.call] \in {"ok", "error"} /\ saves' = {} /\ opened' = FALSE
        /\ confirmed' = p.form.of
        /\ UNCHANGED <<vars, settings, fetched, switches, toggled, outside, subscriptionFaults>>
  BY DEF SaveAnswered
<1>2. FormsOK'
  BY <1>0, <1>1 DEF FormsOK, Form
<1>3. FirstInv'
  BY <1>0, <1>1 DEF FirstInv
<1>4. ReportedInv'
  <2>1. SUFFICES ASSUME Undisturbed PROVE ReportedInv'
    BY <1>1 DEF ReportedInv, Undisturbed
  <2>2. ~ Running(p.call) /\ \A q \in saves : q = p
    BY <1>0, <1>1, <2>1 DEF ReportedInv, Running
  <2>3. \A c \in Calls : ~ Running(c)
    BY <1>0, <1>1, <2>1, <2>2 DEF ReportedInv
  <2>4. \A e \in EventTypes : p.form.of[e] \in {"absent", row[e]}
    BY <1>0, <1>1, <2>1, <2>2 DEF ReportedInv, Handled
  <2>5. UNCHANGED <<row, cpc>>
    BY <1>1 DEF vars, callVars
  <2>6. QED
    BY <1>0, <1>1, <2>1, <2>3, <2>4, <2>5 DEF ReportedInv, Running
<1>5. QED
  BY <1>2, <1>3, <1>4 DEF SwitchesInv

LEMMA SwitchesStep ==
    SwitchesInv /\ [SubscriptionsPageNext]_subscriptionsPageVars => SwitchesInv'
<1> SUFFICES ASSUME SwitchesInv, [SubscriptionsPageNext]_subscriptionsPageVars
             PROVE  SwitchesInv'
    OBVIOUS
<1>1. TypeInv'
  BY StoreTypeStep DEF SwitchesInv
<1>2. QED
  BY <1>1, SwitchDialogSteps, DisturbedSteps, SaveStep, CallSteps, AnswerStep
     DEF SubscriptionsPageNext

LEMMA SwitchesInvariant == SubscriptionsPageSpec => []SwitchesInv
  BY SwitchesStart, SwitchesStep, PTL DEF SubscriptionsPageSpec

\* The type invariant of the dialog and of the store behind it.
THEOREM SubscriptionsPageTypeCorrect == SubscriptionsPageSpec => []SubscriptionsPageTypeOK
<1>1. SwitchesInv => SubscriptionsPageTypeOK
  BY DEF SwitchesInv, TypeInv, FormsOK, SubscriptionsPageTypeOK
<1>2. QED
  BY <1>1, SwitchesInvariant, PTL

\* What the dialog reported updated is in the database once none of its saves is
\* under way, unless somebody else wrote, the API failed or a connection was lost
\* (subscriptions-dialog.tsx:120-149, route.ts:40-49).
THEOREM ReportedIsStoredCorrect == SubscriptionsPageSpec => []ReportedIsStored
<1>1. SwitchesInv => ReportedIsStored
  BY DEF SwitchesInv, ReportedInv, Undisturbed, ReportedIsStored
<1>2. QED
  BY <1>1, SwitchesInvariant, PTL

\* Until its first save the dialog shows the settings in force, however often it
\* was toggled, cancelled and opened again (subscriptions-dialog.tsx:98-112).
THEOREM FirstSwitchesAreStoredCorrect == SubscriptionsPageSpec => []FirstSwitchesAreStored
<1>1. SwitchesInv => FirstSwitchesAreStored
  BY DEF SwitchesInv, FirstInv, FirstSwitchesAreStored, ShowsOther
<1>2. QED
  BY <1>1, SwitchesInvariant, PTL

\* The store behind the dialog keeps what its own module promises: the events that
\* pass are those the database names (subscription_store.go:24-46, 74-92).
THEOREM GateFollowsDatabase == SubscriptionsPageSpec => [](CopyHasRow /\ CopyIsCurrent)
<1>1. SubscriptionsPageInit => RowInv /\ CurrentInv
  BY DEF SubscriptionsPageInit, Init, RowInv, CopyHasRow, PendingHasRow, CurrentInv,
         CopyIsCurrent, LonePending, Nothing
<1>2. TypeInv /\ RowInv /\ CurrentInv /\ [SubscriptionsPageNext]_subscriptionsPageVars
        => RowInv' /\ CurrentInv'
  <2>1. SUFFICES ASSUME TypeInv, RowInv, CurrentInv,
                        [SubscriptionsPageNext]_subscriptionsPageVars
                 PROVE  RowInv' /\ CurrentInv'
    OBVIOUS
  <2>2. CASE [Next]_vars
    BY <2>1, <2>2, RowStep, CurrentStep
  <2>3. ASSUME NEW c \in Calls, cpc[c] = "new", cpc' = [cpc EXCEPT ![c] = "ok"],
               UNCHANGED <<row, cache, body, event, value, crashes, unsettled>>
        PROVE  RowInv' /\ CurrentInv'
    <3>1. \A d \in Calls : cpc'[d] = "copy" <=> cpc[d] = "copy"
      BY <2>1, <2>3 DEF TypeInv, TypeOK
    <3>2. QED
      BY <2>1, <2>3, <3>1 DEF RowInv, CopyHasRow, PendingHasRow, CurrentInv, CopyIsCurrent,
                              LonePending, CopyPending
  <2>4. QED
    BY <2>1, <2>2, <2>3, StoreMoves
<1>3. SwitchesInv => TypeInv
  BY DEF SwitchesInv
<1>4. QED
  BY <1>1, <1>2, <1>3, SwitchesInvariant, PTL DEF SubscriptionsPageSpec, RowInv, CurrentInv

-----------------------------------------------------------------------------
(* Signing in. What a submission has found or made is of its account, and  *)
(* whoever makes a user of an account that has one, or that another makes  *)
(* one of, has found none at the same time as another did.                 *)

AttemptOK(p) ==
    /\ p.stage \in {"accepted", "found", "made"} => AccountOf(p) \in admitted
    /\ \A u \in p.user : u.email = AccountOf(p)

SessionsOK ==
    /\ \A s \in cookie : s.account \in admitted /\ \A u \in s.user : u.email = s.account
    /\ \A t \in Tabs : tabs[t] \in admitted \cup {None} /\ opening[t] \subseteq admitted \cup {None}

UsersOK ==
    /\ \A u, v \in users : u.email = v.email => u = v \/ u.email \in raced
    /\ \A p \in signIns, u \in users :
        WithoutUser(p) /\ u.email = AccountOf(p) => AccountOf(p) \in raced
    /\ \A p, q \in signIns : WithoutUser(p) /\ WithoutUser(q) /\ AccountOf(p) = AccountOf(q)
                                => p = q \/ AccountOf(p) \in raced

SignInInv ==
    /\ SignInTypeOK /\ SessionsOK /\ UsersOK
    /\ \A p \in signIns : AttemptOK(p)

LEMMA SignInStart == SignInInit => SignInInv
  BY BrowserAssumption, SignInAssumption
     DEF SignInInit, SignInInv, SignInTypeOK, SessionsOK, UsersOK

LEMMA AccountType == ASSUME NEW p \in Attempts PROVE AccountOf(p) \in Emails
  BY SignInAssumption DEF Attempts, AccountOf

LEMMA BearerType ==
    ASSUME SignInInv PROVE Bearer \in admitted \cup {None}
  BY DEF SignInInv, SessionsOK, Bearer

\* A submission goes on, and finds nothing.
LEMMA SignInMoves ==
    ASSUME SignInInv, NEW p \in signIns, NEW q \in Attempts, SignInStep(p, q), AttemptOK(q)',
           WithoutUser(q) => WithoutUser(p) /\ AccountOf(q) = AccountOf(p),
           UNCHANGED <<cookie, users, tries, tabVars, raced>>,
           admitted \subseteq admitted', admitted' \subseteq Emails,
           signInFaults' \in 0..MaxFaults
    PROVE  SignInInv'
<1> USE DEF SignInInv
<1>1. signIns' = (signIns \ {p}) \cup {q}
  BY DEF SignInStep
<1>2. SignInTypeOK'
  BY <1>1 DEF SignInTypeOK, tabVars
<1>3. SessionsOK'
  BY DEF SessionsOK, tabVars
<1>4. UsersOK'
  BY <1>1 DEF UsersOK, WithoutUser, AccountOf
<1>5. \A r \in signIns' : AttemptOK(r)'
  BY <1>1 DEF AttemptOK, AccountOf
<1>6. QED
  BY <1>2, <1>3, <1>4, <1>5

LEMMA SignInServerSteps ==
    ASSUME SignInInv, NEW p \in signIns,
           CheckLogin(p) \/ SignInFails(p) \/ CreateSession(p) \/ SignInLost(p)
    PROVE  SignInInv'
<1>0. p \in Attempts /\ AttemptOK(p) /\ AccountOf(p) \in Emails /\ SignInTypeOK
  BY AccountType DEF SignInInv, SignInTypeOK
<1>1. CASE CheckLogin(p)
  <2>1. CASE /\ SignInStep(p, [p EXCEPT !.stage = "accepted"])
             /\ admitted' = admitted \cup {AccountOf(p)}
    <3> DEFINE q == [p EXCEPT !.stage = "accepted"]
    <3>1. /\ q \in Attempts /\ q.stage = "accepted" /\ AccountOf(q) = AccountOf(p)
          /\ q.user = p.user
      BY <1>0 DEF Attempts, AccountOf
    <3> HIDE DEF q
    <3>2. AttemptOK(q)'
      BY <1>0, <2>1, <3>1 DEF AttemptOK, AccountOf
    <3>3. SignInStep(p, q)
      BY <2>1 DEF q
    <3>4. QED
      BY <1>0, <1>1, <2>1, <3>1, <3>2, <3>3, SignInMoves
         DEF CheckLogin, WithoutUser, SignInTypeOK
  <2>2. CASE SignInStep(p, [p EXCEPT !.stage = "refused"]) /\ UNCHANGED admitted
    <3> DEFINE q == [p EXCEPT !.stage = "refused"]
    <3>1. /\ q \in Attempts /\ q.stage = "refused" /\ AccountOf(q) = AccountOf(p)
          /\ q.user = p.user
      BY <1>0 DEF Attempts, AccountOf
    <3> HIDE DEF q
    <3>2. AttemptOK(q)'
      BY <1>0, <2>2, <3>1 DEF AttemptOK, AccountOf
    <3>3. SignInStep(p, q)
      BY <2>2 DEF q
    <3>4. QED
      BY <1>0, <1>1, <2>2, <3>1, <3>2, <3>3, SignInMoves
         DEF CheckLogin, WithoutUser, SignInTypeOK
  <2>3. QED
    BY <1>1, <2>1, <2>2 DEF CheckLogin
<1>2. CASE SignInFails(p)
  <2> DEFINE q == [p EXCEPT !.stage = "refused"]
  <2>1. /\ q \in Attempts /\ q.stage = "refused" /\ AccountOf(q) = AccountOf(p)
        /\ q.user = p.user
    BY <1>0 DEF Attempts, AccountOf
  <2>2. SignInStep(p, q) /\ UNCHANGED admitted /\ signInFaults' \in 0..MaxFaults
    BY <1>0, <1>2, BrowserAssumption DEF SignInFails, SignInFault, SignInTypeOK
  <2> HIDE DEF q
  <2>3. AttemptOK(q)'
    BY <1>0, <2>1, <2>2 DEF AttemptOK, AccountOf
  <2>4. QED
    BY <1>0, <1>2, <2>1, <2>2, <2>3, SignInMoves DEF SignInFails, WithoutUser, SignInTypeOK
<1>3. CASE CreateSession(p)
  <2> DEFINE q == [p EXCEPT !.stage = "made"]
  <2>1. /\ q \in Attempts /\ q.stage = "made" /\ AccountOf(q) = AccountOf(p)
        /\ q.user = p.user
    BY <1>0 DEF Attempts, AccountOf
  <2>2. SignInStep(p, q) /\ UNCHANGED admitted /\ p.stage = "found"
    BY <1>3 DEF CreateSession
  <2> HIDE DEF q
  <2>3. AttemptOK(q)'
    BY <1>0, <2>1, <2>2 DEF AttemptOK, AccountOf
  <2>4. QED
    BY <1>0, <1>3, <2>1, <2>2, <2>3, SignInMoves DEF CreateSession, WithoutUser, SignInTypeOK
<1>4. CASE SignInLost(p)
  <2> DEFINE q == [p EXCEPT !.heard = "nobody"]
  <2>1. /\ q \in Attempts /\ q.stage = p.stage /\ AccountOf(q) = AccountOf(p)
        /\ q.user = p.user
    BY <1>0 DEF Attempts, AccountOf
  <2>2. SignInStep(p, q) /\ UNCHANGED admitted /\ signInFaults' \in 0..MaxFaults
    BY <1>0, <1>4, BrowserAssumption DEF SignInLost, SignInFault, SignInTypeOK
  <2> HIDE DEF q
  <2>3. AttemptOK(q)'
    BY <1>0, <2>1, <2>2 DEF AttemptOK, AccountOf
  <2>4. QED
    BY <1>0, <1>4, <2>1, <2>2, <2>3, SignInMoves DEF SignInLost, WithoutUser, SignInTypeOK
<1>5. QED
  BY <1>1, <1>2, <1>3, <1>4

\* One who finds no user while another has found none marks the account.
LEMMA FindUserStep ==
    ASSUME SignInInv, NEW p \in signIns, FindUser(p) PROVE SignInInv'
<1>0. p \in Attempts /\ AttemptOK(p) /\ AccountOf(p) \in Emails
      /\ SignInTypeOK /\ SessionsOK /\ UsersOK
  BY AccountType DEF SignInInv, SignInTypeOK
<1>1. PICK user \in OneOf(Found(p)) :
        SignInStep(p, [p EXCEPT !.stage = "found", !.user = user])
  BY Zenon DEF FindUser
<1>2. /\ user \in SUBSET Users /\ \A u \in user : u.email = AccountOf(p)
      /\ user = {} => Found(p) = {}
  BY <1>0 DEF OneOf, Found, SignInTypeOK
<1> DEFINE found == [p EXCEPT !.stage = "found"]
           q == [found EXCEPT !.user = user]
<1>3. found \in Attempts /\ found.stage = "found" /\ AccountOf(found) = AccountOf(p)
  BY <1>0 DEF Attempts, AccountOf
<1>4. q = [p EXCEPT !.stage = "found", !.user = user]
  BY <1>0 DEF Attempts
<1> HIDE DEF found
<1>5. /\ q \in Attempts /\ q.stage = "found" /\ AccountOf(q) = AccountOf(p)
      /\ q.user = user
  BY <1>2, <1>3 DEF Attempts, AccountOf
<1> HIDE DEF q
<1>6. /\ p.stage = "accepted" /\ signIns' = (signIns \ {p}) \cup {q}
      /\ UNCHANGED <<cookie, users, tries, tabVars, admitted, signInFaults>>
      /\ raced' = raced \cup {a \in {AccountOf(p)} :
                                /\ Found(p) = {}
                                /\ \E r \in signIns : WithoutUser(r) /\ AccountOf(r) = a}
  BY <1>1, <1>4 DEF FindUser, SignInStep
<1>7. SignInTypeOK'
  BY <1>0, <1>5, <1>6 DEF SignInTypeOK, tabVars
<1>8. SessionsOK'
  BY <1>0, <1>6 DEF SessionsOK, tabVars
<1>9. \A r \in signIns' : AttemptOK(r)'
  BY <1>0, <1>2, <1>5, <1>6 DEF SignInInv, AttemptOK, AccountOf
<1>10. UsersOK'
  <2>1. \A u \in users : WithoutUser(q) => u.email # AccountOf(q)
    BY <1>2, <1>5 DEF WithoutUser, Found
  <2>2. \A r \in signIns : WithoutUser(q) /\ WithoutUser(r) /\ AccountOf(r) = AccountOf(q)
                            => AccountOf(q) \in raced'
    BY <1>2, <1>5, <1>6 DEF WithoutUser
  <2>3. raced \subseteq raced'
    BY <1>6
  <2>4. /\ \A r : WithoutUser(r)' <=> WithoutUser(r)
        /\ \A r : AccountOf(r)' = AccountOf(r)
    BY DEF WithoutUser, AccountOf
  <2>5. QED
    BY <1>0, <1>6, <2>1, <2>2, <2>3, <2>4 DEF UsersOK
<1>11. QED
  BY <1>7, <1>8, <1>9, <1>10 DEF SignInInv

LEMMA CreateUserStep ==
    ASSUME SignInInv, NEW p \in signIns, CreateUser(p) PROVE SignInInv'
<1>0. p \in Attempts /\ AttemptOK(p) /\ AccountOf(p) \in Emails
      /\ SignInTypeOK /\ SessionsOK /\ UsersOK
  BY AccountType DEF SignInInv, SignInTypeOK
<1>p. PICK u : u = NewUser(p)
  OBVIOUS
<1>1. u \in Users /\ u.email = AccountOf(p)
  BY <1>0, <1>p DEF NewUser, Users, Attempts
<1> DEFINE q == [p EXCEPT !.user = {u}]
<1>2. q \in Attempts /\ q.stage = p.stage /\ AccountOf(q) = AccountOf(p) /\ q.user = {u}
  BY <1>0, <1>1 DEF Attempts, AccountOf
<1>3. SignInStep(p, q)
  BY <1>p DEF CreateUser
<1> HIDE DEF q
<1>4. /\ WithoutUser(p) /\ users' = users \cup {u} /\ signIns' = (signIns \ {p}) \cup {q}
      /\ UNCHANGED <<cookie, tries, tabVars, admitted, raced, signInFaults>>
  BY <1>p, <1>3 DEF CreateUser, SignInStep
<1>5. SignInTypeOK'
  BY <1>0, <1>1, <1>2, <1>4 DEF SignInTypeOK, tabVars
<1>6. SessionsOK'
  BY <1>0, <1>4 DEF SessionsOK, tabVars
<1>7. \A r \in signIns' : AttemptOK(r)'
  BY <1>0, <1>1, <1>2, <1>4 DEF SignInInv, AttemptOK, AccountOf, WithoutUser
<1>8. UsersOK'
  <2>1. /\ \A r : WithoutUser(r)' <=> WithoutUser(r)
        /\ \A r : AccountOf(r)' = AccountOf(r)
        /\ ~ WithoutUser(q)
    BY <1>2 DEF WithoutUser, AccountOf
  <2>2. QED
    BY <1>0, <1>1, <1>4, <2>1 DEF UsersOK
<1>9. QED
  BY <1>5, <1>6, <1>7, <1>8 DEF SignInInv

\* Steps after which some submissions are as they were, or gone.
LEMMA SignInRest ==
    ASSUME SignInInv, signIns' \subseteq signIns, users' \subseteq users, UNCHANGED <<admitted, raced>>,
           SignInTypeOK', SessionsOK'
    PROVE  SignInInv'
<1>1. UsersOK'
  BY DEF SignInInv, UsersOK, WithoutUser, AccountOf
<1>2. \A p \in signIns' : AttemptOK(p)'
  BY DEF SignInInv, AttemptOK, AccountOf
<1>3. QED
  BY <1>1, <1>2 DEF SignInInv

LEMMA SignInEnds ==
    ASSUME SignInInv, NEW p \in signIns, SignedIn(p) \/ SignInOver(p)
    PROVE  SignInInv'
<1>0. p \in Attempts /\ AttemptOK(p) /\ AccountOf(p) \in Emails
      /\ SignInTypeOK /\ SessionsOK
  BY AccountType DEF SignInInv, SignInTypeOK
<1>1. CASE SignedIn(p)
  <2>p. PICK s : s = [user |-> p.user, account |-> AccountOf(p)]
    OBVIOUS
  <2>1. /\ s \in [user : SUBSET Users, account : Emails] /\ s.account = AccountOf(p)
        /\ s.user = p.user
    BY <1>0, <2>p DEF Attempts
  <2>2. /\ cookie' = {s} /\ signIns' = signIns \ {p} /\ p.stage = "made"
        /\ tabs' \in {tabs, [tabs EXCEPT ![p.tab] = AccountOf(p)]}
        /\ UNCHANGED <<users, tries, opening, leaving, admitted, raced, signInFaults>>
    BY <1>1, <2>p DEF SignedIn
  <2>3. AccountOf(p) \in admitted /\ p.tab \in Tabs
    BY <1>0, <2>2 DEF AttemptOK, Attempts
  <2>4. /\ tabs' \in [Tabs -> Emails \cup {None}]
        /\ \A t \in Tabs : tabs'[t] \in admitted \cup {None}
    BY <1>0, <2>2, <2>3 DEF SignInTypeOK, SessionsOK
  <2>5. SignInTypeOK'
    BY <1>0, <2>1, <2>2, <2>4 DEF SignInTypeOK
  <2>6. SessionsOK'
    BY <1>0, <2>1, <2>2, <2>3, <2>4 DEF SessionsOK, AttemptOK
  <2>7. QED
    BY <2>2, <2>5, <2>6, SignInRest
<1>2. CASE SignInOver(p)
  <2>1. SignInTypeOK' /\ SessionsOK'
    BY <1>0, <1>2 DEF SignInOver, tabVars, SignInTypeOK, SessionsOK
  <2>2. QED
    BY <1>2, <2>1, SignInRest DEF SignInOver
<1>3. QED
  BY <1>1, <1>2

\* The tabs.
LEMMA TabSteps ==
    ASSUME SignInInv, NEW t \in Tabs,
           OpenPage(t) \/ PressSignOut(t) \/ SignedOut(t) \/ SignOutFails(t)
    PROVE  SignInInv'
<1>0. SignInTypeOK /\ SessionsOK /\ admitted \subseteq Emails
  BY DEF SignInInv, SignInTypeOK
<1>1. CASE OpenPage(t)
  <2>1. PICK page \in {Bearer, None} : opening' = [opening EXCEPT ![t] = {page}]
    BY <1>1 DEF OpenPage
  <2>2. page \in admitted \cup {None}
    BY <2>1, BearerType
  <2>3. SignInTypeOK' /\ SessionsOK'
    BY <1>0, <1>1, <2>1, <2>2 DEF OpenPage, SignInTypeOK, SessionsOK
  <2>4. QED
    BY <1>1, <2>3, SignInRest DEF OpenPage
<1>2. CASE PressSignOut(t)
  <2>1. SignInTypeOK' /\ SessionsOK'
    BY <1>0, <1>2 DEF PressSignOut, SignInTypeOK, SessionsOK
  <2>2. QED
    BY <1>2, <2>1, SignInRest DEF PressSignOut
<1>3. CASE SignedOut(t)
  <2>1. SignInTypeOK' /\ SessionsOK'
    BY <1>0, <1>3 DEF SignedOut, SignInTypeOK, SessionsOK
  <2>2. QED
    BY <1>3, <2>1, SignInRest DEF SignedOut
<1>4. CASE SignOutFails(t)
  <2>1. SignInTypeOK' /\ SessionsOK'
    BY <1>0, <1>4, BrowserAssumption
       DEF SignOutFails, SignInFault, SignInTypeOK, SessionsOK
  <2>2. QED
    BY <1>4, <2>1, SignInRest DEF SignOutFails
<1>5. QED
  BY <1>1, <1>2, <1>3, <1>4

LEMMA PageArrivesStep ==
    ASSUME SignInInv, NEW t \in Tabs, PageArrives(t) PROVE SignInInv'
<1> DEFINE Now(p) == IF p.tab = t /\ p.heard = "form" THEN [p EXCEPT !.heard = "browser"] ELSE p
<1>0. SignInTypeOK /\ SessionsOK /\ UsersOK
  BY DEF SignInInv
<1>1. PICK account \in opening[t] : /\ tabs' = [tabs EXCEPT ![t] = account]
                                    /\ opening' = [opening EXCEPT ![t] = {}]
  BY DEF PageArrives
<1>2. /\ signIns' = {Now(p) : p \in signIns}
      /\ UNCHANGED <<cookie, users, tries, leaving, admitted, raced, signInFaults>>
  BY DEF PageArrives
<1>3. ASSUME NEW p \in signIns
      PROVE  /\ Now(p) \in Attempts /\ AccountOf(Now(p)) = AccountOf(p)
             /\ Now(p).stage = p.stage /\ Now(p).user = p.user
  <2>1. p \in Attempts
    BY <1>0 DEF SignInTypeOK
  <2>2. QED
    BY <2>1 DEF Attempts, AccountOf
<1> HIDE DEF Now
<1>4. SignInTypeOK'
  <2>1. signIns' \subseteq Attempts
    BY <1>2, <1>3
  <2>2. account \in Emails \cup {None}
    BY <1>0, <1>1 DEF SignInTypeOK
  <2>3. QED
    BY <1>0, <1>1, <1>2, <2>1, <2>2 DEF SignInTypeOK
<1>5. SessionsOK'
  BY <1>0, <1>1, <1>2 DEF SessionsOK, SignInTypeOK
<1>6. \A p \in signIns' : AttemptOK(p)'
  BY <1>2, <1>3 DEF SignInInv, AttemptOK, AccountOf
<1>7. UsersOK'
  <2>1. \A p \in signIns : WithoutUser(Now(p)) <=> WithoutUser(p)
    BY <1>3 DEF WithoutUser
  <2>2. /\ \A r : WithoutUser(r)' <=> WithoutUser(r)
        /\ \A r : AccountOf(r)' = AccountOf(r)
    BY DEF WithoutUser, AccountOf
  <2>3. QED
    BY <1>0, <1>2, <1>3, <2>1, <2>2 DEF UsersOK
<1>8. QED
  BY <1>4, <1>5, <1>6, <1>7 DEF SignInInv

LEMMA SubmitLoginStep ==
    ASSUME SignInInv, NEW t \in Tabs, NEW email \in Emails, SubmitLogin(t, email)
    PROVE  SignInInv'
<1>0. SignInTypeOK /\ SessionsOK /\ UsersOK
  BY DEF SignInInv
<1>p. PICK p : p = [n |-> tries + 1, tab |-> t, email |-> email,
                    stage |-> "out", user |-> {}, heard |-> "form"]
  OBVIOUS
<1>1. tries + 1 \in 1..MaxSignIns
  BY <1>0, SignInAssumption DEF SignInTypeOK, SubmitLogin
<1>2. p \in Attempts /\ p.stage = "out" /\ p.user = {}
  BY <1>p, <1>1 DEF Attempts
<1>3. /\ signIns' = signIns \cup {p} /\ tries' = tries + 1
      /\ UNCHANGED <<cookie, users, tabVars, admitted, raced, signInFaults>>
  BY <1>p DEF SubmitLogin
<1>4. SignInTypeOK'
  BY <1>0, <1>1, <1>2, <1>3 DEF SignInTypeOK, tabVars
<1>5. SessionsOK'
  BY <1>0, <1>3 DEF SessionsOK, tabVars
<1>6. \A q \in signIns' : AttemptOK(q)'
  BY <1>2, <1>3 DEF SignInInv, AttemptOK, AccountOf
<1>7. UsersOK'
  BY <1>0, <1>2, <1>3 DEF UsersOK, WithoutUser, AccountOf
<1>8. QED
  BY <1>4, <1>5, <1>6, <1>7 DEF SignInInv

LEMMA SignInStepKeeps == SignInInv /\ [SignInNext]_signInVars => SignInInv'
<1> SUFFICES ASSUME SignInInv, [SignInNext]_signInVars PROVE SignInInv'
    OBVIOUS
<1>1. CASE Restart
  <2>1. SignInTypeOK' /\ SessionsOK'
    BY <1>1, BrowserAssumption
       DEF Restart, SignInFault, SignInInv, SignInTypeOK, SessionsOK, tabVars
  <2>2. QED
    BY <1>1, <2>1, SignInRest DEF Restart
<1>2. CASE Expire
  <2>1. SignInTypeOK' /\ SessionsOK'
    BY <1>2 DEF Expire, SignInInv, SignInTypeOK, SessionsOK, tabVars
  <2>2. QED
    BY <1>2, <2>1, SignInRest DEF Expire
<1>3. CASE UNCHANGED signInVars
  <2>1. SignInTypeOK' /\ SessionsOK'
    BY <1>3 DEF signInVars, SignInInv, SignInTypeOK, SessionsOK
  <2>2. QED
    BY <1>3, <2>1, SignInRest DEF signInVars
<1>4. ASSUME NEW t \in Tabs, NEW email \in Typed, SubmitLogin(t, email)
      PROVE  SignInInv'
  BY <1>4, SubmitLoginStep, SignInAssumption
<1>5. QED
  BY <1>1, <1>2, <1>3, <1>4, TabSteps, PageArrivesStep, SignInServerSteps, FindUserStep,
     CreateUserStep, SignInEnds DEF SignInNext

LEMMA SignInInvariant == SignInSpec => []SignInInv
  BY SignInStart, SignInStepKeeps, PTL DEF SignInSpec

\* The type invariant of the sessions.
THEOREM SignInTypeCorrect == SignInSpec => []SignInTypeOK
<1>1. SignInInv => SignInTypeOK
  BY DEF SignInInv
<1>2. QED
  BY <1>1, SignInInvariant, PTL

\* The session, the user and the token are of one account, a page is of an account
\* that was admitted, and an account has one user unless two submissions found none
\* at once (auth.ts:24-71, kontak-session.ts:7-13).
THEOREM SessionCorrect == SignInSpec => []SessionIsOfOneAccount
<1>1. SignInInv => SessionIsOfOneAccount
  BY DEF SignInInv, SessionsOK, UsersOK, SessionIsOfOneAccount
<1>2. QED
  BY <1>1, SignInInvariant, PTL

-----------------------------------------------------------------------------
(* The web client. Each page's specification is an abstraction of it: it   *)
(* sees the page's own steps, and the others as stutters.                  *)

LEMMA WebImplementsPages ==
    WebSpec => /\ ThreadSpec /\ MailSpec /\ BroadcastPageSpec
               /\ DirectorySpec /\ ApiKeySpec /\ TemplateSpec
               /\ SubscriptionsPageSpec /\ DevicePageSpec /\ PairingSpec
               /\ RegisterSpec /\ LifecycleSpec /\ SignInSpec
<1>1. WebInit =>
        /\ ThreadInit /\ MailInit /\ BroadcastPageInit
        /\ DirectoryInit /\ ApiKeyInit /\ TemplateInit
        /\ SubscriptionsPageInit /\ DevicePageInit /\ PairingInit
        /\ RegisterInit /\ LifecycleInit /\ SignInInit
  BY DEF WebInit
<1>2. [WebNext]_webVars =>
        /\ [ThreadNext]_threadVars /\ [MailNext]_mailVars
        /\ [BroadcastPageNext]_senderVars
        /\ [DirectoryNext]_directoryVars /\ [ApiKeyNext]_keyVars
        /\ [TemplateNext]_templateVars
        /\ [SubscriptionsPageNext]_subscriptionsPageVars
        /\ [DevicePageNext]_cardVars /\ [PairingNext]_pairingVars
        /\ [RegisterNext]_registerVars /\ [LifecycleNext]_lifecycleVars
        /\ [SignInNext]_signInVars
  <2>1. CASE OnChatPages
    BY <2>1 DEF OnChatPages, accountVars, devicesVars
  <2>2. CASE OnAccountPages
    BY <2>2 DEF OnAccountPages, chatVars, devicesVars
  <2>3. CASE OnDevicesPages
    BY <2>3 DEF OnDevicesPages, chatVars, accountVars
  <2>4. CASE UNCHANGED webVars
    BY <2>4 DEF webVars
  <2>5. QED
    BY <2>1, <2>2, <2>3, <2>4 DEF WebNext
<1>3. QED
  BY <1>1, <1>2, PTL DEF WebSpec, ThreadSpec, MailSpec, BroadcastPageSpec, DirectorySpec,
     ApiKeySpec, TemplateSpec, SubscriptionsPageSpec, DevicePageSpec, PairingSpec,
     RegisterSpec, LifecycleSpec, SignInSpec

\* The type invariants of all pages at once.
THEOREM WebTypeCorrect == WebSpec => []WebTypeOK
<1>1. WebInit => route \in Pages
  BY DEF WebInit
<1>2. route \in Pages /\ [WebNext]_webVars => (route \in Pages)'
  BY DEF WebNext, OnChatPages, OnAccountPages, OnDevicesPages, webVars
<1>3. /\ route \in Pages /\ ThreadTypeOK /\ MailTypeOK /\ BroadcastPageTypeOK
      /\ DirectoryTypeOK /\ ApiKeyTypeOK /\ TemplateTypeOK /\ SubscriptionsPageTypeOK
      /\ DevicePageTypeOK /\ PairingTypeOK /\ RegisterTypeOK /\ LifecycleTypeOK
      /\ SignInTypeOK
      <=> WebTypeOK
  BY DEF WebTypeOK
<1>4. WebSpec => [](route \in Pages)
  BY <1>1, <1>2, PTL DEF WebSpec
<1>5. QED
  BY <1>3, <1>4, WebImplementsPages, ThreadTypeCorrect, MailTypeCorrect,
     BroadcastPageTypeCorrect, DirectoryTypeCorrect, ApiKeyTypeCorrect, TemplateTypeCorrect,
     SubscriptionsPageTypeCorrect, DevicePageTypeCorrect, PairingTypeCorrect,
     RegisterTypeCorrect, LifecycleTypeCorrect, SignInTypeCorrect, PTL

\* What was submitted once is done once, on whatever page
\* (compose-box.tsx:62-79, new-message-dialog.tsx:145-161,
\* broadcast-client.tsx:148-193, add-device-dialog.tsx:60-71).
THEOREM SubmittedOnceCorrect == WebSpec => []SubmittedOnce
<1>1. LoggedOnce /\ TakenOnce /\ CreatedOnce /\ RegisteredOnce <=> SubmittedOnce
  BY DEF SubmittedOnce
<1>2. QED
  BY <1>1, WebImplementsPages, LoggedOnceCorrect, TakenOnceCorrect, CreatedOnceCorrect,
     RegisteredOnceCorrect, PTL

\* What comes late stays under its own heading: the messages of a chat and the code
\* of a device (message-thread.tsx:37-57, qr-pairing-dialog.tsx:28-44).
THEOREM LateAnswersStayApartCorrect == WebSpec => []LateAnswersStayApart
<1>1. ThreadShowsItsOwn /\ CodeIsOfDevice <=> LateAnswersStayApart
  BY DEF LateAnswersStayApart
<1>2. QED
  BY <1>1, WebImplementsPages, ThreadShowsItsOwnCorrect, CodeIsOfDeviceCorrect, PTL

\* What is sent is sent where its form says: the chats of the dialog and the
\* recipients of a broadcast are of the chosen device, the recipients of the details
\* of the job that is open (inbox-client.tsx:49-65, broadcast-client.tsx:196-237).
THEOREM FormsAreOfTheirDevice ==
    WebSpec => [](ChatIsOfDevice /\ RecipientsAreOfDevice /\ RecipientsAreOfJob)
BY WebImplementsPages, ChatIsOfDeviceCorrect, RecipientsAreOfDeviceCorrect,
   RecipientsAreOfJobCorrect, PTL

\* The device behind the pages: a QR code has its watcher, a paired device its
\* JID, a client that is logged in its place in the map (core_pairing.go:11-41,
\* core_event_handler.go:131-153, core.go:42-82).
THEOREM DevicesAreKept ==
    WebSpec => [](QrHasWatcher /\ PairedHasJid /\ LoggedInIsInMap)
BY WebImplementsPages, QrCodeHasWatcher, PairedDeviceHasJid, LoggedInClientIsInMap, PTL

\* A button spins exactly while its own request is under way
\* (contacts-management-client.tsx:146-169, kontak-providers.tsx:67-117).
THEOREM FlagsFollowRequestsCorrect == WebSpec => []FlagsFollowRequests
<1>1. OneSyncAtATime /\ OneOrderOfAKind <=> FlagsFollowRequests
  BY DEF FlagsFollowRequests
<1>2. QED
  BY <1>1, WebImplementsPages, OneSyncCorrect, OneOrderCorrect, PTL

\* What the client reports done was done, on the directory, the templates and the
\* subscriptions (contacts-management-client.tsx:146-169,
\* create-template-dialog.tsx:175-199, subscriptions-dialog.tsx:120-149).
THEOREM ToldIsDoneCorrect == WebSpec => []ToldIsDone
<1>1. SuccessMeansStored /\ ToldIsStored /\ ReportedIsStored <=> ToldIsDone
  BY DEF ToldIsDone
<1>2. QED
  BY <1>1, WebImplementsPages, SuccessCorrect, ToldIsStoredCorrect, ReportedIsStoredCorrect, PTL

\* With nothing under way, the lists of keys and of templates are those of the
\* server (kontak-providers.tsx:182-196, template-management-client.tsx:48-50).
THEOREM ListsAreCurrentCorrect == WebSpec => []ListsAreCurrent
<1>1. ListIsCurrent /\ CardsAreRows <=> ListsAreCurrent
  BY DEF ListsAreCurrent
<1>2. QED
  BY <1>1, WebImplementsPages, ListIsCurrentCorrect, CardsAreRowsCorrect, PTL

\* Whoever signs in, the session is of one account; a user's keys stay within the
\* limit and their secrets reach the user, a template changes only where it was
\* edited, a toast stays its time and only an answer leaves a table's page without
\* rows (auth.ts:24-71, auth_handler.go:247-287, api-key-client.tsx:95-108,
\* create-template-dialog.tsx:175-199, use-toast.ts:59-75, 118-128,
\* contacts-management-client.tsx:129-144).
THEOREM AccountsAreKept ==
    WebSpec => /\ [](SessionIsOfOneAccount /\ KeyLimit)
               /\ SecretReachesUser /\ OnlyEditedChanges /\ ToastStays /\ GestureKeepsPage
BY WebImplementsPages, SessionCorrect, KeyLimitCorrect, GestureKeepsPageCorrect,
   SecretReachesUserCorrect, OnlyEditedCorrect, ToastStaysCorrect, PTL

\* The subscriptions dialog shows the settings in force until its first save, and
\* the store behind it keeps its word (subscriptions-dialog.tsx:98-112,
\* subscription_store.go:24-46, 74-92).
THEOREM SwitchesAreKept == WebSpec => [](FirstSwitchesAreStored /\ CopyHasRow /\ CopyIsCurrent)
BY WebImplementsPages, FirstSwitchesAreStoredCorrect, GateFollowsDatabase, PTL
=============================================================================
