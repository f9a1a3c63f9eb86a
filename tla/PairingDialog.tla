--------------------------- MODULE PairingDialog ---------------------------
(***************************************************************************)
(* The dialog that shows a device's QR code: one dialog for all cards, and *)
(* SWR's cache of the codes, which outlives it; and the page that shows    *)
(* the code of one device under the same key. What the server offers is an *)
(* environment here; module DeviceLifecycle has what is behind it.         *)
(***************************************************************************)
EXTENDS Browser

CONSTANTS
    PairingDevices,  \* the devices the page was rendered with
    MaxOffers        \* bound: how often what the server offers may change

ASSUME PairingAssumption ==
    /\ None \notin PairingDevices \cup {"loading", "connected", "error", "code"}
    /\ MaxOffers \in Nat

VARIABLES
    qrPage,    \* this is the page of one device, not the dialog
    pairing,   \* pairingDevice, or client_id
    offer,     \* what GetDeviceQR would answer: "none" is a 404
    codes,     \* SWR's data: none yet, or an answer
    codeDue,   \* the answer on its way, if there is one
    codeError, \* the devices whose last request failed
    offered,   \* history: how often the offers have changed
    paired,    \* history: the devices that were ever connected
    pairingFaults

pairingVars == <<qrPage, pairing, offer, codes, codeDue, codeError, offered, paired,
                 pairingFaults>>

\* A code, or that the device is connected; and whose it is.
Offers  == {"none", "code", "connected"}
Answers == [of : PairingDevices, what : Offers]

PairingTypeOK ==
    /\ qrPage \in BOOLEAN
    /\ pairing \in PairingDevices \cup {None}
    /\ offer \in [PairingDevices -> Offers]
    /\ codes \in [PairingDevices -> SUBSET Answers]
    /\ codeDue \in [PairingDevices -> SUBSET Answers]
    /\ codeError \subseteq PairingDevices
    /\ offered \in 0..MaxOffers
    /\ paired \subseteq PairingDevices
    /\ pairingFaults \in 0..MaxFaults

\* The dialog is closed; the page is mounted, and SWR asks at once.
PairingInit ==
    /\ qrPage \in BOOLEAN
    /\ pairing \in IF qrPage THEN PairingDevices ELSE {None}
    /\ offer = [d \in PairingDevices |-> "none"]
    /\ codes = [d \in PairingDevices |-> {}]
    /\ codeDue = [d \in PairingDevices |->
                    IF d = pairing THEN {[of |-> d, what |-> offer[d]]} ELSE {}]
    /\ codeError = {}
    /\ offered = 0
    /\ paired = {}
    /\ pairingFaults = 0

PairingFault == pairingFaults < MaxFaults /\ pairingFaults' = pairingFaults + 1

serverOffers == <<offer, offered, paired>>

-----------------------------------------------------------------------------
(* Faulty variants of definitions below.                                   *)

\* The answer is kept under the key the dialog has by now.
KeptUnderOpen(d, answer) ==
    IF pairing = None THEN codes ELSE [codes EXCEPT ![pairing] = {answer}]

-----------------------------------------------------------------------------
(* The dialog.                                                             *)

\* GetDeviceQR answers with what it has; without a client it calls Start, so that
\* there may be a code the next time.
AskCode(d) == codeDue' = [codeDue EXCEPT ![d] = {[of |-> d, what |-> offer[d]]}]

\* "QR Pairing" in the menu of a card, or "Pair" on it: SWR has a key, and asks.
OpenPairing(d) ==
    /\ pairing = None
    /\ pairing' = d
    /\ AskCode(d)
    /\ UNCHANGED <<qrPage, codes, codeError, serverOffers, pairingFaults>>

\* "Done", Escape or the cross.
ClosePairing ==
    /\ ~ qrPage /\ pairing # None
    /\ pairing' = None
    /\ UNCHANGED <<qrPage, codes, codeDue, codeError, serverOffers, pairingFaults>>

\* On focus, and again after an error; the dialog every fifteen seconds, too.
PollCode ==
    /\ pairing # None
    /\ AskCode(pairing)
    /\ UNCHANGED <<qrPage, pairing, codes, codeError, serverOffers, pairingFaults>>

KeptUnder(d, answer) == [codes EXCEPT ![d] = {answer}]

CodeAnswered(d) ==
    \E answer \in codeDue[d] :
        /\ answer.what # "none"
        /\ codes' = KeptUnder(d, answer)
        /\ codeError' = codeError \ {d}
        /\ codeDue' = [codeDue EXCEPT ![d] = {}]
        /\ UNCHANGED <<qrPage, pairing, serverOffers, pairingFaults>>

\* A 404 of the API is an answer the route cannot send: it fails. What SWR had
\* stays.
CodeFails(d) ==
    /\ codeError' = codeError \cup {d}
    /\ codeDue' = [codeDue EXCEPT ![d] = {}]
    /\ UNCHANGED <<qrPage, pairing, codes, serverOffers>>

CodeMissing(d) ==
    /\ \E answer \in codeDue[d] : answer.what = "none"
    /\ CodeFails(d) /\ UNCHANGED pairingFaults

CodeLost(d) == codeDue[d] # {} /\ CodeFails(d) /\ PairingFault

\* isLoading of SWR.
Waits == codes[pairing] = {} /\ codeDue[pairing] # {}

\* The order of the branches: loading, connected, error, code. The page does not
\* look at the error: it draws the last code, or one of the empty string.
Shown ==
    IF pairing = None THEN None
    ELSE IF Waits THEN "loading"
    ELSE IF \E answer \in codes[pairing] : answer.what = "connected" THEN "connected"
    ELSE IF pairing \in codeError /\ ~ qrPage THEN "error"
    ELSE "code"

\* The server has a code, the phone scans it, it times out, the device connects
\* or disconnects.
OfferChanges(d, what) ==
    /\ offered < MaxOffers
    /\ what # offer[d]
    /\ offered' = offered + 1
    /\ offer' = [offer EXCEPT ![d] = what]
    /\ paired' = IF what = "connected" THEN paired \cup {d} ELSE paired
    /\ UNCHANGED <<qrPage, pairing, codes, codeDue, codeError, pairingFaults>>
-----------------------------------------------------------------------------

PairingNext ==
    \/ \E d \in PairingDevices :
        OpenPairing(d) \/ CodeAnswered(d) \/ CodeMissing(d) \/ CodeLost(d)
    \/ ClosePairing \/ PollCode
    \/ \E d \in PairingDevices, what \in Offers : OfferChanges(d, what)

PairingSpec == PairingInit /\ [][PairingNext]_pairingVars

-----------------------------------------------------------------------------
(* Safety.                                                                 *)

\* The code under the name of a device is one of that device, whatever dialog was
\* open when it was asked for and when it came, so that scanning it pairs the
\* device the user chose; and "Device Connected!" is only said of one that was
\* connected at some time (qr-pairing-dialog.tsx:28-44, 61-101, qr-container.tsx:14-43).
CodeIsOfDevice ==
    /\ Shown \in {"code", "connected"} => \A answer \in codes[pairing] : answer.of = pairing
    /\ Shown = "connected" => pairing \in paired
=============================================================================
