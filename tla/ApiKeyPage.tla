----------------------------- MODULE ApiKeyPage -----------------------------
(***************************************************************************)
(* The page of API credentials: ApiKeyClient, the provider that sends its  *)
(* requests and keeps the list of keys, the routes under                   *)
(* /api/kontak/api-keys, and the handlers of the Go server with the rows   *)
(* of one user in api_keys.                                                *)
(***************************************************************************)
EXTENDS Browser

CONSTANTS
    KeyNames,     \* what the user may call a key
    MaxKeys,      \* keys a user may have, 5 in the code
    MaxRequests   \* bound: creations and deletions there may be in all

ASSUME ApiKeyAssumption ==
    /\ None \notin KeyNames
    /\ MaxKeys \in Nat \ {0}
    /\ MaxRequests \in Nat

VARIABLES
    keyPage,   \* the state of the component and of the provider
    requests,  \* creations and deletions under way, numbered
    keys,      \* the rows of api_keys, oldest first
    requested, \* history: how many requests there were
    accidents, \* history: requests or even "creations" under way "together", a
               \* "failed" request, a "lost" one
    keyFaults

keyVars == <<keyPage, requests, keys, requested, accidents, keyFaults>>

KeyIds == 1..MaxRequests

\* key is the row a request has made or is to delete; list is the answer to
\* the refresh that follows. Of a lost request the server alone still knows.
Requests ==
    [n : 1..MaxRequests, via : {"create", "delete"}, name : KeyNames \cup {None},
     key : KeyIds \cup {None}, list : SUBSET KeyIds, lost : BOOLEAN,
     stage : {"out", "checked", "back", "refused", "refresh"}]

ApiKeyTypeOK ==
    /\ keyPage \in [list : SUBSET KeyIds, loading : BOOLEAN, dialog : BOOLEAN,
                    generating : BOOLEAN, created : KeyIds \cup {None}]
    /\ requests \subseteq Requests
    /\ keys \in Seq([name : KeyNames, active : BOOLEAN]) /\ Len(keys) <= MaxRequests
    /\ requested \in 0..MaxRequests
    /\ accidents \subseteq {"together", "creations", "failed", "lost"}
    /\ keyFaults \in 0..MaxFaults

ApiKeyInit ==
    /\ keyPage = [list |-> {}, loading |-> TRUE, dialog |-> FALSE,
                  generating |-> FALSE, created |-> None]
    /\ requests = {}
    /\ keys = <<>>
    /\ requested = 0
    /\ accidents = {}
    /\ keyFaults = 0

KeyFault(what) ==
    /\ keyFaults < MaxFaults
    /\ keyFaults' = keyFaults + 1
    /\ accidents' = accidents \cup {what}

Active == {id \in DOMAIN keys : keys[id].active}

\* GetAPIKeysByUserID: the newest of the active keys, at most MaxKeys.
Newest == {id \in Active : Cardinality({other \in Active : other > id}) < MaxKeys}

-----------------------------------------------------------------------------
(* Faulty variants of definitions below.                                   *)

\* The limit is off by one.
BelowLimitOff == Cardinality(Newest) <= MaxKeys

\* The refresh was asked for together with the request itself.
ListBefore == keyPage.list

\* The key that was created is not shown while another dialog is open.
ShownKeyLater(p) == IF keyPage.dialog THEN None ELSE p.key

\* An error puts the page back to where it began.
AfterKeyErrorAllClosed(p) == [keyPage EXCEPT !.generating = FALSE, !.created = None]

-----------------------------------------------------------------------------
(* The page.                                                               *)

\* getAPIKeys on mounting; an error leaves the list empty.
LoadKeys(list) ==
    /\ keyPage.loading
    /\ keyPage' = [keyPage EXCEPT !.loading = FALSE, !.list = list]
    /\ UNCHANGED <<requests, keys, requested>>

KeysLoaded   == LoadKeys(Newest) /\ UNCHANGED <<accidents, keyFaults>>
KeysNotLoaded == LoadKeys({}) /\ KeyFault("failed")

\* The dialogs are modal.
Free == ~ keyPage.loading /\ ~ keyPage.dialog /\ keyPage.created = None

OpenKeyDialog ==
    /\ Free
    /\ Cardinality(keyPage.list) < MaxKeys
    /\ keyPage' = [keyPage EXCEPT !.dialog = TRUE]
    /\ UNCHANGED <<requests, keys, requested, accidents, keyFaults>>

CancelKeyDialog ==
    /\ keyPage.dialog /\ keyPage.created = None
    /\ keyPage' = [keyPage EXCEPT !.dialog = FALSE]
    /\ UNCHANGED <<requests, keys, requested, accidents, keyFaults>>

\* "I've saved it securely".
CloseCreatedKey ==
    /\ keyPage.created # None
    /\ keyPage' = [keyPage EXCEPT !.created = None]
    /\ UNCHANGED <<requests, keys, requested, accidents, keyFaults>>

\* A request joins those under way.
Begin(via, name, key) ==
    /\ requested < MaxRequests
    /\ requested' = requested + 1
    /\ requests' = requests \cup {[n |-> requested + 1, via |-> via, name |-> name,
                                   key |-> key, list |-> {}, lost |-> FALSE, stage |-> "out"]}
    /\ accidents' = accidents \cup {what \in {"together", "creations"} :
            \E p \in requests : what = "creations" => p.via = "create" /\ via = "create"}

\* handleCreateKey with the name that was typed, from the button, which is
\* disabled while a key is being generated, or from the Enter key, which is not.
Create(name) ==
    /\ keyPage.dialog /\ keyPage.created = None
    /\ Begin("create", name, None)
    /\ keyPage' = [keyPage EXCEPT !.generating = TRUE]
    /\ UNCHANGED <<keys, keyFaults>>

PressCreate(name) == ~ keyPage.generating /\ Create(name)
PressEnter(name)  == keyPage.generating /\ Create(name)

\* The bin of a key that is listed, and its confirmation.
Delete(id) ==
    /\ Free /\ id \in keyPage.list
    /\ Begin("delete", None, id)
    /\ UNCHANGED <<keyPage, keys, keyFaults>>

-----------------------------------------------------------------------------
(* The server.                                                             *)

Step(p, q) == requests' = (requests \ {p}) \cup {q}

BelowLimit == Cardinality(Newest) < MaxKeys

\* CreateAPIKey counts the keys first.
CheckLimit(p) ==
    /\ p \in requests /\ p.via = "create" /\ p.stage = "out"
    /\ Step(p, [p EXCEPT !.stage = IF BelowLimit THEN "checked" ELSE "refused"])
    /\ UNCHANGED <<keyPage, keys, requested, accidents, keyFaults>>

\* Names are unique, also among the keys that were deleted.
NameTaken(name) == \E id \in DOMAIN keys : keys[id].name = name

InsertKey(p) ==
    /\ p \in requests /\ p.stage = "checked"
    /\ IF NameTaken(p.name)
       THEN Step(p, [p EXCEPT !.stage = "refused"]) /\ UNCHANGED keys
       ELSE /\ keys' = Append(keys, [name |-> p.name, active |-> TRUE])
            /\ Step(p, [p EXCEPT !.stage = "back", !.key = Len(keys) + 1])
    /\ UNCHANGED <<keyPage, requested, accidents, keyFaults>>

Deleted(id) == [keys EXCEPT ![id].active = FALSE]

DeleteKey(p) ==
    /\ p \in requests /\ p.via = "delete" /\ p.stage = "out"
    /\ keys' = Deleted(p.key)
    /\ Step(p, [p EXCEPT !.stage = "back"])
    /\ UNCHANGED <<keyPage, requested, accidents, keyFaults>>

\* An error of the API: for a creation the route fails on the missing answer;
\* for a deletion it does not look and reports success.
ServerFails(p) ==
    /\ p \in requests /\ p.stage = "out"
    /\ KeyFault("failed")
    /\ Step(p, [p EXCEPT !.stage = IF p.via = "create" THEN "refused" ELSE "back"])
    /\ UNCHANGED <<keyPage, keys, requested>>

-----------------------------------------------------------------------------
(* The answers.                                                            *)

ListNow == Newest

\* createAPIKey and deleteAPIKey go on to refresh the list.
AskForKeys(p) ==
    /\ p \in requests /\ p.stage = "back" /\ ~ p.lost
    /\ Step(p, [p EXCEPT !.stage = "refresh", !.list = ListNow])
    /\ UNCHANGED <<keyPage, keys, requested, accidents, keyFaults>>

ShownKey(p) == p.key

\* The refresh is through, with the list or with an error nobody sees; then the
\* dialog with the new key takes the place of the form and of an earlier one.
Conclude(p, list) ==
    /\ p \in requests /\ p.stage = "refresh"
    /\ requests' = requests \ {p}
    /\ IF p.via = "create"
       THEN keyPage' = [keyPage EXCEPT !.list = list, !.created = ShownKey(p),
                        !.dialog = FALSE, !.generating = FALSE]
       ELSE keyPage' = [keyPage EXCEPT !.list = list]
    /\ UNCHANGED <<keys, requested>>

KeysRefreshed(p)   == Conclude(p, p.list) /\ UNCHANGED <<accidents, keyFaults>>
RefreshIgnored(p)  == Conclude(p, keyPage.list) /\ KeyFault("failed")
RefreshRefused(p)  == Conclude(p, {}) /\ KeyFault("failed")

\* An error toast; the form stays as it is.
AfterKeyError(p) == IF p.via = "create" THEN [keyPage EXCEPT !.generating = FALSE] ELSE keyPage

RequestRefused(p) ==
    /\ p \in requests /\ p.stage = "refused" /\ ~ p.lost
    /\ requests' = requests \ {p}
    /\ keyPage' = AfterKeyError(p)
    /\ UNCHANGED <<keys, requested, accidents, keyFaults>>

\* The connection breaks: to the page that is an error. The server, whatever it
\* has done by then, may go on to the key or to the deletion.
RequestLost(p) ==
    /\ p \in requests /\ p.stage # "refresh" /\ ~ p.lost
    /\ KeyFault("lost")
    /\ Step(p, [p EXCEPT !.lost = TRUE])
    /\ keyPage' = AfterKeyError(p)
    /\ UNCHANGED <<keys, requested>>

\* Its statements may fail with the connection, and its answer reaches nobody.
Forgotten(p) ==
    /\ p \in requests /\ p.lost
    /\ requests' = requests \ {p}
    /\ UNCHANGED <<keyPage, keys, requested, accidents, keyFaults>>
-----------------------------------------------------------------------------

ApiKeyNext ==
    \/ KeysLoaded \/ KeysNotLoaded \/ OpenKeyDialog \/ CancelKeyDialog
    \/ CloseCreatedKey
    \/ \E name \in KeyNames : PressCreate(name) \/ PressEnter(name)
    \/ \E id \in KeyIds : Delete(id)
    \/ \E p \in requests :
        \/ CheckLimit(p) \/ InsertKey(p) \/ DeleteKey(p) \/ ServerFails(p)
        \/ AskForKeys(p) \/ KeysRefreshed(p) \/ RefreshIgnored(p) \/ RefreshRefused(p)
        \/ RequestRefused(p) \/ RequestLost(p) \/ Forgotten(p)

ApiKeySpec == ApiKeyInit /\ [][ApiKeyNext]_keyVars

-----------------------------------------------------------------------------
(* Safety.                                                                 *)

\* A user has at most MaxKeys keys, unless two creations were under way at
\* once, one of them perhaps given up by the page: the count and the insert are
\* two statements (auth_handler.go:247-287).
KeyLimit == Cardinality(Active) <= MaxKeys \/ "creations" \in accidents

\* With no request under way, the page lists what the server would, unless a
\* refresh failed, a request was lost while the server went on with it, or two
\* refreshes could overtake each other (kontak-providers.tsx:182-196).
ListIsCurrent ==
    requests = {} /\ ~ keyPage.loading => keyPage.list = Newest \/ accidents # {}

\* The secret of every key that was made is put before its user when the
\* creation ends, whatever dialog is open by then, unless the connection was lost.
SecretIsShown ==
    \A p \in requests :
        p.via = "create" /\ p.key # None /\ (\A q \in requests' : q.n # p.n)
            => keyPage'.created = p.key \/ "lost" \in accidents'

\* It stays there until the user closes it, unless two creations were under way
\* at once.
SecretStays ==
    keyPage.created # None /\ keyPage'.created # keyPage.created
        => requests' = requests \/ "creations" \in accidents

\* A secret, which the server never tells again, is shown when its key was made
\* and stays until its user closes it (api-key-client.tsx:95-108, 392-431,
\* kontak-providers.tsx:218-253).
SecretReachesUser == [][SecretIsShown /\ SecretStays]_keyVars
=============================================================================
