--------------------------- MODULE DirectoryPage ---------------------------
(***************************************************************************)
(* The contacts page and the groups page of the web client: a table of     *)
(* what the server has stored for a device, a search, pages of ten, and a  *)
(* synchronisation with the phone; and the toasts both report it with.     *)
(* They are the same program but for the details of a group.               *)
(***************************************************************************)
EXTENDS Browser

CONSTANTS
    DirectoryDevices, \* the devices the page was rendered with
    Entries,          \* contacts or groups
    OnPhone,          \* for each device, what its phone may have, at one time or another
    PageSize,         \* itemsPerPage, 10 in the code
    MaxToasts         \* bound: how many toasts there may be in all

\* What is known of an entry: whether the search text is found in its names.
Listing == [Entries -> {"absent", "found", "other"}]

ASSUME DirectoryAssumption ==
    /\ None \notin DirectoryDevices \cup Entries
    /\ IsFiniteSet(Entries)
    /\ OnPhone \in [DirectoryDevices -> SUBSET Listing]
    /\ PageSize \in Nat \ {0}
    /\ MaxToasts \in Nat

VARIABLES
    view,     \* the kind of page and the state of its component
    table,    \* SWR's cache: no answer yet, or one
    failing,  \* the devices whose last answer was an error
    loads,    \* the answer on its way to a table, if there is one
    syncs,    \* the synchronisations under way
    rows,     \* whatsapp_contacts or whatsapp_groups of each device
    toasts,   \* memoryState: at most one toast
    timers,   \* the toasts with a removal pending
    directoryFaults

directoryVars == <<view, table, failing, loads, syncs, rows, toasts, timers,
                   directoryFaults>>

\* A toast, and what its synchronisation got from the phone.
Toasts == [id : 1..MaxToasts, device : DirectoryDevices, ok : BOOLEAN, open : BOOLEAN,
           names : Listing]

\* What a synchronisation got from the phone, and what of it is not yet stored.
Sync == [device : DirectoryDevices,
         stage : {"out", "storing", "stored", "failed", "refresh"},
         asked : DirectoryDevices, names : Listing, left : SUBSET Entries]

DirectoryTypeOK ==
    /\ view \in [kind : {"contacts", "groups"}, device : DirectoryDevices \cup {None},
                 search : BOOLEAN, page : Nat \ {0}, syncing : BOOLEAN,
                 details : Entries \cup {None}]
    /\ table \in [DirectoryDevices -> SUBSET Listing]
    /\ failing \subseteq DirectoryDevices
    /\ loads \in [DirectoryDevices -> SUBSET Listing]
    /\ syncs \subseteq Sync
    /\ rows \in [DirectoryDevices -> Listing]
    /\ toasts.list \subseteq Toasts /\ toasts.count \in 0..MaxToasts
    /\ timers \subseteq 1..MaxToasts
    /\ directoryFaults \in 0..MaxFaults

NoRows == [e \in Entries |-> "absent"]

\* No device is selected; an earlier synchronisation may have filled the tables.
DirectoryInit ==
    /\ \E kind \in {"contacts", "groups"} :
        view = [kind |-> kind, device |-> None, search |-> FALSE, page |-> 1,
                syncing |-> FALSE, details |-> None]
    /\ table = [d \in DirectoryDevices |-> {}]
    /\ failing = {}
    /\ loads = [d \in DirectoryDevices |-> {}]
    /\ syncs = {}
    /\ rows \in [DirectoryDevices -> Listing]
    /\ \A d \in DirectoryDevices : rows[d] \in OnPhone[d] \cup {NoRows}
    /\ toasts = [list |-> {}, count |-> 0]
    /\ timers = {}
    /\ directoryFaults = 0

DirectoryFault == directoryFaults < MaxFaults /\ directoryFaults' = directoryFaults + 1

swrVars   == <<table, failing, loads>>
toastVars == <<toasts, timers>>

-----------------------------------------------------------------------------
(* Faulty variants of definitions below.                                   *)

\* Another device is shown from the page the last one was left on.
ForDeviceSamePage(d) == [view EXCEPT !.device = d, !.search = FALSE]

\* The status of the answer is not looked at.
SyncedAnyway(p) == p.stage \in {"stored", "failed"}

\* A removal clears the list.
WithoutAll(id) == {}

\* The button of the empty table is never disabled.
SyncButtonAlways == TRUE

-----------------------------------------------------------------------------
(* The table.                                                              *)

Answer == IF view.device = None THEN {} ELSE table[view.device]
Data   == {e \in Entries : \E answer \in Answer : answer[e] # "absent"}

Loading == view.device # None /\ table[view.device] = {} /\ loads[view.device] # {}
Failed  == view.device \in failing

Matching   == {e \in Entries : \E answer \in Answer : answer[e] = "found"}
Filtered   == IF view.search THEN Matching ELSE Data
TotalPages == (Cardinality(Filtered) + PageSize - 1) \div PageSize

\* slice((page - 1) * PageSize, page * PageSize) of the sorted list is not empty;
\* which of the entries it has is left open, they are sorted by their names.
Paginated == IF (view.page - 1) * PageSize < Cardinality(Filtered) THEN Filtered ELSE {}

TableVisible == view.device # None /\ ~ Loading /\ ~ Failed /\ Data # {}

\* A request of SWR for a device's rows; an earlier answer on its way is dropped.
RequestRows(d) == loads' = [loads EXCEPT ![d] = {rows[d]}]

ForDevice(d) == [view EXCEPT !.device = d, !.search = FALSE, !.page = 1]

\* A device is chosen: SWR has a new key. The details of a group are modal.
SelectDevice(d) ==
    /\ d # view.device /\ view.details = None
    /\ view' = ForDevice(d)
    /\ RequestRows(d)
    /\ UNCHANGED <<table, failing, syncs, rows, toastVars, directoryFaults>>

\* SWR asks again when the window has the focus; so does "Retry".
Revalidate ==
    /\ view.device # None
    /\ RequestRows(view.device)
    /\ UNCHANGED <<view, table, failing, syncs, rows, toastVars, directoryFaults>>

TableAnswered(d) ==
    /\ loads[d] # {}
    /\ table' = [table EXCEPT ![d] = loads[d]]
    /\ failing' = failing \ {d}
    /\ loads' = [loads EXCEPT ![d] = {}]
    /\ UNCHANGED <<view, syncs, rows, toastVars, directoryFaults>>

\* An error of the API is answered as an empty list.
TableRefused(d) ==
    /\ loads[d] # {}
    /\ DirectoryFault
    /\ table' = [table EXCEPT ![d] = {NoRows}]
    /\ failing' = failing \ {d}
    /\ loads' = [loads EXCEPT ![d] = {}]
    /\ UNCHANGED <<view, syncs, rows, toastVars>>

\* The route answers 500, or nobody does: what was cached stays.
TableFailed(d) ==
    /\ loads[d] # {}
    /\ DirectoryFault
    /\ failing' = failing \cup {d}
    /\ loads' = [loads EXCEPT ![d] = {}]
    /\ UNCHANGED <<view, table, syncs, rows, toastVars>>

\* The search field, shown beside every table: a new text leads to page one.
Search ==
    /\ view.device # None /\ view.details = None
    /\ view' = [view EXCEPT !.search = TRUE, !.page = 1]
    /\ UNCHANGED <<swrVars, syncs, rows, toastVars, directoryFaults>>

\* The cross in the search field keeps the page.
ClearSearch ==
    /\ view.search /\ view.details = None
    /\ view' = [view EXCEPT !.search = FALSE]
    /\ UNCHANGED <<swrVars, syncs, rows, toastVars, directoryFaults>>

\* The pager, shown if there is more than one page; a page behind the last one
\* turns to the last.
Turn(page) ==
    /\ TableVisible /\ view.details = None
    /\ view' = [view EXCEPT !.page = page]
    /\ UNCHANGED <<swrVars, syncs, rows, toastVars, directoryFaults>>

PreviousPage == TotalPages > 1 /\ view.page # 1 /\ Turn(view.page - 1)
NextPage ==
    /\ TotalPages > 1 /\ view.page # TotalPages
    /\ Turn(IF view.page < TotalPages THEN view.page + 1 ELSE TotalPages)

\* A click on a column's title sorts by it.
Sort == view.page # 1 /\ Turn(1)

ShowGroup(e) ==
    /\ view.kind = "groups"
    /\ TableVisible /\ e \in Paginated
    /\ view.details = None
    /\ view' = [view EXCEPT !.details = e]
    /\ UNCHANGED <<swrVars, syncs, rows, toastVars, directoryFaults>>

CloseGroup ==
    /\ view.details # None
    /\ view' = [view EXCEPT !.details = None]
    /\ UNCHANGED <<swrVars, syncs, rows, toastVars, directoryFaults>>

-----------------------------------------------------------------------------
(* Toasts.                                                                 *)

\* TOAST_LIMIT is one: a new toast takes the place of the last.
AddToast(p, ok) ==
    /\ toasts.count < MaxToasts
    /\ toasts' = [count |-> toasts.count + 1,
                  list |-> {[id |-> toasts.count + 1, device |-> p.device, ok |-> ok,
                             open |-> TRUE, names |-> p.names]}]
    /\ UNCHANGED timers

\* Its time is up or it is closed: it goes out of sight, and a timer is set to
\* remove it from the list.
DismissToast ==
    \E t \in toasts.list :
        /\ t.open
        /\ toasts' = [toasts EXCEPT !.list = {[t EXCEPT !.open = FALSE]}]
        /\ timers' = timers \cup {t.id}
        /\ UNCHANGED <<view, swrVars, syncs, rows, directoryFaults>>

Without(id) == {t \in toasts.list : t.id # id}

RemoveToast(id) ==
    /\ id \in timers
    /\ timers' = timers \ {id}
    /\ toasts' = [toasts EXCEPT !.list = Without(id)]
    /\ UNCHANGED <<view, swrVars, syncs, rows, directoryFaults>>

-----------------------------------------------------------------------------
(* handleSync.                                                             *)

\* The button above the table, and the one of an empty table.
SyncButton      == ~ view.syncing /\ ~ Loading
EmptySyncButton == ~ view.syncing

StartSync ==
    /\ view.device # None /\ view.details = None
    /\ toasts.count + Cardinality(syncs) < MaxToasts
    /\ syncs' = syncs \cup {[device |-> view.device, stage |-> "out", asked |-> view.device,
                             names |-> NoRows, left |-> {}]}
    /\ view' = [view EXCEPT !.syncing = TRUE]
    /\ UNCHANGED <<swrVars, rows, toastVars, directoryFaults>>

PressSync == SyncButton /\ StartSync
PressSyncEmpty ==
    /\ view.device # None /\ ~ Loading /\ ~ Failed /\ Data = {}
    /\ EmptySyncButton
    /\ StartSync

SyncStep(p, q) == syncs' = (syncs \ {p}) \cup {q}

\* The server asks the phone what it has by now.
Fetch(p, names) ==
    /\ p \in syncs /\ p.stage = "out"
    /\ names \in OnPhone[p.device]
    /\ SyncStep(p, [p EXCEPT !.stage = "storing", !.names = names,
                             !.left = {e \in Entries : names[e] # "absent"}])
    /\ UNCHANGED <<view, swrVars, rows, toastVars, directoryFaults>>

FetchContacts(p) == view.kind = "contacts" /\ \E names \in OnPhone[p.device] : Fetch(p, names)
FetchGroups(p)   == view.kind = "groups" /\ \E names \in OnPhone[p.device] : Fetch(p, names)

Upserted(p, e) == [rows EXCEPT ![p.device][e] = p.names[e]]

\* It stores one entry after another, over the names that were stored before.
\* Nothing is ever deleted.
Upsert(p, e) ==
    /\ p \in syncs /\ p.stage = "storing" /\ e \in p.left
    /\ rows' = Upserted(p, e)
    /\ SyncStep(p, [p EXCEPT !.left = @ \ {e}])
    /\ UNCHANGED <<view, swrVars, toastVars, directoryFaults>>

AllStored(p) ==
    /\ p \in syncs /\ p.stage = "storing" /\ p.left = {}
    /\ SyncStep(p, [p EXCEPT !.stage = "stored"])
    /\ UNCHANGED <<view, swrVars, rows, toastVars, directoryFaults>>

\* The phone does not answer, or an upsert fails and the rest is left out.
StoreFails(p) ==
    /\ p \in syncs
    /\ p.stage = "out" \/ (p.stage = "storing" /\ p.left # {})
    /\ DirectoryFault
    /\ SyncStep(p, [p EXCEPT !.stage = "failed"])
    /\ UNCHANGED <<view, swrVars, rows, toastVars>>

Synced(p) == p.stage = "stored"

\* mutate() asks for the rows of whatever device is selected by now.
SyncAnswered(p) ==
    /\ p \in syncs
    /\ Synced(p)
    /\ RequestRows(view.device)
    /\ SyncStep(p, [p EXCEPT !.stage = "refresh", !.asked = view.device])
    /\ UNCHANGED <<view, table, failing, rows, toastVars, directoryFaults>>

\* mutate() is done, with whatever result.
SyncDone(p) ==
    /\ p \in syncs /\ p.stage = "refresh" /\ loads[p.asked] = {}
    /\ syncs' = syncs \ {p}
    /\ view' = [view EXCEPT !.syncing = FALSE]
    /\ AddToast(p, TRUE)
    /\ UNCHANGED <<swrVars, rows, directoryFaults>>

SyncFailed(p) ==
    /\ p \in syncs /\ p.stage = "failed"
    /\ syncs' = syncs \ {p}
    /\ view' = [view EXCEPT !.syncing = FALSE]
    /\ AddToast(p, FALSE)
    /\ UNCHANGED <<swrVars, rows, directoryFaults>>
-----------------------------------------------------------------------------

DirectoryNext ==
    \/ \E d \in DirectoryDevices :
        SelectDevice(d) \/ TableAnswered(d) \/ TableRefused(d) \/ TableFailed(d)
    \/ Revalidate \/ Search \/ ClearSearch
    \/ PreviousPage \/ NextPage \/ Sort
    \/ \E e \in Entries : ShowGroup(e)
    \/ CloseGroup \/ PressSync \/ PressSyncEmpty \/ DismissToast
    \/ \E id \in 1..MaxToasts : RemoveToast(id)
    \/ \E p \in syncs : \/ FetchContacts(p) \/ FetchGroups(p)
                        \/ \E e \in Entries : Upsert(p, e)
                        \/ AllStored(p) \/ StoreFails(p)
                        \/ SyncAnswered(p) \/ SyncDone(p) \/ SyncFailed(p)

DirectorySpec == DirectoryInit /\ [][DirectoryNext]_directoryVars

-----------------------------------------------------------------------------
(* Safety.                                                                 *)

PageInRange == view.page = 1 \/ view.page <= TotalPages

\* Whatever is typed, cleared, sorted, turned or chosen, in any order and with any
\* answers on their way: the page number comes to point behind the last page only
\* by an answer that is taken into the table, one with fewer rows or fewer matches
\* (contacts-management-client.tsx:129-144, 295-299, 335-350).
GestureKeepsPage ==
    [][PageInRange /\ ~ PageInRange' => table' # table]_directoryVars

\* A toast reports success only of a synchronisation that stored everything the
\* phone had answered, under the names it had answered as long as no other is under
\* way, whatever failed half way (contacts-management-client.tsx:146-169,
\* store.go:186-217).
SuccessMeansStored ==
    \A t \in toasts.list : t.ok =>
        \A e \in Entries : t.names[e] # "absent" =>
            /\ rows[t.device][e] # "absent"
            /\ syncs = {} => rows[t.device][e] = t.names[e]

\* The buttons spin exactly while a synchronisation is under way, and there is
\* one at a time, although two buttons start it and a device may be chosen
\* meanwhile (contacts-management-client.tsx:146-169, 223, 391).
OneSyncAtATime ==
    /\ view.syncing <=> syncs # {}
    /\ \A p, q \in syncs : p = q

\* A report stays in sight until it is dismissed or a newer one replaces it: the
\* removal that was set for an earlier toast takes only that one
\* (use-toast.ts:59-75, 118-128).
ToastStays ==
    [][\A t \in toasts.list :
        t.open /\ t \notin toasts'.list
            => \/ toasts'.count > toasts.count
               \/ t.id \in timers']_directoryVars
=============================================================================
