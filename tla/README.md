# kontak in TLA+

kontak is a WhatsApp gateway: a Go server with an HTTP API, one whatsmeow
client per paired device, PostgreSQL, and a web client in React.  This
directory models the server's own logic (`pkg/wa`, `pkg/http`, `pkg/app` and
the SQL in `sql/queries`) and the pages of the web client (`web/src`), each
with the part of the server it talks to.  The repository has no tests.  On the
server hardly two statements share a transaction; the models ask what survives
when goroutines interleave between statements, statements and sends fail,
events come twice or out of order, and the process dies.  In the browser every
handler stops at an `await`, SWR polls, and dialogs outlive their requests; the
models ask what survives when the user goes on clicking meanwhile and answers
come late, as errors, or not at all.

Paths and line numbers below are relative to `src/`; those of the web client
to `src/web/src/`, and of its pages to `src/web/src/app/(admin)/`.

## The system

| component | state | operations | meets the others through |
|---|---|---|---|
| Broadcast worker (`pkg/wa/broadcast_service.go`, `pkg/http/broadcast_handler.go`, `ScheduleMessage` in `pkg/http/inbox_handler.go`) | rows of `broadcast_jobs`, `broadcast_recipients`; the goroutine's batch, job, recipients | create a broadcast, schedule a message, tick, begin a job, send, record, complete | the job tables (handlers write, worker reads and writes), `message_logs`, `message_threads`, `SendMessage` of the client |
| Inbox (`pkg/http/inbox_handler.go`, `pkg/wa/core_event_handler.go`) | rows of `message_logs`, `message_threads` | send text, new chat, media; incoming message; receipt; mark read | whatsmeow's event callback, HTTP, the two tables |
| Event subscriptions (`pkg/wa/subscription_store.go`) | rows of `device_subscriptions`; a map under a read/write lock | update, load at start, ask | the gate at the top of every event (`core_event_handler.go:39`) |
| Device life cycle (`pkg/wa/core.go`, `core_device.go`, `core_pairing.go`, `core_event_handler.go`) | the map `runningClients`; `jid`, `qr_code`, `is_connected` in `clients` | Start, QR pairing, connect and disconnect, connection events | everything that sends |
| Directory (`pkg/wa/store.go`, `device_store.go`) | `whatsapp_groups`, `whatsapp_contacts` | synchronise | the tables of the web client |
| API keys (`pkg/http/auth_handler.go`) | `api_keys` | create, list, delete | the provider of the web client |
| Templates (`pkg/http/message_template_handler.go`) | `message_templates` | create, update, delete | server actions of the web client |
| Login, sessions, middleware (`web/src/lib/auth.ts`, `proxy.ts`, `components/login-form.tsx`, `Login` in `pkg/http/auth_handler.go`) | better-auth's users in memory, one cookie for all tabs, what each tab shows | sign in, open a page, sign out, expire | the cookie; the API's token in it goes with every request |
| Migrations (`pkg/migrations`) | the schema | run at start | everything |
| Web client: inbox page, new-message dialog, broadcast page, contacts and groups, API keys, templates, devices with their dialogs, the page of a QR code, registration | React state, the provider's state, SWR's caches, toasts | what the user clicks and types; polls; answers | `/api/kontak` routes, server actions, `kontakClient` |
| Dashboard, documentation, sidebar, UI kit, generated types | - | - | - |

What is hard.  On the server: the worker and the handlers share rows without a
lock; a job's state is persisted before its work is done; a message is sent
before it is recorded; an event is two or three statements; the two statements
of MarkRead fit around those of an arriving message; a cache is filled outside
the statement it copies; `runningClients` is an unguarded map that several
Starts, event handlers and QR watchers of one device write.  In the browser: a
handler's state is from before its `await`; a dialog stays mounted when it is
closed; one flag serves several buttons; a cache outlives what it was asked
for; `fetch` does not throw on an error status, and several routes and the
generated client turn an error into something that looks like an answer.

What should be true of them, component by component:

- *Broadcast*: no message twice, none to the wrong person, none early, no row
  that claims a delivery, every due job picked up and settled.
- *Inbox*: the history says what the outside world reported, never loses a
  report, agrees with the answers given; the badge covers what is unread;
  what arrives is logged.
- *Subscriptions*: the gate follows the table; the dialog shows and stores the
  settings in force.
- *Life cycle*: a client that is logged in is in the map; a QR code is shown
  only while somebody waits for it and is taken back, but for the exits of the
  watcher that leave it; pairing leaves a JID.
- *Directory*: "synchronised" is said of what is stored; no gesture of the user
  leads behind the last page of a table.
- *API keys*: a limit of five; a secret reaches its user before it is gone.
- *Templates*: an edit changes what was edited, and nothing else does.
- *Sign-in*: a session is of one account, whoever signs in or out in which tab;
  an account has one user.
- *Every page*: what is submitted once is done once; what is shown belongs to
  what it is headed by; what is reported done is done; typed text is not lost.

Every hazard, with its line and the property that watches it, is in
`PROJECT.json`.

## Modules

| module | what it is |
|---|---|
| `Broadcast` | the job tables, the two creating handlers, user deletion, the worker |
| `OnceDelivery` | what that pipeline promises, without worker, clock or faults |
| `Inbox` | the history and thread tables of one device and everything that writes them |
| `Subscriptions` | the subscription rows, their copy and overlapping updates |
| `DeviceLifecycle` | one device: its row, the map, its Starts, QR watchers, events |
| `Browser` | what the pages share: absent values, the bound on failing requests |
| `ThreadPage` | the inbox page: conversations, thread, compose box, polling |
| `NewMessagePage` | the new-message dialog and what it shares with that page |
| `BroadcastPage` | the broadcast form, the history, the details sheet |
| `DirectoryPage` | the contacts and groups pages, synchronisation, toasts |
| `ApiKeyPage` | the page of API keys, its provider and the handlers behind it |
| `TemplatePage` | the template cards and dialogs, the server actions, the rows |
| `SubscriptionsPage` | the subscriptions dialog over the store of `Subscriptions` |
| `DevicePage`, `PairingDialog`, `RegisterPage` | the devices page: cards and orders, QR codes, registration |
| `SignIn` | login form, better-auth plugin, cookie, middleware, sign-out |
| `WebApp` | the web client: the pages composed, and what they promise alike |
| `MCBroadcast`, `MCInbox`, `MCSubscriptions`, `MCWebApp` | their instances for TLC |
| `BroadcastProofs`, `InboxProofs`, `SubscriptionsProofs`, `DeviceLifecycleProofs`, `ThreadProofs`, `NewMessageProofs`, `BroadcastPageProofs`, `WebAppProofs` | theorems |

In each server module there is one action per statement or send, because
anything may come between two of them; what Go does between two statements is
part of the action of the first.  A failing statement takes effect or not and
reports an error in both cases; where the code drops the error, the action goes
on, where it returns, the action returns.  `Faults` says which kinds of failure
a run admits.

In each page module a handler runs up to its `await` in one action and goes on
in another when the answer arrives, with the values its closure holds; what the
server does in between is an action of its own.  React runs one handler at a
time.  A control that is disabled, hidden or behind a modal dialog is a guard;
SWR keeps an answer under the key it was asked for and drops an earlier answer
to the same key.

Each module has a short section of *faulty variants*: definitions in which a
plausible bug is planted.  No specification uses them; they are there to see
that each property can tell the code from something worse.  A property that is
a conjunction of named parts has a variant for each.

### Broadcast

`request`, `createdAt`, `status`, `rcpt` are the columns of the two job tables;
`logged` and `threaded` are the inbox rows the worker writes; `todo` is a
handler's loop over its recipients; `wpc`, `batch`, `cur`, `queue`, `target`,
`result` are the worker's program counter and locals; `sends` counts what
WhatsApp accepted (no part of the program knows it).

| action | code |
|---|---|
| `CreateBroadcast`, `ScheduleMessage` | `broadcast_handler.go:48`, `inbox_handler.go:442`, up to the INSERT of the job |
| `CreateBroadcastRecipient` | one turn of `broadcast_handler.go:101`; the single INSERT of ScheduleMessage |
| `DeleteUser` | `cmd/cli-tui/main.go:131` with ON DELETE CASCADE (a user without API keys: that foreign key does not cascade) |
| `GetPendingBroadcastJobs` | a tick, `broadcast_service.go:34`, that finds jobs |
| `BeginJob`, `BeginJobFails` | `:72` |
| `GetPendingRecipients`, `...Fails` | `:81` |
| `SendSucceeds`, `SendFails` | `:97`, `:137` |
| `LogOutgoingMessage`, `UpsertThread` | `:152`, `:171` |
| `UpdateBroadcastRecipientStatus` | `:108` |
| `CompleteJob` | `:128` |
| `Crash` | the process dies, or is shut down: `kontak.go:117` gives the worker a context nobody cancels |

Left out: names, contents and message types (the worker sends every job as
text); the two GET handlers; the ten-second period of the ticker (any moment
may be a tick) and the pause between sends; created_at ties are broken
arbitrarily, recipients are walked in any order (their order is that of random
ids).

`OnceDelivery` says what remains if one forgets all that: jobs are claimed once
and one after the other, a job's plan is the set of recipients listed at that
moment, they are attempted one at a time and at most once each, an outcome is
written at most once, by the attempt it is about, and is truthful; a job is done
when all of its plan was attempted, and one that is not done may be closed at
any time.  `DeliversOnce` is the refinement.

### Inbox

`log` is the status column of `message_logs` by WhatsApp message id, `preview`
and `unread` are the thread; `hpc`, `epc`, `mpc` are the sending handlers, the
event handler and the MarkRead calls.  `Origin` says who writes a message (a
contact, the paired phone, a handler), `Kind` what `handleIncomingMessage`
makes of its content; `audio` is a kind of its own because the CHECK of
`message_type` refuses it.

| action | code |
|---|---|
| `SendSucceeds`, `SendFails` | `inbox_handler.go:210, 268, 377` |
| `LogOutgoingMessage`, `LogOutgoingMessageFails` | `:217, 274, 395` and the returns after them |
| `UpsertSentThread` | `:230, 288, 410` |
| `HandleIncomingMessage`, `DropMessage` | `core_event_handler.go:37-231` |
| `UpsertIncomingThread`, `LogIncomingMessage` | `:238`, `:252` and `:272` |
| `HandleReceipt` | `:290`, one action per id in a receipt |
| `MarkConversationRead`, `ResetThreadUnread` | `inbox_handler.go:317, 326` |

whatsmeow hands one client's events to the handler one at a time, so the event
handler has one program counter; one MarkRead call per chat runs at a time, any
number in sequence.  Content of none of the known kinds takes the same step as
an event that is switched off.  Receipts are a set from which the handler takes in any
order and as often as it likes: they may be late, doubled, reordered or lost.
`uncounted` is a history variable: the chats whose badge may miss an unread
message, because the last reset came over one or the statement that counts one
failed.

Left out: the contents, media files on disk, timestamps; messages sent through
`/v1/chats`, which are never logged; the worker's rows (in `Broadcast`); a
second device of the same server, whose rows of the same message the unique
index on WhatsApp ids would refuse.

### Subscriptions

`row` is the table of one device, `cache` the map in memory.  A call walks its
request in any order (Go ranges over a map): `StoreSetting` is the statement
(`subscription_store.go:74`), `CopyUnderLock` the section under the lock
(`:86-92`); `Crash` includes `Load` (`:24`).  `unsettled` is a history variable:
event types whose last update failed, or was stored while another call had
stored and not yet copied one.  `DeleteDeviceSubscriptions` has no caller.

### DeviceLifecycle

`client` is the row, `running` the map's entry, and each Start has a client of
its own: `pc` is where Start or its QR watcher is, `session` whether it has an
identity, `link` its websocket, `happened` the event it is about to hand over,
and between its statements, where the handler of a pairing is.

| action | code |
|---|---|
| `ConnectDevice`, `GetDeviceQR` | the two handlers that call Start (`device_handler.go`) |
| `MakeClient`, `PutInMap`, `OpenWebsocket`(`Fails`) | `core.go:42-82`: guard, store, map write, Connect |
| `ReceiveCode`, `ReceiveSuccess`, `ReceiveTimeout`, `ClearCode` | `core_pairing.go:18-28, 35-41` |
| `ReceiveOther` | the `default` branch, `core_pairing.go:29` |
| `DropEvent`, `StoreJid`, `StorePaired`, `HandleRefused`, `HandleConnected`, `HandleDisconnected`, `HandleLoggedOut` | `core_event_handler.go:37-153`; the two statements of `handlePairSuccess` are two actions |
| `DisconnectDevice`, `DeleteFromMap` | `core_device.go:49-56` in its two steps |
| `RunOutOfCodes`, `Scan`, `RefusePairing`, `Login`, `LoseConnection`, `Unlink` | whatsmeow, the phone, the network |
| `DeviceCrash` | the process dies, or Start panics without an identity to connect; it starts again |

A watcher's loop ends in three ways: with "success" or "timeout" it clears the
row, and with any other last item (a pairing error, an outdated client, an
unexpected state) it only logs, the channel is closed, and the code stays in the
row although nothing failed.  `leftover` is the history variable that says the
row has such a code; a clearing statement that failed and the death of the
process set it too, and a later code or a later clearing resets it.  `trouble`
is the other one: entries of the map that were replaced, another client's that
was deleted and clients disconnected too early ("mixed"), failed statements, and
crashes.  The properties say that nothing else breaks them.  Left out: presence,
which changes no state; `is_connected` is kept in the row, and no property is
about it, because disconnecting by hand leaves it true.

### The pages

Names of actions are those of the user's gesture or of the code's function.
Every page has a server reduced to what it sees, and a history variable
(`overlaps`, `mishaps`, `accidents`, `odd`, `outside`, `again`, `raced`) that records the
overlaps its code has no answer to; a property names those it excuses.

| module | state of the component | its server | left out |
|---|---|---|---|
| `ThreadPage` | `open`, `compose`, SWR's `shown`, `badges` | the log by conversation, the unread rows | previews, dates, emoji, scrolling |
| `NewMessagePage` | `inbox`, `dialog`, `form` | what it has taken | formatting buttons, the preview |
| `BroadcastPage` | `list`, `sheet`, `draft`, `details` | the jobs | formatting, message preview; the worker, in `Broadcast` |
| `DirectoryPage` | `view`, SWR's `table`, `toasts`, `timers` | the rows of each device, the phone | the order of rows, wording |
| `ApiKeyPage` | `keyPage` (component and provider) | `api_keys` of one user: count, then insert | hashes, prefixes, copying |
| `TemplatePage` | `cards`, `editor`, `deleting` | `message_templates` | variables, search |
| `SubscriptionsPage` | `settings`, `switches`, `opened` | all of `Subscriptions`; other clients update too | wording |
| `DevicePage` | `statuses`, the provider's `flags` | who is connected | names, avatars |
| `PairingDialog` | `pairing`, SWR's `codes`; the dialog or the page of one device | what it would answer | the image |
| `RegisterPage` | `place`, `typed` | the rows | the fields besides the number |
| `SignIn` | `tabs`, `opening`, `signIns` | `cookie`, better-auth's `users`; the API's accounts | hashes, bytes of tokens |

Texts are written once each, so that a second row of a text is a second
submission of it; the user may repeat a submission that seems to have failed.

Three of the servers need a word more.

*A directory* is what the upserts make of it: `Listing` says of each entry
whether it is stored and whether the search text is found in its names, the
phone may answer with different names at different times (`OnPhone`), and an
upsert overwrites what was stored, as `ON CONFLICT DO UPDATE` does
(`whatsapp_contacts.sql:10-15`, `whatsapp_groups.sql:9-13`).  The matches of a
search can therefore shrink under a page number that nothing in the code
clamps: eleven matches, page two, a contact renamed on the phone, Sync, and the
page is empty and its pager hidden.  An error of the API shrinks a table too:
it is answered as an empty list.  Both are in the model; `GestureKeepsPage`
says that an answer is the only way to get there.

*Creating an API key and the templates' actions* go on in the server when the
connection to the browser is lost: the page forgets the request (`Forgotten`),
the effect comes later, between any two other steps.

*Signing in* asks the API first, with the email trimmed and in lower case, and
then finds or makes a user of better-auth's own, which it keeps in memory; the
session, with the API's token, is in a cookie.  Every step may fail and the form
shows one error for all; a lost answer leaves the server going on; a restart of
the web server forgets the users and keeps the sessions.  Emails of the API are
compared as they are, so an account registered with capital letters cannot sign
in.  A tab keeps its page of one account when another tab signs in with another,
until it asks for a new one.

### WebApp

The pages share no component state: leaving one unmounts it, and SWR's keys of
different pages differ.  `route` is the page that is open; a behaviour opens one
page and stays there.  The new-message dialog and the thread of the inbox page
are two routes: what they share, device and conversation, is in
`NewMessagePage`, and `ThreadPage` takes any selection.  `AtRest` gives a page
that is not open one initial state, which changes nothing about the open one.

What several pages promise alike is stated once: `SubmittedOnce`, `ToldIsDone`,
`ListsAreCurrent`, `FlagsFollowRequests`, `LateAnswersStayApart`,
`ThreadCatchesUp`.

## What the runs check

All runs admit every interleaving.  "Statements fail" means every statement may
fail, with or without effect.

| run | instance | shows |
|---|---|---|
| `broadcast_jobs` | 2 jobs, 1 recipient, statements and sends fail, the user deleted, 1 crash, fairness | types; `NoPhantomDelivery`: "sent" and each history row are about one accepted message; `OnlyAsRequested`: not early, not to others; `AtMostOnce`; `OutcomeIsFinal`; `DeliversOnce`, the refinement of `OnceDelivery`; `DueJobIsPickedUp` |
| `broadcast_settle` | 2 jobs, 2 recipients, sends fail, 1 crash, fairness | `RowsFollowWorker`: until a crash the rows are the truth about the worker; `NoOvertaking`: unscheduled jobs begin in creation order; `PickedUpJobIsSettled` |
| `broadcast_late_recipient` | 1 job, no fault | **violated** `CompletedMeansAllTried`, finding 1 |
| `broadcast_lost_schedule` | 1 job, 1 crash, fairness | **violated** `ScheduledMessageIsTried`, finding 2 |
| `inbox_status` | one text of a contact, one media message of ours, one text of the phone, in one chat; statements and sends fail, events are dropped, 2 deliveries each, 1 MarkRead, 1 crash | types; `StatusIsReported`; `NoWayBack`; `AnswerMatchesHistory`; `BadgeCoversUnread` |
| `inbox_arrival` | a text, a media and a voice message of a contact in one chat, 2 deliveries each, 1 MarkRead, 1 crash, fairness | `ArrivedIsLogged` |
| `inbox_mark_race` | 2 incoming texts, 1 MarkRead, no fault | **violated** `ZeroBadgeMeansAllRead`, finding 3 |
| `inbox_voice` | a voice message and a text of ours, no fault | **violated** `AcceptedIsNotAnError`, finding 4 |
| `subscriptions_flip` | overlapping updates, no fault | **violated** `SettledCopyIsStored`, finding 5 |
| `web_pages` | every page, 2 devices, 2 tabs, 1 failing request, the store with 2 overlapping updates and a crash (1 444 255 distinct states) | see below |
| `web_live` | the inbox page; one device with 2 Starts, muted or not, 1 failing statement, 1 crash; fairness (260 975 distinct states) | `QrHasWatcher`, `LoggedInIsInMap`, `PairedHasJid`; `ThreadCatchesUp`; `CodeIsTakenBack` |
| `web_add_device` | registration, no fault needed | **violated** `FailureIsAFailure`, finding 6 |

`web_pages` checks, beside the types:

| property | says | unless |
|---|---|---|
| `SubmittedOnce` | a reply is logged once, a message taken once, a broadcast created once, a device registered once | Ctrl+Enter under a send, a lost answer, a second press or submission of the registration |
| `OnlyAnsweredIsCleared` | a text leaves the form of a new message only with the answer to it | it was typed under a send |
| `LateAnswersStayApart` | messages and QR codes are of the conversation and the device they are shown under, however late they come | |
| `ChatIsOfDevice`, `RecipientsAreOfDevice`, `RecipientsAreOfJob` | the open conversation, the recipients chosen and the recipients listed are of the device or broadcast they are headed by | the device changed under a send; rows clicked under an answer, or a failed one |
| `ToldIsDone` | "synchronised", "saved", "updated" are said of what was stored | the API's error is taken for a template or for success by the route, somebody else wrote, an answer was lost |
| `ListsAreCurrent` | keys and templates listed are the server's when nothing is under way | a refresh failed, was lost, or could be overtaken |
| `FlagsFollowRequests` | a button spins exactly while its request is under way, and there is one of a kind | |
| `GestureKeepsPage` | no search, sort, turn, choice of a device or press of a button leaves the page number behind the last page | an answer with fewer rows or matches is taken into the table |
| `ToastStays` | a report stays until dismissed or replaced | |
| `KeyLimit` | at most the limit of keys | two creations under way at once |
| `SecretReachesUser` | the secret of a new key is shown, and stays until closed | a lost answer, two creations at once |
| `OnlyEditedChanges` | a template changes only by its own edit dialog | |
| `FirstSwitchesAreStored` | until its first save the dialog shows the settings in force | others write, the API fails |
| `SessionIsOfOneAccount` | the session's user and its token are of one account, a page is of an account the API has accepted, an account has one user however it is typed | two submissions found no user at the same time |
| `CopyHasRow`, `CopyIsCurrent` | gate and table of the store agree, under the dialog's calls and those of others | as in *Subscriptions* |

Runs do not check for deadlock where the system may rest: a chat where nothing
arrives, settings nobody updates, a user who stops clicking.

### Findings

1. `broadcast_service.go:81`.  The tick may come between the INSERT of a job
   and those of its recipients.  The worker reads an incomplete list, completes
   the job, and the recipients inserted later stay "pending" for ever.
2. `broadcast_service.go:72`.  A job is "processing" before anything is sent,
   and only "pending" jobs are selected: a restart in between and the scheduled
   message never leaves.  (The same choice is what makes `AtMostOnce` true.)
3. `inbox_handler.go:326`.  A message that arrives between the two statements
   of MarkRead stays unread under a badge of zero.
4. `inbox_handler.go:395`.  Voice messages are sent, but `message_logs` refuses
   the type "audio": the answer is 500 and the history has no row.
5. `subscription_store.go:86`.  Two updates may store in one order and copy in
   the other; the gate then contradicts the table.
6. `clients/add-device-dialog.tsx:63`.  The form looks for `success` in the
   answer, which is the row of the new device and has none: the device is
   registered, the form says "Failed to register device" and stays filled.

The exceptions in the table above are what the code does as well.  They are
not listed as findings because no text of the repository says otherwise.  Read
beside the models, not checked: "Duplicate" opens the template dialog with an
empty `id`, which the schema of the update action refuses, so that it always
fails (`messages/template-management-client.tsx:35-42`, `actions.ts:14-16`); the
settings SWR keeps are not renewed by a save, so that the dialog shows the old
ones when it is opened again; a thread shows the oldest hundred messages.

### Bounds

- `MaxTime = 1`: one instant before and one after a scheduled message is due.
- `MaxCrashes = 1`: crash, recovery, and everything after; the theorems have no
  such bound.
- Two jobs: every property of the worker is about one job or a pair.  One
  request has a `scheduled_at` that does not parse; requests that name a
  recipient twice are in the instances of the findings and in the theorems.
- One device, one user: jobs of different devices meet only in the worker,
  whose order does not look at the device.
- `MaxDeliveries = 2`: a message and its repetition.  `MaxMarks = 1`: a call that
  comes before, between or after the arrivals; the theorem has no such bound.
- Pages: two devices, conversations, recipients or keys (what belongs to one
  must not show under the other); two presses, three registrations, four
  broadcasts with the two of earlier days (a submission and its repetition);
  `MaxFaults = 1`, so that an excuse by a fault and a property broken by
  something else are told apart; a page size of one, so that two rows are two
  pages; `MaxKeys = 2` with three requests (the limit is reached by two and
  tried by a third); `PageLimit` is not below the messages there are, because
  the thread page asks for the oldest.
- A search that finds some names and not others, and a phone whose contact is
  renamed between two synchronisations: rows and matches grow and shrink.  Two
  tabs, two submissions (`MaxSignIns`), two accounts, one of them typed with a
  capital letter: two sign-ins overlap, of one account or of two.
- One event type in `web_pages`: overlapping updates of it, a crash between row
  and copy; that event types do not disturb each other is in the theorem.
- `MaxStarts = 2`, and a Start that is restarted after a crash: every overlap in
  the code is of two Starts.

`Seq` and `Nat` appear only in type invariants, where TLC tests membership.

### Fairness

*Broadcast.*  `WF(WorkerProgress \/ WorkerError)`: the goroutine runs whenever
it can, and its ticker fires again.  `SF(BeginJob(j))`: a database that fails
now and then does not refuse the first statement of the same job for ever; weak
fairness would not do, as the worker leaves and returns to that statement.
`WF(Tick)`: time passes.  Requests, sends, devices, user deletion and crashes
are owed nothing.

*Inbox.*  `WF(EventHandler)`: WhatsApp delivers what it accepted, and the
handler, which has no loop and no wait of its own, returns.  Nothing is assumed
of receipts, users or MarkRead.  A crash may lose the message in hand, because
whatsmeow has acknowledged it: `ArrivedIsLogged` allows for that.

*ThreadPage.*  Weak fairness of SWR's two timers (three and five seconds, while
the page is open), of the answers to its polls and of the mark-read request:
timers fire and a server that runs answers.  An answer may be an error as often
as `MaxFaults` allows.

*DeviceLifecycle.*  Weak fairness of the watcher goroutine, of whatsmeow running
out of codes (it has a fixed number of them, each with a time limit) and of its
handing over the event of a pairing.  Starts, scans and users are owed nothing.

The liveness properties of both have the form `[]<>`: the state they ask for
returns for ever.  `CodeIsTakenBack` says that the row is
again and again without a code, unless its watcher has left it one.

The other pages have no liveness property: what follows an answer there is up
to the user.

## What is proved

The theorems hold for every value of the constants that satisfies the named
assumption of the module (`BroadcastAssumption`, `InboxAssumption`,
`SubscriptionsAssumption`, `DeviceAssumption`, `BrowserAssumption` and one
assumption per page): any number of jobs, messages, devices, texts, clicks,
crashes and faults.  The assumptions only say what the constants are, for
instance that `None` is no device; `InboxAssumption` also says that there are
finitely many messages, which counting needs.  Where a theorem assumes more
(that statements succeed, that there are finitely many jobs, that two calls do
not overlap), its statement says so.

Every proof has the same shape: a type invariant, a strengthening that is
inductive, one step per action, and a temporal step that puts them together.
The strengthening is where the reason is.

**BroadcastProofs.**  `TypeCorrect`; `AtMostOnceDelivery`, `NoPhantom`,
`AsRequested` for `AtMostOnce`, `NoPhantomDelivery`, `OnlyAsRequested`.
`AtMostOnce` alone is not inductive: it says nothing of why a job is not begun
again.  `OnceInv` adds that a job is pending, in the batch, in hand, or
finished with, and never two of them; that nothing of an unbegun job was
sent; and that whoever is in the queue was not sent to.  `PhantomInv` adds what
the worker's local `result` claims while it is between the send and the
statements after it, `RequestInv` that every row, every entry of a handler's
loop and of the queue comes from the request.
`OutcomeInv` (`OutcomeStays`) says that whoever is in the queue or at hand has
no outcome yet, so that a late insert or a repeated run finds nothing to
overwrite.  `RowsTellTheTruth` follows from what an undisturbed worker leaves
behind at each of its steps.  `BatchInv` (`BegunInOrderOfCreation`) says that, as
long as no statement fails, the batch holds whatever is older than an
unscheduled pending job that it leaves out.
`PipelineDeliversOnce` is the refinement: under the invariants above, each step
of the pipeline is a step of `OnceDelivery` or a stutter, with the plan of a job
read off the worker's queue and the attempt in hand off its `target`.  It is
here that one worker means one job at a time (`JobsOnce`), that a row is written
only by the attempt it is about, and that "completed" comes after the last of
the plan.
`OnlyLateRecipientsAreMissed` turns finding 1 round: as long as no statement
fails, `CompletedMeansAllTried` holds of every behaviour in which the list is
read after the last INSERT of the handler (`FetchesComplete`), through crashes,
failing sends and deleted users.  `CompleteInv` says that such a job has no
recipient left to insert, and that a row still pending is in the queue or at
hand.
`AJobIsAlwaysNext` and `EveryTickEnds` are what can be said of the worker's
progress without fairness.  With finitely many jobs, a worker that picks has a
batch (`BatchNotEmpty`), and a finite batch has an oldest job, because the
order of creation on it is well-founded.  `StepsLeft` counts seven steps at most for a job with
one recipient and four more for each further one; it is a natural number with
a bound, and every step of the worker outside of "idle", failing or not, lowers
it.

**InboxProofs.**  `TypeCorrect`, `StatusCorrect`, `AnswersCorrect`,
`StatusNeverReturns`, `BadgeCorrect`.  The first layer ties program counters to
their locals and origins; the second (`HistoryInv`) adds that receipts of an
incoming message are only "read" and that a handler past its INSERT has a row.
The badge needs the unread rows *plus* the message the event handler has
counted and not yet inserted: `Cardinality(Counted(c)) <= unread[c]`, where
each step changes that finite set by at most one element or empties it.
`OnlyOverlapsHideUnread` and `OnlyVoiceIsRefused` turn findings 3 and 4 round:
while statements succeed, `ZeroBadgeMeansAllRead` holds of every behaviour in
which no reset comes over an arrival (`MarksDoNotOverlap`), through redeliveries,
dropped events and crashes; and while sends succeed as well,
`AcceptedIsNotAnError` holds unless a handler sends "audio", because the row of a
message a handler has not logged is inserted by nobody else (`RowIsOwn`).
`NothingIsLostOnTheWay` is the safety half of `ArrivedIsLogged`.

**SubscriptionsProofs.**  `TypeCorrect`, `CopyHasRowCorrect`,
`CopyIsCurrentCorrect`.  The invariants say what a call between statement and
copy carries: its event type has a row, and where the type is settled it is
the only such call and holds the row's value.  `OnlyOverlapsFlip` turns finding
5 round: without failing statements, `SettledCopyIsStored` holds of every
behaviour in which no update stores a setting while another one of the same
event type has yet to copy its own.

**DeviceLifecycleProofs.**  `LifecycleTypeCorrect`, `QrCodeHasWatcher`,
`LoggedInClientIsInMap`, `PairedDeviceHasJid`, for any number of overlapping
Starts.  `QrHasWatcher` and `PairedHasJid` are inductive with the types: whoever
takes a watcher out of its loop without clearing the row records the code in
`leftover`, whatever the last item of the channel was, and the event of a scan
is past its first statement only when that has written the row.  `MapInv` says that
the entry of the map was made, that a websocket that is open or about to be
opened is the entry's, and that a client about to be removed was disconnected,
the last two unless one of the overlaps in `trouble` has happened.

**ThreadProofs, NewMessageProofs, BroadcastPageProofs.**  The type invariants;
`ThreadShowsItsOwnCorrect` (what SWR keeps or waits for under the key of a
conversation is of that conversation); `LoggedOnceCorrect`, by `WayInv`: the text
in the compose box has not been sent, the requests under way carry different
texts, which were sent and are not yet logged, and what is logged was sent.
`TakenOnceCorrect`, by `TakenInv`: as long as nobody presses twice, one
submission is under way at most, when none is the form's text is new, and no
text was pressed twice.  `ChatIsOfDeviceCorrect` and
`OnlyAnsweredIsClearedCorrect`.  `RecipientsAreOfDeviceCorrect`;
`RecipientsAreOfJobCorrect`, by `DetailsInv`: as long as no row is clicked under an
answer and no answer fails, the one answer that is due is the selected
broadcast's, and the spinner turns until it is there; `CreatedOnceCorrect`, by
`CreatedInv`: one creation is under way, and its text, or the draft's, is new.

**WebAppProofs.**  The other pages, and the web client.  Registration: every
submission is under way or was told.  Pairing: as for threads.  Cards:
`OneOrderOfAKind` is inductive with the types.  Directory:
one synchronisation at a time; one past its statements has what was on the
phone in the rows (`StoredInv`); one toast at most, and while it is open no timer
is set to remove it (`ToastInv`).  `GestureKeepsPageCorrect` says of every step that moves
the page number behind the last page that it takes an answer into the table.
The gestures are why: a new search and another device turn to page one, a
cleared search shows at least what it found (a subset has no more pages, a fact
about cardinalities and the division, `MorePages`), and the pager turns to
pages there are.  Keys: while no two creations overlap,
the one that has passed the check has counted *all* active keys, because below
the limit the newest `MaxKeys` are all there are (a lemma on cardinalities);
the type invariant rests on `KeyCountInv`, that keys and creations under way
are together no more than the requests there were.  Templates: the cards agree
with the rows, or a rendering of the rows is on its way, or the answer that
asks for one (`CardsInv`).  Subscriptions: while nobody
interferes, the save under way is the only call that runs, and whatever it was
sent with is in the table or still in the call's body (`ReportedInv`); before
the first save no call has run (`FirstInv`); the store's own invariants are
kept by every step of the dialog (`GateFollowsDatabase`).  Sign-in
(`SessionCorrect`): a submission past the API's check is of an account that was
admitted and carries a user of that account only, and so is every page on its way
to a tab; and as long as no two submissions of an account have found no user, the
one that has is the only one there is, and there is no user yet.

Every behaviour of `WebSpec` is a behaviour of each page's own specification,
since a step of one page leaves the variables of the others alone (the lemma
`WebImplementsPages`).  With it what is proved of a page holds of the whole:
`WebTypeCorrect`, `SubmittedOnceCorrect`, `ToldIsDoneCorrect`,
`ListsAreCurrentCorrect`, `FlagsFollowRequestsCorrect`,
`LateAnswersStayApartCorrect`, `FormsAreOfTheirDevice`, `AccountsAreKept`,
`SwitchesAreKept`, `DevicesAreKept`.

### Model-checked only

- Liveness: `DueJobIsPickedUp`, `PickedUpJobIsSettled`, `ArrivedIsLogged`,
  `ThreadCatchesUp`, `CodeIsTakenBack`.  The installed provers do not reason
  about fairness and ENABLED.  What the first three rest on besides fairness is
  in `AJobIsAlwaysNext`, `EveryTickEnds` and `NothingIsLostOnTheWay`.
- The counterexamples of the findings.

No module that has a theorem, or is used by one, declares a RECURSIVE operator.

## Not modelled

- Registration of users, and the API's own authentication of a request: the JWT
  is checked and then passed or not, and nothing is kept between two requests but
  the token itself, which never expires.  The lookup of a key by its prefix and the legacy
  endpoint that writes a key into `users` are about strings and hashes; the
  prefix is a hazard without a property.
- Migrations: one sequential run at start; a failed one is recorded as a hazard.
- SSE, logger, configuration, the TUI (except the deletion of a user): I/O, or
  a callback per message with no state of its own.
- The dashboard, the documentation pages, the sidebar, the data
  table and the UI kit: rendering.  The generated client is modelled where a
  page depends on what it does with an error.
- A second device of the same server whose messages carry the same WhatsApp ids.

## Running

In this directory, for instance

    tlc -workers 2 -config web_pages.cfg MCWebApp.tla
    tlc -workers 2 -config broadcast_jobs.cfg MCBroadcast.tla
    tlapm WebAppProofs.tla

`PROJECT.json` lists every run with its module, the properties and the faulty
variant that shows each of them able to fail, the source lines behind each
definition, the hazards, the findings and the theorems.

## What could come next

The API's authentication with its key log and prefix lookup; the order of migrations
under a crash; a second device in `Inbox`, once the unique index on message ids
is decided.
