------------------------------- MODULE WebApp ------------------------------
(***************************************************************************)
(* The web client: one page at a time, each with the part of the server it *)
(* talks to. The pages share no state of their components; a behaviour     *)
(* opens one of them and stays there. What several pages promise alike is  *)
(* stated here once.                                                       *)
(***************************************************************************)
EXTENDS ThreadPage, NewMessagePage, BroadcastPage, DirectoryPage, ApiKeyPage,
        TemplatePage, SubscriptionsPage, DevicePage, PairingDialog, RegisterPage,
        DeviceLifecycle, SignIn

CONSTANT Pages  \* the pages that may be opened

AllPages == {"thread", "mail", "broadcast", "directory", "keys", "templates",
             "subscriptions", "devices", "pairing", "register", "lifecycle", "signin"}

ASSUME WebAppAssumption == Pages \subseteq AllPages

VARIABLE route  \* the page that is open

webVars == <<route, threadVars, mailVars, senderVars, directoryVars, keyVars, templateVars,
             subscriptionsPageVars, cardVars, pairingVars, registerVars, lifecycleVars, signInVars>>

WebTypeOK ==
    /\ route \in Pages
    /\ ThreadTypeOK /\ MailTypeOK /\ BroadcastPageTypeOK /\ DirectoryTypeOK
    /\ ApiKeyTypeOK /\ TemplateTypeOK /\ SubscriptionsPageTypeOK
    /\ DevicePageTypeOK /\ PairingTypeOK /\ RegisterTypeOK /\ LifecycleTypeOK
    /\ SignInTypeOK

\* Of the pages that are not open one initial state is enough.
AtRest ==
    /\ route # "mail" => inbox.device = CHOOSE d \in InboxDevices : TRUE
    /\ route # "directory" => view.kind = "contacts" /\ \A d \in DirectoryDevices : rows[d] = NoRows
    /\ route # "devices" => online = {}
    /\ route # "pairing" => ~ qrPage
    /\ route # "register" => place.kind = "dialog"
    /\ route # "lifecycle" => ~ linked /\ muted = {}

WebInit ==
    /\ route \in Pages
    /\ ThreadInit /\ MailInit /\ BroadcastPageInit /\ DirectoryInit
    /\ ApiKeyInit /\ TemplateInit /\ SubscriptionsPageInit
    /\ DevicePageInit /\ PairingInit /\ RegisterInit /\ LifecycleInit
    /\ SignInInit
    /\ AtRest

chatVars    == <<threadVars, mailVars, senderVars>>
accountVars == <<directoryVars, keyVars, templateVars, signInVars>>
devicesVars == <<subscriptionsPageVars, cardVars, pairingVars, registerVars, lifecycleVars>>

OnChatPages ==
    /\ UNCHANGED <<route, accountVars, devicesVars>>
    /\ \/ route = "thread" /\ ThreadNext /\ UNCHANGED <<mailVars, senderVars>>
       \/ route = "mail" /\ MailNext /\ UNCHANGED <<threadVars, senderVars>>
       \/ route = "broadcast" /\ BroadcastPageNext /\ UNCHANGED <<threadVars, mailVars>>

OnAccountPages ==
    /\ UNCHANGED <<route, chatVars, devicesVars>>
    /\ \/ /\ route = "directory" /\ DirectoryNext
          /\ UNCHANGED <<keyVars, templateVars, signInVars>>
       \/ /\ route = "keys" /\ ApiKeyNext
          /\ UNCHANGED <<directoryVars, templateVars, signInVars>>
       \/ /\ route = "templates" /\ TemplateNext
          /\ UNCHANGED <<directoryVars, keyVars, signInVars>>
       \/ /\ route = "signin" /\ SignInNext
          /\ UNCHANGED <<directoryVars, keyVars, templateVars>>

OnDevicesPages ==
    /\ UNCHANGED <<route, chatVars, accountVars>>
    /\ \/ /\ route = "subscriptions" /\ SubscriptionsPageNext
          /\ UNCHANGED <<cardVars, pairingVars, registerVars, lifecycleVars>>
       \/ /\ route = "devices" /\ DevicePageNext
          /\ UNCHANGED <<subscriptionsPageVars, pairingVars, registerVars, lifecycleVars>>
       \/ /\ route = "pairing" /\ PairingNext
          /\ UNCHANGED <<subscriptionsPageVars, cardVars, registerVars, lifecycleVars>>
       \/ /\ route = "register" /\ RegisterNext
          /\ UNCHANGED <<subscriptionsPageVars, cardVars, pairingVars, lifecycleVars>>
       \/ /\ route = "lifecycle" /\ LifecycleNext
          /\ UNCHANGED <<subscriptionsPageVars, cardVars, pairingVars, registerVars>>

WebNext == OnChatPages \/ OnAccountPages \/ OnDevicesPages

WebSpec == WebInit /\ [][WebNext]_webVars

\* On a page that is not open none of the actions these assume is enabled.
FairWebSpec == WebSpec /\ ThreadFairness /\ LifecycleFairness

-----------------------------------------------------------------------------
(* What the pages promise alike.                                           *)

\* What the user submits once is done once: a reply is logged, a message taken, a
\* broadcast created, a device registered; each page names the overlap it has no
\* answer to (compose-box.tsx:62-79, new-message-dialog.tsx:145-161,
\* broadcast-client.tsx:148-193, add-device-dialog.tsx:60-71).
SubmittedOnce == LoggedOnce /\ TakenOnce /\ CreatedOnce /\ RegisteredOnce

\* What a page reports done is done: contacts and groups are stored, a template
\* has its text, a setting its value (contacts-management-client.tsx:146-169,
\* create-template-dialog.tsx:175-199, subscriptions-dialog.tsx:120-149).
ToldIsDone == SuccessMeansStored /\ ToldIsStored /\ ReportedIsStored

\* With nothing under way, the lists of keys and of templates are those of the
\* server (kontak-providers.tsx:182-196, template-management-client.tsx:48-50).
ListsAreCurrent == ListIsCurrent /\ CardsAreRows

\* A button spins exactly while its request is under way, whichever of several
\* buttons with the same flag was pressed (contacts-management-client.tsx:146-169,
\* kontak-providers.tsx:67-117).
FlagsFollowRequests == OneSyncAtATime /\ OneOrderOfAKind

\* What is under a heading is of the heading, however late it comes: the messages of
\* the open chat, the code of the open device (message-thread.tsx:37-57,
\* qr-pairing-dialog.tsx:28-44).
LateAnswersStayApart == ThreadShowsItsOwn /\ CodeIsOfDevice

\* An open conversation comes to show what is logged, and loses its badge.
ThreadCatchesUp == LoggedIsShown /\ OpenedLosesBadge
=============================================================================
