------------------------------- MODULE SignIn ------------------------------
(***************************************************************************)
(* Signing in and out of the web client: the login form, the better-auth   *)
(* plugin that asks the API and keeps a user and a session of its own, the *)
(* cookie that all tabs of a browser share, and the middleware that sends  *)
(* whoever has none to the form.                                           *)
(***************************************************************************)
EXTENDS Browser

CONSTANTS
    Emails,      \* all emails, as they are typed and as they are stored
    Typed,       \* those that are typed
    Lowercase,   \* trim and toLowerCase: one account may be typed in many ways
    Registered,  \* the emails of the API's users, compared as they are
    Tabs,        \* the tabs of one browser
    MaxSignIns   \* bound: how often the form may be submitted

ASSUME SignInAssumption ==
    /\ Typed \subseteq Emails
    /\ Lowercase \in [Emails -> Emails]
    /\ Registered \subseteq Emails
    /\ None \notin Emails
    /\ MaxSignIns \in Nat

VARIABLES
    cookie,    \* the session: better-auth's user, and the account of the API's token
    users,     \* better-auth's users, which it has in memory only
    signIns,   \* the submissions under way
    tries,     \* how many there have been
    tabs,      \* what each tab shows: the form, or a page of an account
    opening,   \* the page on its way to a tab, if there is one
    leaving,   \* the tabs that have asked to sign out
    admitted,  \* history: the accounts the API has accepted
    raced,     \* history: the accounts for which two submissions found no user at once
    signInFaults

signInVars == <<cookie, users, signIns, tries, tabs, opening, leaving, admitted,
                raced, signInFaults>>

\* A submission; "heard" says who takes the answer: the form, the browser alone,
\* as the form is gone, or nobody. A user of better-auth has the submission's number.
Users    == [id : 1..MaxSignIns, email : Emails]
Attempts == [n : 1..MaxSignIns, tab : Tabs, email : Emails,
             stage : {"out", "accepted", "found", "made", "refused"},
             user : SUBSET Users, heard : {"form", "browser", "nobody"}]

SignInTypeOK ==
    /\ cookie \subseteq [user : SUBSET Users, account : Emails]
    /\ users \subseteq Users
    /\ signIns \subseteq Attempts
    /\ tries \in 0..MaxSignIns
    /\ tabs \in [Tabs -> Emails \cup {None}]
    /\ opening \in [Tabs -> SUBSET (Emails \cup {None})]
    /\ leaving \subseteq Tabs
    /\ admitted \subseteq Emails /\ raced \subseteq Emails
    /\ signInFaults \in 0..MaxFaults

SignInInit ==
    /\ cookie = {} /\ users = {} /\ signIns = {} /\ tries = 0
    /\ tabs = [t \in Tabs |-> None]
    /\ opening = [t \in Tabs |-> {}]
    /\ leaving = {} /\ admitted = {} /\ raced = {}
    /\ signInFaults = 0

SignInFault == signInFaults < MaxFaults /\ signInFaults' = signInFaults + 1

tabVars == <<tabs, opening, leaving>>

AccountOf(p) == Lowercase[p.email]

-----------------------------------------------------------------------------
(* Faulty variants of definitions below.                                   *)

\* The user is looked for under what was typed.
FoundAsTyped(p) == {u \in users : u.email = p.email}

-----------------------------------------------------------------------------
(* Pages.                                                                  *)

\* The account a request is made for: None without a session.
Bearer == IF cookie = {} THEN None ELSE (CHOOSE s \in cookie : TRUE).account

\* A page is asked for: the middleware and the layout look at the cookie the
\* request has, and send it to the form if it has none. The form is open to all.
OpenPage(t) ==
    /\ \E page \in {Bearer, None} : opening' = [opening EXCEPT ![t] = {page}]
    /\ UNCHANGED <<cookie, users, signIns, tries, tabs, leaving, admitted, raced,
                   signInFaults>>

\* The page is there; a form the tab had is gone.
PageArrives(t) ==
    \E account \in opening[t] :
        /\ tabs' = [tabs EXCEPT ![t] = account]
        /\ opening' = [opening EXCEPT ![t] = {}]
        /\ signIns' = {IF p.tab = t /\ p.heard = "form" THEN [p EXCEPT !.heard = "browser"]
                       ELSE p : p \in signIns}
        /\ UNCHANGED <<cookie, users, tries, leaving, admitted, raced, signInFaults>>

-----------------------------------------------------------------------------
(* Signing in.                                                             *)

\* The button is disabled while the form waits.
SubmitLogin(t, email) ==
    /\ tabs[t] = None
    /\ \A p \in signIns : p.tab = t => p.heard # "form"
    /\ tries < MaxSignIns
    /\ tries' = tries + 1
    /\ signIns' = signIns \cup {[n |-> tries + 1, tab |-> t, email |-> email,
                                 stage |-> "out", user |-> {}, heard |-> "form"]}
    /\ UNCHANGED <<cookie, users, tabVars, admitted, raced, signInFaults>>

SignInStep(p, q) == p \in signIns /\ signIns' = (signIns \ {p}) \cup {q}

\* The API looks the user up and compares the hash of the password, which may be wrong.
CheckLogin(p) ==
    /\ p.stage = "out"
    /\ \/ /\ AccountOf(p) \in Registered
          /\ SignInStep(p, [p EXCEPT !.stage = "accepted"])
          /\ admitted' = admitted \cup {AccountOf(p)}
       \/ SignInStep(p, [p EXCEPT !.stage = "refused"]) /\ UNCHANGED admitted
    /\ UNCHANGED <<cookie, users, tries, tabVars, raced, signInFaults>>

\* An error of the API, or of a step of the plugin: all are one error to the form.
SignInFails(p) ==
    /\ p.stage \in {"out", "accepted", "found"}
    /\ SignInFault
    /\ SignInStep(p, [p EXCEPT !.stage = "refused"])
    /\ UNCHANGED <<cookie, users, tries, tabVars, admitted, raced>>

Found(p) == {u \in users : u.email = AccountOf(p)}

\* findOne: one of them, if there are any.
OneOf(rows) == IF rows = {} THEN {{}} ELSE {{u} : u \in rows}

\* A submission that has found no user and has not made one yet.
WithoutUser(p) == p.stage = "found" /\ p.user = {}

FindUser(p) ==
    /\ p.stage = "accepted"
    /\ \E user \in OneOf(Found(p)) :
        SignInStep(p, [p EXCEPT !.stage = "found", !.user = user])
    /\ raced' = raced \cup {a \in {AccountOf(p)} :
                              /\ Found(p) = {}
                              /\ \E q \in signIns : WithoutUser(q) /\ AccountOf(q) = a}
    /\ UNCHANGED <<cookie, users, tries, tabVars, admitted, signInFaults>>

NewUser(p) == [id |-> p.n, email |-> AccountOf(p)]

CreateUser(p) ==
    /\ WithoutUser(p)
    /\ users' = users \cup {NewUser(p)}
    /\ SignInStep(p, [p EXCEPT !.user = {NewUser(p)}])
    /\ UNCHANGED <<cookie, tries, tabVars, admitted, raced, signInFaults>>

CreateSession(p) ==
    /\ p.stage = "found" /\ p.user # {}
    /\ SignInStep(p, [p EXCEPT !.stage = "made"])
    /\ UNCHANGED <<cookie, users, tries, tabVars, admitted, raced, signInFaults>>

\* The answer sets the cookie; the form, if it waits and the tab is not on its
\* way elsewhere, is redirected.
SignedIn(p) ==
    /\ p \in signIns /\ p.stage = "made" /\ p.heard # "nobody"
    /\ cookie' = {[user |-> p.user, account |-> AccountOf(p)]}
    /\ signIns' = signIns \ {p}
    /\ tabs' = IF p.heard = "form" /\ opening[p.tab] = {}
               THEN [tabs EXCEPT ![p.tab] = AccountOf(p)] ELSE tabs
    /\ UNCHANGED <<users, tries, opening, leaving, admitted, raced, signInFaults>>

\* The form says so, or nobody is there to be told.
SignInOver(p) ==
    /\ p \in signIns
    /\ p.stage = "refused" \/ (p.stage = "made" /\ p.heard = "nobody")
    /\ signIns' = signIns \ {p}
    /\ UNCHANGED <<cookie, users, tries, tabVars, admitted, raced, signInFaults>>

\* The connection breaks: the form may be tried again, and the server goes on.
SignInLost(p) ==
    /\ p.heard # "nobody"
    /\ SignInFault
    /\ SignInStep(p, [p EXCEPT !.heard = "nobody"])
    /\ UNCHANGED <<cookie, users, tries, tabVars, admitted, raced>>

-----------------------------------------------------------------------------
(* Signing out.                                                            *)

PressSignOut(t) ==
    /\ tabs[t] # None
    /\ leaving' = leaving \cup {t}
    /\ UNCHANGED <<cookie, users, signIns, tries, tabs, opening, admitted, raced,
                   signInFaults>>

\* onSuccess pushes the form, whatever the tab shows or opens by then.
SignedOut(t) ==
    /\ t \in leaving
    /\ leaving' = leaving \ {t}
    /\ cookie' = {}
    /\ opening' = [opening EXCEPT ![t] = {None}]
    /\ UNCHANGED <<users, signIns, tries, tabs, admitted, raced, signInFaults>>

\* Nothing is said of a failure.
SignOutFails(t) ==
    /\ t \in leaving
    /\ SignInFault
    /\ leaving' = leaving \ {t}
    /\ UNCHANGED <<cookie, users, signIns, tries, tabs, opening, admitted, raced>>

\* The web server restarts: its users are gone, sessions are in the cookies, and of
\* the submissions only the answers on their way are left.
Restart ==
    /\ SignInFault
    /\ users' = {}
    /\ signIns' = {p \in signIns : p.stage \in {"made", "refused"}}
    /\ UNCHANGED <<cookie, tries, tabVars, admitted, raced>>

\* An hour later.
Expire ==
    /\ cookie # {} /\ cookie' = {}
    /\ UNCHANGED <<users, signIns, tries, tabVars, admitted, raced, signInFaults>>
-----------------------------------------------------------------------------

SignInNext ==
    \/ \E t \in Tabs :
        \/ OpenPage(t) \/ PageArrives(t) \/ PressSignOut(t) \/ SignedOut(t) \/ SignOutFails(t)
        \/ \E email \in Typed : SubmitLogin(t, email)
    \/ \E p \in signIns : \/ CheckLogin(p) \/ SignInFails(p) \/ FindUser(p) \/ CreateUser(p)
                          \/ CreateSession(p) \/ SignedIn(p) \/ SignInOver(p) \/ SignInLost(p)
    \/ Restart \/ Expire

SignInSpec == SignInInit /\ [][SignInNext]_signInVars

-----------------------------------------------------------------------------
(* Safety.                                                                 *)

\* Whoever signs in or out in which tab, in whatever order the answers come: the
\* session is of one account, the user better-auth knows and the token the API gave
\* alike; a page is only of an account the API has accepted; and an account has one
\* user, however it is typed and however many submissions of it there are, unless two
\* of them have found none at the same time (auth.ts:24-71, kontak-session.ts:7-13).
SessionIsOfOneAccount ==
    /\ \A s \in cookie : \A u \in s.user : u.email = s.account
    /\ \A t \in Tabs : tabs[t] \in admitted \cup {None}
    /\ \A u, v \in users : u.email = v.email => u = v \/ u.email \in raced
=============================================================================
