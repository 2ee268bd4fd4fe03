----------------------------- MODULE Dashboard -----------------------------
(* A browser with tabs that run the dashboard, or a host application built  *)
(* on the hooks of packages/nextjs.  Every tab has a cache of query results *)
(* (@tanstack/react-query), filled by the screens it mounts and invalidated *)
(* by the mutations it sends; the dashboard also signs in and out, with a   *)
(* session in localStorage and a copy in each tab's memory.                 *)
(*                                                                          *)
(* Entries of different keys do not affect each other, so one key, chosen   *)
(* at the start, is followed.  Its value is the number of the write that    *)
(* made it.                                                                 *)
EXTENDS ClientScreens, Naturals

CONSTANTS Users, Tabs, None,
          Elsewhere,   \* bound: the screens visited that need not show the key
          MaxWrites,   \* bound: writes on the server
          MaxWork,     \* bound: those and the requests of sign-in forms
          MaxLoads,    \* bound: documents loaded
          MaxVisits    \* bound: changes of screen without a load

ASSUME DashboardAssumption ==
    /\ None \notin Users \cup Nat \cup DOMAIN DashboardScreens \cup DOMAIN NextScreens
    /\ {MaxWrites, MaxWork, MaxLoads, MaxVisits} \subseteq Nat

VARIABLES
    watch,      \* the key that is followed
    version,    \* its value on the server
    storage,    \* the user of the session in localStorage, or None
    tab,        \* per tab: the user in its memory, its screen, and the screen
                \* that a load under way will show, or None
    entry,      \* per tab: the cache's entry for the key
    mutation,   \* per tab: a mutation in flight, or None
    form,       \* per tab: the sign-in form
    loads, visits, submits,
    wrote       \* observer, per tab: the last own write that the cache must show

vars == <<watch, version, storage, tab, entry, mutation, form, loads, visits, submits, wrote>>
session == <<storage, form>>
bounds == <<loads, visits, submits>>

App == IF watch \in NextKeys THEN NextScreens ELSE DashboardScreens
IsDashboard == App = DashboardScreens
Visited == {s \in DOMAIN App : watch \in App[s].reads \/ s \in Elsewhere}
Shown(t) == tab[t].screen # None /\ watch \in App[tab[t].screen].reads
Ready(t) == tab[t].screen # None /\ tab[t].to = None

NoTab == [session |-> None, screen |-> None, to |-> None]
BlankForm == [step |-> "email", signin |-> None, sent |-> {}]

\* A form that is left goes, but not what it sent.
LeftForm(f) == [BlankForm EXCEPT !.sent = {[r EXCEPT !.here = FALSE] : r \in f.sent}]

---------------------------------------------------------------------------
(* The query cache, as @tanstack/react-query keeps an entry: the data and   *)
(* the session it was asked for with, whether it was invalidated, and the   *)
(* fetch in flight, with what the server has answered to it.                *)

NoEntry == [data |-> None, owner |-> None, stale |-> FALSE, fetch |-> None]

Fetch(e, who) == [e EXCEPT !.fetch = [as |-> who, got |-> None]]

\* A component that mounts, or a window that gains focus, joins a fetch in
\* flight or starts one: the hooks leave staleTime at 0.
Mount(e, who) == IF e.fetch = None THEN Fetch(e, who) ELSE e

\* A fetch in flight is cancelled and made anew, but not the first one.
Invalidate(e, shown, who) ==
    LET marked == [e EXCEPT !.stale = TRUE] IN
    IF shown /\ (e.fetch = None \/ e.data # None) THEN Fetch(marked, who) ELSE marked

Fill(e) == [data |-> e.fetch.got, owner |-> e.fetch.as, stale |-> FALSE, fetch |-> None]

---------------------------------------------------------------------------
Init ==
    /\ watch \in DashboardKeys \cup NextKeys
    /\ version = 0
    /\ storage \in Users \cup {None}
    /\ tab = [t \in Tabs |-> NoTab]
    /\ entry = [t \in Tabs |-> NoEntry]
    /\ mutation = [t \in Tabs |-> None]
    /\ form = [t \in Tabs |-> BlankForm]
    /\ loads = 0 /\ visits = 0 /\ submits = 0
    /\ wrote = [t \in Tabs |-> 0]

\* A document is loaded, by hand or by location.assign: lib/api.ts takes the
\* session from localStorage and main.tsx makes a new cache.
Open(t, s) ==
    /\ loads < MaxLoads /\ loads' = loads + 1
    /\ tab[t].to \in {None, s}
    /\ tab' = [tab EXCEPT ![t] = [session |-> storage, screen |-> s, to |-> None]]
    /\ entry' = [entry EXCEPT ![t] =
         IF watch \in App[s].reads THEN Mount(NoEntry, storage) ELSE NoEntry]
    /\ mutation' = [mutation EXCEPT ![t] = None]
    /\ form' = [form EXCEPT ![t] = BlankForm]
    /\ wrote' = [wrote EXCEPT ![t] = 0]
    /\ UNCHANGED <<watch, version, storage, visits, submits>>

\* A link of the router: the cache stays.  A component that the two screens
\* share does not mount again.
Visit(t, s) ==
    /\ visits < MaxVisits /\ visits' = visits + 1
    /\ Ready(t) /\ s # tab[t].screen
    /\ tab' = [tab EXCEPT ![t].screen = s]
    /\ \E mounts \in BOOLEAN :
         /\ watch \notin App[s].reads => ~mounts
         /\ watch \in App[s].reads /\ ~Shown(t) => mounts
         /\ entry' = [entry EXCEPT ![t] = IF mounts THEN Mount(@, tab[t].session) ELSE @]
    /\ form' = [form EXCEPT ![t] = IF tab[t].screen = "signIn" THEN LeftForm(@) ELSE @]
    /\ UNCHANGED <<watch, version, storage, mutation, loads, submits, wrote>>

Focus(t) ==
    /\ Shown(t)
    /\ entry' = [entry EXCEPT ![t] = Mount(@, tab[t].session)]
    /\ UNCHANGED <<watch, version, session, tab, mutation, bounds, wrote>>

---------------------------------------------------------------------------
(* A fetch: the server reads, and the answer arrives later or never.  One   *)
(* without a session is refused, and a failure leaves the entry as it was.  *)

ServerReads(t) ==
    /\ entry[t].fetch # None /\ entry[t].fetch.got = None /\ entry[t].fetch.as # None
    /\ entry' = [entry EXCEPT ![t].fetch.got = version]
    /\ UNCHANGED <<watch, version, session, tab, mutation, bounds, wrote>>

FetchArrives(t) ==
    /\ entry[t].fetch # None /\ entry[t].fetch.got # None
    /\ entry' = [entry EXCEPT ![t] = Fill(@)]
    /\ UNCHANGED <<watch, version, session, tab, mutation, bounds, wrote>>

FetchFails(t) ==
    /\ entry[t].fetch # None
    /\ entry' = [entry EXCEPT ![t].fetch = None]
    /\ UNCHANGED <<watch, version, session, tab, mutation, bounds, wrote>>

MoreWrites == version < MaxWrites /\ version + submits < MaxWork

\* Another client of the API writes.
OthersWrite ==
    /\ MoreWrites /\ version' = version + 1
    /\ UNCHANGED <<watch, session, tab, entry, mutation, bounds, wrote>>

---------------------------------------------------------------------------
(* A mutation: sent from a screen that offers it, done by the server,       *)
(* answered; the buttons are disabled while one is pending.  Those that     *)
(* concern other keys only are left out.                                    *)

\* What a mutation does to the key, which is all that matters of it here.
Effect(hook, m) == [does        |-> "write",
                    touches     |-> watch \in hook[m].touches,
                    invalidates |-> watch \in hook[m].invalidates,
                    overlooked  |-> <<m, watch>> \in Overlooked,
                    made        |-> None]
Exits(name) == [does |-> name, touches |-> FALSE, invalidates |-> FALSE, overlooked |-> FALSE,
                made |-> None]

Send(t, effect) ==
    /\ Ready(t) /\ mutation[t] = None /\ tab[t].session # None
    /\ mutation' = [mutation EXCEPT ![t] = effect]
    /\ UNCHANGED <<watch, version, session, tab, entry, bounds, wrote>>

Mutate(t) ==
    /\ Ready(t)
    /\ \E hook \in Hooks : \E m \in DOMAIN hook \cap App[tab[t].screen].offers :
        /\ Effect(hook, m).touches \/ Effect(hook, m).invalidates
        /\ Send(t, Effect(hook, m))

ServerWrites(t) ==
    /\ mutation[t] # None /\ mutation[t].made = None
    /\ mutation[t].touches => MoreWrites
    /\ version' = IF mutation[t].touches THEN version + 1 ELSE version
    /\ mutation' = [mutation EXCEPT ![t].made = version']
    /\ UNCHANGED <<watch, session, tab, entry, bounds, wrote>>

\* onSuccess, whether or not the component is still mounted.  A first fetch
\* that is still in flight, or one whose screen has been left, is not made
\* anew: it may bring, and leave, what was read before.
MutationSucceeds(t) ==
    /\ mutation[t] # None /\ mutation[t].made # None /\ mutation[t].does = "write"
    /\ entry' = [entry EXCEPT ![t] =
         IF mutation[t].invalidates THEN Invalidate(@, Shown(t), tab[t].session) ELSE @]
    /\ wrote' = [wrote EXCEPT ![t] =
         IF mutation[t].touches /\ ~mutation[t].overlooked /\ Shown(t) /\ entry[t].data # None
         THEN mutation[t].made ELSE @]
    /\ mutation' = [mutation EXCEPT ![t] = None]
    /\ UNCHANGED <<watch, version, session, tab, bounds>>

\* The server refuses, or its answer is lost.
MutationFails(t) ==
    /\ mutation[t] # None
    /\ mutation' = [mutation EXCEPT ![t] = None]
    /\ UNCHANGED <<watch, version, session, tab, entry, bounds, wrote>>

---------------------------------------------------------------------------
(* The dashboard's sign-in form.  Back does not call off what was sent, and *)
(* neither does leaving the screen: an answer that brings a session is      *)
(* taken wherever the tab is, one that leads to a step only by its form.    *)
(* The link's requests have a spinner of their own, so that one of them and *)
(* one of the others may be on their way together.                          *)

AtForm(t) == IsDashboard /\ Ready(t) /\ tab[t].screen = "signIn"

IsLink(kind) == kind \in {"linkRequest", "link"}

Submit(t, kind, u) ==
    /\ version + submits < MaxWork /\ submits' = submits + 1
    /\ AtForm(t) /\ \A r \in form[t].sent : r.here => IsLink(r.kind) # IsLink(kind)
    /\ form' = [form EXCEPT ![t].sent = @ \cup {[kind |-> kind, user |-> u, here |-> TRUE]}]
    /\ UNCHANGED <<watch, version, storage, tab, entry, mutation, loads, visits, wrote>>

handleEmailSubmit(t, u) == form[t].step = "email" /\ Submit(t, "email", u)
handleMagicLinkRequest(t, u) == form[t].step = "email" /\ Submit(t, "linkRequest", u)
handleCredentialSubmit(t) == form[t].step \in {"password", "totp"} /\ Submit(t, form[t].step, form[t].signin)
handleMagicLinkVerify(t) == form[t].step = "link" /\ Submit(t, "link", form[t].signin)

\* The step that an accepted request leads to when it brings no session.
StepAfter == [email |-> "password", password |-> "totp", linkRequest |-> "link"]

StepOn(t) ==
    \E r \in form[t].sent :
        /\ r.here /\ r.kind \in DOMAIN StepAfter
        /\ form' = [form EXCEPT ![t] =
             [step |-> StepAfter[r.kind], sent |-> @.sent \ {r}, signin |-> r.user]]
        /\ UNCHANGED <<watch, version, storage, tab, entry, mutation, bounds, wrote>>

Refuse(t) ==
    \E r \in form[t].sent :
        /\ form' = [form EXCEPT ![t].sent = @ \ {r}]
        /\ UNCHANGED <<watch, version, storage, tab, entry, mutation, bounds, wrote>>

handleBack(t) ==
    /\ AtForm(t) /\ form[t].step # "email"
    /\ form' = [form EXCEPT ![t] = [BlankForm EXCEPT !.sent = form[t].sent]]
    /\ UNCHANGED <<watch, version, storage, tab, entry, mutation, bounds, wrote>>

\* A request whose answer may bring a session.
Answered(t, r) == r \in form[t].sent /\ r.kind \in {"password", "totp", "link"}

\* The router shows the next screen, and the cache stays.
setSessionAndStay(t) ==
    \E r \in form[t].sent :
        /\ Answered(t, r)
        /\ storage' = r.user
        /\ tab' = [tab EXCEPT ![t].session = r.user, ![t].screen = "organizations"]
        /\ form' = [form EXCEPT ![t] = BlankForm]
        /\ UNCHANGED <<watch, version, entry, mutation, bounds, wrote>>

\* setSession and location.assign: the document is left only when the next
\* one loads.
setSession(t) ==
    \E r \in form[t].sent :
        /\ Answered(t, r)
        /\ storage' = r.user
        /\ tab' = [tab EXCEPT ![t].session = r.user, ![t].to = "organizations"]
        /\ form' = [form EXCEPT ![t] = LeftForm([form[t] EXCEPT !.sent = @ \ {r}])]
        /\ UNCHANGED <<watch, version, entry, mutation, bounds, wrote>>

---------------------------------------------------------------------------
(* The two ways out.  useSignOut asks for the list of sessions, which is    *)
(* empty because nothing calls sessionStore.create, deletes its first one   *)
(* if there is one, and two cookies that the dashboard does not use.        *)

Leave(t, name) ==
    /\ IsDashboard /\ mutation[t] # None /\ mutation[t].does = name /\ mutation[t].made # None
    /\ entry' = [entry EXCEPT ![t] = NoEntry]
    /\ mutation' = [mutation EXCEPT ![t] = None]
    /\ wrote' = [wrote EXCEPT ![t] = 0]

pressSignOut(t) == IsDashboard /\ Send(t, Exits("signOut"))

useSignOut(t) ==
    /\ Leave(t, "signOut")
    /\ tab' = [tab EXCEPT ![t].to = "signIn"]
    /\ UNCHANGED <<watch, version, storage, form, bounds>>

pressDelete(t) == tab[t].screen = "account" /\ Send(t, Exits("deleteAccount"))

useDeleteAccount(t) ==
    /\ Leave(t, "deleteAccount")
    /\ storage' = None
    /\ tab' = [tab EXCEPT ![t].session = None, ![t].to = "signIn"]
    /\ UNCHANGED <<watch, version, form, bounds>>

---------------------------------------------------------------------------
Browse(t) == Focus(t) \/ \E s \in Visited : Open(t, s) \/ Visit(t, s)
Query(t) == ServerReads(t) \/ FetchArrives(t) \/ FetchFails(t)
Change(t) == Mutate(t) \/ ServerWrites(t) \/ MutationSucceeds(t) \/ MutationFails(t)
SignIn(t) ==
    \/ \E u \in Users : handleEmailSubmit(t, u) \/ handleMagicLinkRequest(t, u)
    \/ handleCredentialSubmit(t) \/ handleMagicLinkVerify(t)
    \/ StepOn(t) \/ Refuse(t) \/ handleBack(t) \/ setSession(t)
Exit(t) == pressSignOut(t) \/ useSignOut(t) \/ pressDelete(t) \/ useDeleteAccount(t)

Next == OthersWrite \/ \E t \in Tabs : Browse(t) \/ Query(t) \/ Change(t) \/ SignIn(t) \/ Exit(t)

Spec == Init /\ [][Next]_vars

---------------------------------------------------------------------------
Someone == Users \cup {None}
Written == 0 .. MaxWrites
Tab == [session : Someone, screen : DOMAIN App \cup {None}, to : DOMAIN App \cup {None}]
Entry == [data : Written \cup {None}, owner : Someone, stale : BOOLEAN,
          fetch : [as : Someone, got : Written \cup {None}] \cup {None}]
Mutation == [does : {"write", "signOut", "deleteAccount"}, touches : BOOLEAN,
             invalidates : BOOLEAN, overlooked : BOOLEAN, made : Written \cup {None}]
Request == [kind : {"email", "password", "totp", "linkRequest", "link"},
            user : Users, here : BOOLEAN]
Form == [step : {"email", "password", "totp", "link"}, signin : Someone, sent : SUBSET Request]

\* Every variable has its type; a form that is past its first step knows whom
\* it signs in, and only the dashboard has one.
TypeOK ==
    /\ watch \in DashboardKeys \cup NextKeys /\ version \in Written /\ storage \in Someone
    /\ tab \in [Tabs -> Tab]
    /\ entry \in [Tabs -> Entry]
    /\ mutation \in [Tabs -> Mutation \cup {None}]
    /\ form \in [Tabs -> Form]
    /\ wrote \in [Tabs -> Written]
    /\ loads \in 0 .. MaxLoads /\ visits \in 0 .. MaxVisits /\ submits \in 0 .. MaxWork
    /\ \A t \in Tabs : /\ form[t].step # "email" => form[t].signin \in Users
                       /\ form[t].sent # {} => IsDashboard

\* No screen shows what was fetched with another session than the tab has: in
\* the dashboard keys do not name the user, and what keeps one account's data
\* from the next is that setSession and both ways out load a new document.
CacheIsOfOneSession ==
    \A t \in Tabs : tab[t].to = None /\ entry[t].data # None => entry[t].owner = tab[t].session

\* When a mutation succeeds, a screen that shows the data it changed does not
\* settle on what was there before it: not by a fetch that the server answered
\* earlier, nor by one that fails, nor by leaving the screen and returning.
OwnWritesShow ==
    \A t \in Tabs : entry[t].data # None /\ entry[t].fetch = None /\ ~entry[t].stale
                      => entry[t].data >= wrote[t]
=============================================================================
