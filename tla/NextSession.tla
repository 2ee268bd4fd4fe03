---------------------------- MODULE NextSession ----------------------------
(* The session of a browser that uses packages/nextjs: the cookies that its *)
(* tabs share, the BlerpProvider of each tab, the embedded sign-in and      *)
(* sign-up forms, and the two readers on the server, blerpMiddleware and    *)
(* auth().  A tab waits for the runtime configuration, then asks the API    *)
(* who is signed in and with which role; all the while tabs sign in and     *)
(* out, choose organisations and send requests, tokens expire and           *)
(* administrators change roles.                                             *)
EXTENDS Naturals, Sequences, FiniteSets

CONSTANTS Users, Orgs, Roles, Tabs, None,
          Start,          \* the memberships that there may be at first
          RuntimeConfig,  \* TRUE: the provider has to fetch /v1/public-config
          MaxTokens,      \* bound: sessions that are ever minted
          MaxLoads,       \* bound: documents that are ever loaded
          MaxChanges,     \* bound: how often a role changes or a token expires
          MaxBusy         \* bound: forms, calls and auth()s that run at a time

ASSUME NextSessionAssumption ==
    /\ None \notin Users \cup Orgs \cup Roles \cup 1..MaxTokens
    /\ Start \subseteq [Orgs -> [Users -> Roles \cup {None}]]
    /\ RuntimeConfig \in BOOLEAN
    /\ {MaxTokens, MaxLoads, MaxChanges, MaxBusy} \subseteq Nat

VARIABLES
    members,    \* the server's memberships: members[o][u] is a role or None
    tokens,     \* the session tokens minted, in order: their user and org_id claim
    expired,    \* those that no longer verify
    cookies,    \* __blerp_session, __session and __blerp_org; orgFrom observes the
                \* session under which the last was written
    page,       \* what each tab's provider has committed; moved
                \* that its organisation was changed in place after hydrate() began
    gate,       \* per tab: has the promise that holds back requests resolved?
    latest,     \* per tab: the configuration in latestAuthRef
    hydration,  \* per tab: the hydrate() that runs, or None
    request,    \* per tab: a call of the API client, or None
    form,       \* per tab: the sign-in or sign-up form
    render,     \* an auth() that runs on the server, or its answer, or None
    loads,      \* how many documents have been loaded
    changes,    \* how often a role has changed or a token has expired
    held        \* observer: every <<user, org, role>> that was ever so

vars == <<members, tokens, expired, cookies, page, gate, latest, hydration,
          request, form, render, loads, changes, held>>
server == <<members, held>>
minted == <<tokens, expired, changes>>

TokenIds == DOMAIN tokens
Token == [user : Users, org : Orgs \cup {None}]
Settings == {"built", "live"}
Hydration == [step : {"commit"}, config : Settings]
             \cup [step : {"userinfo", "membership"}, token : Nat \cup {None}, config : Settings,
                   org : Orgs \cup {None}]
Request == [step : {"gate"}] \cup [step : {"stamped"}, token : Nat \cup {None}, config : Settings]
Form == [flow : {"signin", "signup"}, step : {"email", "password", "totp", "verify", "minted"},
         user : Users \cup {None}, token : Nat \cup {None}]
Render == [token : Nat, tries : Seq(Orgs), user : Users, org : Orgs \cup {None}, role : Roles \cup {None}]

ASSUME NoneIsNoRecord == None \notin Nat \cup Hydration \cup Request \cup Render

Closed == [open |-> FALSE, config |-> "built", org |-> None, user |-> None,
           role |-> None, loaded |-> FALSE, moved |-> FALSE]
Blank == [flow |-> "signin", step |-> "email", user |-> None, token |-> None]

---------------------------------------------------------------------------
(* What several handlers do. *)

\* readSessionCookie: the native name first, the alias second.
SessionIn(c) == IF c.session # None THEN c.session ELSE c.alias
ReadSession == SessionIn(cookies)

\* authMiddleware and verifySessionToken: the token was minted and has not
\* expired, and its tenant is the one asked for, which only a tab that knows
\* the runtime configuration names.
Verifies(token, config) ==
    token \in TokenIds \ expired /\ (RuntimeConfig => config = "live")

RoleIn(o, u) == members[o][u]
OrgsOf(u) == {o \in Orgs : RoleIn(o, u) # None}

\* createSessionForUser stamps org_id only for a user with one membership.
Claim(u) == IF Cardinality(OrgsOf(u)) = 1 THEN CHOOSE o \in OrgsOf(u) : TRUE ELSE None

WriteOrg(o) == [cookies EXCEPT !.org = o, !.orgFrom = ReadSession]

\* The previous organisation stays when the token names none.
KeepStaleOrg(token) ==
    [session |-> token, alias |-> token,
     org |-> IF tokens[token].org # None THEN tokens[token].org ELSE cookies.org,
     orgFrom |-> IF tokens[token].org # None THEN token ELSE cookies.orgFrom]

\* setSessionCookies: both names, and the organisation of the claim or none.
SetSessionCookies(token) ==
    [session |-> token, alias |-> token, org |-> tokens[token].org, orgFrom |-> token]

NoCookies == [session |-> None, alias |-> None, org |-> None, orgFrom |-> None]

\* The effect that hydrates: hydrate() reads the cookie at once and has the
\* configuration and the organisation of the render it was made in.
Hydrate(p, c) == [step |-> "userinfo", token |-> SessionIn(c), config |-> p.config, org |-> p.org]

\* What is under way beside the provider of each tab.
Idle ==
    LET forms == {t \in Tabs : form[t].step # "email"}
        calls == {t \in Tabs : request[t] # None}
        auths == IF render = None THEN 0 ELSE 1
    IN Cardinality(forms) + Cardinality(calls) + auths < MaxBusy

---------------------------------------------------------------------------
Init ==
    /\ members \in Start
    /\ held = {v \in Users \X Orgs \X Roles : members[v[2]][v[1]] = v[3]}
    /\ tokens = <<>> /\ expired = {}
    /\ cookies = NoCookies
    /\ page = [t \in Tabs |-> Closed]
    /\ gate = [t \in Tabs |-> FALSE]
    /\ latest = [t \in Tabs |-> "built"]
    /\ hydration = [t \in Tabs |-> None]
    /\ request = [t \in Tabs |-> None]
    /\ form = [t \in Tabs |-> Blank]
    /\ render = None
    /\ loads = 0 /\ changes = 0

\* An administrator gives, changes or takes a role.
ChangeRole(o, u, r) ==
    /\ changes < MaxChanges /\ changes' = changes + 1
    /\ members[o][u] # r
    /\ members' = [members EXCEPT ![o][u] = r]
    /\ held' = IF r = None THEN held ELSE held \cup {<<u, o, r>>}
    /\ UNCHANGED <<tokens, expired, cookies, page, gate, latest, hydration, request, form, render, loads>>

ExpireToken(token) ==
    /\ token \notin expired
    /\ changes < MaxChanges /\ changes' = changes + 1
    /\ expired' = expired \cup {token}
    /\ UNCHANGED <<server, tokens, cookies, page, gate, latest, hydration, request, form, render, loads>>

---------------------------------------------------------------------------
(* Loading a document.  The document's whole state is new: what the old one *)
(* had in flight is gone.                                                   *)
Open(t, c) ==
    /\ loads < MaxLoads /\ loads' = loads + 1
    /\ LET p == [Closed EXCEPT !.open = TRUE, !.org = c.org] IN
       /\ page' = [page EXCEPT ![t] = p]
       /\ hydration' = [hydration EXCEPT ![t] = IF RuntimeConfig THEN None ELSE Hydrate(p, c)]
    /\ gate' = [gate EXCEPT ![t] = ~RuntimeConfig]
    /\ latest' = [latest EXCEPT ![t] = "built"]
    /\ form' = [form EXCEPT ![t] = Blank]
    /\ cookies' = c
    /\ request' = [request EXCEPT ![t] = None]
    /\ UNCHANGED render

\* blerpMiddleware lets a public page, the sign-in page and a verified session
\* through; else it redirects to the sign-in page and deletes both session
\* cookies, though not __blerp_org.
Navigate(t) ==
    /\ \/ Open(t, cookies)
       \/ /\ ReadSession \notin TokenIds \ expired
          /\ Open(t, [cookies EXCEPT !.session = None, !.alias = None])
    /\ UNCHANGED <<server, minted>>

\* The reference stays as it was until the provider has rendered again.
AnswerConfigLate(t) ==
    /\ page[t].open /\ ~gate[t]
    /\ gate' = [gate EXCEPT ![t] = TRUE]
    /\ hydration' = [hydration EXCEPT ![t] = [step |-> "commit", config |-> "live"]]
    /\ UNCHANGED <<server, minted, cookies, page, latest, request, form, render, loads>>

\* /v1/public-config answers: the reference is written before the gate opens,
\* the state is committed later.
AnswerConfig(t) ==
    /\ page[t].open /\ ~gate[t]
    /\ latest' = [latest EXCEPT ![t] = "live"]
    /\ gate' = [gate EXCEPT ![t] = TRUE]
    /\ hydration' = [hydration EXCEPT ![t] = [step |-> "commit", config |-> "live"]]
    /\ UNCHANGED <<server, minted, cookies, page, request, form, render, loads>>

\* A failure opens the gate and leaves the provider waiting for a commit.
FailConfigSilently(t) ==
    /\ page[t].open /\ ~gate[t]
    /\ gate' = [gate EXCEPT ![t] = TRUE]
    /\ UNCHANGED <<server, minted, cookies, page, latest, hydration, request, form, render, loads>>

\* It fails, or is not what the guard expects: the built-in values stay.
FailConfig(t) ==
    /\ page[t].open /\ ~gate[t]
    /\ gate' = [gate EXCEPT ![t] = TRUE]
    /\ hydration' = [hydration EXCEPT ![t] = [step |-> "commit", config |-> "built"]]
    /\ UNCHANGED <<server, minted, cookies, page, latest, request, form, render, loads>>

\* React commits the configuration and runs the effect that hydrates.
Commit(t) ==
    /\ hydration[t] # None /\ hydration[t].step = "commit"
    /\ LET p == [page[t] EXCEPT !.config = hydration[t].config, !.moved = FALSE] IN
       /\ page' = [page EXCEPT ![t] = p]
       /\ hydration' = [hydration EXCEPT ![t] = Hydrate(p, cookies)]
    /\ latest' = [latest EXCEPT ![t] = hydration[t].config]
    /\ UNCHANGED <<server, minted, cookies, gate, request, form, render, loads>>

\* /v1/userinfo answers: the subject of the token, who has no role yet; then
\* the membership in the active organisation is asked for, if there is one.
AnswerUserInfo(t) ==
    /\ hydration[t] # None /\ hydration[t].step = "userinfo"
    /\ LET h == hydration[t]
           user == IF Verifies(h.token, h.config) THEN tokens[h.token].user ELSE None
           asks == user # None /\ h.org # None
       IN
       /\ page' = [page EXCEPT ![t] = [@ EXCEPT !.user = user, !.role = None, !.loaded = ~asks]]
       /\ hydration' = [hydration EXCEPT ![t] =
            IF asks THEN [h EXCEPT !.step = "membership"] ELSE None]
    /\ UNCHANGED <<server, minted, cookies, gate, latest, request, form, render, loads>>

\* A fetch of hydrate() fails: nobody is signed in, or there is no role.
FailHydration(t) ==
    /\ hydration[t] # None /\ hydration[t].step \in {"userinfo", "membership"}
    /\ page' = [page EXCEPT ![t] =
         IF hydration[t].step = "userinfo"
         THEN [@ EXCEPT !.user = None, !.role = None, !.loaded = TRUE]
         ELSE [@ EXCEPT !.loaded = TRUE]]
    /\ hydration' = [hydration EXCEPT ![t] = None]
    /\ UNCHANGED <<server, minted, cookies, gate, latest, request, form, render, loads>>

\* The membership of the organisation in the token instead of the active one.
AnswerByClaim(t) ==
    /\ hydration[t] # None /\ hydration[t].step = "membership"
    /\ LET token == tokens[hydration[t].token] IN
       page' = [page EXCEPT ![t] =
         [@ EXCEPT !.role = IF token.org # None THEN RoleIn(token.org, token.user) ELSE page[t].role, !.loaded = TRUE]]
    /\ hydration' = [hydration EXCEPT ![t] = None]
    /\ UNCHANGED <<server, minted, cookies, gate, latest, request, form, render, loads>>

\* /memberships/me answers with the role the token's user has now, or not.
AnswerMembership(t) ==
    /\ hydration[t] # None /\ hydration[t].step = "membership"
    /\ LET h == hydration[t]
           role == IF Verifies(h.token, h.config) THEN RoleIn(h.org, tokens[h.token].user) ELSE None
       IN page' = [page EXCEPT ![t] =
            [@ EXCEPT !.role = IF role # None THEN role ELSE page[t].role, !.loaded = TRUE]]
    /\ hydration' = [hydration EXCEPT ![t] = None]
    /\ UNCHANGED <<server, minted, cookies, gate, latest, request, form, render, loads>>

---------------------------------------------------------------------------
(* What a tab does. *)

\* setActive: the cookie and the state, and nothing about the role.
SetActive(t, o) ==
    /\ page[t].open /\ page[t].org # o
    /\ cookies' = WriteOrg(o)
    /\ page' = [page EXCEPT ![t] = [@ EXCEPT !.org = o, !.moved = TRUE]]
    /\ UNCHANGED <<server, minted, gate, latest, hydration, request, form, render, loads>>

\* The OrganizationSwitcher calls setActive and loads the page anew.
SwitchOrganization(t, o) ==
    /\ page[t].open /\ page[t].user # None /\ page[t].org # o
    /\ Open(t, WriteOrg(o))
    /\ UNCHANGED <<server, minted>>

\* signOut: whatever the host's route answered, cookies and state are cleared;
\* a hydration that is in flight is not cancelled.
SignOut(t) ==
    /\ page[t].open /\ page[t].user # None
    /\ cookies' = NoCookies
    /\ page' = [page EXCEPT ![t] =
         [@ EXCEPT !.org = None, !.user = None, !.role = None, !.moved = TRUE]]
    /\ UNCHANGED <<server, minted, gate, latest, hydration, request, form, render, loads>>

\* The UserButton leaves the cookies to the host's route, which deletes those
\* of the session, and then loads another page.
PressSignOut(t) ==
    /\ page[t].open /\ page[t].user # None
    /\ Open(t, [cookies EXCEPT !.session = None, !.alias = None])
    /\ UNCHANGED <<server, minted>>

---------------------------------------------------------------------------
(* A call of the API client: it waits at the gate, is stamped by the first *)
(* middleware with the configuration and the cookie of that moment, and    *)
(* leaves after the CSRF middleware has its token.                         *)

Call(t) ==
    /\ page[t].open /\ request[t] = None /\ Idle
    /\ request' = [request EXCEPT ![t] = [step |-> "gate"]]
    /\ UNCHANGED <<server, minted, cookies, page, gate, latest, hydration, form, render, loads>>

Stamp(t) ==
    /\ request[t] # None /\ request[t].step = "gate" /\ gate[t]
    /\ request' = [request EXCEPT ![t] = [step |-> "stamped", token |-> ReadSession, config |-> latest[t]]]
    /\ UNCHANGED <<server, minted, cookies, page, gate, latest, hydration, form, render, loads>>

Answer(t) ==
    /\ request[t] # None /\ request[t].step = "stamped"
    /\ request' = [request EXCEPT ![t] = None]
    /\ UNCHANGED <<server, minted, cookies, page, gate, latest, hydration, form, render, loads>>

---------------------------------------------------------------------------
(* The embedded forms.  Both go by steps; each wait of the third one ends   *)
(* with a token that the API minted, which is stored only later.            *)

\* The next step of a form, and the step its Back button returns to.
NextStep == [signin |-> [email |-> "password", password |-> "totp"],
             signup |-> [email |-> "password", password |-> "verify"]]
BackStep == [signin |-> [password |-> "email"],
             signup |-> [password |-> "email", verify |-> "password"]]

ChooseForm(t, flow, u) ==
    /\ page[t].open /\ form[t].step = "email" /\ Idle
    /\ flow = "signin" => gate[t]
    /\ form' = [form EXCEPT ![t] = [flow |-> flow, step |-> NextStep[flow].email, user |-> u, token |-> None]]
    /\ UNCHANGED <<server, minted, cookies, page, gate, latest, hydration, request, render, loads>>

\* A sign-in that needs a second factor, or a sign-up that needs its code.
AskMore(t) ==
    /\ form[t].step = "password" /\ gate[t]
    /\ RuntimeConfig => latest[t] = "live"
    /\ form' = [form EXCEPT ![t].step = NextStep[form[t].flow].password]
    /\ UNCHANGED <<server, minted, cookies, page, gate, latest, hydration, request, render, loads>>

PressBack(t) ==
    /\ form[t].step \in DOMAIN BackStep[form[t].flow]
    /\ form' = [form EXCEPT ![t].step = BackStep[form[t].flow][form[t].step]]
    /\ UNCHANGED <<server, minted, cookies, page, gate, latest, hydration, request, render, loads>>

\* The API accepts the last credential and mints a session with its claims.
Mint(t) ==
    /\ form[t].step \in {"password", "totp", "verify"} /\ gate[t]
    /\ form[t].flow = "signup" => form[t].step = "verify"
    /\ RuntimeConfig => latest[t] = "live"
    /\ Cardinality(TokenIds) < MaxTokens
    /\ tokens' = Append(tokens, [user |-> form[t].user, org |-> Claim(form[t].user)])
    /\ form' = [form EXCEPT ![t] = [@ EXCEPT !.step = "minted", !.token = Len(tokens')]]
    /\ UNCHANGED <<server, expired, changes, cookies, page, gate, latest, hydration, request, render, loads>>

\* The answer arrives: the cookies are written and the next page is loaded.
StoreSession(t) ==
    /\ form[t].step = "minted"
    /\ Open(t, SetSessionCookies(form[t].token))
    /\ UNCHANGED <<server, minted>>

\* useSignIn and useSignUp write the cookies and stay on the page.
StoreInPlace(t) ==
    /\ form[t].step = "minted"
    /\ cookies' = SetSessionCookies(form[t].token)
    /\ form' = [form EXCEPT ![t] = Blank]
    /\ UNCHANGED <<server, minted, page, gate, latest, hydration, request, render, loads>>

---------------------------------------------------------------------------
(* auth() on the server: the organisation of the cookie is tried first, and *)
(* that of the claim if the cookie's is not the user's; each try asks the   *)
(* API for the membership.                                                  *)

\* The organisations that auth() tries, in its order.
Candidates(token) ==
    LET claim == tokens[token].org IN
    IF cookies.org = None THEN IF claim = None THEN <<>> ELSE <<claim>>
    ELSE IF claim \in {None, cookies.org} THEN <<cookies.org>> ELSE <<cookies.org, claim>>

StartAuth ==
    /\ render = None /\ Idle
    /\ ReadSession \in TokenIds \ expired
    /\ render' = [token |-> ReadSession, tries |-> Candidates(ReadSession),
                  user |-> tokens[ReadSession].user, org |-> None, role |-> None]
    /\ UNCHANGED <<server, minted, cookies, page, gate, latest, hydration, request, form, loads>>

\* The cookie's organisation is taken at its word.
TryTrusting ==
    /\ render # None /\ render.tries # <<>>
    /\ LET o == Head(render.tries)
           role == RoleIn(o, render.user)
       IN render' = [render EXCEPT !.tries = <<>>, !.org = o,
                       !.role = IF role # None THEN role ELSE CHOOSE r \in Roles : TRUE]
    /\ UNCHANGED <<server, minted, cookies, page, gate, latest, hydration, request, form, loads>>

TryMembership ==
    /\ render # None /\ render.tries # <<>>
    /\ LET o == Head(render.tries)
           role == IF render.token \in expired THEN None ELSE RoleIn(o, render.user)
       IN render' = IF role = None THEN [render EXCEPT !.tries = Tail(@)]
                    ELSE [render EXCEPT !.tries = <<>>, !.org = o, !.role = role]
    /\ UNCHANGED <<server, minted, cookies, page, gate, latest, hydration, request, form, loads>>

EndAuth ==
    /\ render # None /\ render.tries = <<>>
    /\ render' = None
    /\ UNCHANGED <<server, minted, cookies, page, gate, latest, hydration, request, form, loads>>

---------------------------------------------------------------------------
Provide(t) == \/ AnswerConfig(t) \/ FailConfig(t) \/ Commit(t)
              \/ AnswerUserInfo(t) \/ FailHydration(t) \/ AnswerMembership(t)
Visit(t) == \/ Navigate(t) \/ SignOut(t) \/ PressSignOut(t)
            \/ \E o \in Orgs \cup {None} : SetActive(t, o) \/ SwitchOrganization(t, o)
Exchange(t) == Call(t) \/ Stamp(t) \/ Answer(t)
Fill(t) == \/ \E u \in Users, flow \in {"signin", "signup"} : ChooseForm(t, flow, u)
           \/ AskMore(t) \/ PressBack(t) \/ Mint(t) \/ StoreSession(t) \/ StoreInPlace(t)
Surroundings == \/ \E o \in Orgs, u \in Users, r \in Roles \cup {None} : ChangeRole(o, u, r)
                \/ \E token \in TokenIds : ExpireToken(token)
                \/ StartAuth \/ TryMembership \/ EndAuth

Next == (\E t \in Tabs : Provide(t) \/ Visit(t) \/ Exchange(t) \/ Fill(t)) \/ Surroundings

Spec == Init /\ [][Next]_vars

\* A fetch that was sent is answered or fails, and React commits in the end.
FairSpec == Spec /\ \A t \in Tabs : WF_vars(Provide(t))

---------------------------------------------------------------------------
(* The state, and what must hold of it. *)

Page == [open : BOOLEAN, config : Settings, org : Orgs \cup {None}, user : Users \cup {None},
         role : Roles \cup {None}, loaded : BOOLEAN, moved : BOOLEAN]

\* Type correctness; an organisation is active in a document only if one was
\* in the cookie or chosen, and a token that anybody holds was minted.
TypeOK ==
    /\ members \in [Orgs -> [Users -> Roles \cup {None}]]
    /\ tokens \in Seq(Token) /\ Len(tokens) <= MaxTokens /\ expired \subseteq TokenIds
    /\ cookies \in [session : TokenIds \cup {None}, alias : TokenIds \cup {None}, org : Orgs \cup {None},
                   orgFrom : TokenIds \cup {None}]
    /\ page \in [Tabs -> Page]
    /\ gate \in [Tabs -> BOOLEAN] /\ latest \in [Tabs -> Settings]
    /\ hydration \in [Tabs -> Hydration \cup {None}] /\ request \in [Tabs -> Request \cup {None}]
    /\ form \in [Tabs -> Form] /\ render \in Render \cup {None}
    /\ \A t \in Tabs :
         /\ form[t].step # "email" => form[t].user \in Users
         /\ form[t].step = "minted" => form[t].token \in TokenIds
    /\ loads \in 0..MaxLoads /\ changes \in 0..MaxChanges
    /\ held \subseteq Users \X Orgs \X Roles

\* The role that a page shows for its organisation (useAuth().has, <Protect>)
\* is one its user had there, unless the organisation was changed in place
\* after the page asked; and auth() reports an organisation and a role only if
\* the user had that role there, whatever the cookie and the claim say.
RolesWereHeld ==
    /\ \A t \in Tabs : page[t].role # None /\ ~page[t].moved
                         => <<page[t].user, page[t].org, page[t].role>> \in held
    /\ render # None /\ render.org # None => <<render.user, render.org, render.role>> \in held

\* setSessionCookies replaces the organisation with the session, and the
\* middleware that deletes a session leaves it: while there is a session, the
\* organisation in the cookie was put there under that very session.
OrgCookieIsOfThisSession ==
    ReadSession # None /\ cookies.org # None => cookies.orgFrom = ReadSession

\* A call that the gate held back leaves with the configuration that was
\* fetched, even before React has rendered with it.
RequestsUseFetchedConfig ==
    \A t \in Tabs : request[t] # None /\ request[t].step = "stamped"
                    /\ hydration[t] # None /\ hydration[t].step = "commit"
                      => request[t].config = hydration[t].config

\* The provider of every document stops loading, whatever fails.
PagesLoad == \A t \in Tabs : page[t].open ~> page[t].loaded
=============================================================================
