------------------------- MODULE NextSessionProofs -------------------------
(***************************************************************************)
(* The browser's session for any number of tabs, users, organisations and  *)
(* sessions: type correctness, that a role that is shown was held, that    *)
(* the organisation in the cookie belongs to the session, and that a call  *)
(* which was held back leaves with the configuration that was fetched.     *)
(***************************************************************************)
EXTENDS NextSession, TLAPS, FiniteSetTheorems, SequenceTheorems

---------------------------------------------------------------------------
(* The inductive invariant. *)

\* Every role that is held now was held at some time.
HeldInv ==
    \A o \in Orgs, u \in Users : members[o][u] # None => <<u, o, members[o][u]>> \in held

\* What the tab of p shows, unless its organisation was changed in place.
PageInv(p) == p.role # None /\ ~p.moved => <<p.user, p.org, p.role>> \in held

\* A hydration of h, in the document of p: it asks for the organisation that
\* the document shows, and, once it has the user, for the membership of the
\* user that the document shows.
HydrationInv(p, h) ==
    /\ h.step \in {"userinfo", "membership"} => p.moved \/ p.org = h.org
    /\ h.step = "membership" =>
         /\ h.token \in TokenIds /\ h.org \in Orgs
         /\ p.moved \/ p.user = tokens[h.token].user

\* Before the configuration has been committed, nothing was asked for.
WaitInv(t) ==
    /\ ~gate[t] => hydration[t] = None /\ latest[t] = "built" /\ page[t].role = None
                   /\ (request[t] # None => request[t].step = "gate")
    /\ hydration[t] # None /\ hydration[t].step = "commit" =>
         /\ page[t].role = None /\ latest[t] = hydration[t].config
         /\ request[t] # None /\ request[t].step = "stamped" => request[t].config = hydration[t].config

TabInv(t) ==
    /\ PageInv(page[t])
    /\ hydration[t] # None => HydrationInv(page[t], hydration[t])
    /\ WaitInv(t)

\* An auth() asks for the membership of its own user.
RenderInv == render # None /\ render.org # None => <<render.user, render.org, render.role>> \in held

Inv ==
    /\ TypeOK
    /\ HeldInv
    /\ \A t \in Tabs : TabInv(t)
    /\ RenderInv
    /\ OrgCookieIsOfThisSession

---------------------------------------------------------------------------
(* What the types give. *)

LEMMA TokenIdsAre == ASSUME TypeOK PROVE TokenIds = 1..Len(tokens) /\ Len(tokens) \in Nat /\ None \notin TokenIds
  BY NoneIsNoRecord DEF TypeOK, TokenIds

LEMMA TokenIs ==
    ASSUME TypeOK, NEW k \in TokenIds
    PROVE  tokens[k] \in Token /\ tokens[k].user \in Users /\ tokens[k].org \in Orgs \cup {None}
<1>1. tokens[k] \in Token
  BY DEF TypeOK, TokenIds
<1>. QED
  BY <1>1 DEF Token

LEMMA FormIs ==
    ASSUME TypeOK, NEW t \in Tabs
    PROVE  /\ form[t] \in Form
           /\ form[t].step # "email" => form[t].user \in Users
           /\ form[t].step = "minted" => form[t].token \in TokenIds
  BY DEF TypeOK

\* What the invariant says of one tab.
LEMMA TabIs ==
    ASSUME Inv, NEW t \in Tabs
    PROVE  page[t] \in Page /\ PageInv(page[t]) /\ (hydration[t] # None => HydrationInv(page[t], hydration[t])) /\ WaitInv(t)
<1>1. page[t] \in Page
  BY DEF Inv, TypeOK
<1>. QED
  BY <1>1 DEF Inv, TabInv

\* The other tabs.
Same(s) == UNCHANGED <<page[s], gate[s], latest[s], hydration[s], request[s], form[s]>>

\* A step of one tab, which changes neither the server nor auth().
OneTab(t) == UNCHANGED <<server, tokens, render>> /\ \A s \in Tabs : s # t => Same(s)

LEMMA TabStep ==
    ASSUME Inv, NEW t \in Tabs, OneTab(t), TypeOK', TabInv(t)', OrgCookieIsOfThisSession'
    PROVE  Inv'
<1>1. ASSUME NEW s \in Tabs PROVE TabInv(s)'
  <2>1. CASE s = t
    BY <2>1
  <2>2. CASE s # t
    BY <2>2 DEF Inv, OneTab, Same, server, TabInv, PageInv, HydrationInv, WaitInv, TokenIds
  <2>. QED
    BY <2>1, <2>2
<1>2. HeldInv' /\ RenderInv'
  BY DEF Inv, OneTab, server, HeldInv, RenderInv
<1>. QED
  BY <1>1, <1>2 DEF Inv

LEMMA SameCookies == ASSUME Inv, UNCHANGED cookies PROVE OrgCookieIsOfThisSession'
  BY DEF Inv, OrgCookieIsOfThisSession, ReadSession

---------------------------------------------------------------------------
(* Loading a document. *)

LEMMA HydratesWell ==
    ASSUME TypeOK, NEW c \in [session : TokenIds \cup {None}, alias : TokenIds \cup {None}, org : Orgs \cup {None},
                              orgFrom : TokenIds \cup {None}],
           NEW p \in Page
    PROVE  /\ Hydrate(p, c) \in Hydration /\ Hydrate(p, c).step = "userinfo" /\ Hydrate(p, c).org = p.org
           /\ Hydrate(p, c) # None
  BY TokenIdsAre, NoneIsNoRecord DEF Hydrate, Hydration, Page, SessionIn

LEMMA OpenGood ==
    ASSUME Inv, NEW t \in Tabs, UNCHANGED <<server, minted>>,
           NEW c \in [session : TokenIds \cup {None}, alias : TokenIds \cup {None}, org : Orgs \cup {None},
                      orgFrom : TokenIds \cup {None}],
           SessionIn(c) # None /\ c.org # None => c.orgFrom = SessionIn(c),
           Open(t, c)
    PROVE  Inv'
<1>. DEFINE p == [Closed EXCEPT !.open = TRUE, !.org = c.org]
<1>1. p \in Page /\ p.org = c.org /\ p.role = None /\ ~p.moved
  BY DEF Closed, Page, Settings
<1>2. Hydrate(p, c) \in Hydration /\ Hydrate(p, c).step = "userinfo" /\ Hydrate(p, c).org = p.org
      /\ Hydrate(p, c) # None
  BY <1>1, HydratesWell DEF Inv
<1>. DEFINE h == IF RuntimeConfig THEN None ELSE Hydrate(p, c)
<1>3. /\ page' = [page EXCEPT ![t] = p] /\ hydration' = [hydration EXCEPT ![t] = h]
      /\ gate' = [gate EXCEPT ![t] = ~RuntimeConfig]
      /\ latest' = [latest EXCEPT ![t] = "built"] /\ form' = [form EXCEPT ![t] = Blank]
      /\ cookies' = c /\ request' = [request EXCEPT ![t] = None] /\ UNCHANGED <<server, minted, render>>
      /\ loads < MaxLoads /\ loads' = loads + 1
  BY DEF Open
<1>4. Blank \in Form /\ Blank.step = "email"
  BY DEF Blank, Form
<1>. HIDE DEF p
<1>5. h \in Hydration \cup {None}
  BY <1>2
<1>. HIDE DEF h
<1>6. TypeOK'
  BY SMTT(20), <1>1, <1>3, <1>4, <1>5, NextSessionAssumption DEF Inv, TypeOK, server, minted, TokenIds, Settings
<1>7. page'[t] = p /\ hydration'[t] = h /\ gate'[t] = ~RuntimeConfig /\ latest'[t] = "built" /\ request'[t] = None
  BY <1>3 DEF Inv, TypeOK
<1>8. TabInv(t)'
  <2>1. PageInv(page[t])'
    BY <1>1, <1>7 DEF PageInv
  <2>2. (hydration[t] # None => HydrationInv(page[t], hydration[t]))'
    BY <1>2, <1>7 DEF HydrationInv, h
  <2>3. WaitInv(t)'
    BY <1>1, <1>2, <1>7 DEF WaitInv, h
  <2>. QED
    BY <2>1, <2>2, <2>3 DEF TabInv
<1>9. OneTab(t)
  BY <1>3 DEF OneTab, Same, Inv, TypeOK, minted
<1>10. OrgCookieIsOfThisSession'
  BY <1>3 DEF OrgCookieIsOfThisSession, ReadSession
<1>. QED
  BY <1>6, <1>8, <1>9, <1>10, TabStep

\* Cookies that a document may be loaded with.
LEMMA CookiesAre ==
    ASSUME Inv
    PROVE  /\ cookies \in [session : TokenIds \cup {None}, alias : TokenIds \cup {None}, org : Orgs \cup {None},
                           orgFrom : TokenIds \cup {None}]
           /\ SessionIn(cookies) # None /\ cookies.org # None => cookies.orgFrom = SessionIn(cookies)
           /\ ReadSession \in TokenIds \cup {None}
  BY DEF Inv, TypeOK, OrgCookieIsOfThisSession, ReadSession, SessionIn

LEMMA NavigateGood == ASSUME Inv, NEW t \in Tabs, Navigate(t) PROVE Inv'
<1>. DEFINE c == [cookies EXCEPT !.session = None, !.alias = None]
<1>1. /\ c \in [session : TokenIds \cup {None}, alias : TokenIds \cup {None}, org : Orgs \cup {None},
                 orgFrom : TokenIds \cup {None}]
      /\ SessionIn(c) = None
  BY CookiesAre DEF SessionIn
<1>2. UNCHANGED <<server, minted>> /\ (Open(t, cookies) \/ Open(t, c))
  BY DEF Navigate
<1>. QED
  BY <1>1, <1>2, CookiesAre, OpenGood

LEMMA PressSignOutGood == ASSUME Inv, NEW t \in Tabs, PressSignOut(t) PROVE Inv'
<1>. DEFINE c == [cookies EXCEPT !.session = None, !.alias = None]
<1>1. /\ c \in [session : TokenIds \cup {None}, alias : TokenIds \cup {None}, org : Orgs \cup {None},
                 orgFrom : TokenIds \cup {None}]
      /\ SessionIn(c) = None
  BY CookiesAre DEF SessionIn
<1>2. UNCHANGED <<server, minted>> /\ Open(t, c)
  BY DEF PressSignOut
<1>. QED
  BY <1>1, <1>2, OpenGood

LEMMA WriteOrgIs ==
    ASSUME Inv, NEW o \in Orgs \cup {None}
    PROVE  /\ WriteOrg(o) \in [session : TokenIds \cup {None}, alias : TokenIds \cup {None}, org : Orgs \cup {None},
                              orgFrom : TokenIds \cup {None}]
           /\ SessionIn(WriteOrg(o)) = ReadSession /\ WriteOrg(o).orgFrom = ReadSession
  BY CookiesAre DEF WriteOrg, SessionIn, ReadSession

LEMMA SwitchOrganizationGood ==
    ASSUME Inv, NEW t \in Tabs, NEW o \in Orgs \cup {None}, SwitchOrganization(t, o) PROVE Inv'
<1>1. UNCHANGED <<server, minted>> /\ Open(t, WriteOrg(o))
  BY DEF SwitchOrganization
<1>. QED
  BY <1>1, WriteOrgIs, OpenGood

LEMMA SetSessionCookiesAre ==
    ASSUME Inv, NEW k \in TokenIds
    PROVE  /\ SetSessionCookies(k) \in [session : TokenIds \cup {None}, alias : TokenIds \cup {None},
                                       org : Orgs \cup {None}, orgFrom : TokenIds \cup {None}]
           /\ SessionIn(SetSessionCookies(k)) = k /\ SetSessionCookies(k).orgFrom = k
<1>1. tokens[k] \in Token
  BY DEF Inv, TypeOK, TokenIds
<1>. QED
  BY <1>1, TokenIdsAre DEF SetSessionCookies, SessionIn, Token, Inv

LEMMA StoreSessionGood == ASSUME Inv, NEW t \in Tabs, StoreSession(t) PROVE Inv'
<1>1. UNCHANGED <<server, minted>> /\ Open(t, SetSessionCookies(form[t].token)) /\ form[t].token \in TokenIds
  <2>1. form[t].step = "minted" /\ UNCHANGED <<server, minted>> /\ Open(t, SetSessionCookies(form[t].token))
    BY DEF StoreSession
  <2>2. form[t].token \in TokenIds
    BY <2>1, FormIs DEF Inv
  <2>. QED
    BY <2>1, <2>2
<1>. QED
  BY <1>1, SetSessionCookiesAre, OpenGood

---------------------------------------------------------------------------
(* The provider. *)

LEMMA AnswerConfigGood == ASSUME Inv, NEW t \in Tabs, AnswerConfig(t) PROVE Inv'
<1>. DEFINE h == [step |-> "commit", config |-> "live"]
<1>1. h \in Hydration /\ h.step = "commit" /\ h.config = "live" /\ h # None
  BY NoneIsNoRecord DEF Hydration, Settings
<1>. HIDE DEF h
<1>2. ~gate[t] /\ latest' = [latest EXCEPT ![t] = "live"] /\ gate' = [gate EXCEPT ![t] = TRUE]
      /\ hydration' = [hydration EXCEPT ![t] = h]
      /\ UNCHANGED <<server, minted, cookies, page, request, form, render, loads>>
  BY DEF AnswerConfig, h
<1>3. TypeOK'
  BY <1>1, <1>2 DEF Inv, TypeOK, server, minted, TokenIds, Settings
<1>4. TabInv(t)'
  BY <1>1, <1>2, NoneIsNoRecord DEF Inv, TypeOK, TabInv, PageInv, HydrationInv, WaitInv, server, minted
<1>5. OneTab(t)
  BY <1>2 DEF OneTab, Same, Inv, TypeOK, minted
<1>. QED
  BY <1>2, <1>3, <1>4, <1>5, TabStep, SameCookies

LEMMA FailConfigGood == ASSUME Inv, NEW t \in Tabs, FailConfig(t) PROVE Inv'
<1>. DEFINE h == [step |-> "commit", config |-> "built"]
<1>1. h \in Hydration /\ h.step = "commit" /\ h.config = "built" /\ h # None
  BY NoneIsNoRecord DEF Hydration, Settings
<1>. HIDE DEF h
<1>2. ~gate[t] /\ gate' = [gate EXCEPT ![t] = TRUE]
      /\ hydration' = [hydration EXCEPT ![t] = h]
      /\ UNCHANGED <<server, minted, cookies, page, latest, request, form, render, loads>>
  BY DEF FailConfig, h
<1>3. TypeOK'
  BY <1>1, <1>2 DEF Inv, TypeOK, server, minted, TokenIds, Settings
<1>4. TabInv(t)'
  BY <1>1, <1>2, NoneIsNoRecord DEF Inv, TypeOK, TabInv, PageInv, HydrationInv, WaitInv, server, minted
<1>5. OneTab(t)
  BY <1>2 DEF OneTab, Same, Inv, TypeOK, minted
<1>. QED
  BY <1>2, <1>3, <1>4, <1>5, TabStep, SameCookies

LEMMA CommitGood == ASSUME Inv, NEW t \in Tabs, Commit(t) PROVE Inv'
<1>. DEFINE p == [page[t] EXCEPT !.config = hydration[t].config, !.moved = FALSE]
            h == Hydrate(p, cookies)
<1>1. hydration[t] # None /\ hydration[t].step = "commit" /\ hydration[t] \in Hydration
  BY DEF Commit, Inv, TypeOK
<1>2. hydration[t].config \in Settings /\ page[t] \in Page
  BY <1>1 DEF Hydration, Inv, TypeOK
<1>3. p \in Page /\ p.role = page[t].role /\ ~p.moved
  BY <1>2 DEF Page
<1>4. p.role = None /\ gate[t]
  BY <1>1, <1>3 DEF Inv, TabInv, WaitInv
<1>5. h \in Hydration /\ h.step = "userinfo" /\ h.org = p.org /\ h # None
  BY <1>3, CookiesAre, HydratesWell DEF Inv
<1>6. page' = [page EXCEPT ![t] = p] /\ hydration' = [hydration EXCEPT ![t] = h]
      /\ latest' = [latest EXCEPT ![t] = hydration[t].config]
      /\ UNCHANGED <<server, minted, cookies, gate, request, form, render, loads>>
  BY DEF Commit
<1>. HIDE DEF p, h
<1>7. TypeOK'
  BY <1>2, <1>3, <1>5, <1>6 DEF Inv, TypeOK, server, minted, TokenIds
<1>8. TabInv(t)'
  BY <1>3, <1>4, <1>5, <1>6 DEF Inv, TypeOK, TabInv, PageInv, HydrationInv, WaitInv, server, minted
<1>9. OneTab(t)
  BY <1>6 DEF OneTab, Same, Inv, TypeOK, minted
<1>. QED
  BY <1>6, <1>7, <1>8, <1>9, TabStep, SameCookies

\* A hydration that has asked something.
LEMMA AskingIs ==
    ASSUME Inv, NEW t \in Tabs, hydration[t] # None, hydration[t].step \in {"userinfo", "membership"}
    PROVE  /\ hydration[t] \in [step : {"userinfo", "membership"}, token : Nat \cup {None}, config : Settings,
                                org : Orgs \cup {None}]
           /\ HydrationInv(page[t], hydration[t]) /\ page[t] \in Page /\ gate[t]
  BY DEF Inv, TypeOK, TabInv, WaitInv, Hydration

\* It ends, or goes on, without touching the server.
LEMMA HydrationStep ==
    ASSUME Inv, NEW t \in Tabs, hydration[t] # None, hydration[t].step \in {"userinfo", "membership"},
           NEW p \in Page, PageInv(p), p.org = page[t].org, p.moved = page[t].moved,
           NEW h \in Hydration \cup {None},
           h # None => h.step = "membership" /\ HydrationInv(p, h),
           page' = [page EXCEPT ![t] = p], hydration' = [hydration EXCEPT ![t] = h],
           UNCHANGED <<server, minted, cookies, gate, latest, request, form, render, loads>>
    PROVE  Inv'
<1>1. TypeOK'
  BY DEF Inv, TypeOK, server, minted, TokenIds
<1>2. TabInv(t)'
  <2>1. page'[t] = p /\ hydration'[t] = h
    BY DEF Inv, TypeOK
  <2>2. PageInv(page[t])'
    BY <2>1 DEF PageInv, server
  <2>3. (hydration[t] # None => HydrationInv(page[t], hydration[t]))'
    BY <2>1 DEF HydrationInv, minted, TokenIds
  <2>4. gate'[t] /\ (hydration'[t] # None => hydration'[t].step = "membership")
    BY <2>1, AskingIs
  <2>. QED
    BY <2>2, <2>3, <2>4 DEF TabInv, WaitInv
<1>3. OneTab(t)
  BY DEF OneTab, Same, Inv, TypeOK, minted
<1>. QED
  BY <1>1, <1>2, <1>3, TabStep, SameCookies

LEMMA AnswerUserInfoGood == ASSUME Inv, NEW t \in Tabs, AnswerUserInfo(t) PROVE Inv'
<1>. DEFINE h == hydration[t]
            user == IF Verifies(h.token, h.config) THEN tokens[h.token].user ELSE None
            asks == user # None /\ h.org # None
            p == [page[t] EXCEPT !.user = user, !.role = None, !.loaded = ~asks]
            g == IF asks THEN [h EXCEPT !.step = "membership"] ELSE None
<1>1. h # None /\ h.step = "userinfo"
      /\ page' = [page EXCEPT ![t] = p] /\ hydration' = [hydration EXCEPT ![t] = g]
      /\ UNCHANGED <<server, minted, cookies, gate, latest, request, form, render, loads>>
  BY DEF AnswerUserInfo
<1>2. /\ h \in [step : {"userinfo", "membership"}, token : Nat \cup {None}, config : Settings, org : Orgs \cup {None}]
      /\ HydrationInv(page[t], h) /\ page[t] \in Page
  BY <1>1, AskingIs
<1>3. user # None => h.token \in TokenIds /\ user = tokens[h.token].user
  BY DEF Verifies
<1>4. user \in Users \cup {None}
  BY <1>3, TokenIs DEF Inv
<1>. HIDE DEF user
<1>5. p \in Page /\ PageInv(p) /\ p.org = page[t].org /\ p.moved = page[t].moved /\ p.user = user
  BY <1>2, <1>4 DEF Page, PageInv
<1>. HIDE DEF p
<1>6. CASE asks
  <2>1. g = [h EXCEPT !.step = "membership"]
    BY <1>6
  <2>2. /\ g \in Hydration /\ g.step = "membership" /\ g.token = h.token /\ g.org = h.org
    BY <1>2, <2>1 DEF Hydration
  <2>3. HydrationInv(p, g)
    BY <1>1, <1>2, <1>3, <1>5, <1>6, <2>2 DEF HydrationInv
  <2>. HIDE DEF g
  <2>. QED
    BY <1>1, <1>5, <2>2, <2>3, HydrationStep
<1>7. CASE ~asks
  BY <1>1, <1>5, <1>7, HydrationStep
<1>. QED
  BY <1>6, <1>7

LEMMA FailHydrationGood == ASSUME Inv, NEW t \in Tabs, FailHydration(t) PROVE Inv'
<1>. DEFINE p == IF hydration[t].step = "userinfo"
                 THEN [page[t] EXCEPT !.user = None, !.role = None, !.loaded = TRUE]
                 ELSE [page[t] EXCEPT !.loaded = TRUE]
<1>1. hydration[t] # None /\ hydration[t].step \in {"userinfo", "membership"}
      /\ page' = [page EXCEPT ![t] = p] /\ hydration' = [hydration EXCEPT ![t] = None]
      /\ UNCHANGED <<server, minted, cookies, gate, latest, request, form, render, loads>>
  BY DEF FailHydration
<1>2. page[t] \in Page /\ PageInv(page[t])
  BY DEF Inv, TypeOK, TabInv
<1>3. p \in Page /\ PageInv(p) /\ p.org = page[t].org /\ p.moved = page[t].moved
  BY <1>2 DEF Page, PageInv
<1>. HIDE DEF p
<1>. QED
  BY <1>1, <1>3, HydrationStep

LEMMA AnswerMembershipGood == ASSUME Inv, NEW t \in Tabs, AnswerMembership(t) PROVE Inv'
<1>. DEFINE h == hydration[t]
            role == IF Verifies(h.token, h.config) THEN RoleIn(h.org, tokens[h.token].user) ELSE None
            p == [page[t] EXCEPT !.role = IF role # None THEN role ELSE page[t].role, !.loaded = TRUE]
<1>1. h # None /\ h.step = "membership"
      /\ page' = [page EXCEPT ![t] = p] /\ hydration' = [hydration EXCEPT ![t] = None]
      /\ UNCHANGED <<server, minted, cookies, gate, latest, request, form, render, loads>>
  BY DEF AnswerMembership
<1>2. page[t] \in Page /\ PageInv(page[t]) /\ HydrationInv(page[t], h)
  BY <1>1, TabIs
<1>3. h.org \in Orgs /\ h.token \in TokenIds
      /\ (page[t].moved \/ (page[t].org = h.org /\ page[t].user = tokens[h.token].user))
  BY <1>1, <1>2 DEF HydrationInv
<1>4. tokens[h.token].user \in Users
  BY <1>3, TokenIs DEF Inv
<1>5. role # None => role \in Roles /\ <<tokens[h.token].user, h.org, role>> \in held
  BY <1>3, <1>4 DEF Inv, TypeOK, HeldInv, RoleIn
<1>. HIDE DEF role
<1>6. p \in Page /\ PageInv(p) /\ p.org = page[t].org /\ p.moved = page[t].moved
  <2>1. p \in Page /\ p.org = page[t].org /\ p.moved = page[t].moved /\ p.user = page[t].user
        /\ p.role = (IF role # None THEN role ELSE page[t].role)
    BY <1>2, <1>5 DEF Page
  <2>. QED
    BY <1>2, <1>3, <1>5, <2>1 DEF PageInv
<1>. HIDE DEF p
<1>. QED
  BY <1>1, <1>6, HydrationStep

---------------------------------------------------------------------------
(* What a tab does. *)

LEMMA SetActiveGood == ASSUME Inv, NEW t \in Tabs, NEW o \in Orgs \cup {None}, SetActive(t, o) PROVE Inv'
<1>. DEFINE p == [page[t] EXCEPT !.org = o, !.moved = TRUE]
<1>1. cookies' = WriteOrg(o) /\ page' = [page EXCEPT ![t] = p]
      /\ UNCHANGED <<server, minted, gate, latest, hydration, request, form, render, loads>>
  BY DEF SetActive
<1>2. p \in Page /\ p.moved /\ p.role = page[t].role
  BY TabIs DEF Page
<1>. HIDE DEF p
<1>3. TypeOK'
  BY <1>1, <1>2, WriteOrgIs DEF Inv, TypeOK, server, minted, TokenIds
<1>4. TabInv(t)'
  BY <1>1, <1>2 DEF Inv, TypeOK, TabInv, PageInv, HydrationInv, WaitInv, server, minted, TokenIds
<1>5. OneTab(t)
  BY <1>1 DEF OneTab, Same, Inv, TypeOK, minted
<1>6. OrgCookieIsOfThisSession'
  BY <1>1, WriteOrgIs DEF OrgCookieIsOfThisSession, ReadSession
<1>. QED
  BY <1>3, <1>4, <1>5, <1>6, TabStep

LEMMA SignOutGood == ASSUME Inv, NEW t \in Tabs, SignOut(t) PROVE Inv'
<1>. DEFINE p == [page[t] EXCEPT !.org = None, !.user = None, !.role = None, !.moved = TRUE]
<1>1. cookies' = NoCookies /\ page' = [page EXCEPT ![t] = p]
      /\ UNCHANGED <<server, minted, gate, latest, hydration, request, form, render, loads>>
  BY DEF SignOut
<1>2. p \in Page /\ p.moved /\ p.role = None
  BY TabIs DEF Page
<1>. HIDE DEF p
<1>3. NoCookies \in [session : TokenIds \cup {None}, alias : TokenIds \cup {None}, org : Orgs \cup {None},
                     orgFrom : TokenIds \cup {None}] /\ SessionIn(NoCookies) = None
  BY DEF NoCookies, SessionIn
<1>4. TypeOK'
  BY <1>1, <1>2, <1>3 DEF Inv, TypeOK, server, minted, TokenIds
<1>5. TabInv(t)'
  BY <1>1, <1>2 DEF Inv, TypeOK, TabInv, PageInv, HydrationInv, WaitInv, server, minted, TokenIds
<1>6. OneTab(t)
  BY <1>1 DEF OneTab, Same, Inv, TypeOK, minted
<1>7. OrgCookieIsOfThisSession'
  BY <1>1, <1>3 DEF OrgCookieIsOfThisSession, ReadSession
<1>. QED
  BY <1>4, <1>5, <1>6, <1>7, TabStep

\* A step of a call.
LEMMA RequestStep ==
    ASSUME Inv, NEW t \in Tabs, NEW q \in Request \cup {None}, request' = [request EXCEPT ![t] = q],
           q # None /\ q.step = "stamped" => gate[t] /\ q.config = latest[t],
           UNCHANGED <<server, minted, cookies, page, gate, latest, hydration, form, render, loads>>
    PROVE  Inv'
<1>1. TypeOK'
  BY DEF Inv, TypeOK, server, minted, TokenIds
<1>2. q # None => q.step \in {"gate", "stamped"}
  BY DEF Request
<1>3. TabInv(t)'
  BY <1>2 DEF Inv, TypeOK, TabInv, PageInv, HydrationInv, WaitInv, server, minted, TokenIds
<1>4. OneTab(t)
  BY DEF OneTab, Same, Inv, TypeOK, minted
<1>. QED
  BY <1>1, <1>3, <1>4, TabStep, SameCookies

LEMMA CallGood == ASSUME Inv, NEW t \in Tabs, Call(t) PROVE Inv'
<1>. DEFINE q == [step |-> "gate"]
<1>1. q \in Request /\ q.step = "gate"
  BY DEF Request
<1>. QED
  BY <1>1, RequestStep DEF Call

LEMMA StampGood == ASSUME Inv, NEW t \in Tabs, Stamp(t) PROVE Inv'
<1>. DEFINE q == [step |-> "stamped", token |-> ReadSession, config |-> latest[t]]
<1>1. latest[t] \in Settings /\ ReadSession \in Nat \cup {None}
  BY CookiesAre, TokenIdsAre DEF Inv, TypeOK
<1>2. q \in Request /\ q.config = latest[t]
  BY <1>1 DEF Request
<1>3. gate[t] /\ request' = [request EXCEPT ![t] = q]
      /\ UNCHANGED <<server, minted, cookies, page, gate, latest, hydration, form, render, loads>>
  BY DEF Stamp
<1>. HIDE DEF q
<1>. QED
  BY <1>2, <1>3, RequestStep

LEMMA AnswerGood == ASSUME Inv, NEW t \in Tabs, Answer(t) PROVE Inv'
  BY RequestStep DEF Answer

\* A step of a form.
LEMMA FormStep ==
    ASSUME Inv, NEW t \in Tabs, NEW f \in Form, form' = [form EXCEPT ![t] = f],
           f.step # "email" => f.user \in Users,
           f.step = "minted" => f.token \in TokenIds,
           UNCHANGED <<server, minted, page, gate, latest, hydration, request, render, loads>>,
           cookies' \in [session : TokenIds \cup {None}, alias : TokenIds \cup {None}, org : Orgs \cup {None},
                         orgFrom : TokenIds \cup {None}],
           OrgCookieIsOfThisSession'
    PROVE  Inv'
<1>1. TypeOK'
  <2>1. \A s \in Tabs : /\ form'[s].step # "email" => form'[s].user \in Users
                        /\ form'[s].step = "minted" => form'[s].token \in TokenIds
    BY FormIs DEF Inv, TypeOK
  <2>2. form' \in [Tabs -> Form]
    BY DEF Inv, TypeOK
  <2>. QED
    BY <2>1, <2>2 DEF Inv, TypeOK, server, minted, TokenIds
<1>2. TabInv(t)'
  BY DEF Inv, TypeOK, TabInv, PageInv, HydrationInv, WaitInv, server, minted, TokenIds
<1>3. OneTab(t)
  BY DEF OneTab, Same, Inv, TypeOK, minted
<1>. QED
  BY <1>1, <1>2, <1>3, TabStep

LEMMA ChooseFormGood ==
    ASSUME Inv, NEW t \in Tabs, NEW u \in Users, NEW flow \in {"signin", "signup"}, ChooseForm(t, flow, u) PROVE Inv'
<1>. DEFINE f == [flow |-> flow, step |-> NextStep[flow].email, user |-> u, token |-> None]
<1>1. NextStep[flow].email = "password"
  BY DEF NextStep
<1>2. f \in Form /\ f.step = "password" /\ f.user = u
  BY <1>1 DEF Form
<1>3. form' = [form EXCEPT ![t] = f]
      /\ UNCHANGED <<server, minted, cookies, page, gate, latest, hydration, request, render, loads>>
  BY DEF ChooseForm
<1>. HIDE DEF f
<1>. QED
  BY <1>2, <1>3, FormStep, SameCookies, CookiesAre

LEMMA AskMoreGood == ASSUME Inv, NEW t \in Tabs, AskMore(t) PROVE Inv'
<1>. DEFINE next == NextStep[form[t].flow].password
            f == [form[t] EXCEPT !.step = next]
<1>1. form[t] \in Form /\ form[t].user \in Users
  BY FormIs DEF Inv, AskMore
<1>2. next \in {"totp", "verify"}
  BY <1>1 DEF NextStep, Form
<1>3. form' = [form EXCEPT ![t] = f]
      /\ UNCHANGED <<server, minted, cookies, page, gate, latest, hydration, request, render, loads>>
  BY DEF AskMore
<1>. HIDE DEF next
<1>4. f \in Form /\ f.step = next /\ f.user = form[t].user
  BY <1>1, <1>2 DEF Form
<1>. HIDE DEF f
<1>. QED
  BY <1>1, <1>2, <1>3, <1>4, FormStep, SameCookies, CookiesAre

LEMMA PressBackGood == ASSUME Inv, NEW t \in Tabs, PressBack(t) PROVE Inv'
<1>. DEFINE back == BackStep[form[t].flow][form[t].step]
            f == [form[t] EXCEPT !.step = back]
<1>1. form[t] \in Form /\ form[t].step \in DOMAIN BackStep[form[t].flow]
  BY FormIs DEF Inv, PressBack
<1>2. back \in {"email", "password"}
  <2>1. CASE form[t].flow = "signin"
    <3>1. BackStep[form[t].flow] = [password |-> "email"]
      BY <2>1 DEF BackStep
    <3>. QED
      BY <1>1, <3>1
  <2>2. CASE form[t].flow = "signup"
    <3>1. BackStep[form[t].flow] = [password |-> "email", verify |-> "password"]
      BY <2>2 DEF BackStep
    <3>. QED
      BY <1>1, <3>1
  <2>. QED
    BY <1>1, <2>1, <2>2 DEF Form
<1>3. form[t].step # "email"
  <2>1. CASE form[t].flow = "signin"
    BY <1>1, <2>1 DEF BackStep
  <2>2. CASE form[t].flow = "signup"
    BY <1>1, <2>2 DEF BackStep
  <2>. QED
    BY <1>1, <2>1, <2>2 DEF Form
<1>4. form[t].user \in Users
  BY <1>3, FormIs DEF Inv
<1>5. form' = [form EXCEPT ![t] = f]
      /\ UNCHANGED <<server, minted, cookies, page, gate, latest, hydration, request, render, loads>>
  BY DEF PressBack
<1>. HIDE DEF back
<1>6. f \in Form /\ f.step = back /\ f.user = form[t].user
  BY <1>1, <1>2 DEF Form
<1>. HIDE DEF f
<1>. QED
  BY <1>2, <1>4, <1>5, <1>6, FormStep, SameCookies, CookiesAre

LEMMA StoreInPlaceGood == ASSUME Inv, NEW t \in Tabs, StoreInPlace(t) PROVE Inv'
<1>1. form[t].token \in TokenIds
  BY FormIs DEF Inv, StoreInPlace
<1>2. Blank \in Form /\ Blank.step = "email"
  BY DEF Blank, Form
<1>3. cookies' = SetSessionCookies(form[t].token) /\ form' = [form EXCEPT ![t] = Blank]
      /\ UNCHANGED <<server, minted, page, gate, latest, hydration, request, render, loads>>
  BY DEF StoreInPlace
<1>4. OrgCookieIsOfThisSession'
  BY <1>1, <1>3, SetSessionCookiesAre DEF OrgCookieIsOfThisSession, ReadSession
<1>. QED
  BY <1>1, <1>2, <1>3, <1>4, SetSessionCookiesAre, FormStep

---------------------------------------------------------------------------
(* The server. *)

LEMMA ClaimIs == ASSUME NEW u PROVE Claim(u) \in Orgs \cup {None}
<1>1. Cardinality(OrgsOf(u)) = 1 => OrgsOf(u) # {}
  BY FS_EmptySet
<1>2. OrgsOf(u) # {} => (CHOOSE o \in OrgsOf(u) : TRUE) \in OrgsOf(u)
  OBVIOUS
<1>3. OrgsOf(u) \subseteq Orgs
  BY DEF OrgsOf
<1>. QED
  BY <1>1, <1>2, <1>3 DEF Claim

\* A new session has the next number; the others keep theirs.
LEMMA MintGood == ASSUME Inv, NEW t \in Tabs, Mint(t) PROVE Inv'
<1>. DEFINE k == [user |-> form[t].user, org |-> Claim(form[t].user)]
            n == Len(tokens) + 1
            f == [form[t] EXCEPT !.step = "minted", !.token = n]
<1>1. form[t] \in Form /\ form[t].user \in Users /\ form[t].step # "email"
  BY FormIs DEF Inv, Mint
<1>2. k \in Token
  BY <1>1, ClaimIs DEF Token
<1>3. tokens' = Append(tokens, k)
      /\ UNCHANGED <<server, expired, changes, cookies, page, gate, latest, hydration, request, render, loads>>
  BY DEF Mint
<1>4. tokens \in Seq(Token) /\ Len(tokens) \in Nat /\ TokenIds = 1..Len(tokens)
  BY TokenIdsAre DEF Inv, TypeOK
<1>. HIDE DEF k
<1>5. tokens' \in Seq(Token) /\ Len(tokens') = n /\ \A i \in 1..Len(tokens) : tokens'[i] = tokens[i]
  BY <1>2, <1>3, <1>4
<1>6. TokenIds' = 1..n /\ TokenIds \subseteq TokenIds' /\ n \in TokenIds' /\ n \in Nat
  BY <1>4, <1>5 DEF TokenIds
<1>7. form' = [form EXCEPT ![t] = f]
  BY <1>5 DEF Mint
<1>8. f \in Form /\ f.user = form[t].user /\ f.token = n
  BY <1>1, <1>6 DEF Form
<1>9. n <= MaxTokens
  <2>1. Cardinality(TokenIds) = Len(tokens)
    BY <1>4, FS_Interval
  <2>. QED
    BY <1>4, <2>1, NextSessionAssumption DEF Mint
<1>. HIDE DEF f, n
<1>10. TypeOK'
  <2>1. \A s \in Tabs : /\ form'[s].step # "email" => form'[s].user \in Users
                        /\ form'[s].step = "minted" => form'[s].token \in TokenIds'
    BY <1>1, <1>6, <1>7, <1>8, FormIs DEF Inv, TypeOK
  <2>2. form' \in [Tabs -> Form]
    BY <1>7, <1>8 DEF Inv, TypeOK
  <2>3. Len(tokens') <= MaxTokens /\ expired' \subseteq TokenIds'
    BY <1>3, <1>5, <1>6, <1>9 DEF Inv, TypeOK
  <2>4. cookies' \in [session : TokenIds' \cup {None}, alias : TokenIds' \cup {None}, org : Orgs \cup {None},
                      orgFrom : TokenIds' \cup {None}]
    BY <1>3, <1>6, CookiesAre
  <2>. QED
    BY SMTT(20), <1>3, <1>5, <2>1, <2>2, <2>3, <2>4 DEF Inv, TypeOK, server
<1>11. ASSUME NEW s \in Tabs PROVE TabInv(s)'
  <2>1. page'[s] = page[s] /\ hydration'[s] = hydration[s] /\ gate'[s] = gate[s] /\ latest'[s] = latest[s]
        /\ request'[s] = request[s] /\ held' = held
    BY <1>3 DEF server
  <2>2. PageInv(page[s])' /\ WaitInv(s)'
    BY <2>1, TabIs DEF PageInv, WaitInv
  <2>3. (hydration[s] # None => HydrationInv(page[s], hydration[s]))'
    BY <1>4, <1>5, <1>6, <2>1, TabIs DEF HydrationInv
  <2>. QED
    BY <2>2, <2>3 DEF TabInv
<1>12. HeldInv' /\ RenderInv'
  BY <1>3 DEF Inv, HeldInv, RenderInv, server
<1>. QED
  BY <1>3, <1>10, <1>11, <1>12, SameCookies DEF Inv

\* A step that changes nothing of any tab, and only adds to what was held.
LEMMA NoTab ==
    ASSUME Inv, UNCHANGED <<tokens, cookies, page, gate, latest, hydration, request, form, loads>>,
           held \subseteq held', TypeOK', HeldInv', RenderInv'
    PROVE  Inv'
<1>1. ASSUME NEW s \in Tabs PROVE TabInv(s)'
  BY TabIs DEF TabInv, PageInv, HydrationInv, WaitInv, TokenIds
<1>. QED
  BY <1>1, SameCookies DEF Inv

LEMMA ChangeRoleGood ==
    ASSUME Inv, NEW o \in Orgs, NEW u \in Users, NEW r \in Roles \cup {None}, ChangeRole(o, u, r) PROVE Inv'
<1>1. changes < MaxChanges /\ changes' = changes + 1
      /\ members' = [members EXCEPT ![o][u] = r]
      /\ held' = (IF r = None THEN held ELSE held \cup {<<u, o, r>>})
      /\ UNCHANGED <<tokens, expired, cookies, page, gate, latest, hydration, request, form, render, loads>>
  BY DEF ChangeRole
<1>2. members' \in [Orgs -> [Users -> Roles \cup {None}]]
  BY <1>1 DEF Inv, TypeOK
<1>3. held \subseteq held' /\ held' \subseteq Users \X Orgs \X Roles
  BY <1>1 DEF Inv, TypeOK
<1>4. TypeOK'
  BY <1>1, <1>2, <1>3, NextSessionAssumption DEF Inv, TypeOK, TokenIds
<1>5. HeldInv'
  <2>1. ASSUME NEW p \in Orgs, NEW v \in Users, members'[p][v] # None
        PROVE  <<v, p, members'[p][v]>> \in held'
    <3>1. CASE p = o /\ v = u
      BY <1>1, <2>1, <3>1 DEF Inv, TypeOK
    <3>2. CASE ~(p = o /\ v = u)
      <4>1. members'[p][v] = members[p][v]
        BY <1>1, <3>2 DEF Inv, TypeOK
      <4>. QED
        BY <1>3, <2>1, <4>1 DEF Inv, HeldInv
    <3>. QED
      BY <3>1, <3>2
  <2>. QED
    BY <2>1 DEF HeldInv
<1>6. RenderInv'
  BY <1>1, <1>3 DEF Inv, RenderInv
<1>. QED
  BY <1>1, <1>3, <1>4, <1>5, <1>6, NoTab

LEMMA ExpireTokenGood == ASSUME Inv, NEW k \in TokenIds, ExpireToken(k) PROVE Inv'
<1>1. changes < MaxChanges /\ changes' = changes + 1 /\ expired' = expired \cup {k}
      /\ UNCHANGED <<server, tokens, cookies, page, gate, latest, hydration, request, form, render, loads>>
  BY DEF ExpireToken
<1>2. TypeOK'
  BY <1>1, NextSessionAssumption DEF Inv, TypeOK, TokenIds, server
<1>3. HeldInv' /\ RenderInv'
  BY <1>1 DEF Inv, HeldInv, RenderInv, server
<1>. QED
  BY <1>1, <1>2, <1>3, NoTab DEF server

\* A step of auth().
LEMMA RenderStep ==
    ASSUME Inv, render' \in Render \cup {None}, RenderInv',
           UNCHANGED <<server, minted, cookies, page, gate, latest, hydration, request, form, loads>>
    PROVE  Inv'
<1>1. TypeOK'
  BY DEF Inv, TypeOK, TokenIds, server, minted
<1>2. HeldInv'
  BY DEF Inv, HeldInv, server
<1>. QED
  BY <1>1, <1>2, NoTab DEF server, minted

LEMMA StartAuthGood == ASSUME Inv, StartAuth PROVE Inv'
<1>. DEFINE k == ReadSession
            a == [token |-> k, tries |-> Candidates(k), user |-> tokens[k].user, org |-> None, role |-> None]
<1>1. k \in TokenIds /\ render' = a
      /\ UNCHANGED <<server, minted, cookies, page, gate, latest, hydration, request, form, loads>>
  BY DEF StartAuth
<1>2. tokens[k].user \in Users /\ tokens[k].org \in Orgs \cup {None} /\ k \in Nat
  BY <1>1, TokenIs, TokenIdsAre DEF Inv
<1>3. Candidates(k) \in Seq(Orgs)
  BY <1>2, CookiesAre DEF Candidates
<1>4. a \in Render /\ a.org = None
  BY <1>2, <1>3 DEF Render
<1>. HIDE DEF a
<1>. QED
  BY <1>1, <1>4, RenderStep DEF RenderInv

LEMMA TryMembershipGood == ASSUME Inv, TryMembership PROVE Inv'
<1>. DEFINE o == Head(render.tries)
            role == IF render.token \in expired THEN None ELSE RoleIn(o, render.user)
            a == IF role = None THEN [render EXCEPT !.tries = Tail(render.tries)]
                 ELSE [render EXCEPT !.tries = <<>>, !.org = o, !.role = role]
<1>1. render # None /\ render.tries # <<>> /\ render' = a
      /\ UNCHANGED <<server, minted, cookies, page, gate, latest, hydration, request, form, loads>>
  BY DEF TryMembership
<1>2. render \in Render
  BY <1>1 DEF Inv, TypeOK
<1>3. render.tries \in Seq(Orgs) /\ render.user \in Users
  BY <1>2 DEF Render
<1>4. o \in Orgs /\ Tail(render.tries) \in Seq(Orgs)
  BY <1>1, <1>3
<1>5. role # None => role \in Roles /\ <<render.user, o, role>> \in held
  BY <1>3, <1>4 DEF Inv, TypeOK, HeldInv, RoleIn
<1>. HIDE DEF role, o
<1>6. CASE role = None
  <2>1. a \in Render /\ a.org = render.org /\ a.user = render.user /\ a.role = render.role
    BY <1>2, <1>4, <1>6 DEF Render
  <2>. HIDE DEF a
  <2>. QED
    BY <1>1, <2>1, RenderStep DEF RenderInv, Inv, server
<1>7. CASE role # None
  <2>0. a = [render EXCEPT !.tries = <<>>, !.org = o, !.role = role] /\ <<>> \in Seq(Orgs)
    BY <1>7
  <2>1. a \in Render /\ a.org = o /\ a.user = render.user /\ a.role = role
    BY <1>2, <1>4, <1>5, <1>7, <2>0 DEF Render
  <2>. HIDE DEF a
  <2>. QED
    BY <1>1, <1>5, <1>7, <2>1, RenderStep DEF RenderInv, Inv, server
<1>. QED
  BY <1>6, <1>7

LEMMA EndAuthGood == ASSUME Inv, EndAuth PROVE Inv'
  BY RenderStep DEF EndAuth, RenderInv

---------------------------------------------------------------------------
(* Every step. *)

LEMMA StutterGood == ASSUME Inv, UNCHANGED vars PROVE Inv'
<1>1. UNCHANGED <<server, minted, cookies, page, gate, latest, hydration, request, form, render, loads>>
  BY DEF vars, server, minted
<1>2. RenderInv' /\ render' \in Render \cup {None}
  BY <1>1 DEF Inv, TypeOK, RenderInv, server
<1>. QED
  BY <1>1, <1>2, RenderStep

LEMMA StepGood == Inv /\ [Next]_vars => Inv'
<1>. SUFFICES ASSUME Inv, [Next]_vars PROVE Inv'
  OBVIOUS
<1>1. ASSUME NEW t \in Tabs, Provide(t) PROVE Inv'
  BY <1>1, AnswerConfigGood, FailConfigGood, CommitGood, AnswerUserInfoGood, FailHydrationGood, AnswerMembershipGood
  DEF Provide
<1>2. ASSUME NEW t \in Tabs, Visit(t) PROVE Inv'
  BY <1>2, NavigateGood, SignOutGood, PressSignOutGood, SetActiveGood, SwitchOrganizationGood DEF Visit
<1>3. ASSUME NEW t \in Tabs, Exchange(t) PROVE Inv'
  BY <1>3, CallGood, StampGood, AnswerGood DEF Exchange
<1>4. ASSUME NEW t \in Tabs, Fill(t) PROVE Inv'
  BY <1>4, ChooseFormGood, AskMoreGood, PressBackGood, MintGood, StoreSessionGood, StoreInPlaceGood DEF Fill
<1>5. ASSUME Surroundings PROVE Inv'
  BY <1>5, ChangeRoleGood, ExpireTokenGood, StartAuthGood, TryMembershipGood, EndAuthGood DEF Surroundings
<1>. QED
  BY <1>1, <1>2, <1>3, <1>4, <1>5, StutterGood DEF Next

LEMMA InitGood == Init => Inv
<1>. SUFFICES ASSUME Init PROVE Inv
  OBVIOUS
<1>1. Closed \in Page /\ Closed.role = None /\ Blank \in Form /\ Blank.step = "email"
  BY DEF Closed, Page, Settings, Blank, Form
<1>2. NoCookies \in [session : TokenIds \cup {None}, alias : TokenIds \cup {None}, org : Orgs \cup {None},
                     orgFrom : TokenIds \cup {None}] /\ SessionIn(NoCookies) = None
  BY DEF NoCookies, SessionIn
<1>3. members \in [Orgs -> [Users -> Roles \cup {None}]] /\ tokens \in Seq(Token) /\ Len(tokens) = 0
  BY NextSessionAssumption DEF Init
<1>4. TypeOK
  BY <1>1, <1>2, <1>3, NextSessionAssumption DEF Init, TypeOK, Settings
<1>5. HeldInv
  BY <1>3 DEF Init, HeldInv
<1>6. ASSUME NEW t \in Tabs PROVE TabInv(t)
  BY <1>1 DEF Init, TabInv, PageInv, WaitInv
<1>7. RenderInv /\ OrgCookieIsOfThisSession
  BY <1>2 DEF Init, RenderInv, OrgCookieIsOfThisSession, ReadSession
<1>. QED
  BY <1>4, <1>5, <1>6, <1>7 DEF Inv

LEMMA AlwaysInv == Spec => []Inv
  BY InitGood, StepGood, PTL DEF Spec

---------------------------------------------------------------------------
(* Theorems *)

\* Type correctness.
THEOREM TypeCorrect == Spec => []TypeOK
<1>1. Inv => TypeOK
  BY DEF Inv
<1>. QED
  BY <1>1, AlwaysInv, PTL

\* A role that a page shows, and one that auth() reports, was held by that user
\* in that organisation (BlerpProvider.hydrate, setActive, auth).
THEOREM RolesAreHeld == Spec => []RolesWereHeld
<1>1. Inv => RolesWereHeld
  BY DEF Inv, TabInv, PageInv, RenderInv, RolesWereHeld
<1>. QED
  BY <1>1, AlwaysInv, PTL

\* The organisation in the cookie was put there under the session that is in
\* the cookie beside it (session-cookies.ts, blerpMiddleware).
THEOREM OrgCookieFollows == Spec => []OrgCookieIsOfThisSession
<1>1. Inv => OrgCookieIsOfThisSession
  BY DEF Inv
<1>. QED
  BY <1>1, AlwaysInv, PTL

\* A call that the gate held back leaves with the configuration that was
\* fetched (BlerpProvider's first middleware and its latestAuthRef).
THEOREM RequestsWait == Spec => []RequestsUseFetchedConfig
<1>1. Inv => RequestsUseFetchedConfig
  BY DEF Inv, TabInv, WaitInv, RequestsUseFetchedConfig
<1>. QED
  BY <1>1, AlwaysInv, PTL
=============================================================================
