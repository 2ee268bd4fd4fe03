-------------------------- MODULE DashboardProofs --------------------------
(***************************************************************************)
(* The query cache of the dashboard and of the hooks of packages/nextjs,   *)
(* for any number of tabs, users and writes: its types, that no screen     *)
(* shows what another session fetched, and that a screen does not settle   *)
(* on what was there before a mutation that it saw succeed.                *)
(***************************************************************************)
EXTENDS Dashboard, TLAPS

\* What is in the cache, or on its way there, was asked for with the session that
\* the tab has, unless the tab is about to load a new document.
CacheOK(tb, e) ==
    tb.to = None =>
        /\ e.data # None => e.owner = tb.session
        /\ e.fetch # None => e.fetch.as = tb.session

\* Neither the data that is not marked stale nor an answer on its way is older
\* than the last own write; what is older is marked, or still to be read.
FreshOK(e, written, now) ==
    /\ written <= now
    /\ e.data # None /\ ~e.stale => e.data >= written
    /\ e.fetch # None => (e.fetch.got # None => e.fetch.got >= written)

\* A mutation that touches the key without being overlooked invalidates it, and
\* what it made is no newer than the server's value.
MutationOK(m, now) ==
    m # None =>
        /\ m.touches /\ ~m.overlooked => m.invalidates
        /\ m.made # None => m.made <= now

\* A form past its first step knows whom it signs in, and only the dashboard has one.
FormOK(f) ==
    /\ f.step # "email" => f.signin \in Users
    /\ f.sent # {} => IsDashboard

TabOK(tb, e, m, f, written, now) ==
    CacheOK(tb, e) /\ FreshOK(e, written, now) /\ MutationOK(m, now) /\ FormOK(f)

Inv == TypeOK /\ \A t \in Tabs : TabOK(tab[t], entry[t], mutation[t], form[t], wrote[t], version)
-----------------------------------------------------------------------------
(* The tables of hooks. *)

\* A table of mutations forgets no key but those that Overlooked names.
Sound(hook) ==
    \A m \in DOMAIN hook : \A k \in hook[m].touches :
        <<m, k>> \in Overlooked \/ k \in hook[m].invalidates

\* Every hook of the two packages invalidates what it touches, or is listed.
LEMMA HooksAreSound == \A hook \in Hooks : Sound(hook)
<1> USE DEF Sound, Writes
<1>1. Sound(UseOrganizations) /\ Sound(UseDeleteOrganization)
  BY DEF UseOrganizations, UseDeleteOrganization
<1>2. Sound(UseProject)
  BY DEF UseProject, Overlooked
<1>3. Sound(UseUser) /\ Sound(UseUserIdentities)
  BY DEF UseUser, UseUserIdentities
<1>4. Sound(UseUsers)
  BY DEF UseUsers, Overlooked
<1>5. Sound(UseSessions) /\ Sound(UseUpload)
  BY DEF UseSessions, UseUpload
<1>6. Sound(UseTotp)
  BY DEF UseTotp
<1>7. Sound(UsePasskeys)
  BY DEF UsePasskeys
<1>8. Sound(UseEmails)
  BY DEF UseEmails
<1>9. Sound(UsePhoneNumbers) /\ Sound(UseWebhooks)
  BY DEF UsePhoneNumbers, UseWebhooks
<1>10. Sound(UseDomains)
  BY DEF UseDomains
<1>11. Sound(UseRestrictions) /\ Sound(UseRedirectUrls)
  BY DEF UseRestrictions, UseRedirectUrls
<1>12. Sound(EditOrganization) /\ Sound(LeaveOrganization)
  BY DEF EditOrganization, LeaveOrganization
<1>13. Sound(NextOrganizations) /\ Sound(NextAccount)
  BY DEF NextOrganizations, NextAccount
<1>14. Sound(NextDomains)
  BY DEF NextDomains
<1> HIDE DEF Sound, Writes
<1> QED
  BY <1>1, <1>2, <1>3, <1>4, <1>5, <1>6, <1>7, <1>8, <1>9, <1>10, <1>11, <1>12, <1>13, <1>14
  DEF Hooks

\* The two screens that a way in or out leads to are the dashboard's, and None is
\* none of its screens.
LEMMA ScreenFacts ==
  /\ {"organizations", "signIn"} \subseteq DOMAIN DashboardScreens
  /\ None \notin DOMAIN DashboardScreens /\ None \notin Nat /\ None \notin Users
  /\ Visited \subseteq DOMAIN App
BY DashboardAssumption DEF DashboardScreens, Visited
-----------------------------------------------------------------------------
(* The query cache. *)

\* A fetch that starts replaces the one in flight and leaves the data.
LEMMA FetchKeeps ==
  \A e \in Entry, who \in Someone :
     /\ Fetch(e, who) \in Entry
     /\ Fetch(e, who).data = e.data /\ Fetch(e, who).owner = e.owner
     /\ Fetch(e, who).stale = e.stale
     /\ Fetch(e, who).fetch.as = who /\ Fetch(e, who).fetch.got = None
<1> SUFFICES ASSUME NEW e \in Entry, NEW who \in Someone
             PROVE  /\ Fetch(e, who) \in Entry
                    /\ Fetch(e, who).data = e.data /\ Fetch(e, who).owner = e.owner
                    /\ Fetch(e, who).stale = e.stale
                    /\ Fetch(e, who).fetch.as = who /\ Fetch(e, who).fetch.got = None
  OBVIOUS
<1> DEFINE request == [as |-> who, got |-> None]
<1>1. PICK r \in [as : Someone, got : Written \cup {None}] : r = request
  OBVIOUS
<1>2. r.as = who /\ r.got = None
  BY <1>1
<1>3. Fetch(e, who) = [e EXCEPT !.fetch = r]
  BY <1>1 DEF Fetch
<1> HIDE DEF request
<1> QED
  BY <1>2, <1>3 DEF Entry

\* A fetch of the tab's own session disturbs nothing, whether it is joined or new.
LEMMA MountKeeps ==
  \A e \in Entry, who \in Someone, tb \in Tab, written \in Written, now \in Written :
     tb.session = who /\ CacheOK(tb, e) /\ FreshOK(e, written, now)
       => Mount(e, who) \in Entry /\ CacheOK(tb, Mount(e, who))
          /\ FreshOK(Mount(e, who), written, now)
  BY FetchKeeps DEF Mount, CacheOK, FreshOK

\* Invalidation marks the data and may start a fetch; on a screen that shows data
\* it does.
LEMMA InvalidateKeeps ==
  \A e \in Entry, who \in Someone, shown \in BOOLEAN :
     LET i == Invalidate(e, shown, who) IN
        /\ i \in Entry /\ i.data = e.data /\ i.owner = e.owner /\ i.stale
        /\ \/ i.fetch = e.fetch /\ ~(shown /\ e.data # None)
           \/ i.fetch.as = who /\ i.fetch.got = None
<1> SUFFICES ASSUME NEW e \in Entry, NEW who \in Someone, NEW shown \in BOOLEAN
             PROVE  LET i == Invalidate(e, shown, who) IN
                      /\ i \in Entry /\ i.data = e.data /\ i.owner = e.owner /\ i.stale
                      /\ \/ i.fetch = e.fetch /\ ~(shown /\ e.data # None)
                         \/ i.fetch.as = who /\ i.fetch.got = None
  OBVIOUS
<1>1. PICK marked : marked = [e EXCEPT !.stale = TRUE]
  OBVIOUS
<1>2. /\ marked \in Entry /\ marked.data = e.data /\ marked.owner = e.owner
      /\ marked.stale = TRUE /\ marked.fetch = e.fetch
  BY <1>1 DEF Entry
<1>3. Invalidate(e, shown, who) =
        IF shown /\ (e.fetch = None \/ e.data # None) THEN Fetch(marked, who) ELSE marked
  BY <1>1 DEF Invalidate
<1> QED
  BY <1>2, <1>3, FetchKeeps
-----------------------------------------------------------------------------
(* The steps.  Each one moves a single tab, or none. *)

\* The value at t of the new function, nothing else having changed.
Sets(old, new, t, value) == new = [old EXCEPT ![t] = value] \/ (new = old /\ value = old[t])

\* A step that leaves one tab in order leaves all of them in order.
LEMMA OneTab ==
  ASSUME Inv, NEW t \in Tabs
  PROVE  \A tb \in Tab, e \in Entry, m \in Mutation \cup {None}, f \in Form, w \in Written :
           /\ Sets(tab, tab', t, tb) /\ Sets(entry, entry', t, e)
           /\ Sets(mutation, mutation', t, m) /\ Sets(form, form', t, f)
           /\ Sets(wrote, wrote', t, w)
           /\ watch' = watch /\ version' \in Written /\ version' >= version
           /\ storage' \in Someone /\ loads' \in 0 .. MaxLoads /\ visits' \in 0 .. MaxVisits
           /\ submits' \in 0 .. MaxWork
           /\ TabOK(tb, e, m, f, w, version')
           => Inv'
<1> SUFFICES ASSUME NEW tb \in Tab, NEW e \in Entry, NEW m \in Mutation \cup {None},
                    NEW f \in Form, NEW w \in Written,
                    Sets(tab, tab', t, tb), Sets(entry, entry', t, e),
                    Sets(mutation, mutation', t, m), Sets(form, form', t, f),
                    Sets(wrote, wrote', t, w),
                    watch' = watch, version' \in Written, version' >= version,
                    storage' \in Someone, loads' \in 0 .. MaxLoads,
                    visits' \in 0 .. MaxVisits, submits' \in 0 .. MaxWork,
                    TabOK(tb, e, m, f, w, version')
             PROVE  Inv'
  OBVIOUS
<1>1. Tab' = Tab /\ App' = App /\ (IsDashboard' <=> IsDashboard)
  BY DEF Tab, App, IsDashboard
<1>2. TypeOK
  BY DEF Inv
<1>3. /\ tab' \in [Tabs -> Tab] /\ entry' \in [Tabs -> Entry]
      /\ mutation' \in [Tabs -> Mutation \cup {None}] /\ form' \in [Tabs -> Form]
      /\ wrote' \in [Tabs -> Written]
  BY <1>2 DEF TypeOK, Sets
<1>4. \A u \in Tabs :
        /\ tab'[u] = IF u = t THEN tb ELSE tab[u]
        /\ entry'[u] = IF u = t THEN e ELSE entry[u]
        /\ mutation'[u] = IF u = t THEN m ELSE mutation[u]
        /\ form'[u] = IF u = t THEN f ELSE form[u]
        /\ wrote'[u] = IF u = t THEN w ELSE wrote[u]
  BY <1>2 DEF TypeOK, Sets
<1>5. FormOK(f) /\ \A u \in Tabs : FormOK(form[u])
  BY DEF Inv, TabOK
<1>6. TypeOK'
  <2>1. \A u \in Tabs : /\ form'[u].step # "email" => form'[u].signin \in Users
                        /\ form'[u].sent # {} => IsDashboard'
    BY <1>1, <1>4, <1>5 DEF FormOK
  <2> QED
    BY <1>1, <1>2, <1>3, <2>1 DEF TypeOK
<1>7. ASSUME NEW u \in Tabs
      PROVE  TabOK(tab[u], entry[u], mutation[u], form[u], wrote[u], version')
  <2>1. TabOK(tab[u], entry[u], mutation[u], form[u], wrote[u], version)
    BY DEF Inv
  <2>2. version \in Nat /\ version' \in Nat /\ wrote[u] \in Nat
        /\ entry[u] \in Entry /\ mutation[u] \in Mutation \cup {None}
    BY <1>2, DashboardAssumption DEF TypeOK, Written
  <2>3. FreshOK(entry[u], wrote[u], version')
    BY <2>1, <2>2 DEF TabOK, FreshOK
  <2>4. MutationOK(mutation[u], version')
    <3>1. SUFFICES ASSUME mutation[u] # None, mutation[u].made # None
                   PROVE  mutation[u].made <= version'
      BY <2>1 DEF TabOK, MutationOK
    <3>2. mutation[u].made \in Nat /\ mutation[u].made <= version
      BY <2>1, <2>2, <3>1, DashboardAssumption DEF TabOK, MutationOK, Mutation, Written
    <3> QED
      BY <2>2, <3>2
  <2> QED
    BY <2>1, <2>3, <2>4 DEF TabOK
<1>8. \A u \in Tabs : TabOK(tab[u], entry[u], mutation[u], form[u], wrote[u], version)'
  <2>1. \A a, b, c, d, x, n : TabOK(a, b, c, d, x, n)' <=> TabOK(a, b, c, d, x, n)
    BY <1>1 DEF TabOK, CacheOK, FreshOK, MutationOK, FormOK
  <2> QED
    BY <1>4, <1>7, <2>1
<1> QED
  BY <1>6, <1>8 DEF Inv

\* What the invariant says of one tab.
LEMMA Facts ==
  ASSUME Inv, NEW t \in Tabs
  PROVE  /\ tab[t] \in Tab /\ entry[t] \in Entry /\ mutation[t] \in Mutation \cup {None}
         /\ form[t] \in Form /\ wrote[t] \in Written
         /\ CacheOK(tab[t], entry[t]) /\ FreshOK(entry[t], wrote[t], version)
         /\ MutationOK(mutation[t], version) /\ FormOK(form[t])
         /\ version \in Written /\ Written \subseteq Nat /\ storage \in Someone
         /\ loads \in 0 .. MaxLoads /\ visits \in 0 .. MaxVisits /\ submits \in 0 .. MaxWork
BY DashboardAssumption DEF Inv, TypeOK, TabOK, Written

\* A step of the cache alone.
LEMMA EntryStep ==
  ASSUME Inv, NEW t \in Tabs, UNCHANGED <<watch, version, session, tab, mutation, bounds, wrote>>
  PROVE  \A e \in Entry :
           /\ entry' = [entry EXCEPT ![t] = e]
           /\ CacheOK(tab[t], e) /\ FreshOK(e, wrote[t], version)
           => Inv'
<1> SUFFICES ASSUME NEW e \in Entry, entry' = [entry EXCEPT ![t] = e],
                    CacheOK(tab[t], e), FreshOK(e, wrote[t], version)
             PROVE  Inv'
  OBVIOUS
<1>1. /\ watch' = watch /\ version' = version /\ storage' = storage /\ tab' = tab
      /\ mutation' = mutation /\ form' = form /\ wrote' = wrote
      /\ loads' = loads /\ visits' = visits /\ submits' = submits
  BY DEF session, bounds
<1>2. TabOK(tab[t], e, mutation[t], form[t], wrote[t], version')
  BY <1>1, Facts DEF TabOK
<1>3. /\ Sets(tab, tab', t, tab[t]) /\ Sets(entry, entry', t, e)
      /\ Sets(mutation, mutation', t, mutation[t]) /\ Sets(form, form', t, form[t])
      /\ Sets(wrote, wrote', t, wrote[t])
  BY <1>1 DEF Sets
<1>4. version' \in Written /\ version' >= version
  BY <1>1, Facts
<1> QED
  BY <1>1, <1>2, <1>3, <1>4, Facts, OneTab

\* A step of a mutation alone, and of the server's value.
LEMMA MutationStep ==
  ASSUME Inv, NEW t \in Tabs, UNCHANGED <<watch, session, tab, entry, bounds, wrote>>,
         version' \in Written, version' >= version
  PROVE  \A m \in Mutation \cup {None} :
           mutation' = [mutation EXCEPT ![t] = m] /\ MutationOK(m, version') => Inv'
<1> SUFFICES ASSUME NEW m \in Mutation \cup {None}, mutation' = [mutation EXCEPT ![t] = m],
                    MutationOK(m, version')
             PROVE  Inv'
  OBVIOUS
<1>1. /\ watch' = watch /\ storage' = storage /\ tab' = tab /\ entry' = entry
      /\ form' = form /\ wrote' = wrote
      /\ loads' = loads /\ visits' = visits /\ submits' = submits
  BY DEF session, bounds
<1>2. FreshOK(entry[t], wrote[t], version')
  BY Facts DEF FreshOK
<1>3. TabOK(tab[t], entry[t], m, form[t], wrote[t], version')
  BY <1>2, Facts DEF TabOK
<1>4. /\ Sets(tab, tab', t, tab[t]) /\ Sets(entry, entry', t, entry[t])
      /\ Sets(mutation, mutation', t, m) /\ Sets(form, form', t, form[t])
      /\ Sets(wrote, wrote', t, wrote[t])
  BY <1>1 DEF Sets
<1> QED
  BY <1>1, <1>3, <1>4, Facts, OneTab

\* A step of the form alone.
LEMMA FormStep ==
  ASSUME Inv, NEW t \in Tabs, submits' \in 0 .. MaxWork,
         UNCHANGED <<watch, version, storage, tab, entry, mutation, loads, visits, wrote>>
  PROVE  \A f \in Form : form' = [form EXCEPT ![t] = f] /\ FormOK(f) => Inv'
<1> SUFFICES ASSUME NEW f \in Form, form' = [form EXCEPT ![t] = f], FormOK(f)
             PROVE  Inv'
  OBVIOUS
<1>1. TabOK(tab[t], entry[t], mutation[t], f, wrote[t], version')
  BY Facts DEF TabOK
<1>2. /\ Sets(tab, tab', t, tab[t]) /\ Sets(entry, entry', t, entry[t])
      /\ Sets(mutation, mutation', t, mutation[t]) /\ Sets(form, form', t, f)
      /\ Sets(wrote, wrote', t, wrote[t])
  BY DEF Sets
<1>3. version' \in Written /\ version' >= version
  BY Facts
<1> QED
  BY <1>1, <1>2, <1>3, Facts, OneTab
-----------------------------------------------------------------------------
(* Documents and screens. *)

\* What a form sent stays sent when the form is left.
LEMMA LeftFormKeeps ==
  \A f \in Form : FormOK(f) => LeftForm(f) \in Form /\ FormOK(LeftForm(f))
<1> SUFFICES ASSUME NEW f \in Form, FormOK(f) PROVE LeftForm(f) \in Form /\ FormOK(LeftForm(f))
  OBVIOUS
<1> DEFINE left == {[r EXCEPT !.here = FALSE] : r \in f.sent}
<1>1. f.sent \subseteq Request
  BY DEF Form
<1>2. \A r \in Request : [r EXCEPT !.here = FALSE] \in Request
  BY DEF Request
<1>3. left \in SUBSET Request /\ (left # {} => f.sent # {})
  BY <1>1, <1>2
<1>4. LeftForm(f) = [BlankForm EXCEPT !.sent = left]
  BY DEF LeftForm
<1> HIDE DEF left
<1>5. LeftForm(f) \in Form /\ LeftForm(f).step = "email" /\ LeftForm(f).sent = left
  BY <1>3, <1>4 DEF BlankForm, Form, Someone
<1> QED
  BY <1>3, <1>5 DEF FormOK

\* A new form has nobody and sent nothing.
LEMMA BlankFormFacts == BlankForm \in Form /\ FormOK(BlankForm)
  BY DEF BlankForm, Form, FormOK, Someone

\* A cache without the key has nothing of anybody.
LEMMA NoEntryFacts ==
  /\ NoEntry \in Entry
  /\ \A tb : CacheOK(tb, NoEntry)
  /\ \A now \in Written : FreshOK(NoEntry, 0, now)
<1>1. Written \subseteq Nat
  BY DashboardAssumption DEF Written
<1> QED
  BY <1>1 DEF NoEntry, Entry, Someone, CacheOK, FreshOK

\* A document that loads has an empty cache and the session of localStorage.
LEMMA OpenStep ==
  ASSUME Inv, NEW t \in Tabs, NEW s \in Visited, Open(t, s)
  PROVE  Inv'
<1>1. /\ loads' = loads + 1 /\ loads < MaxLoads
      /\ watch' = watch /\ version' = version /\ storage' = storage
      /\ visits' = visits /\ submits' = submits
  BY DEF Open
<1>2. PICK tb : tb = [session |-> storage, screen |-> s, to |-> None]
  OBVIOUS
<1>3. tb \in Tab /\ tb.session = storage /\ tab' = [tab EXCEPT ![t] = tb]
  BY <1>2, Facts, ScreenFacts DEF Tab, Open
<1>4. PICK e : e = IF watch \in App[s].reads THEN Mount(NoEntry, storage) ELSE NoEntry
  OBVIOUS
<1>5. entry' = [entry EXCEPT ![t] = e]
  BY <1>4 DEF Open
<1>6. 0 \in Written /\ version \in Written /\ storage \in Someone
  BY Facts, DashboardAssumption DEF Written
<1>7. e \in Entry /\ CacheOK(tb, e) /\ FreshOK(e, 0, version)
  BY <1>3, <1>4, <1>6, NoEntryFacts, MountKeeps
<1>8. MutationOK(None, version)
  BY DEF MutationOK
<1>9. TabOK(tb, e, None, BlankForm, 0, version')
  BY <1>1, <1>7, <1>8, BlankFormFacts DEF TabOK
<1>10. /\ Sets(tab, tab', t, tb) /\ Sets(entry, entry', t, e)
       /\ Sets(mutation, mutation', t, None) /\ Sets(form, form', t, BlankForm)
       /\ Sets(wrote, wrote', t, 0)
  BY <1>3, <1>5 DEF Open, Sets
<1>11. loads' \in 0 .. MaxLoads /\ version' \in Written /\ version' >= version
  BY <1>1, Facts, DashboardAssumption
<1> QED
  BY <1>1, <1>3, <1>6, <1>7, <1>9, <1>10, <1>11, Facts, BlankFormFacts, OneTab

\* A change of screen keeps the cache, and what it mounts is fetched with the
\* session of the tab.
LEMMA VisitStep ==
  ASSUME Inv, NEW t \in Tabs, NEW s \in Visited, Visit(t, s)
  PROVE  Inv'
<1>1. /\ visits' = visits + 1 /\ visits < MaxVisits
      /\ watch' = watch /\ version' = version /\ storage' = storage
      /\ mutation' = mutation /\ wrote' = wrote /\ loads' = loads /\ submits' = submits
  BY DEF Visit
<1>2. PICK tb : tb = [tab[t] EXCEPT !.screen = s]
  OBVIOUS
<1>3. tb \in Tab /\ tb.session = tab[t].session /\ tb.to = tab[t].to
  BY <1>2, Facts, ScreenFacts DEF Tab
<1>4. tab' = [tab EXCEPT ![t] = tb]
  BY <1>2 DEF Visit
<1>5. PICK mounts \in BOOLEAN :
        entry' = [entry EXCEPT ![t] = IF mounts THEN Mount(@, tab[t].session) ELSE @]
  BY DEF Visit
<1>6. PICK e : e = IF mounts THEN Mount(entry[t], tab[t].session) ELSE entry[t]
  OBVIOUS
<1>7. entry' = [entry EXCEPT ![t] = e]
  BY <1>5, <1>6
<1>8. tab[t].session \in Someone /\ CacheOK(tb, entry[t])
  BY <1>3, Facts DEF Tab, CacheOK
<1>9. e \in Entry /\ CacheOK(tb, e) /\ FreshOK(e, wrote[t], version)
  BY <1>3, <1>6, <1>8, Facts, MountKeeps
<1>10. PICK f : f = IF tab[t].screen = "signIn" THEN LeftForm(form[t]) ELSE form[t]
  OBVIOUS
<1>11. form' = [form EXCEPT ![t] = f]
  BY <1>10 DEF Visit
<1>12. f \in Form /\ FormOK(f)
  BY <1>10, Facts, LeftFormKeeps
<1>13. TabOK(tb, e, mutation[t], f, wrote[t], version')
  BY <1>1, <1>9, <1>12, Facts DEF TabOK
<1>14. /\ Sets(tab, tab', t, tb) /\ Sets(entry, entry', t, e)
       /\ Sets(mutation, mutation', t, mutation[t]) /\ Sets(form, form', t, f)
       /\ Sets(wrote, wrote', t, wrote[t])
  BY <1>1, <1>4, <1>7, <1>11 DEF Sets
<1>15. visits' \in 0 .. MaxVisits /\ version' \in Written /\ version' >= version
  BY <1>1, Facts, DashboardAssumption
<1> QED
  BY <1>1, <1>3, <1>9, <1>12, <1>13, <1>14, <1>15, Facts, OneTab

\* A window that gains focus fetches with the session of the tab.
LEMMA FocusStep ==
  ASSUME Inv, NEW t \in Tabs, Focus(t)
  PROVE  Inv'
<1>1. PICK e : e = Mount(entry[t], tab[t].session)
  OBVIOUS
<1>2. tab[t].session \in Someone
  BY Facts DEF Tab
<1>3. e \in Entry /\ CacheOK(tab[t], e) /\ FreshOK(e, wrote[t], version)
  BY <1>1, <1>2, Facts, MountKeeps
<1> QED
  BY <1>1, <1>3, EntryStep DEF Focus
-----------------------------------------------------------------------------
(* Fetches. *)

\* The server answers with its present value, which no own write is later than.
LEMMA ServerReadsStep ==
  ASSUME Inv, NEW t \in Tabs, ServerReads(t)
  PROVE  Inv'
<1>1. PICK r : r = [entry[t].fetch EXCEPT !.got = version]
  OBVIOUS
<1>2. entry[t].fetch \in [as : Someone, got : Written \cup {None}]
  BY Facts DEF ServerReads, Entry
<1>3. r \in [as : Someone, got : Written \cup {None}] /\ r.as = entry[t].fetch.as /\ r.got = version
  BY <1>1, <1>2, Facts
<1>4. PICK e : e = [entry[t] EXCEPT !.fetch = r]
  OBVIOUS
<1>5. /\ e \in Entry /\ e.data = entry[t].data /\ e.owner = entry[t].owner
      /\ e.stale = entry[t].stale /\ e.fetch = r
  BY <1>3, <1>4, Facts DEF Entry
<1>6. entry' = [entry EXCEPT ![t] = e]
  BY <1>1, <1>4 DEF ServerReads
<1>7. CacheOK(tab[t], e)
  BY <1>3, <1>5, Facts DEF CacheOK, ServerReads
<1>8. FreshOK(e, wrote[t], version)
  BY <1>3, <1>5, Facts DEF FreshOK
<1> QED
  BY <1>5, <1>6, <1>7, <1>8, EntryStep DEF ServerReads

\* An answer that arrives is of the tab's session and no older than the own write.
LEMMA FetchArrivesStep ==
  ASSUME Inv, NEW t \in Tabs, FetchArrives(t)
  PROVE  Inv'
<1>1. PICK e : e = Fill(entry[t])
  OBVIOUS
<1>2. entry[t].fetch \in [as : Someone, got : Written \cup {None}] /\ entry[t].fetch.got # None
  BY Facts DEF FetchArrives, Entry
<1>3. /\ e \in Entry /\ e.data = entry[t].fetch.got /\ e.owner = entry[t].fetch.as /\ e.fetch = None
  BY <1>1, <1>2 DEF Fill, Entry
<1>4. CacheOK(tab[t], e) /\ FreshOK(e, wrote[t], version)
  BY <1>2, <1>3, Facts DEF CacheOK, FreshOK, FetchArrives
<1> QED
  BY <1>1, <1>3, <1>4, EntryStep DEF FetchArrives

\* A fetch that fails leaves the data and its mark.
LEMMA FetchFailsStep ==
  ASSUME Inv, NEW t \in Tabs, FetchFails(t)
  PROVE  Inv'
<1>1. PICK e : e = [entry[t] EXCEPT !.fetch = None]
  OBVIOUS
<1>2. /\ e \in Entry /\ e.data = entry[t].data /\ e.owner = entry[t].owner
      /\ e.stale = entry[t].stale /\ e.fetch = None
  BY <1>1, Facts DEF Entry
<1>3. CacheOK(tab[t], e) /\ FreshOK(e, wrote[t], version)
  BY <1>2, Facts DEF CacheOK, FreshOK
<1> QED
  BY <1>1, <1>2, <1>3, EntryStep DEF FetchFails
-----------------------------------------------------------------------------
(* Mutations. *)

\* What a hook sends invalidates what it touches, unless it is listed.
LEMMA MutateStep ==
  ASSUME Inv, NEW t \in Tabs, Mutate(t)
  PROVE  Inv'
<1>1. PICK hook \in Hooks, m \in UNION {DOMAIN h : h \in Hooks} :
        m \in DOMAIN hook /\ Send(t, Effect(hook, m))
  BY DEF Mutate
<1>2. PICK effect : effect = Effect(hook, m)
  OBVIOUS
<1>3. /\ effect \in Mutation /\ effect.made = None
      /\ effect.touches = (watch \in hook[m].touches)
      /\ effect.invalidates = (watch \in hook[m].invalidates)
      /\ effect.overlooked = (<<m, watch>> \in Overlooked)
  BY <1>2 DEF Effect, Mutation
<1>4. Sound(hook)
  BY HooksAreSound
<1>5. MutationOK(effect, version)
  BY <1>1, <1>3, <1>4 DEF MutationOK, Sound
<1>6. /\ mutation' = [mutation EXCEPT ![t] = effect]
      /\ UNCHANGED <<watch, version, session, tab, entry, bounds, wrote>>
  BY <1>1, <1>2 DEF Send
<1>7. version' = version /\ version' \in Written /\ version' >= version
  BY <1>6, Facts
<1> QED
  BY <1>3, <1>5, <1>6, <1>7, MutationStep

\* The two ways out touch no key.
LEMMA PressStep ==
  ASSUME Inv, NEW t \in Tabs, pressSignOut(t) \/ pressDelete(t)
  PROVE  Inv'
<1>1. PICK name \in {"signOut", "deleteAccount"} : Send(t, Exits(name))
  BY DEF pressSignOut, pressDelete
<1>2. PICK effect : effect = Exits(name)
  OBVIOUS
<1>3. effect \in Mutation /\ MutationOK(effect, version)
  BY <1>2 DEF Exits, Mutation, MutationOK
<1>4. /\ mutation' = [mutation EXCEPT ![t] = effect]
      /\ UNCHANGED <<watch, version, session, tab, entry, bounds, wrote>>
  BY <1>1, <1>2 DEF Send
<1>5. version' = version /\ version' \in Written /\ version' >= version
  BY <1>4, Facts
<1> QED
  BY <1>3, <1>4, <1>5, MutationStep

\* The server's value becomes the one the mutation made.
LEMMA ServerWritesStep ==
  ASSUME Inv, NEW t \in Tabs, ServerWrites(t)
  PROVE  Inv'
<1>1. mutation[t] \in Mutation
  BY Facts DEF ServerWrites
<1>2. version' \in Written /\ version' >= version
  BY Facts, DashboardAssumption DEF ServerWrites, MoreWrites, Written
<1>3. PICK m : m = [mutation[t] EXCEPT !.made = version']
  OBVIOUS
<1>4. /\ m \in Mutation /\ m.made = version' /\ m.touches = mutation[t].touches
      /\ m.invalidates = mutation[t].invalidates /\ m.overlooked = mutation[t].overlooked
  BY <1>1, <1>2, <1>3 DEF Mutation
<1>5. mutation' = [mutation EXCEPT ![t] = m]
  BY <1>3 DEF ServerWrites
<1>6. MutationOK(m, version')
  BY <1>2, <1>4, Facts DEF MutationOK, ServerWrites
<1> QED
  BY <1>2, <1>4, <1>5, <1>6, MutationStep DEF ServerWrites

\* The server refuses, or its answer is lost.
LEMMA MutationFailsStep ==
  ASSUME Inv, NEW t \in Tabs, MutationFails(t)
  PROVE  Inv'
<1>1. version' \in Written /\ version' >= version
  BY Facts DEF MutationFails
<1>2. MutationOK(None, version')
  BY DEF MutationOK
<1> QED
  BY <1>1, <1>2, MutationStep DEF MutationFails

\* On success the data of before is marked, and what is in flight on a screen that
\* shows it is asked for again.
LEMMA MutationSucceedsStep ==
  ASSUME Inv, NEW t \in Tabs, MutationSucceeds(t)
  PROVE  Inv'
<1>1. /\ watch' = watch /\ version' = version /\ storage' = storage /\ tab' = tab
      /\ form' = form /\ loads' = loads /\ visits' = visits /\ submits' = submits
      /\ mutation[t] # None /\ mutation[t].made # None
      /\ mutation' = [mutation EXCEPT ![t] = None]
  BY DEF MutationSucceeds, session, bounds
<1>2. mutation[t] \in Mutation /\ mutation[t].made \in Written /\ mutation[t].made <= version
  BY <1>1, Facts DEF Mutation, MutationOK
<1>3. PICK i : i = Invalidate(entry[t], Shown(t), tab[t].session)
  OBVIOUS
<1>4. PICK e : e = IF mutation[t].invalidates THEN i ELSE entry[t]
  OBVIOUS
<1>5. entry' = [entry EXCEPT ![t] = e]
  BY <1>3, <1>4 DEF MutationSucceeds
<1>6. tab[t].session \in Someone /\ Shown(t) \in BOOLEAN
  BY Facts DEF Tab, Shown
<1>7. /\ i \in Entry /\ i.data = entry[t].data /\ i.owner = entry[t].owner /\ i.stale
      /\ \/ i.fetch = entry[t].fetch /\ ~(Shown(t) /\ entry[t].data # None)
         \/ i.fetch.as = tab[t].session /\ i.fetch.got = None
  BY <1>3, <1>6, Facts, InvalidateKeeps
<1>8. DEFINE shows == mutation[t].touches /\ ~mutation[t].overlooked /\ Shown(t)
                        /\ entry[t].data # None
<1>9. PICK w : w = IF shows THEN mutation[t].made ELSE wrote[t]
  OBVIOUS
<1>10. wrote' = [wrote EXCEPT ![t] = w] /\ w \in Written
  BY <1>2, <1>9, Facts DEF MutationSucceeds
<1>11. e \in Entry /\ CacheOK(tab[t], e)
  BY <1>4, <1>7, Facts DEF CacheOK
<1>12. FreshOK(e, w, version)
  <2>1. CASE shows
    <3>1. mutation[t].invalidates
      BY <1>1, <2>1, Facts DEF MutationOK
    <3> QED
      BY <1>2, <1>4, <1>7, <1>9, <2>1, <3>1 DEF FreshOK
  <2>2. CASE ~shows
    BY <1>4, <1>7, <1>9, <2>2, Facts DEF FreshOK
  <2> QED
    BY <2>1, <2>2
<1>13. TabOK(tab[t], e, None, form[t], w, version')
  BY <1>1, <1>11, <1>12, Facts DEF TabOK, MutationOK
<1>14. /\ Sets(tab, tab', t, tab[t]) /\ Sets(entry, entry', t, e)
       /\ Sets(mutation, mutation', t, None) /\ Sets(form, form', t, form[t])
       /\ Sets(wrote, wrote', t, w)
  BY <1>1, <1>5, <1>10 DEF Sets
<1>15. version' \in Written /\ version' >= version
  BY <1>1, Facts
<1> QED
  BY <1>1, <1>10, <1>11, <1>13, <1>14, <1>15, Facts, OneTab

\* A write of another client makes nothing that a tab has seen newer than the server.
LEMMA OthersWriteStep == Inv /\ OthersWrite => Inv'
<1> SUFFICES ASSUME Inv, OthersWrite PROVE Inv'
  OBVIOUS
<1>1. /\ UNCHANGED <<watch, session, tab, entry, mutation, bounds, wrote>>
      /\ version \in Written /\ version' \in Written /\ version' >= version
  BY DashboardAssumption DEF Inv, TypeOK, OthersWrite, MoreWrites, Written
<1>2. ASSUME NEW t \in Tabs PROVE Inv'
  <2>1. mutation' = [mutation EXCEPT ![t] = mutation[t]]
    BY <1>1 DEF Inv, TypeOK
  <2>2. mutation[t].made \in Written \cup {None} \/ mutation[t] = None
    BY Facts DEF Mutation
  <2>3. MutationOK(mutation[t], version')
    BY <1>1, <2>2, Facts DEF MutationOK
  <2> QED
    BY <1>1, <2>1, <2>3, Facts, MutationStep
<1>3. CASE Tabs = {}
  <2>1. TypeOK'
    BY <1>1, <1>3 DEF Inv, TypeOK, session, bounds
  <2> QED
    BY <1>3, <2>1 DEF Inv
<1> QED
  BY <1>2, <1>3
-----------------------------------------------------------------------------
(* The sign-in form and the two ways out. *)

\* A request that is added is of the dashboard and of a user.
LEMMA SubmitStep ==
  ASSUME Inv, NEW t \in Tabs, NEW kind \in {"email", "password", "totp", "linkRequest", "link"},
         NEW u \in Users, Submit(t, kind, u)
  PROVE  Inv'
<1>1. submits' = submits + 1 /\ version + submits < MaxWork /\ IsDashboard
  BY DEF Submit, AtForm
<1>2. submits' \in 0 .. MaxWork
  BY <1>1, Facts, DashboardAssumption
<1>3. PICK r \in Request : r = [kind |-> kind, user |-> u, here |-> TRUE]
  BY DEF Request
<1>4. PICK f : f = [form[t] EXCEPT !.sent = @ \cup {r}]
  OBVIOUS
<1>5. f \in Form /\ f.step = form[t].step /\ f.signin = form[t].signin
  BY <1>4, Facts DEF Form
<1>6. form' = [form EXCEPT ![t] = f]
  BY <1>3, <1>4 DEF Submit
<1>7. FormOK(f)
  BY <1>1, <1>5, Facts DEF FormOK
<1> QED
  BY <1>2, <1>5, <1>6, <1>7, FormStep DEF Submit

\* Each submit of the form names a user: the one typed in, or the one whom the
\* step before identified.
LEMMA SubmitsStep ==
  ASSUME Inv, NEW t \in Tabs,
         \/ \E u \in Users : handleEmailSubmit(t, u) \/ handleMagicLinkRequest(t, u)
         \/ handleCredentialSubmit(t) \/ handleMagicLinkVerify(t)
  PROVE  Inv'
<1>1. ASSUME NEW u \in Users, handleEmailSubmit(t, u) \/ handleMagicLinkRequest(t, u) PROVE Inv'
  BY <1>1, SubmitStep DEF handleEmailSubmit, handleMagicLinkRequest
<1>2. CASE handleCredentialSubmit(t) \/ handleMagicLinkVerify(t)
  <2>1. PICK kind \in {"password", "totp", "link"} :
          form[t].step = kind /\ Submit(t, kind, form[t].signin)
    BY <1>2 DEF handleCredentialSubmit, handleMagicLinkVerify
  <2>2. PICK u \in Users : u = form[t].signin
    BY <2>1, Facts DEF FormOK
  <2> QED
    BY <2>1, <2>2, SubmitStep
<1> QED
  BY <1>1, <1>2

\* An accepted request leads its form to the next step, which concerns its user.
LEMMA StepOnStep ==
  ASSUME Inv, NEW t \in Tabs, StepOn(t)
  PROVE  Inv'
<1>1. PICK r \in form[t].sent :
        /\ r.here /\ r.kind \in DOMAIN StepAfter
        /\ form' = [form EXCEPT ![t] =
             [step |-> StepAfter[r.kind], sent |-> @.sent \ {r}, signin |-> r.user]]
        /\ UNCHANGED <<watch, version, storage, tab, entry, mutation, bounds, wrote>>
  BY DEF StepOn
<1>2. r \in Request /\ r.user \in Users
  BY Facts DEF Form, Request
<1>3. StepAfter[r.kind] \in {"password", "totp", "link"}
  BY <1>1 DEF StepAfter
<1>4. PICK f : f = [step |-> StepAfter[r.kind], sent |-> form[t].sent \ {r}, signin |-> r.user]
  OBVIOUS
<1>5. /\ f.step \in {"password", "totp", "link"} /\ f.signin = r.user
      /\ f.sent = form[t].sent \ {r}
  BY <1>3, <1>4
<1>6. f \in Form
  BY <1>2, <1>3, <1>4, Facts DEF Form, Someone
<1>7. form' = [form EXCEPT ![t] = f]
  BY <1>1, <1>4
<1>8. FormOK(f)
  BY <1>2, <1>5, Facts DEF FormOK
<1>9. submits' = submits /\ UNCHANGED <<loads, visits>>
  BY <1>1 DEF bounds
<1> QED
  BY <1>1, <1>6, <1>7, <1>8, <1>9, Facts, FormStep

\* A refusal, or an answer that is lost.
LEMMA RefuseStep ==
  ASSUME Inv, NEW t \in Tabs, Refuse(t)
  PROVE  Inv'
<1>1. PICK r \in form[t].sent :
        /\ form' = [form EXCEPT ![t].sent = @ \ {r}]
        /\ UNCHANGED <<watch, version, storage, tab, entry, mutation, bounds, wrote>>
  BY DEF Refuse
<1>2. PICK f : f = [form[t] EXCEPT !.sent = @ \ {r}]
  OBVIOUS
<1>3. /\ f \in Form /\ f.step = form[t].step /\ f.signin = form[t].signin
      /\ f.sent \subseteq form[t].sent
  BY <1>2, Facts DEF Form
<1>4. form' = [form EXCEPT ![t] = f]
  BY <1>1, <1>2
<1>5. FormOK(f)
  BY <1>3, Facts DEF FormOK
<1>6. submits' = submits /\ UNCHANGED <<loads, visits>>
  BY <1>1 DEF bounds
<1> QED
  BY <1>1, <1>3, <1>4, <1>5, <1>6, Facts, FormStep

\* Back forgets the user and not what was sent.
LEMMA BackStep ==
  ASSUME Inv, NEW t \in Tabs, handleBack(t)
  PROVE  Inv'
<1>1. PICK f : f = [BlankForm EXCEPT !.sent = form[t].sent]
  OBVIOUS
<1>2. f \in Form /\ f.step = "email" /\ f.sent = form[t].sent
  BY <1>1, Facts DEF Form, BlankForm, Someone
<1>3. form' = [form EXCEPT ![t] = f]
  BY <1>1 DEF handleBack
<1>4. FormOK(f)
  BY <1>2, Facts DEF FormOK
<1>5. submits' = submits /\ UNCHANGED <<loads, visits>>
  BY DEF handleBack, bounds
<1> QED
  BY <1>2, <1>3, <1>4, <1>5, Facts, FormStep DEF handleBack

\* An answer that brings a session replaces the tab's, whatever it shows, and the
\* tab is about to load a new document.
LEMMA SetSessionStep ==
  ASSUME Inv, NEW t \in Tabs, setSession(t)
  PROVE  Inv'
<1>1. PICK r \in form[t].sent :
        /\ storage' = r.user
        /\ tab' = [tab EXCEPT ![t].session = r.user, ![t].to = "organizations"]
        /\ form' = [form EXCEPT ![t] = LeftForm([form[t] EXCEPT !.sent = @ \ {r}])]
        /\ UNCHANGED <<watch, version, entry, mutation, bounds, wrote>>
  BY DEF setSession
<1>2. r.user \in Users /\ App = DashboardScreens
  BY Facts DEF Form, Request, FormOK, IsDashboard
<1>3. PICK tb : tb = [tab[t] EXCEPT !.session = r.user, !.to = "organizations"]
  OBVIOUS
<1>4. tb \in Tab /\ tb.to = "organizations" /\ tb.to # None
  BY <1>2, <1>3, Facts, ScreenFacts DEF Tab, Someone
<1>5. tab' = [tab EXCEPT ![t] = tb]
  BY <1>1, <1>3
<1>6. PICK g : g = [form[t] EXCEPT !.sent = @ \ {r}]
  OBVIOUS
<1>7. g \in Form /\ FormOK(g)
  <2>1. g \in Form /\ g.step = form[t].step /\ g.signin = form[t].signin
        /\ g.sent \subseteq form[t].sent
    BY <1>6, Facts DEF Form
  <2> QED
    BY <2>1, Facts DEF FormOK
<1>8. PICK f : f = LeftForm(g)
  OBVIOUS
<1>9. f \in Form /\ FormOK(f) /\ form' = [form EXCEPT ![t] = f]
  <2>1. form' = [form EXCEPT ![t] = LeftForm([form[t] EXCEPT !.sent = @ \ {r}])]
    BY <1>1
  <2>2. f = LeftForm([form[t] EXCEPT !.sent = @ \ {r}])
    BY <1>6, <1>8
  <2> QED
    BY <1>7, <1>8, <2>1, <2>2, LeftFormKeeps
<1>10. CacheOK(tb, entry[t])
  BY <1>4 DEF CacheOK
<1>11. version' = version /\ version' \in Written /\ version' >= version
  BY <1>1, Facts
<1>12. TabOK(tb, entry[t], mutation[t], f, wrote[t], version')
  BY <1>9, <1>10, <1>11, Facts DEF TabOK
<1>13. /\ Sets(tab, tab', t, tb) /\ Sets(entry, entry', t, entry[t])
       /\ Sets(mutation, mutation', t, mutation[t]) /\ Sets(form, form', t, f)
       /\ Sets(wrote, wrote', t, wrote[t])
  BY <1>1, <1>5, <1>9 DEF Sets
<1>14. /\ watch' = watch /\ storage' \in Someone
       /\ loads' = loads /\ visits' = visits /\ submits' = submits
  BY <1>1, <1>2 DEF Someone, bounds
<1> QED
  BY <1>4, <1>9, <1>11, <1>12, <1>13, <1>14, Facts, OneTab

\* A way out empties the cache and is about to load the sign-in screen.
LEMMA LeaveStep ==
  ASSUME Inv, NEW t \in Tabs, useSignOut(t) \/ useDeleteAccount(t)
  PROVE  Inv'
<1>1. /\ IsDashboard /\ entry' = [entry EXCEPT ![t] = NoEntry]
      /\ mutation' = [mutation EXCEPT ![t] = None] /\ wrote' = [wrote EXCEPT ![t] = 0]
      /\ UNCHANGED <<watch, version, form, bounds>>
  BY DEF useSignOut, useDeleteAccount, Leave
<1>2. PICK who \in Someone :
        storage' \in Someone /\ tab' = [tab EXCEPT ![t].session = who, ![t].to = "signIn"]
  <2>1. CASE useSignOut(t)
    <3>1. tab[t].session \in Someone /\ tab[t] \in Tab
      BY Facts DEF Tab
    <3>2. [tab[t] EXCEPT !.to = "signIn"]
            = [tab[t] EXCEPT !.session = tab[t].session, !.to = "signIn"]
      BY <3>1 DEF Tab
    <3>3. tab' = [tab EXCEPT ![t] = [tab[t] EXCEPT !.to = "signIn"]]
      BY <2>1 DEF useSignOut
    <3>4. tab' = [tab EXCEPT ![t].session = tab[t].session, ![t].to = "signIn"]
      BY <3>2, <3>3
    <3> QED
      BY <2>1, <3>1, <3>4, Facts DEF useSignOut
  <2>2. CASE useDeleteAccount(t)
    BY <2>2 DEF useDeleteAccount, Someone
  <2> QED
    BY <2>1, <2>2
<1>3. PICK tb : tb = [tab[t] EXCEPT !.session = who, !.to = "signIn"]
  OBVIOUS
<1>4. tb \in Tab
  BY <1>1, <1>3, Facts, ScreenFacts DEF Tab, IsDashboard
<1>5. tab' = [tab EXCEPT ![t] = tb]
  BY <1>2, <1>3
<1>6. 0 \in Written /\ version' = version /\ version' \in Written /\ version' >= version
  BY <1>1, Facts, DashboardAssumption DEF Written
<1>7. TabOK(tb, NoEntry, None, form[t], 0, version')
  BY <1>6, Facts, NoEntryFacts DEF TabOK, MutationOK
<1>8. /\ Sets(tab, tab', t, tb) /\ Sets(entry, entry', t, NoEntry)
      /\ Sets(mutation, mutation', t, None) /\ Sets(form, form', t, form[t])
      /\ Sets(wrote, wrote', t, 0)
  BY <1>1, <1>5 DEF Sets
<1>9. watch' = watch /\ loads' = loads /\ visits' = visits /\ submits' = submits
  BY <1>1 DEF bounds
<1> QED
  BY <1>2, <1>4, <1>6, <1>7, <1>8, <1>9, Facts, NoEntryFacts, OneTab
-----------------------------------------------------------------------------
\* Empty caches, blank forms, nothing written.
LEMMA Initially == Init => Inv
<1> SUFFICES ASSUME Init PROVE Inv
  OBVIOUS
<1>1. 0 \in Written /\ Written \subseteq Nat
  BY DashboardAssumption DEF Written
<1>2. NoTab \in Tab
  BY DEF NoTab, Tab, Someone
<1>3. TypeOK
  <2>1. 0 \in 0 .. MaxLoads /\ 0 \in 0 .. MaxVisits /\ 0 \in 0 .. MaxWork
    BY DashboardAssumption
  <2>2. \A t \in Tabs : form[t] = BlankForm
    BY DEF Init
  <2>3. BlankForm.step = "email" /\ BlankForm.sent = {}
    BY DEF BlankForm
  <2> QED
    BY <1>1, <1>2, <2>1, <2>2, <2>3, NoEntryFacts, BlankFormFacts DEF Init, TypeOK, Someone
<1>4. \A t \in Tabs : TabOK(tab[t], entry[t], mutation[t], form[t], wrote[t], version)
  BY <1>1, NoEntryFacts, BlankFormFacts DEF Init, TabOK, MutationOK
<1> QED
  BY <1>3, <1>4 DEF Inv

\* A step that changes nothing.
LEMMA Stutter == Inv /\ UNCHANGED vars => Inv'
<1> SUFFICES ASSUME Inv, UNCHANGED vars PROVE Inv'
  OBVIOUS
<1>1. /\ watch' = watch /\ version' = version /\ storage' = storage /\ tab' = tab
      /\ entry' = entry /\ mutation' = mutation /\ form' = form /\ wrote' = wrote
      /\ loads' = loads /\ visits' = visits /\ submits' = submits
  BY DEF vars
<1>2. Tab' = Tab /\ (IsDashboard' <=> IsDashboard)
  BY <1>1 DEF Tab, App, IsDashboard
<1>3. TypeOK'
  BY <1>1, <1>2 DEF Inv, TypeOK
<1> QED
  BY <1>1, <1>2, <1>3 DEF Inv, TabOK, FormOK, CacheOK, FreshOK, MutationOK

\* Every step keeps the invariant.
LEMMA Step == Inv /\ [Next]_vars => Inv'
<1> SUFFICES ASSUME Inv, [Next]_vars PROVE Inv'
  OBVIOUS
<1>1. ASSUME NEW t \in Tabs, Browse(t) PROVE Inv'
  BY <1>1, FocusStep, OpenStep, VisitStep DEF Browse
<1>2. ASSUME NEW t \in Tabs, Query(t) PROVE Inv'
  BY <1>2, ServerReadsStep, FetchArrivesStep, FetchFailsStep DEF Query
<1>3. ASSUME NEW t \in Tabs, Change(t) PROVE Inv'
  BY <1>3, MutateStep, ServerWritesStep, MutationSucceedsStep, MutationFailsStep DEF Change
<1>4. ASSUME NEW t \in Tabs, SignIn(t) PROVE Inv'
  BY <1>4, SubmitsStep, StepOnStep, RefuseStep, BackStep, SetSessionStep DEF SignIn
<1>5. ASSUME NEW t \in Tabs, Exit(t) PROVE Inv'
  BY <1>5, PressStep, LeaveStep DEF Exit
<1> QED
  BY <1>1, <1>2, <1>3, <1>4, <1>5, OthersWriteStep, Stutter DEF Next

\* Every reachable state satisfies the invariant.
THEOREM Invariance == Spec => []Inv
  BY Initially, Step, PTL DEF Spec

\* Every variable has its type, in every reachable state.
THEOREM TypeCorrect == Spec => []TypeOK
<1>1. Inv => TypeOK
  BY DEF Inv
<1> QED
  BY <1>1, Invariance, PTL

\* No screen shows what was fetched with another session than the tab has.
THEOREM CacheNeverShowsAnotherSession == Spec => []CacheIsOfOneSession
<1>1. Inv => CacheIsOfOneSession
  BY DEF Inv, TabOK, CacheOK, CacheIsOfOneSession
<1> QED
  BY <1>1, Invariance, PTL

\* A screen does not settle on what was there before a mutation that it saw succeed.
THEOREM OwnWritesAreShown == Spec => []OwnWritesShow
<1>1. Inv => OwnWritesShow
  BY DEF Inv, TabOK, FreshOK, OwnWritesShow
<1> QED
  BY <1>1, Invariance, PTL
=============================================================================
