--------------------------- MODULE AccountsProofs ---------------------------
(***************************************************************************)
(* Accounts for any number of requests, people and administrators: a       *)
(* sign-up becomes one account, a session follows from its proof, a link   *)
(* that is settled stays so, a blocked mailbox gets no account, a primary  *)
(* address is the account's own, and the handlers implement Directory.     *)
(***************************************************************************)
EXTENDS Accounts, TLAPS

---------------------------------------------------------------------------
(* The inductive invariant: the rows. *)

\* The account was signed up for, and has held the address its code went to.
Proven(u) ==
    /\ origin[u] \in SignupIds /\ origin[u] \in drawn
    /\ <<u, asked[origin[u]]>> \in claims

\* As long as the account is there, so is the link, and it is the account's.
Holds(u, t) ==
    /\ t \in LinkIds /\ t \in drawn
    /\ users[u] # None => links[t] # None
    /\ links[t] # None => links[t].owner = u

\* If the row is there still, it is a verified address of the account.
OwnAddress(u, c) ==
    /\ c \in drawn
    /\ contacts[c] # None => contacts[c].owner = u /\ contacts[c].verified /\ contacts[c].value \in Emails

UsersInv ==
    \A u \in UserIds : users[u] # None =>
        /\ u \in drawn
        /\ users[u].primary # None => OwnAddress(u, users[u].primary)

ContactsInv ==
    /\ \A c \in ContactIds : contacts[c] # None =>
         c \in drawn /\ users[contacts[c].owner] # None /\ <<contacts[c].owner, contacts[c].value>> \in claims
    /\ \A c, d \in ContactIds :
         contacts[c] # None /\ contacts[d] # None /\ contacts[c].value = contacts[d].value => c = d

LinksInv ==
    \A t \in LinkIds : links[t] # None =>
        t \in drawn /\ users[links[t].owner] # None /\ <<links[t].owner, links[t].value>> \in claims

SessionsInv ==
    \A s \in SessionIds : sessions[s] # None =>
        /\ s \in drawn /\ users[sessions[s].owner] # None
        /\ sessions[s].via \in SignupIds => Proven(sessions[s].owner) /\ origin[sessions[s].owner] = sessions[s].via
        /\ sessions[s].via \in LinkIds => Holds(sessions[s].owner, sessions[s].via)

OriginInv ==
    \A u \in UserIds : origin[u] # None => u \in drawn /\ origin[u] \in drawn

---------------------------------------------------------------------------
(* The requests. *)

\* What is true of a request at each position.
SignupOK(l) ==
    /\ l.value \in Emails /\ l.ref \in SignupIds /\ l.ref \in drawn
    /\ asked[l.ref] = l.value

RequestOK(p, l) ==
    /\ p = "checkSignup" => l.kind = "signup" /\ SignupOK(l) /\ l.standing \subseteq restrictions
    /\ p = "insertUser" =>
         /\ l.kind = "signup" => SignupOK(l) /\ ~Blocked(l.value, l.standing)
         /\ l.kind # "signup" => l.kind \in {"oauth", "scim"} /\ l.value \in Emails \cup {None}
         /\ l.kind = "oauth" => l.value \in Emails /\ l.ref \in Subjects
    /\ p = "insertAddress" =>
         /\ l.user \in UserIds /\ l.user \in drawn /\ l.value \in Emails
         /\ l.kind \in {"signup", "oauth", "scim"}
         /\ l.kind = "signup" => SignupOK(l) /\ origin[l.user] = l.ref
         /\ l.kind = "oauth" => l.ref \in Subjects
    /\ p = "findDomain" =>
         /\ l.kind = "signup" /\ l.user \in UserIds /\ l.user \in drawn /\ l.value \in Emails /\ l.ref \in SignupIds
         /\ Proven(l.user)
    /\ p = "enroll" =>
         /\ l.kind = "signup" /\ l.user \in UserIds /\ l.user \in drawn /\ l.ref \in Organizations
         /\ Proven(l.user)
    /\ p = "openSession" =>
         /\ l.user \in UserIds /\ l.user \in drawn
         /\ l.kind = "signup" => Proven(l.user) /\ l.ref \in SignupIds \cup Organizations
         /\ l.kind # "signup" => Holds(l.user, l.ref)
    /\ p \in {"expireLink", "acceptLink"} =>
         /\ l.user \in UserIds /\ l.user \in drawn /\ l.kind = "other"
         /\ Holds(l.user, l.ref)
    /\ p \in {"findLinkUser", "insertLink"} =>
         /\ l.user \in UserIds /\ l.user \in drawn /\ l.value \in Values
         /\ <<l.user, l.value>> \in claims
    /\ p = "linkAccount" => l.user \in UserIds /\ l.value \in Values /\ l.ref \in Subjects
    /\ p = "insertContact" => l.user \in UserIds /\ l.value \in Values
    /\ p = "deleteRow" => l.ref \in ContactIds
    /\ p = "writePrimary" => l.user \in UserIds /\ l.ref \in ContactIds /\ OwnAddress(l.user, l.ref)
    /\ p = "writeRestored" => l.user \in UserIds

RequestsInv == \A r \in Requests : RequestOK(pc[r], loc[r])

\* The requests that are about to make the account of a sign-up id.
Carries(r, s) == pc[r] \in {"checkSignup", "insertUser"} /\ loc[r].kind = "signup" /\ loc[r].ref = s

\* A sign-up id is in the store, with one request, or with one account.
SignupInv ==
    /\ \A s \in SignupIds : pendingSignups[s] # None =>
         /\ s \in drawn /\ asked[s] = pendingSignups[s]
         /\ \A r \in Requests : ~Carries(r, s)
         /\ \A u \in UserIds : origin[u] # s
    /\ \A s \in SignupIds, r \in Requests : Carries(r, s) =>
         /\ \A q \in Requests : Carries(q, s) => q = r
         /\ \A u \in UserIds : origin[u] # s
    /\ SignupOnce

RowsInv == UsersInv /\ ContactsInv /\ LinksInv /\ SessionsInv /\ OriginInv

Inv == TypeOK /\ RowsInv /\ RequestsInv /\ SignupInv

---------------------------------------------------------------------------
(* What no step undoes, but for a restriction that is deleted. *)

Kept ==
    /\ drawn \subseteq drawn'
    /\ claims \subseteq claims'
    /\ \A u \in UserIds : u \in drawn => origin'[u] = origin[u] /\ (users[u] = None => users'[u] = None)
    /\ \A s \in SignupIds : s \in drawn => asked'[s] = asked[s]
    /\ \A c \in ContactIds : c \in drawn => contacts'[c] \in {None, contacts[c]}
    /\ \A t \in LinkIds : t \in drawn =>
         /\ links'[t] # None => /\ links[t] # None
                                /\ links'[t].owner = links[t].owner /\ links'[t].value = links[t].value
         /\ links[t] # None /\ links'[t] = None => users'[links[t].owner] = None

\* Each of the facts above stays.
LEMMA ProvenStays == ASSUME Kept, NEW u \in UserIds, u \in drawn, Proven(u) PROVE Proven(u)'
  BY DEF Kept, Proven

LEMMA HoldsStays == ASSUME Kept, NEW u \in UserIds, u \in drawn, NEW t, Holds(u, t) PROVE Holds(u, t)'
  BY DEF Kept, Holds

LEMMA OwnAddressStays == ASSUME Kept, NEW u, NEW c \in ContactIds, OwnAddress(u, c) PROVE OwnAddress(u, c)'
  BY DEF Kept, OwnAddress

LEMMA SignupOKStays == ASSUME Kept, NEW l, SignupOK(l) PROVE SignupOK(l)'
  BY DEF Kept, SignupOK

\* What was true of a request stays true while others run.
LEMMA RequestStays ==
    ASSUME Kept, NEW p, NEW l, RequestOK(p, l), restrictions \subseteq restrictions'
    PROVE  RequestOK(p, l)'
<1>1. p = "checkSignup" => l.kind = "signup" /\ SignupOK(l)' /\ l.standing \subseteq restrictions'
  BY SignupOKStays DEF RequestOK
<1>2. p = "insertUser" =>
        /\ l.kind = "signup" => SignupOK(l)' /\ ~Blocked(l.value, l.standing)
        /\ l.kind # "signup" => l.kind \in {"oauth", "scim"} /\ l.value \in Emails \cup {None}
        /\ l.kind = "oauth" => l.value \in Emails /\ l.ref \in Subjects
  BY SignupOKStays DEF RequestOK
<1>3. p = "insertAddress" =>
        /\ l.user \in UserIds /\ (l.user \in drawn)' /\ l.value \in Emails
        /\ l.kind \in {"signup", "oauth", "scim"}
        /\ l.kind = "signup" => SignupOK(l)' /\ origin'[l.user] = l.ref
        /\ l.kind = "oauth" => l.ref \in Subjects
  BY SignupOKStays DEF RequestOK, Kept
<1>4. p = "findDomain" =>
        /\ l.kind = "signup" /\ l.user \in UserIds /\ (l.user \in drawn)' /\ l.value \in Emails /\ l.ref \in SignupIds
        /\ Proven(l.user)'
  BY ProvenStays DEF RequestOK, Kept
<1>5. p = "enroll" =>
        /\ l.kind = "signup" /\ l.user \in UserIds /\ (l.user \in drawn)' /\ l.ref \in Organizations
        /\ Proven(l.user)'
  BY ProvenStays DEF RequestOK, Kept
<1>6. p = "openSession" =>
        /\ l.user \in UserIds /\ (l.user \in drawn)'
        /\ l.kind = "signup" => Proven(l.user)' /\ l.ref \in SignupIds \cup Organizations
        /\ l.kind # "signup" => Holds(l.user, l.ref)'
  BY ProvenStays, HoldsStays DEF RequestOK, Kept
<1>7. p \in {"expireLink", "acceptLink"} =>
        /\ l.user \in UserIds /\ (l.user \in drawn)' /\ l.kind = "other"
        /\ Holds(l.user, l.ref)'
  BY HoldsStays DEF RequestOK, Kept
<1>8. p \in {"findLinkUser", "insertLink"} =>
        /\ l.user \in UserIds /\ (l.user \in drawn)' /\ l.value \in Values
        /\ (<<l.user, l.value>> \in claims)'
  BY DEF RequestOK, Kept
<1>9. p = "writePrimary" => l.user \in UserIds /\ l.ref \in ContactIds /\ OwnAddress(l.user, l.ref)'
  BY OwnAddressStays DEF RequestOK
<1>10. /\ p = "linkAccount" => l.user \in UserIds /\ l.value \in Values /\ l.ref \in Subjects
       /\ p = "insertContact" => l.user \in UserIds /\ l.value \in Values
       /\ p = "deleteRow" => l.ref \in ContactIds
       /\ p = "writeRestored" => l.user \in UserIds
  BY DEF RequestOK
<1>. QED
  BY <1>1, <1>2, <1>3, <1>4, <1>5, <1>6, <1>7, <1>8, <1>9, <1>10 DEF RequestOK

---------------------------------------------------------------------------
(* What the theorems say of one step. *)

DStep == D!Next \/ UNCHANGED D!vars

BlockedStep ==
    \A u \in UserIds : origin'[u] # origin[u] =>
         \E r \in Requests : pc[r] = "insertUser" /\ loc[r].ref = origin'[u]
                              /\ ~Blocked(loc[r].value, loc[r].standing)

SettledStep ==
    \A t \in LinkIds : links[t] # None /\ links[t].status # "pending" =>
         /\ links'[t] # None => links'[t].status # "pending"
         /\ Using(t)' \subseteq Using(t)

Good == Inv' /\ DStep /\ BlockedStep /\ SettledStep

---------------------------------------------------------------------------
(* Parts of Good that most steps have in common. *)

\* nanoid gives an id that nobody has seen.
LEMMA FreshIs == ASSUME NEW S, NEW i \in Fresh(S) PROVE i \in S /\ i \notin drawn
<1>1. ~(S \subseteq drawn) /\ i = CHOOSE j \in S : j \notin drawn
  BY DEF Fresh
<1>2. \E j \in S : j \notin drawn
  BY <1>1
<1>. QED
  BY <1>1, <1>2

\* The steps that Directory does not see.
LEMMA Unseen ==
    ASSUME drawn' \cap UserIds = drawn \cap UserIds, Rows(users)' = Rows(users),
           contacts' = contacts, sessions' = sessions
    PROVE  DStep
  BY DEF DStep, D!vars, Rows

\* The ids of accounts are none of the others.
LEMMA DrawnAccounts ==
    ASSUME NEW i, i \in ContactIds \cup SignupIds \cup LinkIds \cup OAuthIds \cup SessionIds,
           drawn' = drawn \cup {i}
    PROVE  drawn' \cap UserIds = drawn \cap UserIds
  BY IdsAssumption

LEMMA NoAccountMade == ASSUME origin' = origin PROVE BlockedStep
  BY DEF BlockedStep

LEMMA LinksUntouched ==
    ASSUME links' = links,
           \A t \in LinkIds, r \in Requests : r \in Using(t)' => r \in Using(t)
    PROVE  SettledStep
  BY DEF SettledStep, Using

\* One handler moves on; the others are where they were.
LEMMA OthersStay ==
    ASSUME Inv, Kept, restrictions \subseteq restrictions',
           NEW r \in Requests, NEW p \in Positions, NEW l \in Locals, Continue(r, p, l), RequestOK(p, l)'
    PROVE  RequestsInv'
<1>1. pc' = [pc EXCEPT ![r] = p] /\ loc' = [loc EXCEPT ![r] = l]
  BY DEF Continue
<1>2. ASSUME NEW q \in Requests PROVE RequestOK(pc[q], loc[q])'
  <2>1. CASE q = r
    <3>1. pc'[q] = p /\ loc'[q] = l
      BY <1>1, <2>1 DEF Inv, TypeOK
    <3>. QED
      BY <3>1
  <2>2. CASE q # r
    <3>1. pc'[q] = pc[q] /\ loc'[q] = loc[q]
      BY <1>1, <2>2 DEF Inv, TypeOK
    <3>2. PICK x, m : x = pc[q] /\ m = loc[q]
      OBVIOUS
    <3>3. RequestOK(x, m)
      BY <3>2 DEF Inv, RequestsInv
    <3>4. RequestOK(x, m)'
      BY <3>3, RequestStays
    <3>. QED
      BY <3>1, <3>2, <3>4
  <2>. QED
    BY <2>1, <2>2
<1>. QED
  BY <1>2 DEF RequestsInv

\* Where the handlers are after one of them has moved on.
LEMMA Moved ==
    ASSUME Inv, NEW r \in Requests, NEW p \in Positions, NEW l \in Locals, Continue(r, p, l)
    PROVE  /\ pc' \in [Requests -> Positions] /\ loc' \in [Requests -> Locals]
           /\ p \notin {"checkSignup", "insertUser"} \/ l.kind # "signup"
                \/ (pc[r] \in {"checkSignup", "insertUser"} /\ loc[r].kind = "signup" /\ loc[r].ref = l.ref)
              => \A q \in Requests, s \in SignupIds : Carries(q, s)' => Carries(q, s)
           /\ p \notin {"acceptLink", "openSession"} \/ l.ref \notin LinkIds
                \/ (pc[r] \in {"acceptLink", "openSession"} /\ loc[r].ref = l.ref)
              => \A t \in LinkIds, q \in Requests : q \in Using(t)' => q \in Using(t)
<1>1. pc' = [pc EXCEPT ![r] = p] /\ loc' = [loc EXCEPT ![r] = l]
  BY DEF Continue
<1>2. pc \in [Requests -> Positions] /\ loc \in [Requests -> Locals]
  BY DEF Inv, TypeOK
<1>3. pc' \in [Requests -> Positions] /\ loc' \in [Requests -> Locals]
  BY <1>1, <1>2
<1>4. \A q \in Requests : IF q = r THEN pc'[q] = p /\ loc'[q] = l ELSE pc'[q] = pc[q] /\ loc'[q] = loc[q]
  BY <1>1, <1>2
<1>5. \A q \in Requests, s \in SignupIds :
        Carries(q, s)' <=> pc'[q] \in {"checkSignup", "insertUser"} /\ loc'[q].kind = "signup" /\ loc'[q].ref = s
  BY DEF Carries
<1>6. \A t \in LinkIds, q \in Requests :
        q \in Using(t)' <=> pc'[q] \in {"acceptLink", "openSession"} /\ loc'[q].ref = t
  BY DEF Using
<1>7. p \notin {"checkSignup", "insertUser"} \/ l.kind # "signup"
        \/ (pc[r] \in {"checkSignup", "insertUser"} /\ loc[r].kind = "signup" /\ loc[r].ref = l.ref)
      => \A q \in Requests, s \in SignupIds : Carries(q, s)' => Carries(q, s)
  BY <1>4, <1>5 DEF Carries
<1>8. p \notin {"acceptLink", "openSession"} \/ l.ref \notin LinkIds
        \/ (pc[r] \in {"acceptLink", "openSession"} /\ loc[r].ref = l.ref)
      => \A t \in LinkIds, q \in Requests : q \in Using(t)' => q \in Using(t)
  BY <1>4, <1>6 DEF Using
<1>. QED
  BY <1>3, <1>7, <1>8

LEMMA IdleIs == "idle" \in Positions /\ Idle \in Locals
  BY DEF Positions, Locals, Idle

LEMMA IdleOK == RequestOK("idle", Idle) /\ RequestOK("idle", Idle)'
  BY DEF RequestOK

\* A handler that is over.
LEMMA Answered ==
    ASSUME Inv, Kept, restrictions \subseteq restrictions', NEW r \in Requests, Answer(r)
    PROVE  /\ pc' \in [Requests -> Positions] /\ loc' \in [Requests -> Locals]
           /\ RequestsInv'
           /\ \A q \in Requests, s \in SignupIds : Carries(q, s)' => Carries(q, s)
           /\ \A t \in LinkIds, q \in Requests : q \in Using(t)' => q \in Using(t)
<1>1. Continue(r, "idle", Idle)
  BY DEF Answer
<1>2. RequestsInv'
  BY <1>1, IdleIs, IdleOK, OthersStay
<1>. QED
  BY <1>1, <1>2, IdleIs, Moved

\* A step of nobody's handler.
LEMMA NoneMoved ==
    ASSUME Inv, Kept, restrictions \subseteq restrictions', UNCHANGED handlers
    PROVE  /\ pc' \in [Requests -> Positions] /\ loc' \in [Requests -> Locals]
           /\ RequestsInv'
           /\ \A q \in Requests, s \in SignupIds : Carries(q, s)' => Carries(q, s)
           /\ \A t \in LinkIds, q \in Requests : q \in Using(t)' => q \in Using(t)
<1>1. pc' = pc /\ loc' = loc
  BY DEF handlers
<1>2. pc' \in [Requests -> Positions] /\ loc' \in [Requests -> Locals]
  BY <1>1 DEF Inv, TypeOK
<1>3. ASSUME NEW q \in Requests PROVE RequestOK(pc[q], loc[q])'
  <2>1. PICK x, m : x = pc[q] /\ m = loc[q]
    OBVIOUS
  <2>2. RequestOK(x, m)'
    <3>1. RequestOK(x, m)
      BY <2>1 DEF Inv, RequestsInv
    <3>. QED
      BY <3>1, RequestStays
  <2>. QED
    BY <1>1, <2>1, <2>2
<1>4. RequestsInv'
  BY <1>3 DEF RequestsInv
<1>5. \A q \in Requests, s \in SignupIds : Carries(q, s)' => Carries(q, s)
  BY <1>1 DEF Carries
<1>6. \A t \in LinkIds, q \in Requests : q \in Using(t)' => q \in Using(t)
  BY <1>1 DEF Using
<1>. QED
  BY <1>2, <1>4, <1>5, <1>6

\* Nothing happens to sign-ups.
LEMMA SignupsStay ==
    ASSUME Inv, drawn \subseteq drawn', asked' = asked, origin' = origin,
           \A s \in SignupIds : pendingSignups'[s] \in {None, pendingSignups[s]},
           \A q \in Requests, s \in SignupIds : Carries(q, s)' => Carries(q, s)
    PROVE  SignupInv'
<1>1. ASSUME NEW s \in SignupIds, pendingSignups'[s] # None
      PROVE  /\ s \in drawn' /\ asked'[s] = pendingSignups'[s]
             /\ \A q \in Requests : ~Carries(q, s)'
             /\ \A u \in UserIds : origin'[u] # s
  <2>1. pendingSignups[s] # None /\ pendingSignups'[s] = pendingSignups[s]
    BY <1>1
  <2>. QED
    BY <2>1 DEF Inv, SignupInv
<1>2. ASSUME NEW s \in SignupIds, NEW q \in Requests, Carries(q, s)'
      PROVE  /\ \A x \in Requests : Carries(x, s)' => x = q
             /\ \A u \in UserIds : origin'[u] # s
  BY <1>2 DEF Inv, SignupInv
<1>3. SignupOnce'
  BY DEF Inv, SignupInv, SignupOnce
<1>. QED
  BY <1>1, <1>2, <1>3 DEF SignupInv

---------------------------------------------------------------------------
(* The tables that a step does not write. *)

Alive == \A u \in UserIds : users[u] # None => users'[u] # None

LEMMA UsersStay == ASSUME Inv, Kept, users' = users PROVE UsersInv'
<1>. SUFFICES ASSUME NEW u \in UserIds, users'[u] # None
              PROVE  u \in drawn' /\ (users'[u].primary # None => OwnAddress(u, users[u].primary)')
  BY DEF UsersInv
<1>1. u \in drawn /\ (users[u].primary # None => OwnAddress(u, users[u].primary))
  BY DEF Inv, RowsInv, UsersInv
<1>2. PICK c : c = users[u].primary
  OBVIOUS
<1>3. c # None => c \in ContactIds
  BY <1>2 DEF Inv, TypeOK, UserRow
<1>4. c # None => OwnAddress(u, c)'
  BY <1>1, <1>2, <1>3, OwnAddressStays
<1>. QED
  BY <1>1, <1>2, <1>4 DEF Kept

LEMMA ContactsStay == ASSUME Inv, Kept, contacts' = contacts, Alive PROVE ContactsInv'
<1>1. \A c \in ContactIds : contacts[c] # None => contacts[c].owner \in UserIds
  BY DEF Inv, TypeOK, Contact
<1>. QED
  BY <1>1 DEF Inv, RowsInv, ContactsInv, Kept, Alive

LEMMA LinksStay == ASSUME Inv, Kept, links' = links, Alive PROVE LinksInv'
<1>1. \A t \in LinkIds : links[t] # None => links[t].owner \in UserIds
  BY DEF Inv, TypeOK, Link
<1>. QED
  BY <1>1 DEF Inv, RowsInv, LinksInv, Kept, Alive

\* What is known of one session.
SessionOK(u, p) == /\ p \in SignupIds => Proven(u) /\ origin[u] = p
                   /\ p \in LinkIds => Holds(u, p)

LEMMA SessionStays ==
    ASSUME Kept, NEW u \in UserIds, u \in drawn, NEW p, SessionOK(u, p) PROVE SessionOK(u, p)'
<1>1. origin'[u] = origin[u]
  BY DEF Kept
<1>. QED
  BY <1>1, ProvenStays, HoldsStays DEF SessionOK

LEMMA SessionsAre ==
    SessionsInv <=> \A s \in SessionIds : sessions[s] # None =>
        s \in drawn /\ users[sessions[s].owner] # None /\ SessionOK(sessions[s].owner, sessions[s].via)
  BY DEF SessionsInv, SessionOK

LEMMA SessionsAreNext ==
    SessionsInv' <=> \A s \in SessionIds : sessions'[s] # None =>
        s \in drawn' /\ users'[sessions'[s].owner] # None /\ SessionOK(sessions[s].owner, sessions[s].via)'
  BY DEF SessionsInv, SessionOK

\* A session that is there already stays what it is.
LEMMA OldSession ==
    ASSUME Inv, Kept, NEW s \in SessionIds, sessions[s] # None, sessions'[s] = sessions[s],
           users'[sessions[s].owner] # None
    PROVE  s \in drawn' /\ users'[sessions'[s].owner] # None /\ SessionOK(sessions[s].owner, sessions[s].via)'
<1>1. PICK u, p : u = sessions[s].owner /\ p = sessions[s].via
  OBVIOUS
<1>2. u \in UserIds
  BY <1>1 DEF Inv, TypeOK, Session
<1>3. s \in drawn /\ users[u] # None /\ SessionOK(u, p)
  BY <1>1, SessionsAre DEF Inv, RowsInv
<1>4. u \in drawn
  BY <1>2, <1>3 DEF Inv, RowsInv, UsersInv
<1>5. SessionOK(u, p)'
  BY <1>2, <1>3, <1>4, SessionStays
<1>. QED
  BY <1>1, <1>3, <1>5 DEF Kept

LEMMA SessionsStay == ASSUME Inv, Kept, sessions' = sessions, Alive PROVE SessionsInv'
<1>. SUFFICES ASSUME NEW s \in SessionIds, sessions'[s] # None
              PROVE  s \in drawn' /\ users'[sessions'[s].owner] # None
                     /\ SessionOK(sessions[s].owner, sessions[s].via)'
  BY SessionsAreNext
<1>1. sessions[s].owner \in UserIds /\ users[sessions[s].owner] # None
  BY DEF Inv, TypeOK, Session, RowsInv, SessionsInv
<1>. QED
  BY <1>1, OldSession DEF Alive

LEMMA OriginStays == ASSUME Inv, Kept, origin' = origin PROVE OriginInv'
  BY DEF Inv, RowsInv, OriginInv, Kept

LEMMA RowsStay ==
    ASSUME Inv, Kept, users' = users, contacts' = contacts, links' = links, sessions' = sessions, origin' = origin
    PROVE  RowsInv'
<1>1. Alive
  BY DEF Alive
<1>. QED
  BY <1>1, UsersStay, ContactsStay, LinksStay, SessionsStay, OriginStays DEF RowsInv

LEMMA NothingChanges ==
    ASSUME Inv, drawn \subseteq drawn', claims' = claims, origin' = origin, users' = users, contacts' = contacts,
           links' = links, \A s \in SignupIds : s \in drawn => asked'[s] = asked[s]
    PROVE  Kept
  BY DEF Kept

---------------------------------------------------------------------------
(* The steps that only read. *)

\* A handler has read something, and goes on to p with l.
LEMMA Reads ==
    ASSUME Inv, UNCHANGED <<tables, pendingSignups, drawn, observers>>,
           NEW r \in Requests, NEW p \in Positions, NEW l \in Locals, Continue(r, p, l), RequestOK(p, l),
           p \notin {"checkSignup", "insertUser"} \/ l.kind # "signup"
             \/ (pc[r] \in {"checkSignup", "insertUser"} /\ loc[r].kind = "signup" /\ loc[r].ref = l.ref),
           p \in {"acceptLink", "openSession"} /\ l.ref \in LinkIds
             => links[l.ref] # None /\ links[l.ref].status = "pending"
    PROVE  Good
<1>1. /\ users' = users /\ contacts' = contacts /\ links' = links /\ oauthAccounts' = oauthAccounts
      /\ sessions' = sessions /\ memberships' = memberships /\ domains' = domains /\ restrictions' = restrictions
      /\ pendingSignups' = pendingSignups /\ drawn' = drawn /\ asked' = asked /\ origin' = origin /\ claims' = claims
  BY DEF tables, observers
<1>2. Kept
  BY <1>1, NothingChanges
<1>3. RequestOK(p, l)'
  BY <1>1, <1>2, RequestStays
<1>4. RequestsInv'
  BY <1>1, <1>2, <1>3, OthersStay
<1>5. RowsInv'
  BY <1>1, <1>2, RowsStay
<1>6. pc' \in [Requests -> Positions] /\ loc' \in [Requests -> Locals]
      /\ \A q \in Requests, s \in SignupIds : Carries(q, s)' => Carries(q, s)
  BY Moved
<1>7. SignupInv'
  BY <1>1, <1>6, SignupsStay
<1>8. TypeOK'
  BY <1>1, <1>6 DEF Inv, TypeOK
<1>9. SettledStep
  <2>. SUFFICES ASSUME NEW t \in LinkIds, links[t] # None, links[t].status # "pending", NEW q \in Using(t)'
                PROVE  q \in Using(t)
    BY <1>1 DEF SettledStep
  <2>1. q \in Requests /\ pc'[q] \in {"acceptLink", "openSession"} /\ loc'[q].ref = t
    BY DEF Using
  <2>2. q # r
    <3>. SUFFICES ASSUME q = r PROVE FALSE
      OBVIOUS
    <3>1. pc'[r] = p /\ loc'[r] = l
      BY DEF Continue, Inv, TypeOK
    <3>. QED
      BY <2>1, <3>1
  <2>3. pc'[q] = pc[q] /\ loc'[q] = loc[q]
    BY <2>1, <2>2 DEF Continue, Inv, TypeOK
  <2>. QED
    BY <2>1, <2>3 DEF Using
<1>10. DStep
  <2>1. Rows(users)' = Rows(users) /\ drawn' \cap UserIds = drawn \cap UserIds
    BY <1>1 DEF Rows
  <2>. QED
    BY <1>1, <2>1, Unseen
<1>. QED
  BY <1>1, <1>4, <1>5, <1>7, <1>8, <1>9, <1>10, NoAccountMade DEF Good, Inv

LEMMA ReadsAndAnswers ==
    ASSUME Inv, UNCHANGED <<tables, pendingSignups, drawn, observers>>, NEW r \in Requests, Answer(r)
    PROVE  Good
<1>1. Continue(r, "idle", Idle)
  BY DEF Answer
<1>. QED
  BY <1>1, IdleIs, IdleOK, Reads

\* What is known of a handler before its step.
LEMMA RequestIs == ASSUME Inv, NEW r \in Requests PROVE loc[r] \in Locals /\ RequestOK(pc[r], loc[r])
  BY DEF Inv, TypeOK, RequestsInv

\* And of the owner of an address.
LEMMA OwnerIs ==
    ASSUME Inv, NEW c \in ContactIds, contacts[c] # None
    PROVE  /\ contacts[c] \in Contact /\ contacts[c].owner \in UserIds /\ contacts[c].value \in Values
           /\ c \in drawn /\ users[contacts[c].owner] # None /\ contacts[c].owner \in drawn
           /\ <<contacts[c].owner, contacts[c].value>> \in claims
<1>1. contacts[c] \in Contact /\ contacts[c].owner \in UserIds /\ contacts[c].value \in Values
  BY DEF Inv, TypeOK, Contact
<1>2. c \in drawn /\ users[contacts[c].owner] # None /\ <<contacts[c].owner, contacts[c].value>> \in claims
  BY DEF Inv, RowsInv, ContactsInv
<1>. QED
  BY <1>1, <1>2 DEF Inv, RowsInv, UsersInv

LEMMA CheckSignupGood == ASSUME Inv, NEW r \in Requests, CheckSignup(r) PROVE Good
<1>1. UNCHANGED <<tables, pendingSignups, drawn, observers>> /\ pc[r] = "checkSignup"
  BY DEF CheckSignup
<1>2. CASE Allowed(loc[r].value, restrictions)
  <2>1. PICK l \in Locals : l = loc[r]
    BY RequestIs
  <2>2. Continue(r, "insertUser", l)
    BY <1>2, <2>1 DEF CheckSignup
  <2>3. l.kind = "signup" /\ SignupOK(l) /\ l.standing \subseteq restrictions
    BY <1>1, <2>1, RequestIs DEF RequestOK
  <2>4. ~Blocked(l.value, l.standing)
    BY <1>2, <2>1, <2>3 DEF Allowed, Blocked
  <2>5. RequestOK("insertUser", l)
    BY <2>3, <2>4 DEF RequestOK, SignupOK
  <2>. QED
    BY <1>1, <2>1, <2>2, <2>3, <2>5, Reads DEF Positions
<1>3. CASE ~Allowed(loc[r].value, restrictions)
  BY <1>1, <1>3, ReadsAndAnswers DEF CheckSignup
<1>. QED
  BY <1>2, <1>3

LEMMA FindDomainGood == ASSUME Inv, NEW r \in Requests, FindDomain(r) PROVE Good
<1>. DEFINE d == domains[DomainOf[loc[r].value]]
<1>1. UNCHANGED <<tables, pendingSignups, drawn, observers>> /\ pc[r] = "findDomain"
  BY DEF FindDomain
<1>2. /\ loc[r] \in Locals /\ loc[r].kind = "signup" /\ loc[r].user \in UserIds /\ loc[r].user \in drawn
      /\ loc[r].value \in Emails /\ loc[r].ref \in SignupIds /\ Proven(loc[r].user)
  BY <1>1, RequestIs DEF RequestOK
<1>3. CASE d # None /\ d.verified
  <2>1. d.organization \in Organizations
    BY <1>2, <1>3, DomainAssumption DEF Inv, TypeOK
  <2>. DEFINE m == [loc[r] EXCEPT !.ref = d.organization]
  <2>2a. m \in Locals /\ m.ref = d.organization /\ m.kind = "signup" /\ m.user = loc[r].user
    BY <1>2, <2>1 DEF Locals, Idle
  <2>2. PICK l \in Locals : l = m /\ l.ref = d.organization /\ l.kind = "signup" /\ l.user = loc[r].user
    BY <2>2a
  <2>3. Continue(r, "enroll", l)
    BY <1>3, <2>2 DEF FindDomain
  <2>4. RequestOK("enroll", l)
    BY <1>2, <2>1, <2>2 DEF RequestOK
  <2>. QED
    BY <1>1, <2>3, <2>4, Reads DEF Positions
<1>4. CASE ~(d # None /\ d.verified)
  <2>1. PICK l \in Locals : l = loc[r]
    BY <1>2
  <2>2. Continue(r, "openSession", l)
    BY <1>4, <2>1 DEF FindDomain
  <2>3. RequestOK("openSession", l)
    BY <1>2, <2>1 DEF RequestOK
  <2>4. l.ref \notin LinkIds
    BY <1>2, <2>1, IdsAssumption
  <2>. QED
    BY <1>1, <2>2, <2>3, <2>4, Reads DEF Positions
<1>. QED
  BY <1>3, <1>4

LEMMA CreateLinkGood == ASSUME Inv, NEW r \in Requests, NEW e \in Typed, CreateLink(r, e) PROVE Good
<1>1. PICK c \in Holding(e) : Arrive(r, "findLinkUser", [Idle EXCEPT !.user = contacts[c].owner, !.value = e])
  BY DEF CreateLink
<1>2. c \in ContactIds /\ contacts[c] # None /\ contacts[c].value = e
  BY <1>1 DEF Holding, Rows, Inv, TypeOK
<1>3. contacts[c].owner \in UserIds /\ contacts[c].owner \in drawn /\ e \in Values
      /\ <<contacts[c].owner, e>> \in claims
  BY <1>2, OwnerIs
<1>. DEFINE m == [Idle EXCEPT !.user = contacts[c].owner, !.value = e]
<1>4a. m \in Locals /\ m.user = contacts[c].owner /\ m.value = e
  BY <1>3, IdleIs DEF Locals, Idle
<1>4. PICK l \in Locals : l = m /\ l.user = contacts[c].owner /\ l.value = e
  BY <1>4a
<1>5. RequestOK("findLinkUser", l)
  BY <1>3, <1>4 DEF RequestOK
<1>6. UNCHANGED <<tables, pendingSignups, drawn, observers>> /\ Continue(r, "findLinkUser", l)
  BY <1>1, <1>4 DEF CreateLink, Arrive
<1>. QED
  BY <1>5, <1>6, Reads DEF Positions

LEMMA FindLinkUserGood == ASSUME Inv, NEW r \in Requests, FindLinkUser(r) PROVE Good
<1>1. UNCHANGED <<tables, pendingSignups, drawn, observers>> /\ pc[r] = "findLinkUser"
  BY DEF FindLinkUser
<1>2. PICK l \in Locals : l = loc[r]
  BY RequestIs
<1>3. RequestOK("insertLink", l)
  BY <1>1, <1>2, RequestIs DEF RequestOK
<1>4. Continue(r, "insertLink", l) \/ Answer(r)
  BY <1>2 DEF FindLinkUser
<1>. QED
  BY <1>1, <1>3, <1>4, Reads, ReadsAndAnswers DEF Positions

LEMMA VerifyLinkGood == ASSUME Inv, NEW r \in Requests, NEW t \in LinkIds, VerifyLink(r, t) PROVE Good
<1>1. links[t] # None /\ links[t].status = "pending" /\ UNCHANGED <<tables, pendingSignups, drawn, observers>>
  BY DEF VerifyLink
<1>2. links[t].owner \in UserIds /\ t \in drawn /\ users[links[t].owner] # None
  BY <1>1 DEF Inv, TypeOK, Link, RowsInv, LinksInv
<1>3. links[t].owner \in drawn
  BY <1>2 DEF Inv, RowsInv, UsersInv
<1>. DEFINE m == [Idle EXCEPT !.user = links[t].owner, !.ref = t]
<1>4a. m \in Locals /\ m.user = links[t].owner /\ m.ref = t /\ m.kind = "other"
  BY <1>2, IdleIs DEF Locals, Idle, Ids, Idle
<1>4. PICK l \in Locals : l = m /\ l.user = links[t].owner /\ l.ref = t /\ l.kind = "other"
  BY <1>4a
<1>5. Holds(l.user, l.ref)
  BY <1>1, <1>2, <1>4 DEF Holds
<1>6. RequestOK("expireLink", l) /\ RequestOK("acceptLink", l)
  BY <1>2, <1>3, <1>4, <1>5 DEF RequestOK
<1>7. Continue(r, "expireLink", l) \/ Continue(r, "acceptLink", l)
  BY <1>4 DEF VerifyLink, Arrive
<1>. QED
  BY <1>1, <1>4, <1>6, <1>7, Reads DEF Positions

LEMMA CallbackGood ==
    ASSUME Inv, NEW r \in Requests, NEW x \in Subjects, NEW e \in Typed, Callback(r, x, e) PROVE Good
<1>1. UNCHANGED <<tables, pendingSignups, drawn, observers>> /\ e \in Emails /\ e \in Values
  BY LowerAssumption DEF Callback, Values
<1>2. CASE Taken(e)
  <2>1. PICK c \in Holding(e) : Arrive(r, "linkAccount", [Idle EXCEPT !.kind = "oauth", !.value = e, !.ref = x,
                                                                     !.user = contacts[c].owner])
    BY <1>2 DEF Callback
  <2>2. contacts[c].owner \in UserIds
    BY <2>1, OwnerIs DEF Holding, Rows, Inv, TypeOK
  <2>. DEFINE m == [Idle EXCEPT !.kind = "oauth", !.value = e, !.ref = x, !.user = contacts[c].owner]
  <2>3a. m \in Locals /\ m.user \in UserIds /\ m.value = e /\ m.ref = x
    BY <1>1, <2>2, IdleIs DEF Locals, Idle
  <2>3. PICK l \in Locals : l = m /\ l.user \in UserIds /\ l.value = e /\ l.ref = x
    BY <2>3a
  <2>4. RequestOK("linkAccount", l) /\ Continue(r, "linkAccount", l)
    BY <1>1, <2>1, <2>3 DEF RequestOK, Arrive
  <2>. QED
    BY <1>1, <2>4, Reads DEF Positions
<1>3. CASE ~Taken(e)
  <2>. DEFINE m == [Idle EXCEPT !.kind = "oauth", !.value = e, !.ref = x]
  <2>1a. m \in Locals /\ m.kind = "oauth" /\ m.value = e /\ m.ref = x
    BY <1>1, IdleIs DEF Locals, Idle
  <2>1. PICK l \in Locals : l = m /\ l.kind = "oauth" /\ l.value = e /\ l.ref = x
    BY <2>1a
  <2>2. RequestOK("insertUser", l) /\ Continue(r, "insertUser", l)
    BY <1>1, <1>3, <2>1 DEF RequestOK, Arrive, Callback
  <2>. QED
    BY <1>1, <2>1, <2>2, Reads DEF Positions
<1>. QED
  BY <1>2, <1>3

LEMMA LinkIdentityGood ==
    ASSUME Inv, NEW r \in Requests, NEW u \in UserIds, NEW x \in Subjects, NEW e \in Typed, LinkIdentity(r, u, x, e)
    PROVE  Good
<1>1. e \in Values
  BY LowerAssumption DEF Values
<1>. DEFINE m == [Idle EXCEPT !.value = e, !.ref = x, !.user = u]
<1>2a. m \in Locals /\ m.user = u /\ m.value = e /\ m.ref = x
  BY <1>1, IdleIs DEF Locals, Idle
<1>2. PICK l \in Locals : l = m /\ l.user = u /\ l.value = e /\ l.ref = x
  BY <1>2a
<1>3. RequestOK("linkAccount", l) /\ Continue(r, "linkAccount", l)
  BY <1>1, <1>2 DEF RequestOK, Arrive, LinkIdentity
<1>. QED
  BY <1>3, Reads DEF Positions, LinkIdentity

LEMMA ScimCreateGood == ASSUME Inv, NEW r \in Requests, NEW e \in Typed \cup {None}, ScimCreate(r, e) PROVE Good
<1>1. e \in Emails \cup {None} /\ e \in Values \cup {None}
  BY LowerAssumption DEF Values
<1>. DEFINE m == [Idle EXCEPT !.kind = "scim", !.value = e]
<1>2a. m \in Locals /\ m.kind = "scim" /\ m.value = e
  BY <1>1, IdleIs DEF Locals, Idle
<1>2. PICK l \in Locals : l = m /\ l.kind = "scim" /\ l.value = e
  BY <1>2a
<1>3. RequestOK("insertUser", l) /\ Continue(r, "insertUser", l)
  BY <1>1, <1>2 DEF RequestOK, Arrive, ScimCreate
<1>. QED
  BY <1>2, <1>3, Reads DEF Positions, ScimCreate

LEMMA AddContactGood ==
    ASSUME Inv, NEW r \in Requests, NEW u \in UserIds, NEW v \in Values, AddContact(r, u, v) PROVE Good
<1>. DEFINE m == [Idle EXCEPT !.user = u, !.value = v]
<1>1a. m \in Locals /\ m.user = u /\ m.value = v
  BY IdleIs DEF Locals, Idle
<1>1. PICK l \in Locals : l = m /\ l.user = u /\ l.value = v
  BY <1>1a
<1>2. RequestOK("insertContact", l) /\ Continue(r, "insertContact", l)
  BY <1>1 DEF RequestOK, Arrive, AddContact
<1>. QED
  BY <1>2, Reads DEF Positions, AddContact

LEMMA DeleteContactGood ==
    ASSUME Inv, NEW r \in Requests, NEW u \in UserIds, NEW c \in ContactIds, DeleteContact(r, u, c) PROVE Good
<1>. DEFINE m == [Idle EXCEPT !.user = u, !.ref = c]
<1>1a. m \in Locals /\ m.ref = c
  BY IdleIs DEF Locals, Ids, Idle
<1>1. PICK l \in Locals : l = m /\ l.ref = c
  BY <1>1a
<1>2. RequestOK("deleteRow", l) /\ Continue(r, "deleteRow", l)
  BY <1>1 DEF RequestOK, Arrive, DeleteContact
<1>. QED
  BY <1>2, Reads DEF Positions, DeleteContact

LEMMA SetPrimaryGood ==
    ASSUME Inv, NEW r \in Requests, NEW u \in UserIds, NEW c \in ContactIds, SetPrimary(r, u, c) PROVE Good
<1>1. contacts[c] # None /\ contacts[c].owner = u /\ contacts[c].value \in Emails /\ contacts[c].verified
  BY DEF SetPrimary
<1>2. OwnAddress(u, c)
  BY <1>1, OwnerIs DEF OwnAddress
<1>. DEFINE m == [Idle EXCEPT !.user = u, !.ref = c]
<1>3a. m \in Locals /\ m.user = u /\ m.ref = c
  BY IdleIs DEF Locals, Ids, Idle
<1>3. PICK l \in Locals : l = m /\ l.user = u /\ l.ref = c
  BY <1>3a
<1>4. RequestOK("writePrimary", l) /\ Continue(r, "writePrimary", l)
  BY <1>2, <1>3 DEF RequestOK, Arrive, SetPrimary
<1>. QED
  BY <1>4, Reads DEF Positions, SetPrimary

LEMMA RestoreUserGood == ASSUME Inv, NEW r \in Requests, NEW u \in UserIds, RestoreUser(r, u) PROVE Good
<1>. DEFINE m == [Idle EXCEPT !.user = u]
<1>1a. m \in Locals /\ m.user = u
  BY IdleIs DEF Locals, Idle
<1>1. PICK l \in Locals : l = m /\ l.user = u
  BY <1>1a
<1>2. RequestOK("writeRestored", l) /\ Continue(r, "writeRestored", l)
  BY <1>1 DEF RequestOK, Arrive, RestoreUser
<1>. QED
  BY <1>2, Reads DEF Positions, RestoreUser

---------------------------------------------------------------------------
(* The store of sign-ups, and accounts. *)

LEMMA CreateSignupGood == ASSUME Inv, NEW s \in SignupIds, NEW e \in Typed, CreateSignup(s, e) PROVE Good
<1>1. /\ s \notin drawn /\ drawn' = drawn \cup {s}
      /\ pendingSignups' = [pendingSignups EXCEPT ![s] = e] /\ asked' = [asked EXCEPT ![s] = e]
      /\ UNCHANGED <<tables, handlers>> /\ origin' = origin /\ claims' = claims
  BY DEF CreateSignup, Draw
<1>2. /\ users' = users /\ contacts' = contacts /\ links' = links /\ oauthAccounts' = oauthAccounts
      /\ sessions' = sessions /\ memberships' = memberships /\ domains' = domains /\ restrictions' = restrictions
  BY <1>1 DEF tables
<1>3. e \in Emails
  BY LowerAssumption
<1>4. \A x \in SignupIds : IF x = s THEN pendingSignups'[x] = e /\ asked'[x] = e
                           ELSE pendingSignups'[x] = pendingSignups[x] /\ asked'[x] = asked[x]
  BY <1>1 DEF Inv, TypeOK
<1>5. Kept
  BY <1>1, <1>2, <1>4, NothingChanges
<1>6. RequestsInv' /\ pc' \in [Requests -> Positions] /\ loc' \in [Requests -> Locals]
      /\ (\A q \in Requests, x \in SignupIds : Carries(q, x)' => Carries(q, x))
      /\ \A t \in LinkIds, q \in Requests : q \in Using(t)' => q \in Using(t)
  BY <1>1, <1>2, <1>5, NoneMoved
<1>7. RowsInv'
  BY <1>1, <1>2, <1>5, RowsStay
<1>8. \A q \in Requests : ~Carries(q, s)
  <2>. SUFFICES ASSUME NEW q \in Requests, Carries(q, s) PROVE FALSE
    OBVIOUS
  <2>1. pc[q] \in {"checkSignup", "insertUser"} /\ loc[q].kind = "signup" /\ loc[q].ref = s
    BY DEF Carries
  <2>2. SignupOK(loc[q])
    BY <2>1, RequestIs DEF RequestOK
  <2>. QED
    BY <1>1, <2>1, <2>2 DEF SignupOK
<1>9. \A u \in UserIds : origin[u] # s
  BY <1>1, NoneAssumption DEF Inv, RowsInv, OriginInv, Ids
<1>10. SignupInv'
  <2>1. ASSUME NEW x \in SignupIds, pendingSignups'[x] # None
        PROVE  /\ x \in drawn' /\ asked'[x] = pendingSignups'[x]
               /\ \A q \in Requests : ~Carries(q, x)'
               /\ \A u \in UserIds : origin'[u] # x
    <3>1. CASE x = s
      BY <1>1, <1>4, <1>6, <1>8, <1>9, <3>1
    <3>2. CASE x # s
      BY <1>1, <1>4, <1>6, <2>1, <3>2 DEF Inv, SignupInv
    <3>. QED
      BY <3>1, <3>2
  <2>2. ASSUME NEW x \in SignupIds, NEW q \in Requests, Carries(q, x)'
        PROVE  (\A y \in Requests : Carries(y, x)' => y = q) /\ \A u \in UserIds : origin'[u] # x
    BY <1>1, <1>6, <2>2 DEF Inv, SignupInv
  <2>3. SignupOnce'
    BY <1>1 DEF Inv, SignupInv, SignupOnce
  <2>. QED
    BY <2>1, <2>2, <2>3 DEF SignupInv
<1>11. TypeOK'
  BY <1>1, <1>2, <1>3, <1>6 DEF Inv, TypeOK, Ids
<1>12. DStep
  <2>1. Rows(users)' = Rows(users) /\ drawn' \cap UserIds = drawn \cap UserIds
    BY <1>1, <1>2, DrawnAccounts DEF Rows
  <2>. QED
    BY <1>2, <2>1, Unseen
<1>13. BlockedStep /\ SettledStep
  BY <1>1, <1>2, <1>6, NoAccountMade, LinksUntouched
<1>. QED
  BY <1>6, <1>7, <1>10, <1>11, <1>12, <1>13 DEF Good, Inv

LEMMA ExpireSignupGood == ASSUME Inv, NEW s \in SignupIds, ExpireSignup(s) PROVE Good
<1>1. /\ pendingSignups' = [pendingSignups EXCEPT ![s] = None]
      /\ users' = users /\ contacts' = contacts /\ links' = links /\ oauthAccounts' = oauthAccounts
      /\ sessions' = sessions /\ memberships' = memberships /\ domains' = domains /\ restrictions' = restrictions
      /\ drawn' = drawn /\ asked' = asked /\ origin' = origin /\ claims' = claims /\ UNCHANGED handlers
  BY DEF ExpireSignup, tables, observers
<1>2. Kept
  BY <1>1, NothingChanges
<1>3. RequestsInv' /\ pc' \in [Requests -> Positions] /\ loc' \in [Requests -> Locals]
      /\ (\A q \in Requests, x \in SignupIds : Carries(q, x)' => Carries(q, x))
      /\ \A t \in LinkIds, q \in Requests : q \in Using(t)' => q \in Using(t)
  BY <1>1, <1>2, NoneMoved
<1>4. RowsInv'
  BY <1>1, <1>2, RowsStay
<1>5. \A x \in SignupIds : pendingSignups'[x] \in {None, pendingSignups[x]}
  BY <1>1 DEF Inv, TypeOK
<1>6. SignupInv'
  BY <1>1, <1>3, <1>5, SignupsStay
<1>7. TypeOK'
  BY <1>1, <1>3 DEF Inv, TypeOK
<1>8. DStep
  <2>1. Rows(users)' = Rows(users) /\ drawn' \cap UserIds = drawn \cap UserIds
    BY <1>1 DEF Rows
  <2>. QED
    BY <1>1, <2>1, Unseen
<1>. QED
  BY <1>1, <1>3, <1>4, <1>6, <1>7, <1>8, NoAccountMade, LinksUntouched DEF Good, Inv

LEMMA AttemptSignupGood == ASSUME Inv, NEW r \in Requests, NEW s \in SignupIds, AttemptSignup(r, s) PROVE Good
<1>1. /\ pc[r] = "idle" /\ pendingSignups[s] # None /\ pendingSignups' = [pendingSignups EXCEPT ![s] = None]
      /\ users' = users /\ contacts' = contacts /\ links' = links /\ oauthAccounts' = oauthAccounts
      /\ sessions' = sessions /\ memberships' = memberships /\ domains' = domains /\ restrictions' = restrictions
      /\ drawn' = drawn /\ asked' = asked /\ origin' = origin /\ claims' = claims
  BY DEF AttemptSignup, Arrive, tables, observers
<1>2. /\ s \in drawn /\ asked[s] = pendingSignups[s] /\ pendingSignups[s] \in Emails
      /\ (\A q \in Requests : ~Carries(q, s)) /\ \A u \in UserIds : origin[u] # s
  BY <1>1 DEF Inv, TypeOK, SignupInv
<1>. DEFINE m == [Idle EXCEPT !.kind = "signup", !.ref = s, !.value = pendingSignups[s], !.standing = restrictions]
<1>3. /\ m \in Locals /\ m.kind = "signup" /\ m.ref = s /\ m.value = pendingSignups[s]
      /\ m.standing = restrictions
  BY <1>2 DEF Locals, Idle, Ids, Values, Inv, TypeOK
<1>4. PICK l \in Locals : l = m /\ l.kind = "signup" /\ l.ref = s /\ l.value = pendingSignups[s]
                          /\ l.standing = restrictions
  BY <1>3
<1>5. Continue(r, "checkSignup", l) /\ RequestOK("checkSignup", l)
  BY <1>2, <1>4 DEF AttemptSignup, Arrive, RequestOK, SignupOK
<1>6. Kept
  BY <1>1, NothingChanges
<1>7. RequestOK("checkSignup", l)'
  BY <1>1, <1>5, <1>6, RequestStays
<1>8. RequestsInv'
  BY <1>1, <1>5, <1>6, <1>7, OthersStay DEF Positions
<1>9. pc' \in [Requests -> Positions] /\ loc' \in [Requests -> Locals]
      /\ \A t \in LinkIds, q \in Requests : q \in Using(t)' => q \in Using(t)
  BY <1>5, Moved DEF Positions
<1>10. RowsInv'
  BY <1>1, <1>6, RowsStay
<1>11. \A q \in Requests : IF q = r THEN pc'[q] = "checkSignup" /\ loc'[q] = l ELSE pc'[q] = pc[q] /\ loc'[q] = loc[q]
  BY <1>5 DEF Continue, Inv, TypeOK
<1>12. \A q \in Requests, x \in SignupIds : Carries(q, x)' <=> (IF q = r THEN x = s ELSE Carries(q, x))
  BY <1>4, <1>11 DEF Carries
<1>13. \A x \in SignupIds : IF x = s THEN pendingSignups'[x] = None ELSE pendingSignups'[x] = pendingSignups[x]
  BY <1>1 DEF Inv, TypeOK
<1>14. ~Carries(r, s) /\ \A x \in SignupIds : ~Carries(r, x)
  BY <1>1 DEF Carries
<1>15. SignupInv'
  <2>1. ASSUME NEW x \in SignupIds, pendingSignups'[x] # None
        PROVE  /\ x \in drawn' /\ asked'[x] = pendingSignups'[x]
               /\ \A q \in Requests : ~Carries(q, x)'
               /\ \A u \in UserIds : origin'[u] # x
    BY <1>1, <1>12, <1>13, <2>1 DEF Inv, SignupInv
  <2>2. ASSUME NEW x \in SignupIds, NEW q \in Requests, Carries(q, x)'
        PROVE  (\A y \in Requests : Carries(y, x)' => y = q) /\ \A u \in UserIds : origin'[u] # x
    <3>1. CASE x = s
      BY <1>1, <1>2, <1>12, <2>2, <3>1
    <3>2. CASE x # s
      BY <1>1, <1>12, <2>2, <3>2 DEF Inv, SignupInv
    <3>. QED
      BY <3>1, <3>2
  <2>3. SignupOnce'
    BY <1>1 DEF Inv, SignupInv, SignupOnce
  <2>. QED
    BY <2>1, <2>2, <2>3 DEF SignupInv
<1>16. TypeOK'
  BY <1>1, <1>9 DEF Inv, TypeOK
<1>17. DStep
  <2>1. Rows(users)' = Rows(users) /\ drawn' \cap UserIds = drawn \cap UserIds
    BY <1>1 DEF Rows
  <2>. QED
    BY <1>1, <2>1, Unseen
<1>. QED
  BY <1>1, <1>8, <1>9, <1>10, <1>15, <1>16, <1>17, NoAccountMade, LinksUntouched DEF Good, Inv

\* INSERT INTO users.
LEMMA InsertUserGood == ASSUME Inv, NEW r \in Requests, InsertUser(r) PROVE Good
<1>1. PICK u \in Fresh(UserIds), status \in {"active", "inactive"} :
        /\ drawn' = drawn \cup {u}
        /\ users' = [users EXCEPT ![u] = [status |-> status, deleted |-> FALSE, primary |-> None]]
        /\ origin' = [origin EXCEPT ![u] = IF loc[r].kind = "signup" THEN loc[r].ref ELSE None]
        /\ IF loc[r].value = None THEN Answer(r)
           ELSE Continue(r, "insertAddress", [loc[r] EXCEPT !.user = u, !.standing = {}])
  BY DEF InsertUser, Draw
<1>2. /\ pc[r] = "insertUser" /\ contacts' = contacts /\ links' = links /\ oauthAccounts' = oauthAccounts
      /\ sessions' = sessions /\ memberships' = memberships /\ domains' = domains /\ restrictions' = restrictions
      /\ pendingSignups' = pendingSignups /\ asked' = asked /\ claims' = claims
  BY DEF InsertUser, admin
<1>3. u \in UserIds /\ u \notin drawn
  BY FreshIs
<1>4. users[u] = None /\ origin[u] = None
  BY <1>3 DEF Inv, RowsInv, UsersInv, OriginInv
<1>5. PICK before \in Locals : before = loc[r] /\ RequestOK("insertUser", before)
  BY <1>2, RequestIs
<1>6. /\ before.kind = "signup" => SignupOK(before) /\ ~Blocked(before.value, before.standing)
      /\ before.kind # "signup" => before.kind \in {"oauth", "scim"} /\ before.value \in Emails \cup {None}
      /\ before.kind = "oauth" => before.value \in Emails /\ before.ref \in Subjects
  BY <1>5 DEF RequestOK
<1>. DEFINE s == IF before.kind = "signup" THEN before.ref ELSE None
<1>7. s \in SignupIds \cup {None} /\ (s # None => before.kind = "signup" /\ s = before.ref /\ s \in drawn)
  BY <1>6 DEF SignupOK
<1>8. \A x \in UserIds : IF x = u THEN origin'[x] = s /\ users'[x] # None /\ users'[x].primary = None
                         ELSE origin'[x] = origin[x] /\ users'[x] = users[x]
  <2>1. [status |-> status, deleted |-> FALSE, primary |-> None] \in UserRow
    BY DEF UserRow
  <2>. QED
    BY <1>1, <1>3, <1>5, <2>1, NoneIsNoRecord DEF Inv, TypeOK
<1>9. s # None => /\ Carries(r, s) /\ pendingSignups[s] = None
                  /\ (\A q \in Requests : Carries(q, s) => q = r)
                  /\ \A x \in UserIds : origin[x] # s
  <2>1. s # None => Carries(r, s)
    BY <1>2, <1>5, <1>7 DEF Carries
  <2>. QED
    BY <1>7, <2>1 DEF Inv, SignupInv
<1>. HIDE DEF s
<1>10. Kept
  BY <1>1, <1>2, <1>3, <1>8 DEF Kept
<1>11. PICK p \in {"idle", "insertAddress"}, l \in Locals : Continue(r, p, l) /\ RequestOK(p, l)'
  <2>1. CASE before.value = None
    BY <1>1, <1>5, <2>1, IdleIs, IdleOK DEF Answer
  <2>2. CASE before.value # None
    <3>. DEFINE m == [before EXCEPT !.user = u, !.standing = {}]
    <3>1. /\ m \in Locals /\ m.user = u /\ m.kind = before.kind /\ m.value = before.value /\ m.ref = before.ref
      BY <1>3 DEF Locals
    <3>2. Continue(r, "insertAddress", m)
      BY <1>1, <1>5, <2>2
    <3>3. m.value \in Emails /\ m.kind \in {"signup", "oauth", "scim"} /\ (m.kind = "oauth" => m.ref \in Subjects)
      BY <1>6, <2>2, <3>1 DEF SignupOK
    <3>4. m.kind = "signup" => SignupOK(m)' /\ origin'[m.user] = m.ref
      BY <1>2, <1>1, <1>3, <1>6, <1>8, <3>1 DEF SignupOK, s
    <3>5. PICK l \in Locals : l = m
      BY <3>1
    <3>. HIDE DEF m
    <3>6. RequestOK("insertAddress", l)'
      BY <1>1, <1>3, <3>1, <3>3, <3>4, <3>5 DEF RequestOK, SignupOK
    <3>. QED
      BY <3>2, <3>5, <3>6
  <2>. QED
    BY <2>1, <2>2
<1>12. p \in Positions
  BY DEF Positions
<1>13. RequestsInv'
  BY <1>2, <1>10, <1>11, <1>12, OthersStay
<1>14. pc' \in [Requests -> Positions] /\ loc' \in [Requests -> Locals]
       /\ (\A q \in Requests, x \in SignupIds : Carries(q, x)' => Carries(q, x))
       /\ \A t \in LinkIds, q \in Requests : q \in Using(t)' => q \in Using(t)
  BY <1>11, <1>12, Moved
<1>15. \A x \in SignupIds : ~Carries(r, x)'
  <2>1. pc'[r] = p
    BY <1>11, <1>12 DEF Continue, Inv, TypeOK
  <2>. QED
    BY <2>1, <1>11 DEF Carries
<1>16. RowsInv'
  <2>1. Alive
    BY <1>8 DEF Alive
  <2>2. UsersInv'
    <3>. SUFFICES ASSUME NEW x \in UserIds, users'[x] # None
                  PROVE  x \in drawn' /\ (users'[x].primary # None => OwnAddress(x, users[x].primary)')
      BY DEF UsersInv
    <3>1. CASE x = u
      BY <1>1, <1>8, <3>1
    <3>2. CASE x # u
      <4>1. users'[x] = users[x] /\ x \in drawn /\ (users[x].primary # None => OwnAddress(x, users[x].primary))
        BY <1>8, <3>2 DEF Inv, RowsInv, UsersInv
      <4>2. PICK c : c = users[x].primary
        OBVIOUS
      <4>3. c # None => c \in ContactIds
        BY <4>1, <4>2 DEF Inv, TypeOK, UserRow
      <4>4. c # None => OwnAddress(x, c)'
        BY <1>10, <4>1, <4>2, <4>3, OwnAddressStays
      <4>. QED
        BY <1>1, <4>1, <4>2, <4>4
    <3>. QED
      BY <3>1, <3>2
  <2>3. OriginInv'
    BY <1>1, <1>7, <1>8 DEF OriginInv, Inv, RowsInv
  <2>. QED
    BY <1>2, <1>10, <2>1, <2>2, <2>3, ContactsStay, LinksStay, SessionsStay DEF RowsInv
<1>17. SignupInv'
  <2>1. ASSUME NEW x \in SignupIds, pendingSignups'[x] # None
        PROVE  /\ x \in drawn' /\ asked'[x] = pendingSignups'[x]
               /\ \A q \in Requests : ~Carries(q, x)'
               /\ \A y \in UserIds : origin'[y] # x
    <3>1. x # s /\ pendingSignups[x] # None
      BY <1>2, <1>9, <2>1, NoneAssumption DEF Ids
    <3>. QED
      BY <1>1, <1>2, <1>8, <1>14, <3>1 DEF Inv, SignupInv
  <2>2. ASSUME NEW x \in SignupIds, NEW q \in Requests, Carries(q, x)'
        PROVE  (\A y \in Requests : Carries(y, x)' => y = q) /\ \A y \in UserIds : origin'[y] # x
    <3>1. Carries(q, x) /\ q # r
      BY <1>14, <1>15, <2>2
    <3>2. x # s
      BY <1>9, <3>1, NoneAssumption DEF Ids
    <3>. QED
      BY <1>8, <1>14, <3>1, <3>2 DEF Inv, SignupInv
  <2>3. SignupOnce'
    BY <1>7, <1>8, <1>9 DEF Inv, SignupInv, SignupOnce
  <2>. QED
    BY <2>1, <2>2, <2>3 DEF SignupInv
<1>18. TypeOK'
  <2>1. users' \in [UserIds -> UserRow \cup {None}]
    <3>1. [status |-> status, deleted |-> FALSE, primary |-> None] \in UserRow
      BY DEF UserRow
    <3>. QED
      BY <1>1, <1>3, <3>1 DEF Inv, TypeOK
  <2>2. origin' \in [UserIds -> SignupIds \cup {None}]
    <3>1. origin' = [origin EXCEPT ![u] = s]
      BY <1>1, <1>5 DEF s
    <3>. QED
      BY <1>7, <3>1 DEF Inv, TypeOK
  <2>. QED
    BY <1>1, <1>2, <1>3, <1>14, <2>1, <2>2 DEF Inv, TypeOK, Ids
<1>19. DStep
  <2>1. Rows(users)' = Rows(users) \cup {u}
    <3>1. DOMAIN users = UserIds /\ DOMAIN users' = UserIds
      BY <1>18 DEF Inv, TypeOK
    <3>. QED
      BY <1>3, <1>8, <3>1 DEF Rows
  <2>2. D!Open(u)
    BY <1>1, <1>2, <1>3, <2>1 DEF D!Open, Rows
  <2>. QED
    BY <1>3, <2>2 DEF DStep, D!Next
<1>20. BlockedStep
  <2>. SUFFICES ASSUME NEW x \in UserIds, origin'[x] # origin[x]
                PROVE  loc[r].ref = origin'[x] /\ ~Blocked(loc[r].value, loc[r].standing)
    BY <1>2 DEF BlockedStep
  <2>1. x = u /\ s # None /\ origin'[x] = s
    BY <1>4, <1>8
  <2>. QED
    BY <1>5, <1>6, <1>7, <2>1
<1>21. SettledStep
  BY <1>2, <1>14, LinksUntouched
<1>. QED
  BY <1>13, <1>16, <1>17, <1>18, <1>19, <1>20, <1>21 DEF Good, Inv

---------------------------------------------------------------------------
(* Addresses and numbers. *)

\* A row is inserted, and the handler goes on.
LEMMA AddRowGood ==
    ASSUME Inv, NEW r \in Requests, NEW v \in Values, NEW verified \in BOOLEAN, ~Taken(v), AddRow(r, v, verified),
           UNCHANGED <<users, links, oauthAccounts, sessions, admin, pendingSignups, asked, origin>>,
           loc[r].user \in UserIds,
           NEW p \in {"idle", "findDomain", "linkAccount"}, NEW l \in Locals, Continue(r, p, l), Kept => RequestOK(p, l)'
    PROVE  Good
<1>1. PICK c \in Fresh(ContactIds) :
        /\ drawn' = drawn \cup {c}
        /\ contacts' = [contacts EXCEPT ![c] = [owner |-> loc[r].user, value |-> v, verified |-> verified]]
  BY DEF AddRow, Draw
<1>2. PICK u \in UserIds : u = loc[r].user
  OBVIOUS
<1>3. users[u] # None /\ claims' = claims \cup {<<u, v>>} /\ c \in ContactIds /\ c \notin drawn
  BY <1>1, <1>2, FreshIs DEF AddRow, Exists
<1>4. /\ users' = users /\ links' = links /\ oauthAccounts' = oauthAccounts /\ sessions' = sessions
      /\ memberships' = memberships /\ domains' = domains /\ restrictions' = restrictions
      /\ pendingSignups' = pendingSignups /\ asked' = asked /\ origin' = origin
  BY DEF admin
<1>. DEFINE row == [owner |-> u, value |-> v, verified |-> verified]
<1>5. row \in Contact /\ row.owner = u /\ row.value = v /\ row # None
  BY NoneIsNoRecord DEF Contact
<1>6. contacts' = [contacts EXCEPT ![c] = row]
  BY <1>1, <1>2
<1>. HIDE DEF row
<1>7. contacts[c] = None
  BY <1>3 DEF Inv, RowsInv, ContactsInv
<1>8. \A x \in ContactIds : contacts'[x] = IF x = c THEN row ELSE contacts[x]
  BY <1>6 DEF Inv, TypeOK
<1>9. contacts' \in [ContactIds -> Contact \cup {None}]
  BY <1>5, <1>6 DEF Inv, TypeOK
<1>10. \A x \in ContactIds : contacts[x] # None => contacts[x].value # v
  BY DEF Taken, Holding, Rows, Inv, TypeOK
<1>11. Kept
  BY <1>1, <1>3, <1>4, <1>8 DEF Kept
<1>12. RequestsInv' /\ p \in Positions
  BY <1>4, <1>11, OthersStay DEF Positions
<1>13. pc' \in [Requests -> Positions] /\ loc' \in [Requests -> Locals]
       /\ (\A q \in Requests, x \in SignupIds : Carries(q, x)' => Carries(q, x))
       /\ \A t \in LinkIds, q \in Requests : q \in Using(t)' => q \in Using(t)
  BY <1>12, Moved
<1>14. RowsInv'
  <2>1. Alive
    BY <1>4 DEF Alive
  <2>2. ContactsInv'
    <3>1. ASSUME NEW x \in ContactIds, contacts'[x] # None
          PROVE  x \in drawn' /\ users'[contacts'[x].owner] # None
                 /\ <<contacts'[x].owner, contacts'[x].value>> \in claims'
      <4>1. CASE x = c
        BY <1>1, <1>3, <1>4, <1>5, <1>8, <4>1
      <4>2. CASE x # c
        BY <1>1, <1>3, <1>4, <1>8, <3>1, <4>2, OwnerIs
      <4>. QED
        BY <4>1, <4>2
    <3>2. ASSUME NEW x \in ContactIds, NEW y \in ContactIds,
                 contacts'[x] # None, contacts'[y] # None, contacts'[x].value = contacts'[y].value
          PROVE  x = y
      BY <1>5, <1>8, <1>10, <3>2 DEF Inv, RowsInv, ContactsInv
    <3>. QED
      BY <3>1, <3>2 DEF ContactsInv
  <2>. QED
    BY <1>4, <1>11, <2>1, <2>2, UsersStay, LinksStay, SessionsStay, OriginStays DEF RowsInv
<1>15. SignupInv'
  BY <1>1, <1>4, <1>13, SignupsStay
<1>16. TypeOK'
  BY <1>1, <1>3, <1>4, <1>9, <1>13 DEF Inv, TypeOK, Ids
<1>17. DStep
  <2>. DEFINE owned == {<<contacts[x].value, contacts[x].owner>> : x \in Rows(contacts)}
  <2>1. Rows(contacts)' = Rows(contacts) \cup {c} /\ c \notin Rows(contacts) /\ Rows(contacts) \subseteq ContactIds
    BY <1>5, <1>7, <1>8, <1>9, <1>3 DEF Rows, Inv, TypeOK
  <2>2. owned' = owned \cup {<<v, u>>}
    <3>1. \A x \in Rows(contacts) : contacts'[x] = contacts[x]
      BY <1>8, <2>1
    <3>2. contacts'[c].value = v /\ contacts'[c].owner = u
      BY <1>3, <1>5, <1>8
    <3>3. owned' = {<<contacts'[x].value, contacts'[x].owner>> : x \in Rows(contacts) \cup {c}}
      BY <2>1
    <3>. QED
      BY <3>1, <3>2, <3>3
  <2>3. \A w \in UserIds : <<v, w>> \notin owned
    BY <1>10, <2>1 DEF Rows
  <2>4. u \in Rows(users)
    BY <1>3 DEF Rows, Inv, TypeOK
  <2>5. drawn' \cap UserIds = drawn \cap UserIds
    BY <1>1, <1>3, DrawnAccounts
  <2>6. Rows(users)' = Rows(users)
        /\ {<<x, sessions[x].owner>> : x \in Rows(sessions)}' = {<<x, sessions[x].owner>> : x \in Rows(sessions)}
    BY <1>4 DEF Rows
  <2>7. D!Claim(v, u)
    BY <2>2, <2>3, <2>4, <2>5, <2>6 DEF D!Claim
  <2>. QED
    BY <2>7 DEF DStep, D!Next
<1>18. BlockedStep /\ SettledStep
  BY <1>4, <1>13, NoAccountMade, LinksUntouched
<1>. QED
  BY <1>12, <1>14, <1>15, <1>16, <1>17, <1>18 DEF Good, Inv

LEMMA InsertRowGood ==
    ASSUME Inv, NEW r \in Requests, NEW v \in Values, NEW verified \in BOOLEAN,
           NEW next \in {"idle", "findDomain", "linkAccount"}, InsertRow(r, v, verified, next),
           UNCHANGED <<users, links, oauthAccounts, sessions, admin, pendingSignups, asked, origin>>,
           loc[r].user \in UserIds, NEW l \in Locals, l = loc[r],
           next # "idle" /\ Kept /\ claims' = claims \cup {<<l.user, v>>} => RequestOK(next, l)'
    PROVE  Good
<1>1. CASE ~Taken(v) /\ AddRow(r, v, verified) /\ Then(r, next)
  <2>1. claims' = claims \cup {<<l.user, v>>}
    BY <1>1 DEF AddRow
  <2>2. CASE next = "idle"
    BY <1>1, <2>2, IdleIs, IdleOK, AddRowGood DEF Then, Answer
  <2>3. CASE next # "idle"
    <3>1. Continue(r, next, l) /\ (Kept => RequestOK(next, l)')
      BY <1>1, <2>1, <2>3 DEF Then
    <3>. QED
      BY <1>1, <3>1, AddRowGood
  <2>. QED
    BY <2>2, <2>3
<1>2. CASE Answer(r) /\ UNCHANGED <<contacts, drawn, claims>>
  BY <1>2, ReadsAndAnswers DEF tables, admin, observers
<1>. QED
  BY <1>1, <1>2 DEF InsertRow

LEMMA InsertAddressGood == ASSUME Inv, NEW r \in Requests, InsertAddress(r) PROVE Good
<1>1. PICK l \in Locals : l = loc[r]
  BY RequestIs
<1>2. /\ l.user \in UserIds /\ l.user \in drawn /\ l.value \in Emails
      /\ l.kind \in {"signup", "oauth", "scim"}
      /\ l.kind = "signup" => SignupOK(l) /\ origin[l.user] = l.ref
      /\ l.kind = "oauth" => l.ref \in Subjects
  BY <1>1, RequestIs DEF RequestOK, InsertAddress
<1>3. PICK next \in {"idle", "findDomain", "linkAccount"} :
        next = IF l.kind = "signup" THEN "findDomain" ELSE IF l.kind = "oauth" THEN "linkAccount" ELSE "idle"
  OBVIOUS
<1>4. InsertRow(r, l.value, TRUE, next)
      /\ UNCHANGED <<users, links, oauthAccounts, sessions, admin, pendingSignups, asked, origin>>
  BY <1>1, <1>3 DEF InsertAddress
<1>5. ASSUME next # "idle", Kept, claims' = claims \cup {<<l.user, l.value>>} PROVE RequestOK(next, l)'
  <2>1. CASE l.kind = "signup"
    <3>1. next = "findDomain"
      BY <1>3, <2>1
    <3>2. Proven(l.user)'
      <4>1. origin' = origin /\ asked' = asked /\ drawn \subseteq drawn'
        BY <1>4, <1>5 DEF Kept
      <4>2. l.ref \in SignupIds /\ l.ref \in drawn /\ asked[l.ref] = l.value /\ origin[l.user] = l.ref
        BY <1>2, <2>1 DEF SignupOK
      <4>. QED
        BY <1>5, <4>1, <4>2 DEF Proven
    <3>3. (l.user \in drawn)' /\ l.ref \in SignupIds
      BY <1>2, <1>5, <2>1 DEF Kept, SignupOK
    <3>. QED
      BY <1>2, <2>1, <3>1, <3>2, <3>3 DEF RequestOK
  <2>2. CASE l.kind # "signup"
    <3>1. next = "linkAccount" /\ l.kind = "oauth"
      BY <1>3, <1>5, <2>2
    <3>. QED
      BY <1>2, <3>1 DEF RequestOK, Values
  <2>. QED
    BY <2>1, <2>2
<1>6. l.value \in Values
  BY <1>2 DEF Values
<1>. QED
  BY <1>1, <1>2, <1>3, <1>4, <1>5, <1>6, InsertRowGood

LEMMA InsertContactGood == ASSUME Inv, NEW r \in Requests, InsertContact(r) PROVE Good
<1>1. PICK l \in Locals : l = loc[r] /\ l.user \in UserIds /\ l.value \in Values
  BY RequestIs DEF RequestOK, InsertContact
<1>2. InsertRow(r, l.value, FALSE, "idle")
      /\ UNCHANGED <<users, links, oauthAccounts, sessions, admin, pendingSignups, asked, origin>>
  BY <1>1 DEF InsertContact
<1>. QED
  BY <1>1, <1>2, InsertRowGood

---------------------------------------------------------------------------
(* The rest of the steps, by what they write. *)

\* The handlers move, and nobody gains a sign-up code or the use of a link.
Moves ==
    /\ pc' \in [Requests -> Positions] /\ loc' \in [Requests -> Locals]
    /\ RequestsInv'
    /\ \A q \in Requests, s \in SignupIds : Carries(q, s)' => Carries(q, s)
    /\ \A t \in LinkIds, q \in Requests : q \in Using(t)' => q \in Using(t)

LEMMA AnswerMoves ==
    ASSUME Inv, Kept, restrictions \subseteq restrictions', NEW r \in Requests, Answer(r) PROVE Moves
  BY Answered DEF Moves

LEMMA NobodyMoves ==
    ASSUME Inv, Kept, restrictions \subseteq restrictions', UNCHANGED handlers PROVE Moves
  BY NoneMoved DEF Moves

TablesOK ==
    /\ users \in [UserIds -> UserRow \cup {None}]
    /\ contacts \in [ContactIds -> Contact \cup {None}]
    /\ links \in [LinkIds -> Link \cup {None}]
    /\ oauthAccounts \in [OAuthIds -> OAuthAccount \cup {None}]
    /\ sessions \in [SessionIds -> Session \cup {None}]
    /\ memberships \subseteq Organizations \X UserIds
    /\ domains \in [Domains -> [organization : Organizations, verified : BOOLEAN] \cup {None}]
    /\ restrictions \subseteq RestrictionPool
    /\ drawn \subseteq Ids

SettledRows ==
    \A t \in LinkIds : links[t] # None /\ links[t].status # "pending" /\ links'[t] # None
                         => links'[t].status # "pending"

\* No step below touches the store of sign-ups or the observers.
LEMMA Closing ==
    ASSUME Inv, Kept, Moves, UNCHANGED <<pendingSignups, observers>>,
           UsersInv', ContactsInv', LinksInv', SessionsInv', TablesOK', SettledRows, DStep
    PROVE  Good
<1>1. pendingSignups' = pendingSignups /\ asked' = asked /\ origin' = origin /\ claims' = claims
  BY DEF observers
<1>2. RowsInv'
  BY <1>1, OriginStays DEF RowsInv
<1>3. SignupInv'
  BY <1>1, SignupsStay DEF Moves, Kept
<1>4. TypeOK'
  BY <1>1 DEF Inv, TypeOK, Moves, TablesOK
<1>5. SettledStep
  <2>1. \A t \in LinkIds : Using(t)' \subseteq Requests
    BY DEF Using
  <2>2. \A t \in LinkIds : Using(t)' \subseteq Using(t)
    BY <2>1 DEF Moves
  <2>. QED
    BY <2>2 DEF SettledStep, SettledRows
<1>. QED
  BY <1>1, <1>2, <1>3, <1>4, <1>5, NoAccountMade DEF Good, Inv, Moves

LEMMA TablesAre == ASSUME Inv PROVE TablesOK
  BY DEF Inv, TypeOK, TablesOK

LEMMA SameLinks == ASSUME links' = links PROVE SettledRows
  BY DEF SettledRows

\* Steps on the other tables.
LEMMA ElsewhereGood ==
    ASSUME Inv, UNCHANGED <<users, contacts, links, sessions, pendingSignups, observers>>,
           drawn \subseteq drawn', drawn' \cap UserIds = drawn \cap UserIds, Kept => Moves, TablesOK'
    PROVE  Good
<1>1. Kept
  BY NothingChanges DEF observers
<1>2. RowsInv'
  BY <1>1, RowsStay DEF observers
<1>3. DStep
  BY Unseen DEF Rows
<1>. QED
  BY <1>1, <1>2, <1>3, Closing, SameLinks DEF RowsInv

LEMMA EnrollGood == ASSUME Inv, NEW r \in Requests, Enroll(r) PROVE Good
<1>1. /\ pc[r] = "enroll"
      /\ UNCHANGED <<users, contacts, links, oauthAccounts, sessions, domains, restrictions,
                     pendingSignups, drawn, observers>>
  BY DEF Enroll
<1>2. PICK l \in Locals : l = loc[r] /\ RequestOK("enroll", l)
  BY <1>1, RequestIs
<1>3. /\ l.kind = "signup" /\ l.user \in UserIds /\ l.user \in drawn /\ l.ref \in Organizations
      /\ Proven(l.user) /\ l.ref \notin LinkIds
  BY <1>2, IdsAssumption DEF RequestOK
<1>4. memberships' \subseteq Organizations \X UserIds
  <2>1. memberships' \in {memberships, memberships \cup {<<l.ref, l.user>>}}
    BY <1>2 DEF Enroll
  <2>2. memberships \subseteq Organizations \X UserIds /\ <<l.ref, l.user>> \in Organizations \X UserIds
    BY <1>3 DEF Inv, TypeOK
  <2>. QED
    BY <2>1, <2>2
<1>5. TablesOK'
  BY <1>1, <1>4, TablesAre DEF TablesOK
<1>6. ASSUME Kept PROVE Moves
  <2>1. CASE Exists(loc[r].user)
    <3>1. Continue(r, "openSession", l) /\ "openSession" \in Positions
      BY <1>2, <2>1 DEF Enroll, Positions
    <3>2. RequestOK("openSession", l)
      BY <1>3 DEF RequestOK
    <3>3. RequestOK("openSession", l)'
      BY <1>1, <1>6, <3>2, RequestStays
    <3>4. RequestsInv'
      BY <1>1, <1>6, <3>1, <3>3, OthersStay
    <3>. QED
      BY <1>3, <3>1, <3>4, Moved DEF Moves
  <2>2. CASE ~Exists(loc[r].user)
    BY <1>1, <1>6, <2>2, AnswerMoves DEF Enroll
  <2>. QED
    BY <2>1, <2>2
<1>. QED
  BY <1>1, <1>5, <1>6, ElsewhereGood

LEMMA LinkAccountGood == ASSUME Inv, NEW r \in Requests, LinkAccount(r) PROVE Good
<1>1. /\ pc[r] = "linkAccount" /\ Answer(r)
      /\ UNCHANGED <<users, contacts, links, sessions, admin, pendingSignups, observers>>
  BY DEF LinkAccount
<1>2. PICK l \in Locals : l = loc[r] /\ l.user \in UserIds /\ l.value \in Values /\ l.ref \in Subjects
  BY <1>1, RequestIs DEF RequestOK
<1>3. Kept => Moves
  BY <1>1, AnswerMoves DEF admin
<1>4. CASE oauthAccounts' = oauthAccounts /\ drawn' = drawn
  <2>1. TablesOK'
    BY <1>1, <1>4, TablesAre DEF TablesOK, admin
  <2>. QED
    BY <1>1, <1>3, <1>4, <2>1, ElsewhereGood
<1>5. CASE \E o \in Fresh(OAuthIds) : Draw(o) /\ oauthAccounts' = [oauthAccounts EXCEPT ![o] =
                    [owner |-> loc[r].user, subject |-> loc[r].ref, value |-> loc[r].value]]
  <2>1. PICK o \in Fresh(OAuthIds) : drawn' = drawn \cup {o} /\ oauthAccounts' = [oauthAccounts EXCEPT ![o] =
                    [owner |-> l.user, subject |-> l.ref, value |-> l.value]]
    BY <1>2, <1>5 DEF Draw
  <2>2. o \in OAuthIds
    BY FreshIs
  <2>3. [owner |-> l.user, subject |-> l.ref, value |-> l.value] \in OAuthAccount
    BY <1>2 DEF OAuthAccount
  <2>4. TablesOK'
    BY <1>1, <2>1, <2>2, <2>3, TablesAre DEF TablesOK, admin, Ids
  <2>5. drawn' \cap UserIds = drawn \cap UserIds
    BY <2>1, <2>2, DrawnAccounts
  <2>. QED
    BY <1>1, <1>3, <2>1, <2>4, <2>5, ElsewhereGood
<1>. QED
  BY <1>4, <1>5 DEF LinkAccount

LEMMA UnlinkAccountGood ==
    ASSUME Inv, NEW u \in UserIds, NEW o \in OAuthIds, UnlinkAccount(u, o) PROVE Good
<1>1. /\ UNCHANGED <<users, contacts, links, sessions, admin, pendingSignups, drawn, handlers, observers>>
      /\ oauthAccounts' = [oauthAccounts EXCEPT ![o] = None]
  BY DEF UnlinkAccount
<1>2. TablesOK'
  BY <1>1, TablesAre DEF TablesOK, admin
<1>3. Kept => Moves
  BY <1>1, NobodyMoves DEF admin
<1>. QED
  BY <1>1, <1>2, <1>3, ElsewhereGood

\* Administrators add a restriction, and add, verify and delete a domain.
LEMMA AdminGood ==
    ASSUME Inv, UNCHANGED <<users, contacts, links, oauthAccounts, sessions, memberships, pendingSignups, drawn,
                            handlers, observers>>,
           restrictions \subseteq restrictions', restrictions' \subseteq RestrictionPool,
           domains' \in [Domains -> [organization : Organizations, verified : BOOLEAN] \cup {None}]
    PROVE  Good
<1>1. TablesOK'
  BY TablesAre DEF TablesOK
<1>2. Kept => Moves
  BY NobodyMoves
<1>. QED
  BY <1>1, <1>2, ElsewhereGood

LEMMA AddRestrictionGood == ASSUME Inv, NEW x \in RestrictionPool, AddRestriction(x) PROVE Good
  BY AdminGood DEF AddRestriction, Inv, TypeOK

LEMMA DomainGood ==
    ASSUME Inv, NEW d \in Domains, (\E o \in Organizations : AddDomain(o, d)) \/ VerifyDomain(d) \/ DeleteDomain(d)
    PROVE  Good
<1>. DEFINE Row == [organization : Organizations, verified : BOOLEAN]
<1>1. /\ UNCHANGED <<users, contacts, links, oauthAccounts, sessions, memberships, pendingSignups, drawn,
                     handlers, observers>>
      /\ restrictions' = restrictions
  BY DEF AddDomain, VerifyDomain, DeleteDomain
<1>2. domains \in [Domains -> Row \cup {None}] /\ restrictions \subseteq RestrictionPool
  BY DEF Inv, TypeOK
<1>3. domains' \in [Domains -> Row \cup {None}]
  <2>1. CASE \E o \in Organizations : AddDomain(o, d)
    BY <1>2, <2>1 DEF AddDomain
  <2>2. CASE VerifyDomain(d)
    <3>1. domains[d] \in Row
      BY <1>2, <2>2 DEF VerifyDomain
    <3>2. [domains[d] EXCEPT !.verified = TRUE] \in Row
      BY <3>1
    <3>3. domains' = [domains EXCEPT ![d] = [domains[d] EXCEPT !.verified = TRUE]]
      BY <1>2, <2>2 DEF VerifyDomain
    <3>. QED
      BY <1>2, <3>2, <3>3
  <2>3. CASE DeleteDomain(d)
    BY <1>2, <2>3 DEF DeleteDomain
  <2>. QED
    BY <2>1, <2>2, <2>3
<1>. QED
  BY <1>1, <1>2, <1>3, AdminGood

---------------------------------------------------------------------------
(* The rows of accounts, addresses, sessions and links. *)

LEMMA UpdateGood ==
    ASSUME Inv, NEW u \in UserIds, NEW row,
           users[u] # None => row \in UserRow /\ (row.primary # None => OwnAddress(u, row.primary)),
           UpdateUser(u, row),
           UNCHANGED <<contacts, links, oauthAccounts, sessions, admin, pendingSignups, drawn, observers>>,
           Kept => Moves
    PROVE  Good
<1>1. /\ contacts' = contacts /\ links' = links /\ oauthAccounts' = oauthAccounts /\ sessions' = sessions
      /\ memberships' = memberships /\ domains' = domains /\ restrictions' = restrictions
      /\ pendingSignups' = pendingSignups /\ drawn' = drawn /\ asked' = asked /\ origin' = origin /\ claims' = claims
  BY DEF admin, observers
<1>2. \A x \in UserIds : users'[x] = IF x = u /\ users[u] # None THEN row ELSE users[x]
  BY DEF UpdateUser, Inv, TypeOK
<1>3. users' \in [UserIds -> UserRow \cup {None}]
  BY DEF UpdateUser, Inv, TypeOK
<1>4. \A x \in UserIds : users'[x] = None <=> users[x] = None
  BY <1>2, NoneIsNoRecord
<1>5. Kept
  BY <1>1, <1>4 DEF Kept
<1>6. Alive
  BY <1>4 DEF Alive
<1>7. UsersInv'
  <2>. SUFFICES ASSUME NEW x \in UserIds, users'[x] # None
                PROVE  x \in drawn' /\ (users'[x].primary # None => OwnAddress(x, users[x].primary)')
    BY DEF UsersInv
  <2>1. PICK c : c = users'[x].primary
    OBVIOUS
  <2>2. c # None => c \in ContactIds
    BY <1>3, <2>1 DEF UserRow
  <2>3. x \in drawn /\ (c # None => OwnAddress(x, c))
    BY <1>2, <1>4, <2>1 DEF Inv, RowsInv, UsersInv
  <2>4. c # None => OwnAddress(x, c)'
    BY <1>5, <2>2, <2>3, OwnAddressStays
  <2>. QED
    BY <1>1, <2>1, <2>3, <2>4
<1>8. ContactsInv' /\ LinksInv' /\ SessionsInv'
  BY <1>1, <1>5, <1>6, ContactsStay, LinksStay, SessionsStay
<1>9. TablesOK'
  BY <1>1, <1>3, TablesAre DEF TablesOK
<1>10. DStep
  <2>1. Rows(users)' = Rows(users)
    <3>1. DOMAIN users = UserIds /\ DOMAIN users' = UserIds
      BY <1>3 DEF Inv, TypeOK
    <3>. QED
      BY <1>4, <3>1 DEF Rows
  <2>. QED
    BY <1>1, <2>1, Unseen
<1>. QED
  BY <1>1, <1>5, <1>7, <1>8, <1>9, <1>10, SameLinks, Closing DEF observers

\* What is known of an account that is there.
LEMMA AccountIs ==
    ASSUME Inv, NEW u \in UserIds, users[u] # None
    PROVE  users[u] \in UserRow /\ u \in drawn /\ (users[u].primary # None => OwnAddress(u, users[u].primary))
  BY DEF Inv, TypeOK, RowsInv, UsersInv

LEMMA SoftDeleteGood == ASSUME Inv, NEW u \in UserIds, SoftDelete(u) PROVE Good
<1>1. users[u] # None /\ users' = [users EXCEPT ![u].deleted = TRUE]
      /\ UNCHANGED <<contacts, links, oauthAccounts, sessions, admin, pendingSignups, drawn, handlers, observers>>
  BY DEF SoftDelete, Exists
<1>2. PICK row : row = [users[u] EXCEPT !.deleted = TRUE]
  OBVIOUS
<1>3. row \in UserRow /\ row.primary = users[u].primary
  BY <1>1, <1>2, AccountIs DEF UserRow
<1>4. UpdateUser(u, row)
  BY <1>1, <1>2 DEF UpdateUser, Inv, TypeOK
<1>5. Kept => Moves
  BY <1>1, NobodyMoves DEF admin
<1>. QED
  BY <1>1, <1>3, <1>4, <1>5, AccountIs, UpdateGood

LEMMA SetStatusGood ==
    ASSUME Inv, NEW u \in UserIds, NEW status \in {"active", "inactive", "banned"}, SetStatus(u, status) PROVE Good
<1>1. users[u] # None /\ users' = [users EXCEPT ![u].status = status]
      /\ UNCHANGED <<contacts, links, oauthAccounts, sessions, admin, pendingSignups, drawn, handlers, observers>>
  BY DEF SetStatus, Exists
<1>2. PICK row : row = [users[u] EXCEPT !.status = status]
  OBVIOUS
<1>3. row \in UserRow /\ row.primary = users[u].primary
  BY <1>1, <1>2, AccountIs DEF UserRow
<1>4. UpdateUser(u, row)
  BY <1>1, <1>2 DEF UpdateUser, Inv, TypeOK
<1>5. Kept => Moves
  BY <1>1, NobodyMoves DEF admin
<1>. QED
  BY <1>1, <1>3, <1>4, <1>5, AccountIs, UpdateGood

LEMMA WriteRestoredGood == ASSUME Inv, NEW r \in Requests, WriteRestored(r) PROVE Good
<1>1. pc[r] = "writeRestored" /\ Answer(r)
      /\ UNCHANGED <<contacts, links, oauthAccounts, sessions, admin, pendingSignups, drawn, observers>>
  BY DEF WriteRestored
<1>2. PICK u \in UserIds : u = loc[r].user
  BY <1>1, RequestIs DEF RequestOK
<1>3. PICK row : row = [users[u] EXCEPT !.deleted = FALSE, !.status = "active"]
  OBVIOUS
<1>4. users[u] # None => row \in UserRow /\ row.primary = users[u].primary
  BY <1>3, AccountIs DEF UserRow
<1>5. UpdateUser(u, row)
  BY <1>2, <1>3 DEF WriteRestored
<1>6. Kept => Moves
  BY <1>1, AnswerMoves DEF admin
<1>. QED
  BY <1>1, <1>4, <1>5, <1>6, AccountIs, UpdateGood

LEMMA WritePrimaryGood == ASSUME Inv, NEW r \in Requests, WritePrimary(r) PROVE Good
<1>1. pc[r] = "writePrimary" /\ Answer(r)
      /\ UNCHANGED <<contacts, links, oauthAccounts, sessions, admin, pendingSignups, drawn, observers>>
  BY DEF WritePrimary
<1>2. PICK u \in UserIds, c \in ContactIds : u = loc[r].user /\ c = loc[r].ref /\ OwnAddress(u, c)
  BY <1>1, RequestIs DEF RequestOK
<1>3. PICK row : row = [users[u] EXCEPT !.primary = c]
  OBVIOUS
<1>4. users[u] # None => row \in UserRow /\ row.primary = c
  BY <1>3, AccountIs DEF UserRow
<1>5. UpdateUser(u, row)
  BY <1>2, <1>3 DEF WritePrimary
<1>6. Kept => Moves
  BY <1>1, AnswerMoves DEF admin
<1>. QED
  BY <1>1, <1>2, <1>4, <1>5, <1>6, UpdateGood

LEMMA DeleteRowGood == ASSUME Inv, NEW r \in Requests, DeleteRow(r) PROVE Good
<1>1. /\ pc[r] = "deleteRow" /\ Answer(r)
      /\ users' = users /\ links' = links /\ oauthAccounts' = oauthAccounts /\ sessions' = sessions
      /\ memberships' = memberships /\ domains' = domains /\ restrictions' = restrictions
      /\ pendingSignups' = pendingSignups /\ drawn' = drawn /\ asked' = asked /\ origin' = origin /\ claims' = claims
  BY DEF DeleteRow, admin, observers
<1>2. PICK c \in ContactIds : c = loc[r].ref
  BY <1>1, RequestIs DEF RequestOK
<1>3. contacts' = [contacts EXCEPT ![c] = None]
  BY <1>2 DEF DeleteRow
<1>4. \A x \in ContactIds : contacts'[x] = IF x = c THEN None ELSE contacts[x]
  BY <1>3 DEF Inv, TypeOK
<1>5. contacts' \in [ContactIds -> Contact \cup {None}]
  BY <1>3 DEF Inv, TypeOK
<1>6. Kept
  BY <1>1, <1>4 DEF Kept
<1>7. Moves
  BY <1>1, <1>6, AnswerMoves
<1>8. ContactsInv'
  BY <1>1, <1>4 DEF ContactsInv, Inv, RowsInv
<1>9. UsersInv' /\ LinksInv' /\ SessionsInv'
  BY <1>1, <1>6, UsersStay, LinksStay, SessionsStay DEF Alive
<1>10. TablesOK'
  BY <1>1, <1>5, TablesAre DEF TablesOK
<1>11. DStep
  <2>1. Rows(users)' = Rows(users) /\ drawn' \cap UserIds = drawn \cap UserIds
    BY <1>1 DEF Rows
  <2>2. CASE contacts[c] = None
    <3>1. contacts' = contacts
      BY <1>4, <1>5, <2>2 DEF Inv, TypeOK
    <3>. QED
      BY <1>1, <2>1, <3>1, Unseen
  <2>3. CASE contacts[c] # None
    <3>1. PICK u \in UserIds, v \in Values : u = contacts[c].owner /\ v = contacts[c].value
      BY <2>3, OwnerIs
    <3>. DEFINE owned == {<<contacts[x].value, contacts[x].owner>> : x \in Rows(contacts)}
    <3>2. Rows(contacts)' = Rows(contacts) \ {c} /\ Rows(contacts) \subseteq ContactIds /\ c \in Rows(contacts)
      BY <1>4, <1>5, <2>3 DEF Rows, Inv, TypeOK
    <3>3. \A x \in Rows(contacts) \ {c} : contacts'[x] = contacts[x] /\ contacts[x].value # v
      BY <1>4, <2>3, <3>1, <3>2 DEF Rows, Inv, RowsInv, ContactsInv
    <3>4. owned' = {<<contacts'[x].value, contacts'[x].owner>> : x \in Rows(contacts) \ {c}}
      BY <3>2
    <3>5. owned' = owned \ {<<v, u>>}
      BY <3>1, <3>2, <3>3, <3>4
    <3>6. {<<x, sessions[x].owner>> : x \in Rows(sessions)}' = {<<x, sessions[x].owner>> : x \in Rows(sessions)}
      BY <1>1 DEF Rows
    <3>7. D!Release(v, u)
      BY <2>1, <3>5, <3>6 DEF D!Release
    <3>. QED
      BY <3>7 DEF DStep, D!Next
  <2>. QED
    BY <2>2, <2>3
<1>. QED
  BY <1>1, <1>6, <1>7, <1>8, <1>9, <1>10, <1>11, SameLinks, Closing DEF observers

LEMMA OpenSessionGood == ASSUME Inv, NEW r \in Requests, OpenSession(r) PROVE Good
<1>1. /\ pc[r] = "openSession" /\ Answer(r)
      /\ users' = users /\ contacts' = contacts /\ links' = links /\ oauthAccounts' = oauthAccounts
      /\ memberships' = memberships /\ domains' = domains /\ restrictions' = restrictions
      /\ pendingSignups' = pendingSignups /\ asked' = asked /\ origin' = origin /\ claims' = claims
  BY DEF OpenSession, admin, observers
<1>2. PICK l \in Locals : l = loc[r] /\ RequestOK("openSession", l)
  BY <1>1, RequestIs
<1>3. PICK u \in UserIds : u = l.user
  BY <1>2 DEF RequestOK
<1>4. CASE ~Exists(u)
  <2>1. sessions' = sessions /\ drawn' = drawn
    BY <1>2, <1>3, <1>4 DEF OpenSession
  <2>2. TablesOK'
    BY <1>1, <2>1, TablesAre DEF TablesOK
  <2>. QED
    BY <1>1, <2>1, <2>2, AnswerMoves, ElsewhereGood DEF observers
<1>5. CASE Exists(u)
  <2>0. PICK p : p = IF l.kind = "signup" THEN origin[u] ELSE l.ref
    OBVIOUS
  <2>1. PICK s \in Fresh(SessionIds) :
          drawn' = drawn \cup {s} /\ sessions' = [sessions EXCEPT ![s] = [owner |-> u, via |-> p]]
    BY <1>2, <1>3, <1>5, <2>0 DEF OpenSession, Draw
  <2>2. s \in SessionIds /\ s \notin drawn
    BY FreshIs
  <2>3. u \in drawn /\ users[u] # None
    BY <1>2, <1>3, <1>5 DEF RequestOK, Exists
  <2>4. SessionOK(u, p) /\ p \in SignupIds \cup LinkIds
    <3>1. CASE l.kind = "signup"
      <4>1. Proven(u) /\ p = origin[u]
        BY <1>2, <1>3, <2>0, <3>1 DEF RequestOK
      <4>. QED
        BY <4>1, IdsAssumption DEF SessionOK, Proven
    <3>2. CASE l.kind # "signup"
      <4>1. Holds(u, p)
        BY <1>2, <1>3, <2>0, <3>2 DEF RequestOK
      <4>. QED
        BY <4>1, IdsAssumption DEF SessionOK, Holds
    <3>. QED
      BY <3>1, <3>2
  <2>5. PICK row : row = [owner |-> u, via |-> p]
    OBVIOUS
  <2>5a. row \in Session /\ row.owner = u /\ row.via = p
    BY <2>4, <2>5 DEF Session
  <2>6. sessions' = [sessions EXCEPT ![s] = row] /\ row # None
    BY <2>1, <2>5, <2>5a, NoneIsNoRecord
  <2>7. \A x \in SessionIds : sessions'[x] = IF x = s THEN row ELSE sessions[x]
    BY <2>6 DEF Inv, TypeOK
  <2>8. sessions' \in [SessionIds -> Session \cup {None}]
    BY <2>5a, <2>6 DEF Inv, TypeOK
  <2>9. sessions[s] = None
    BY <2>2 DEF Inv, RowsInv, SessionsInv
  <2>10. Kept
    BY <1>1, <2>1, NothingChanges
  <2>11. Moves
    BY <1>1, <2>10, AnswerMoves
  <2>12. SessionsInv'
    <3>. SUFFICES ASSUME NEW x \in SessionIds, sessions'[x] # None
                  PROVE  x \in drawn' /\ users'[sessions'[x].owner] # None
                         /\ SessionOK(sessions[x].owner, sessions[x].via)'
      BY SessionsAreNext
    <3>1. CASE x = s
      <4>1. SessionOK(u, p)'
        BY <2>3, <2>4, <2>10, SessionStays
      <4>2. sessions'[x].owner = u /\ sessions'[x].via = p
        BY <2>5a, <2>7, <3>1
      <4>3. SessionOK(sessions[x].owner, sessions[x].via)'
        BY <1>1, <4>1, <4>2 DEF SessionOK
      <4>. QED
        BY <1>1, <2>1, <2>3, <3>1, <4>2, <4>3
    <3>2. CASE x # s
      <4>1. sessions'[x] = sessions[x] /\ sessions[x] # None
        BY <2>7, <3>2
      <4>2. users'[sessions[x].owner] # None
        BY <1>1, <4>1 DEF Inv, RowsInv, SessionsInv
      <4>. QED
        BY <2>10, <4>1, <4>2, OldSession
    <3>. QED
      BY <3>1, <3>2
  <2>13. UsersInv' /\ ContactsInv' /\ LinksInv'
    BY <1>1, <2>10, UsersStay, ContactsStay, LinksStay DEF Alive
  <2>14. TablesOK'
    BY <1>1, <2>1, <2>2, <2>8, TablesAre DEF TablesOK, Ids
  <2>15. DStep
    <3>. DEFINE opened == {<<x, sessions[x].owner>> : x \in Rows(sessions)}
    <3>1. Rows(sessions)' = Rows(sessions) \cup {s} /\ s \notin Rows(sessions) /\ Rows(sessions) \subseteq SessionIds
      BY <2>2, <2>6, <2>7, <2>8, <2>9 DEF Rows, Inv, TypeOK
    <3>2. \A x \in Rows(sessions) : sessions'[x] = sessions[x]
      BY <2>7, <3>1
    <3>3. sessions'[s].owner = u
      BY <2>2, <2>5a, <2>7
    <3>4. opened' = {<<x, sessions'[x].owner>> : x \in Rows(sessions) \cup {s}}
      BY <3>1
    <3>5. opened' = opened \cup {<<s, u>>}
      BY <3>2, <3>3, <3>4
    <3>6. \A w \in UserIds : <<s, w>> \notin opened
      BY <3>1
    <3>7. Rows(users)' = Rows(users) /\ u \in Rows(users) /\ drawn' \cap UserIds = drawn \cap UserIds
          /\ {<<contacts[x].value, contacts[x].owner>> : x \in Rows(contacts)}'
               = {<<contacts[x].value, contacts[x].owner>> : x \in Rows(contacts)}
      BY <1>1, <2>1, <2>2, <2>3, DrawnAccounts DEF Rows, Inv, TypeOK
    <3>8. D!Admit(s, u)
      BY <3>5, <3>6, <3>7 DEF D!Admit
    <3>. QED
      BY <2>2, <3>8 DEF DStep, D!Next
  <2>. QED
    BY <1>1, <2>10, <2>11, <2>12, <2>13, <2>14, <2>15, SameLinks, Closing DEF observers
<1>. QED
  BY <1>4, <1>5

\* A row of links is new, or written without another owner, address or a way back.
LEMMA LinkGood ==
    ASSUME Inv, UNCHANGED <<users, contacts, oauthAccounts, sessions, admin, pendingSignups, observers>>,
           NEW t \in LinkIds, drawn' \in {drawn, drawn \cup {t}}, t \in drawn',
           NEW row \in Link, links' = [links EXCEPT ![t] = row],
           users[row.owner] # None, <<row.owner, row.value>> \in claims,
           t \in drawn => /\ links[t] # None /\ links[t].owner = row.owner /\ links[t].value = row.value
                          /\ links[t].status # "pending" => row.status # "pending",
           Kept => Moves
    PROVE  Good
<1>1. /\ users' = users /\ contacts' = contacts /\ oauthAccounts' = oauthAccounts /\ sessions' = sessions
      /\ memberships' = memberships /\ domains' = domains /\ restrictions' = restrictions
      /\ pendingSignups' = pendingSignups /\ asked' = asked /\ origin' = origin /\ claims' = claims
  BY DEF admin, observers
<1>2. row # None
  BY NoneIsNoRecord
<1>3. \A x \in LinkIds : links'[x] = IF x = t THEN row ELSE links[x]
  BY DEF Inv, TypeOK
<1>4. links' \in [LinkIds -> Link \cup {None}]
  BY DEF Inv, TypeOK
<1>5. Kept
  BY <1>1, <1>2, <1>3 DEF Kept
<1>6. LinksInv'
  BY <1>1, <1>3 DEF LinksInv, Inv, RowsInv
<1>7. UsersInv' /\ ContactsInv' /\ SessionsInv'
  BY <1>1, <1>5, UsersStay, ContactsStay, SessionsStay DEF Alive
<1>8. TablesOK'
  BY <1>1, <1>4, TablesAre DEF TablesOK, Ids
<1>9. SettledRows
  BY <1>3 DEF SettledRows, Inv, RowsInv, LinksInv
<1>10. DStep
  <2>1. Rows(users)' = Rows(users) /\ drawn' \cap UserIds = drawn \cap UserIds
    BY <1>1, DrawnAccounts DEF Rows
  <2>. QED
    BY <1>1, <2>1, Unseen
<1>. QED
  BY <1>1, <1>5, <1>6, <1>7, <1>8, <1>9, <1>10, Closing DEF observers

\* What is known of a link that is there.
LEMMA LinkIs ==
    ASSUME Inv, NEW t \in LinkIds, links[t] # None
    PROVE  /\ links[t] \in Link /\ t \in drawn /\ users[links[t].owner] # None
           /\ <<links[t].owner, links[t].value>> \in claims
  BY DEF Inv, TypeOK, RowsInv, LinksInv

LEMMA InsertLinkGood == ASSUME Inv, NEW r \in Requests, InsertLink(r) PROVE Good
<1>1. /\ pc[r] = "insertLink" /\ Answer(r)
      /\ UNCHANGED <<users, contacts, oauthAccounts, sessions, admin, pendingSignups, observers>>
  BY DEF InsertLink
<1>2. PICK l \in Locals : l = loc[r] /\ l.user \in UserIds /\ l.value \in Values /\ <<l.user, l.value>> \in claims
  BY <1>1, RequestIs DEF RequestOK
<1>3. Kept => Moves
  BY <1>1, AnswerMoves DEF admin
<1>4. CASE links' = links /\ drawn' = drawn
  <2>1. TablesOK'
    BY <1>1, <1>4, TablesAre DEF TablesOK, admin
  <2>. QED
    BY <1>1, <1>3, <1>4, <2>1, ElsewhereGood
<1>5. CASE Exists(l.user) /\ \E t \in Fresh(LinkIds) : Draw(t) /\ links' = [links EXCEPT ![t] =
                    [owner |-> l.user, status |-> "pending", late |-> FALSE, value |-> l.value]]
  <2>1. PICK row : row = [owner |-> l.user, status |-> "pending", late |-> FALSE, value |-> l.value]
    OBVIOUS
  <2>1a. row \in Link /\ row.owner = l.user /\ row.value = l.value
    BY <1>2, <2>1 DEF Link
  <2>2. PICK t \in Fresh(LinkIds) : drawn' = drawn \cup {t} /\ links' = [links EXCEPT ![t] = row]
    BY <1>5, <2>1 DEF Draw
  <2>3. t \in LinkIds /\ t \notin drawn
    BY FreshIs
  <2>4. users[row.owner] # None /\ <<row.owner, row.value>> \in claims
    BY <1>2, <1>5, <2>1a DEF Exists
  <2>. QED
    BY <1>1, <1>3, <2>1a, <2>2, <2>3, <2>4, LinkGood
<1>. QED
  BY <1>2, <1>4, <1>5 DEF InsertLink

LEMMA LinkGoesLateGood == ASSUME Inv, NEW t \in LinkIds, LinkGoesLate(t) PROVE Good
<1>1. /\ links[t] # None /\ links' = [links EXCEPT ![t].late = TRUE] /\ drawn' = drawn
      /\ UNCHANGED <<users, contacts, oauthAccounts, sessions, admin, pendingSignups, handlers, observers>>
  BY DEF LinkGoesLate
<1>2. PICK row : row = [links[t] EXCEPT !.late = TRUE]
  OBVIOUS
<1>3. row \in Link /\ row.owner = links[t].owner /\ row.value = links[t].value /\ row.status = links[t].status
  BY <1>1, <1>2, LinkIs DEF Link
<1>4. links' = [links EXCEPT ![t] = row]
  BY <1>1, <1>2 DEF Inv, TypeOK
<1>5. Kept => Moves
  BY <1>1, NobodyMoves DEF admin
<1>6. t \in drawn /\ users[row.owner] # None /\ <<row.owner, row.value>> \in claims
  BY <1>1, <1>3, LinkIs
<1>7. UNCHANGED <<users, contacts, oauthAccounts, sessions, admin, pendingSignups, observers>>
  BY <1>1
<1>. QED
  BY <1>1, <1>3, <1>4, <1>5, <1>6, <1>7, LinkGood

LEMMA SettleLinkGood ==
    ASSUME Inv, NEW r \in Requests, NEW status \in {"accepted", "expired"}, SettleLink(r, status), loc[r].ref \in LinkIds,
           UNCHANGED <<users, contacts, oauthAccounts, sessions, admin, pendingSignups, drawn, observers>>,
           Kept => Moves
    PROVE  Good
<1>1. PICK t \in LinkIds : t = loc[r].ref
  OBVIOUS
<1>2. links' = [links EXCEPT ![t] = IF links[t] = None THEN None ELSE [links[t] EXCEPT !.status = status]]
  BY <1>1 DEF SettleLink, Inv, TypeOK
<1>3. CASE links[t] = None
  <2>1. links' = links
    BY <1>2, <1>3 DEF Inv, TypeOK
  <2>2. TablesOK'
    BY <2>1, TablesAre DEF TablesOK, admin
  <2>. QED
    BY <2>1, <2>2, ElsewhereGood
<1>4. CASE links[t] # None
  <2>1. PICK row : row = [links[t] EXCEPT !.status = status]
    OBVIOUS
  <2>2. row \in Link /\ row.owner = links[t].owner /\ row.value = links[t].value /\ row.status = status
    BY <1>4, <2>1, LinkIs DEF Link
  <2>3. links' = [links EXCEPT ![t] = row]
    BY <1>2, <1>4, <2>1
  <2>. QED
    BY <1>4, <2>2, <2>3, LinkIs, LinkGood
<1>. QED
  BY <1>3, <1>4

LEMMA ExpireLinkGood == ASSUME Inv, NEW r \in Requests, ExpireLink(r) PROVE Good
<1>1. /\ pc[r] = "expireLink" /\ Answer(r) /\ SettleLink(r, "expired")
      /\ UNCHANGED <<users, contacts, oauthAccounts, sessions, admin, pendingSignups, drawn, observers>>
  BY DEF ExpireLink
<1>2. loc[r].ref \in LinkIds
  BY <1>1, RequestIs DEF RequestOK, Holds
<1>3. Kept => Moves
  BY <1>1, AnswerMoves DEF admin
<1>. QED
  BY <1>1, <1>2, <1>3, SettleLinkGood

LEMMA AcceptLinkGood == ASSUME Inv, NEW r \in Requests, AcceptLink(r) PROVE Good
<1>1. /\ pc[r] = "acceptLink" /\ SettleLink(r, "accepted")
      /\ UNCHANGED <<users, contacts, oauthAccounts, sessions, admin, pendingSignups, drawn, observers>>
  BY DEF AcceptLink
<1>2. PICK l \in Locals : l = loc[r] /\ RequestOK("acceptLink", l)
  BY <1>1, RequestIs
<1>3. l.ref \in LinkIds /\ l.kind = "other" /\ RequestOK("openSession", l)
  BY <1>2 DEF RequestOK, Holds
<1>4. Continue(r, "openSession", l) /\ "openSession" \in Positions
  BY <1>2 DEF AcceptLink, Positions
<1>5. ASSUME Kept PROVE Moves
  <2>1. RequestOK("openSession", l)'
    BY <1>1, <1>3, <1>5, RequestStays DEF admin
  <2>2. RequestsInv'
    BY <1>1, <1>4, <1>5, <2>1, OthersStay DEF admin
  <2>. QED
    BY <1>1, <1>2, <1>3, <1>4, <2>2, Moved DEF Moves
<1>. QED
  BY <1>1, <1>2, <1>3, <1>5, SettleLinkGood

---------------------------------------------------------------------------
(* An account is deleted with its rows, a restriction is lifted, a crash. *)

LEMMA ScimDeleteGood == ASSUME Inv, NEW u \in UserIds, ScimDelete(u) PROVE Good
<1>1. /\ users' = [users EXCEPT ![u] = None] /\ contacts' = Without(contacts, u) /\ links' = Without(links, u)
      /\ oauthAccounts' = Without(oauthAccounts, u) /\ sessions' = Without(sessions, u)
      /\ memberships' \subseteq memberships /\ domains' = domains /\ restrictions' = restrictions
      /\ pendingSignups' = pendingSignups /\ drawn' = drawn /\ asked' = asked /\ origin' = origin /\ claims' = claims
      /\ UNCHANGED handlers
  BY DEF ScimDelete, observers
<1>2. TypeOK
  BY DEF Inv
<1>3. /\ \A x \in UserIds : users'[x] = IF x = u THEN None ELSE users[x]
      /\ \A c \in ContactIds :
           contacts'[c] = IF contacts[c] # None /\ contacts[c].owner = u THEN None ELSE contacts[c]
      /\ \A t \in LinkIds : links'[t] = IF links[t] # None /\ links[t].owner = u THEN None ELSE links[t]
      /\ \A s \in SessionIds :
           sessions'[s] = IF sessions[s] # None /\ sessions[s].owner = u THEN None ELSE sessions[s]
  BY <1>1, <1>2 DEF TypeOK, Without
<1>4. TablesOK'
  <2>1. users' \in [UserIds -> UserRow \cup {None}]
    BY <1>1, <1>2 DEF TypeOK
  <2>2. contacts' \in [ContactIds -> Contact \cup {None}]
    BY <1>1, <1>2 DEF TypeOK, Without
  <2>3. links' \in [LinkIds -> Link \cup {None}]
    BY <1>1, <1>2 DEF TypeOK, Without
  <2>4. oauthAccounts' \in [OAuthIds -> OAuthAccount \cup {None}]
    BY <1>1, <1>2 DEF TypeOK, Without
  <2>5. sessions' \in [SessionIds -> Session \cup {None}]
    BY <1>1, <1>2 DEF TypeOK, Without
  <2>6. memberships' \subseteq Organizations \X UserIds
    BY <1>1, <1>2 DEF TypeOK
  <2>. QED
    BY <1>1, <2>1, <2>2, <2>3, <2>4, <2>5, <2>6, TablesAre DEF TablesOK
<1>5. Kept
  BY <1>1, <1>3 DEF Kept
<1>6. Moves
  BY <1>1, <1>5, NobodyMoves
<1>7. UsersInv'
  <2>. SUFFICES ASSUME NEW x \in UserIds, users'[x] # None
                PROVE  x \in drawn' /\ (users'[x].primary # None => OwnAddress(x, users[x].primary)')
    BY DEF UsersInv
  <2>1. users'[x] = users[x] /\ users[x] # None
    BY <1>3
  <2>2. PICK c : c = users[x].primary
    OBVIOUS
  <2>3. x \in drawn /\ (c # None => c \in ContactIds /\ OwnAddress(x, c))
    BY <2>1, <2>2 DEF Inv, RowsInv, UsersInv, TypeOK, UserRow
  <2>4. c # None => OwnAddress(x, c)'
    BY <1>5, <2>3, OwnAddressStays
  <2>. QED
    BY <1>1, <2>1, <2>2, <2>3, <2>4
<1>8. ContactsInv'
  <2>1. \A c \in ContactIds : contacts'[c] # None =>
          contacts'[c] = contacts[c] /\ contacts[c] # None /\ contacts[c].owner # u /\ contacts[c].owner \in UserIds
    BY <1>3, OwnerIs
  <2>. QED
    BY <1>1, <1>3, <2>1 DEF ContactsInv, Inv, RowsInv
<1>9. LinksInv'
  <2>1. \A t \in LinkIds : links'[t] # None =>
          links'[t] = links[t] /\ links[t] # None /\ links[t].owner # u /\ links[t].owner \in UserIds
    BY <1>2, <1>3 DEF TypeOK, Link
  <2>. QED
    BY <1>1, <1>3, <2>1 DEF LinksInv, Inv, RowsInv
<1>10. SessionsInv'
  <2>. SUFFICES ASSUME NEW s \in SessionIds, sessions'[s] # None
                PROVE  s \in drawn' /\ users'[sessions'[s].owner] # None
                       /\ SessionOK(sessions[s].owner, sessions[s].via)'
    BY SessionsAreNext
  <2>1. sessions'[s] = sessions[s] /\ sessions[s] # None /\ sessions[s].owner # u /\ sessions[s].owner \in UserIds
    BY <1>2, <1>3 DEF TypeOK, Session
  <2>2. users'[sessions[s].owner] # None
    BY <1>3, <2>1 DEF Inv, RowsInv, SessionsInv
  <2>. QED
    BY <1>5, <2>1, <2>2, OldSession
<1>11. SettledRows
  BY <1>3 DEF SettledRows
<1>12. DStep
  <2>. DEFINE owned == {<<contacts[c].value, contacts[c].owner>> : c \in Rows(contacts)}
              opened == {<<s, sessions[s].owner>> : s \in Rows(sessions)}
  <2>1. Rows(users)' = Rows(users) \ {u}
    <3>1. DOMAIN users = UserIds /\ DOMAIN users' = UserIds
      BY <1>1, <1>2 DEF TypeOK
    <3>. QED
      BY <1>3, <3>1 DEF Rows
  <2>2. owned' = {p \in owned : p[2] # u}
    <3>1. Rows(contacts)' = {c \in Rows(contacts) : contacts[c].owner # u}
      <4>1. DOMAIN contacts = ContactIds /\ DOMAIN contacts' = ContactIds
        BY <1>1, <1>2 DEF TypeOK, Without
      <4>. QED
        BY <1>3, <4>1 DEF Rows
    <3>2. \A c \in Rows(contacts)' : contacts'[c] = contacts[c]
      BY <1>2, <1>3, <3>1 DEF Rows, TypeOK
    <3>3. owned' = {<<contacts'[c].value, contacts'[c].owner>> : c \in {c \in Rows(contacts) : contacts[c].owner # u}}
      BY <3>1
    <3>. QED
      BY <3>1, <3>2, <3>3
  <2>3. opened' = {p \in opened : p[2] # u}
    <3>1. Rows(sessions)' = {s \in Rows(sessions) : sessions[s].owner # u}
      <4>1. DOMAIN sessions = SessionIds /\ DOMAIN sessions' = SessionIds
        BY <1>1, <1>2 DEF TypeOK, Without
      <4>. QED
        BY <1>3, <4>1 DEF Rows
    <3>2. \A s \in Rows(sessions)' : sessions'[s] = sessions[s]
      BY <1>2, <1>3, <3>1 DEF Rows, TypeOK
    <3>3. opened' = {<<s, sessions'[s].owner>> : s \in {s \in Rows(sessions) : sessions[s].owner # u}}
      BY <3>1
    <3>. QED
      BY <3>1, <3>2, <3>3
  <2>4. D!Close(u)
    BY <1>1, <2>1, <2>2, <2>3 DEF D!Close
  <2>. QED
    BY <2>4 DEF DStep, D!Next
<1>. QED
  BY <1>1, <1>4, <1>5, <1>6, <1>7, <1>8, <1>9, <1>10, <1>11, <1>12, Closing DEF observers

\* A request that was let in under a restriction now stands under fewer.
LEMMA DeleteRestrictionGood == ASSUME Inv, NEW x \in RestrictionPool, DeleteRestriction(x) PROVE Good
<1>1. /\ users' = users /\ contacts' = contacts /\ links' = links /\ oauthAccounts' = oauthAccounts
      /\ sessions' = sessions /\ memberships' = memberships /\ domains' = domains
      /\ pendingSignups' = pendingSignups /\ drawn' = drawn /\ pc' = pc
      /\ asked' = asked /\ origin' = origin /\ claims' = claims
      /\ restrictions' = restrictions \ {x}
  BY DEF DeleteRestriction, observers
<1>2. loc' = [r \in Requests |-> [loc[r] EXCEPT !.standing = @ \ {x}]]
  BY DEF DeleteRestriction
<1>3. Kept
  BY <1>1, NothingChanges
<1>4. ASSUME NEW r \in Requests
      PROVE  /\ loc'[r] \in Locals /\ loc'[r].kind = loc[r].kind /\ loc'[r].user = loc[r].user
             /\ loc'[r].value = loc[r].value /\ loc'[r].ref = loc[r].ref
             /\ loc'[r].standing = loc[r].standing \ {x}
  BY <1>2, RequestIs DEF Locals
<1>5. loc' \in [Requests -> Locals]
  BY <1>2, <1>4
<1>6. ASSUME NEW r \in Requests PROVE RequestOK(pc[r], loc[r])'
  <2>1. PICK l \in Locals, p \in Positions : l = loc[r] /\ p = pc[r] /\ RequestOK(p, l)
    BY RequestIs DEF Inv, TypeOK
  <2>2. PICK m \in Locals : m = loc'[r]
    BY <1>4
  <2>3. m.kind = l.kind /\ m.user = l.user /\ m.value = l.value /\ m.ref = l.ref /\ m.standing = l.standing \ {x}
    BY <1>4, <2>1, <2>2
  <2>4. p = "checkSignup" => m.standing \subseteq restrictions'
    BY <1>1, <2>1, <2>3 DEF RequestOK
  <2>5. ~Blocked(l.value, l.standing) => ~Blocked(m.value, m.standing)
    BY <2>3 DEF Blocked
  <2>6. p \notin {"checkSignup", "insertUser"} => RequestOK(p, m)'
    <3>1. /\ \A a, b : Proven(a)' <=> Proven(a)
          /\ \A a, b : Holds(a, b)' <=> Holds(a, b)
          /\ \A a, b : OwnAddress(a, b)' <=> OwnAddress(a, b)
          /\ \A a : SignupOK(a)' <=> SignupOK(a)
      BY <1>1 DEF Proven, Holds, OwnAddress, SignupOK
    <3>2. SignupOK(l) <=> SignupOK(m)
      BY <2>3 DEF SignupOK
    <3>. QED
      BY <1>1, <2>1, <2>3, <3>1, <3>2 DEF RequestOK
  <2>7. p = "checkSignup" => RequestOK(p, m)'
    BY <1>1, <2>1, <2>3, <2>4 DEF RequestOK, SignupOK
  <2>8. p = "insertUser" => RequestOK(p, m)'
    BY <1>1, <2>1, <2>3, <2>5 DEF RequestOK, SignupOK
  <2>. QED
    BY <1>1, <2>1, <2>2, <2>6, <2>7, <2>8
<1>7. Moves
  <2>1. \A q \in Requests, s \in SignupIds : Carries(q, s)' => Carries(q, s)
    BY <1>1, <1>4 DEF Carries
  <2>2. \A t \in LinkIds, q \in Requests : q \in Using(t)' => q \in Using(t)
    BY <1>1, <1>4 DEF Using
  <2>3. RequestsInv'
    BY <1>6 DEF RequestsInv
  <2>. QED
    BY <1>1, <1>5, <2>1, <2>2, <2>3 DEF Moves, Inv, TypeOK
<1>8. RowsInv'
  BY <1>1, <1>3, RowsStay
<1>9. TablesOK'
  BY <1>1, TablesAre DEF TablesOK
<1>10. DStep
  BY <1>1, Unseen DEF Rows
<1>. QED
  BY <1>1, <1>3, <1>7, <1>8, <1>9, <1>10, SameLinks, Closing DEF RowsInv, observers

LEMMA CrashGood == ASSUME Inv, Crash PROVE Good
<1>1. /\ users' = users /\ contacts' = contacts /\ links' = links /\ oauthAccounts' = oauthAccounts
      /\ sessions' = sessions /\ memberships' = memberships /\ domains' = domains /\ restrictions' = restrictions
      /\ drawn' = drawn /\ asked' = asked /\ origin' = origin /\ claims' = claims
      /\ pendingSignups' = [s \in SignupIds |-> None]
      /\ pc' = [r \in Requests |-> "idle"] /\ loc' = [r \in Requests |-> Idle]
  BY DEF Crash, tables, observers
<1>2. Kept
  BY <1>1, NothingChanges
<1>3. RequestsInv'
  <2>1. \A r \in Requests : pc'[r] = "idle" /\ loc'[r] = Idle
    BY <1>1
  <2>. QED
    BY <2>1 DEF RequestsInv, RequestOK
<1>4. pc' \in [Requests -> Positions] /\ loc' \in [Requests -> Locals]
  BY <1>1, IdleIs
<1>5. \A q \in Requests, s \in SignupIds : ~Carries(q, s)'
  BY <1>1 DEF Carries
<1>6. \A t \in LinkIds, q \in Requests : q \notin Using(t)'
  BY <1>1 DEF Using
<1>7. SignupInv'
  BY <1>1, <1>5, SignupsStay
<1>8. RowsInv'
  BY <1>1, <1>2, RowsStay
<1>9. TypeOK'
  BY <1>1, <1>4 DEF Inv, TypeOK
<1>10. DStep
  BY <1>1, Unseen DEF Rows
<1>11. BlockedStep /\ SettledStep
  BY <1>1, <1>6, NoAccountMade, LinksUntouched
<1>. QED
  BY <1>3, <1>7, <1>8, <1>9, <1>10, <1>11 DEF Good, Inv

LEMMA StutterGood == ASSUME Inv, UNCHANGED vars PROVE Good
<1>1. /\ users' = users /\ contacts' = contacts /\ links' = links /\ oauthAccounts' = oauthAccounts
      /\ sessions' = sessions /\ memberships' = memberships /\ domains' = domains /\ restrictions' = restrictions
      /\ pendingSignups' = pendingSignups /\ drawn' = drawn /\ pc' = pc /\ loc' = loc
      /\ asked' = asked /\ origin' = origin /\ claims' = claims
  BY DEF vars, tables, observers
<1>2. Kept
  BY <1>1, NothingChanges
<1>3. Moves
  BY <1>1, <1>2, NobodyMoves DEF handlers
<1>4. TablesOK'
  BY <1>1, TablesAre DEF TablesOK
<1>. QED
  BY <1>1, <1>3, <1>4, ElsewhereGood DEF observers

---------------------------------------------------------------------------
(* The theorems. *)

LEMMA InitGood == ASSUME Init PROVE Inv /\ D!Init
<1>1. TypeOK
  BY IdleIs DEF Init, TypeOK, Positions
<1>2. RowsInv
  BY DEF Init, RowsInv, UsersInv, ContactsInv, LinksInv, SessionsInv, OriginInv
<1>3. RequestsInv
  BY IdleOK DEF Init, RequestsInv
<1>4. SignupInv
  BY DEF Init, SignupInv, SignupOnce, Carries
<1>5. D!Init
  BY DEF Init, D!Init, Rows
<1>. QED
  BY <1>1, <1>2, <1>3, <1>4, <1>5 DEF Inv

\* Every step keeps the invariant and does what the theorems say.
LEMMA NextGood == ASSUME Inv, [Next]_vars PROVE Good
<1>1. CASE UNCHANGED vars
  BY <1>1, StutterGood
<1>2. CASE \E s \in SignupIds : (\E e \in Typed : CreateSignup(s, e)) \/ ExpireSignup(s)
  BY <1>2, CreateSignupGood, ExpireSignupGood
<1>3. CASE \E t \in LinkIds : LinkGoesLate(t)
  BY <1>3, LinkGoesLateGood
<1>4. CASE \E r \in Requests :
             \/ \E s \in SignupIds : AttemptSignup(r, s)
             \/ CheckSignup(r) \/ InsertUser(r) \/ InsertAddress(r)
             \/ FindDomain(r) \/ Enroll(r) \/ OpenSession(r)
  BY <1>4, AttemptSignupGood, CheckSignupGood, InsertUserGood, InsertAddressGood, FindDomainGood, EnrollGood,
     OpenSessionGood
<1>5. CASE \E r \in Requests :
             \/ \E e \in Typed : CreateLink(r, e)
             \/ FindLinkUser(r) \/ InsertLink(r)
             \/ \E t \in LinkIds : VerifyLink(r, t)
             \/ ExpireLink(r) \/ AcceptLink(r)
  BY <1>5, CreateLinkGood, FindLinkUserGood, InsertLinkGood, VerifyLinkGood, ExpireLinkGood, AcceptLinkGood
<1>6. CASE \E r \in Requests :
             \/ \E x \in Subjects, e \in Typed : Callback(r, x, e)
             \/ \E u \in Rows(users), x \in Subjects, e \in Typed : LinkIdentity(r, u, x, e)
             \/ LinkAccount(r)
             \/ \E e \in Typed \cup {None} : ScimCreate(r, e)
  <2>1. Rows(users) \subseteq UserIds
    BY DEF Rows, Inv, TypeOK
  <2>. QED
    BY <1>6, <2>1, CallbackGood, LinkIdentityGood, LinkAccountGood, ScimCreateGood
<1>7. CASE \E r \in Requests :
             \/ \E u \in Rows(users) : (\E e \in Typed : AddEmail(r, u, e)) \/ \E n \in Phones : AddPhoneNumber(r, u, n)
             \/ InsertContact(r)
  <2>1. Rows(users) \subseteq UserIds
    BY DEF Rows, Inv, TypeOK
  <2>2. \A e \in Typed : Lower[e] \in Values
    BY LowerAssumption DEF Values
  <2>3. \A n \in Phones : n \in Values
    BY DEF Values
  <2>. QED
    BY <1>7, <2>1, <2>2, <2>3, AddContactGood, InsertContactGood DEF AddEmail, AddPhoneNumber
<1>8. CASE \E r \in Requests :
             \/ \E u \in UserIds, c \in ContactIds :
                 DeleteEmail(r, u, c) \/ DeletePhoneNumber(r, u, c) \/ SetPrimary(r, u, c)
             \/ DeleteRow(r) \/ WritePrimary(r)
             \/ \E u \in UserIds : RestoreUser(r, u)
             \/ WriteRestored(r)
  BY <1>8, DeleteContactGood, SetPrimaryGood, DeleteRowGood, WritePrimaryGood, RestoreUserGood, WriteRestoredGood
     DEF DeleteEmail, DeletePhoneNumber
<1>9. CASE \E u \in UserIds :
             \/ ScimDelete(u) \/ SoftDelete(u)
             \/ \E status \in {"active", "inactive", "banned"} : SetStatus(u, status)
             \/ \E o \in OAuthIds : UnlinkAccount(u, o)
  BY <1>9, ScimDeleteGood, SoftDeleteGood, SetStatusGood, UnlinkAccountGood
<1>10. CASE \E x \in RestrictionPool : AddRestriction(x) \/ DeleteRestriction(x)
  BY <1>10, AddRestrictionGood, DeleteRestrictionGood
<1>11. CASE \E d \in Domains : (\E o \in Organizations : AddDomain(o, d)) \/ VerifyDomain(d) \/ DeleteDomain(d)
  BY <1>11, DomainGood
<1>12. CASE Crash
  BY <1>12, CrashGood
<1>. QED
  BY <1>1, <1>2, <1>3, <1>4, <1>5, <1>6, <1>7, <1>8, <1>9, <1>10, <1>11, <1>12 DEF Next

LEMMA Invariance == Spec => []Inv
<1>1. Init => Inv
  BY InitGood
<1>2. Inv /\ [Next]_vars => Inv'
  BY NextGood DEF Good
<1>. QED
  BY <1>1, <1>2, PTL DEF Spec

\* Every row, every request and every observer stays of its type.
THEOREM TypeCorrect == Spec => []TypeOK
<1>1. Inv => TypeOK
  BY DEF Inv
<1>. QED
  BY <1>1, Invariance, PTL

\* However many requests bring the code of a sign-up, it becomes one account:
\* its id is in the store, with one request, or with one account.
THEOREM SignupBecomesOneAccount == Spec => []SignupOnce
<1>1. Inv => SignupOnce
  BY DEF Inv, SignupInv
<1>. QED
  BY <1>1, Invariance, PTL

\* A session is of the account that its sign-up created or its link was made
\* for, and that account has held the address the code or the link went to.
THEOREM SessionsComeFromProof == Spec => []SessionsFollowProof
<1>1. ASSUME Inv PROVE SessionsFollowProof
  <2>. SUFFICES ASSUME NEW s \in Rows(sessions)
                PROVE  LET u == sessions[s].owner  p == sessions[s].via IN
                       /\ p \in SignupIds => origin[u] = p /\ <<u, asked[p]>> \in claims
                       /\ p \in LinkIds => /\ links[p] # None /\ links[p].owner = u
                                           /\ <<u, links[p].value>> \in claims
    BY DEF SessionsFollowProof
  <2>1. s \in SessionIds /\ sessions[s] # None
    BY <1>1 DEF Rows, Inv, TypeOK
  <2>2. PICK u, p : u = sessions[s].owner /\ p = sessions[s].via
    OBVIOUS
  <2>3. users[u] # None /\ SessionOK(u, p)
    BY <1>1, <2>1, <2>2, SessionsAre DEF Inv, RowsInv
  <2>4. p \in SignupIds => origin[u] = p /\ <<u, asked[p]>> \in claims
    BY <2>3 DEF SessionOK, Proven
  <2>5. p \in LinkIds => links[p] # None /\ links[p].owner = u /\ <<u, links[p].value>> \in claims
    BY <1>1, <2>3 DEF SessionOK, Holds, Inv, RowsInv, LinksInv
  <2>. QED
    BY <2>2, <2>4, <2>5
<1>. QED
  BY <1>1, Invariance, PTL

\* Between the lookup and the write of setPrimaryEmail the address may go, but
\* never to another account under the same id.
THEOREM PrimaryAddressIsOwn == Spec => []PrimaryIsOwn
<1>1. ASSUME Inv PROVE PrimaryIsOwn
  BY <1>1 DEF PrimaryIsOwn, Rows, Inv, TypeOK, RowsInv, UsersInv, OwnAddress
<1>. QED
  BY <1>1, Invariance, PTL

\* A sign-up never makes an account for a mailbox that was blocked all through
\* its request.
THEOREM BlockedGetNoAccount == Spec => BlockedStaysOut
<1>1. Inv /\ [Next]_vars =>
        [\A u \in UserIds : origin'[u] # origin[u] =>
           \E r \in Requests : /\ pc[r] = "insertUser" /\ loc[r].ref = origin'[u]
                               /\ ~Blocked(loc[r].value, loc[r].standing)]_vars
  BY NextGood DEF Good, BlockedStep
<1>. QED
  BY <1>1, Invariance, PTL DEF Spec, BlockedStaysOut

\* A link that was used or has expired is not usable again, and nobody new is
\* about to open a session with it.
THEOREM LinksStaySettled == Spec => SettledLinksStaySettled
<1>1. Inv /\ [Next]_vars =>
        [\A t \in LinkIds : links[t] # None /\ links[t].status # "pending" =>
           /\ links'[t] # None => links'[t].status # "pending"
           /\ Using(t)' \subseteq Using(t)]_vars
  BY NextGood DEF Good, SettledStep
<1>. QED
  BY <1>1, Invariance, PTL DEF Spec, SettledLinksStaySettled

\* Seen from outside, the handlers' lookups and inserts are accounts that open
\* and close, addresses with one owner, and sessions of open accounts.
THEOREM AccountsImplementDirectory == Spec => ImplementsDirectory
<1>1. Init => D!Init
  BY InitGood
<1>2. Inv /\ [Next]_vars => [D!Next]_(D!vars)
  BY NextGood DEF Good, DStep
<1>. QED
  BY <1>1, <1>2, Invariance, PTL DEF Spec, ImplementsDirectory, D!Spec
---------------------------------------------------------------------------
(* A sign-up opens one session. *)

\* However many requests bring the code of a sign-up, one session comes of it, and
\* what else opens a session meanwhile is not taken for it.
SignupOpensOneSession ==
    \A s, t \in SessionIds :
        /\ sessions[s] # None /\ sessions[t] # None
        /\ sessions[s].via = sessions[t].via /\ sessions[s].via \in SignupIds
        => s = t

\* The request has made account u for a sign-up and not opened its session yet.
Finishing(r, u) ==
    /\ pc[r] \in {"insertAddress", "findDomain", "enroll", "openSession"}
    /\ loc[r].kind = "signup" /\ loc[r].user = u

\* The account of a sign-up is one request's until its session is there.
FinishInv ==
    /\ \A r, q \in Requests, u \in UserIds : Finishing(r, u) /\ Finishing(q, u) => r = q
    /\ \A r \in Requests, u \in UserIds, s \in SessionIds :
         Finishing(r, u) /\ sessions[s] # None => sessions[s].via # origin[u]
    /\ SignupOpensOneSession

\* No request finishes a sign-up that did not before.
FinishersStay == \A q \in Requests, u \in UserIds : Finishing(q, u)' => Finishing(q, u)

\* Nothing is begun: no account is made and no session opened.
Calm ==
    /\ origin' = origin /\ FinishersStay
    /\ \A s \in SessionIds : sessions'[s] \in {None, sessions[s]}

\* What is known of the account of a request that finishes a sign-up.
LEMMA FinishingIs ==
  ASSUME Inv, NEW r \in Requests, NEW u \in UserIds, Finishing(r, u)
  PROVE  u \in drawn /\ origin[u] \in SignupIds
<1>1. RequestOK(pc[r], loc[r])
  BY RequestIs
<1>2. PICK p, l : p = pc[r] /\ l = loc[r]
  OBVIOUS
<1>3. RequestOK(p, l) /\ l.kind = "signup" /\ l.user = u
      /\ p \in {"insertAddress", "findDomain", "enroll", "openSession"}
  BY <1>1, <1>2 DEF Finishing
<1>. QED
  BY <1>3 DEF RequestOK, SignupOK, Proven

\* A handler moves on, without making an account.
LEMMA FinisherMoves ==
  ASSUME Inv, NEW r \in Requests, NEW p, NEW l, Continue(r, p, l),
         \/ p \notin {"insertAddress", "findDomain", "enroll", "openSession"}
         \/ l.kind # "signup"
         \/ l.user \in UserIds /\ Finishing(r, l.user)
  PROVE  FinishersStay
<1>1. pc' = [pc EXCEPT ![r] = p] /\ loc' = [loc EXCEPT ![r] = l]
  BY DEF Continue
<1>2. pc \in [Requests -> Positions] /\ loc \in [Requests -> Locals]
  BY DEF Inv, TypeOK
<1>3. pc'[r] = p /\ loc'[r] = l /\ \A q \in Requests \ {r} : pc'[q] = pc[q] /\ loc'[q] = loc[q]
  BY <1>1, <1>2
<1>. QED
  BY <1>3 DEF FinishersStay, Finishing

\* Or is over.
LEMMA FinisherAnswers == ASSUME Inv, NEW r \in Requests, Answer(r) PROVE FinishersStay
<1>1. Continue(r, "idle", Idle)
  BY DEF Answer
<1>. QED
  BY <1>1, FinisherMoves

\* Or has just been given its request.
LEMMA FinisherArrives ==
  ASSUME Inv, NEW r \in Requests, pc'[r] \notin {"insertAddress", "findDomain", "enroll", "openSession"},
         \A q \in Requests \ {r} : pc'[q] = pc[q] /\ loc'[q] = loc[q]
  PROVE  FinishersStay
  BY DEF FinishersStay, Finishing

LEMMA NoFinisherMoves == ASSUME UNCHANGED handlers PROVE FinishersStay
  BY DEF handlers, FinishersStay, Finishing

\* Sign-up requests between the code and the session, but for the two steps that count.
LEMMA CalmSignup ==
  ASSUME Inv, NEW r \in Requests,
         \/ \E s \in SignupIds : AttemptSignup(r, s)
         \/ CheckSignup(r) \/ InsertAddress(r) \/ FindDomain(r) \/ Enroll(r)
  PROVE  Calm
<1>1. origin' = origin /\ sessions' = sessions
  BY DEF AttemptSignup, CheckSignup, InsertAddress, FindDomain, Enroll, tables, observers
<1>2. loc[r] \in Locals /\ RequestOK(pc[r], loc[r])
  BY RequestIs
<1>3. FinishersStay
  <2>1. ASSUME NEW s \in SignupIds, AttemptSignup(r, s) PROVE FinishersStay
    <3>1. pc'[r] = "checkSignup" /\ \A q \in Requests \ {r} : pc'[q] = pc[q] /\ loc'[q] = loc[q]
      BY <2>1 DEF AttemptSignup, Arrive, Continue, Inv, TypeOK
    <3>. QED
      BY <3>1, FinisherArrives
  <2>2. CASE CheckSignup(r)
    BY <2>2, FinisherMoves, FinisherAnswers DEF CheckSignup
  <2>3. CASE InsertAddress(r)
    <3>1. PICK next :
            /\ next = IF loc[r].kind = "signup" THEN "findDomain"
                      ELSE IF loc[r].kind = "oauth" THEN "linkAccount" ELSE "idle"
            /\ Answer(r) \/ Continue(r, next, loc[r])
      BY <2>3 DEF InsertAddress, InsertRow, Then
    <3>2. loc[r].user \in UserIds
      BY <1>2, <2>3 DEF RequestOK, InsertAddress
    <3>3. loc[r].kind = "signup" => Finishing(r, loc[r].user)
      BY <2>3 DEF InsertAddress, Finishing
    <3>. QED
      BY <3>1, <3>2, <3>3, FinisherAnswers, FinisherMoves
  <2>4. CASE FindDomain(r)
    <3>1. loc[r].user \in UserIds /\ loc[r].kind = "signup"
      BY <1>2, <2>4 DEF RequestOK, FindDomain
    <3>2. Finishing(r, loc[r].user)
      BY <2>4, <3>1 DEF FindDomain, Finishing
    <3>3. PICK o, l : /\ l = [loc[r] EXCEPT !.ref = o]
                      /\ Continue(r, "enroll", l) \/ Continue(r, "openSession", loc[r])
      BY <2>4 DEF FindDomain
    <3>4. l.user = loc[r].user
      BY <1>2, <3>3 DEF Locals
    <3>. QED
      BY <3>1, <3>2, <3>3, <3>4, FinisherMoves
  <2>5. CASE Enroll(r)
    <3>1. loc[r].user \in UserIds /\ loc[r].kind = "signup"
      BY <1>2, <2>5 DEF RequestOK, Enroll
    <3>2. Finishing(r, loc[r].user)
      BY <2>5, <3>1 DEF Enroll, Finishing
    <3>. QED
      BY <2>5, <3>1, <3>2, FinisherMoves, FinisherAnswers DEF Enroll
  <2>. QED
    BY <2>1, <2>2, <2>3, <2>4, <2>5
<1>. QED
  BY <1>1, <1>3 DEF Calm

\* Links, providers, provisioning and addresses: none of their requests is a sign-up's.
LEMMA CalmRequests ==
  ASSUME Inv, NEW r \in Requests,
         \/ \E e \in Typed : CreateLink(r, e)
         \/ FindLinkUser(r) \/ InsertLink(r)
         \/ \E t \in LinkIds : VerifyLink(r, t)
         \/ ExpireLink(r) \/ AcceptLink(r)
         \/ \E x \in Subjects, e \in Typed : Callback(r, x, e)
         \/ \E u \in Rows(users), x \in Subjects, e \in Typed : LinkIdentity(r, u, x, e)
         \/ LinkAccount(r)
         \/ \E e \in Typed \cup {None} : ScimCreate(r, e)
         \/ \E u \in Rows(users) :
              (\E e \in Typed : AddEmail(r, u, e)) \/ \E n \in Phones : AddPhoneNumber(r, u, n)
         \/ InsertContact(r)
         \/ \E u \in UserIds, c \in ContactIds :
              DeleteEmail(r, u, c) \/ DeletePhoneNumber(r, u, c) \/ SetPrimary(r, u, c)
         \/ DeleteRow(r) \/ WritePrimary(r)
         \/ \E u \in UserIds : RestoreUser(r, u)
         \/ WriteRestored(r)
  PROVE  Calm
<1>1. origin' = origin /\ sessions' = sessions
  BY DEF CreateLink, FindLinkUser, InsertLink, VerifyLink, ExpireLink, AcceptLink, Callback, LinkIdentity,
         LinkAccount, ScimCreate, AddEmail, AddPhoneNumber, AddContact, InsertContact, DeleteEmail,
         DeletePhoneNumber, DeleteContact, SetPrimary, DeleteRow, WritePrimary, RestoreUser, WriteRestored,
         tables, observers
<1>2. FinishersStay
  <2>1. CASE \/ InsertLink(r) \/ ExpireLink(r) \/ LinkAccount(r) \/ InsertContact(r) \/ DeleteRow(r)
             \/ WritePrimary(r) \/ WriteRestored(r)
    BY <2>1, FinisherAnswers
    DEF InsertLink, ExpireLink, LinkAccount, InsertContact, InsertRow, Then, DeleteRow, WritePrimary,
        WriteRestored
  <2>2. CASE \/ \E e \in Typed : CreateLink(r, e)
             \/ \E x \in Subjects, e \in Typed : Callback(r, x, e)
             \/ \E u \in Rows(users), x \in Subjects, e \in Typed : LinkIdentity(r, u, x, e)
             \/ \E e \in Typed \cup {None} : ScimCreate(r, e)
             \/ \E u \in UserIds : RestoreUser(r, u)
    <3>1. /\ pc'[r] \in {"findLinkUser", "linkAccount", "insertUser", "writeRestored"}
          /\ \A q \in Requests \ {r} : pc'[q] = pc[q] /\ loc'[q] = loc[q]
      BY <2>2 DEF CreateLink, Callback, LinkIdentity, ScimCreate, RestoreUser, Arrive, Continue, Inv, TypeOK
    <3>. QED
      BY <3>1, FinisherArrives
  <2>3. CASE \E t \in LinkIds : VerifyLink(r, t)
    <3>1. /\ pc'[r] \in {"expireLink", "acceptLink"}
          /\ \A q \in Requests \ {r} : pc'[q] = pc[q] /\ loc'[q] = loc[q]
      BY <2>3 DEF VerifyLink, Arrive, Continue, Inv, TypeOK
    <3>. QED
      BY <3>1, FinisherArrives
  <2>4. CASE \/ \E u \in Rows(users) :
                  (\E e \in Typed : AddEmail(r, u, e)) \/ \E n \in Phones : AddPhoneNumber(r, u, n)
             \/ \E u \in UserIds, c \in ContactIds :
                  DeleteEmail(r, u, c) \/ DeletePhoneNumber(r, u, c) \/ SetPrimary(r, u, c)
    <3>1. /\ pc'[r] \in {"insertContact", "deleteRow", "writePrimary"}
          /\ \A q \in Requests \ {r} : pc'[q] = pc[q] /\ loc'[q] = loc[q]
      BY <2>4
      DEF AddEmail, AddPhoneNumber, AddContact, DeleteEmail, DeletePhoneNumber, DeleteContact, SetPrimary,
          Arrive, Continue, Inv, TypeOK
    <3>. QED
      BY <3>1, FinisherArrives
  <2>5. CASE FindLinkUser(r)
    BY <2>5, FinisherMoves, FinisherAnswers DEF FindLinkUser
  <2>6. CASE AcceptLink(r)
    <3>1. loc[r].kind = "other"
      BY <2>6, RequestIs DEF RequestOK, AcceptLink
    <3>. QED
      BY <2>6, <3>1, FinisherMoves DEF AcceptLink
  <2>. QED
    BY <2>1, <2>2, <2>3, <2>4, <2>5, <2>6
<1>. QED
  BY <1>1, <1>2 DEF Calm

\* What administrators, time and the death of the process do.
LEMMA CalmOthers ==
  ASSUME Inv,
         \/ UNCHANGED vars
         \/ \E s \in SignupIds : (\E e \in Typed : CreateSignup(s, e)) \/ ExpireSignup(s)
         \/ \E t \in LinkIds : LinkGoesLate(t)
         \/ \E u \in UserIds :
              \/ ScimDelete(u) \/ SoftDelete(u)
              \/ \E status \in {"active", "inactive", "banned"} : SetStatus(u, status)
              \/ \E o \in OAuthIds : UnlinkAccount(u, o)
         \/ \E x \in RestrictionPool : AddRestriction(x) \/ DeleteRestriction(x)
         \/ \E d \in Domains :
              (\E o \in Organizations : AddDomain(o, d)) \/ VerifyDomain(d) \/ DeleteDomain(d)
         \/ Crash
  PROVE  Calm
<1>1. origin' = origin
  BY DEF CreateSignup, ExpireSignup, LinkGoesLate, ScimDelete, SoftDelete, SetStatus, UnlinkAccount,
         AddRestriction, DeleteRestriction, AddDomain, VerifyDomain, DeleteDomain, Crash, observers, vars
<1>2. \A s \in SessionIds : sessions'[s] \in {None, sessions[s]}
  <2>1. ASSUME NEW u \in UserIds, ScimDelete(u) PROVE \A s \in SessionIds : sessions'[s] \in {None, sessions[s]}
    BY <2>1 DEF ScimDelete, Without, Inv, TypeOK
  <2>2. CASE sessions' = sessions
    BY <2>2
  <2>. QED
    BY <2>1, <2>2
    DEF CreateSignup, ExpireSignup, LinkGoesLate, SoftDelete, SetStatus, UnlinkAccount, AddRestriction,
        DeleteRestriction, AddDomain, VerifyDomain, DeleteDomain, Crash, tables, vars
<1>3. FinishersStay
  <2>1. CASE Crash
    BY <2>1 DEF Crash, FinishersStay, Finishing
  <2>2. ASSUME NEW x \in RestrictionPool, DeleteRestriction(x) PROVE FinishersStay
    <3>1. pc' = pc /\ loc' = [r \in Requests |-> [loc[r] EXCEPT !.standing = loc[r].standing \ {x}]]
      BY <2>2 DEF DeleteRestriction
    <3>2. \A r \in Requests : loc[r] \in Locals
      BY DEF Inv, TypeOK
    <3>3. \A r \in Requests : loc'[r].kind = loc[r].kind /\ loc'[r].user = loc[r].user
      BY <3>1, <3>2 DEF Locals
    <3>. QED
      BY <3>1, <3>3 DEF FinishersStay, Finishing
  <2>3. CASE UNCHANGED handlers
    BY <2>3, NoFinisherMoves
  <2>. QED
    BY <2>1, <2>2, <2>3
    DEF CreateSignup, ExpireSignup, LinkGoesLate, ScimDelete, SoftDelete, SetStatus, UnlinkAccount,
        AddRestriction, AddDomain, VerifyDomain, DeleteDomain, vars, handlers
<1>. QED
  BY <1>1, <1>2, <1>3 DEF Calm

\* Everything but the insert of an account and of a session is calm.
LEMMA StepIsCalm ==
  ASSUME Inv, [Next]_vars
  PROVE  Calm \/ \E r \in Requests : InsertUser(r) \/ OpenSession(r)
  BY CalmSignup, CalmRequests, CalmOthers DEF Next

\* A calm step keeps what is known of the requests and their sessions.
LEMMA CalmKeeps == ASSUME Inv, FinishInv, Calm PROVE FinishInv'
<1>1. \A s \in SessionIds : sessions'[s] # None => sessions'[s] = sessions[s] /\ sessions[s] # None
  BY DEF Calm
<1>2. SignupOpensOneSession'
  BY <1>1 DEF FinishInv, SignupOpensOneSession
<1>3. origin' = origin /\ FinishersStay
  BY DEF Calm
<1>. QED
  BY <1>1, <1>2, <1>3 DEF FinishInv, FinishersStay

\* A new account has a new id, and its sign-up had no account, so no session either.
LEMMA InsertUserKeeps == ASSUME Inv, FinishInv, NEW r \in Requests, InsertUser(r) PROVE FinishInv'
<1>1. sessions' = sessions /\ pc[r] = "insertUser"
  BY DEF InsertUser
<1>2. PICK u \in Fresh(UserIds) :
        /\ origin' = [origin EXCEPT ![u] = IF loc[r].kind = "signup" THEN loc[r].ref ELSE None]
        /\ IF loc[r].value = None THEN Answer(r)
           ELSE Continue(r, "insertAddress", [loc[r] EXCEPT !.user = u, !.standing = {}])
  BY DEF InsertUser
<1>3. u \in UserIds /\ u \notin drawn
  BY <1>2, FreshIs
<1>4. loc[r] \in Locals /\ pc \in [Requests -> Positions] /\ loc \in [Requests -> Locals]
      /\ origin \in [UserIds -> SignupIds \cup {None}]
  BY DEF Inv, TypeOK
<1>5. PICK l : l = [loc[r] EXCEPT !.user = u, !.standing = {}]
  OBVIOUS
<1>6. l.user = u /\ l.kind = loc[r].kind
  BY <1>4, <1>5 DEF Locals
<1>7. ASSUME NEW q \in Requests, NEW x \in UserIds, Finishing(q, x)'
      PROVE  \/ Finishing(q, x) /\ x # u
             \/ q = r /\ x = u /\ loc[r].kind = "signup"
  <2>1. CASE q = r
    <3>1. CASE Answer(r)
      BY <1>3, <1>7, <2>1, <3>1, FinisherAnswers, FinishingIs DEF FinishersStay
    <3>2. CASE Continue(r, "insertAddress", l)
      <4>1. loc'[r] = l
        BY <1>4, <3>2 DEF Continue
      <4>. QED
        BY <1>6, <1>7, <2>1, <4>1 DEF Finishing
    <3>. QED
      BY <1>2, <1>5, <3>1, <3>2
  <2>2. CASE q # r
    <3>1. pc'[q] = pc[q] /\ loc'[q] = loc[q]
      BY <1>2, <1>4, <2>2 DEF Answer, Continue
    <3>2. Finishing(q, x)
      BY <1>7, <3>1 DEF Finishing
    <3>. QED
      BY <1>3, <3>2, FinishingIs
  <2>. QED
    BY <2>1, <2>2
<1>8. \A x \in UserIds : x # u => origin'[x] = origin[x]
  BY <1>2, <1>4
<1>9. loc[r].kind = "signup" =>
        /\ origin'[u] = loc[r].ref /\ loc[r].ref \in SignupIds
        /\ \A x \in UserIds : origin[x] # loc[r].ref
  <2>1. loc[r].kind = "signup" => loc[r].ref \in SignupIds
    BY <1>1, RequestIs DEF RequestOK, SignupOK
  <2>. QED
    BY <1>1, <1>2, <1>3, <1>4, <2>1 DEF Inv, SignupInv, Carries
<1>10. \A s \in SessionIds : sessions[s] # None /\ sessions[s].via \in SignupIds =>
         sessions[s].owner \in UserIds /\ origin[sessions[s].owner] = sessions[s].via
  BY DEF Inv, RowsInv, SessionsInv, TypeOK, Session
<1>11. ASSUME NEW q \in Requests, NEW x \in UserIds, NEW s \in SessionIds, Finishing(q, x)', sessions[s] # None
       PROVE  sessions[s].via # origin'[x]
  <2>1. CASE Finishing(q, x) /\ x # u
    BY <1>8, <1>11, <2>1 DEF FinishInv
  <2>2. CASE x = u /\ loc[r].kind = "signup"
    BY <1>9, <1>10, <1>11, <2>2
  <2>. QED
    BY <1>7, <1>11, <2>1, <2>2
<1>12. ASSUME NEW q \in Requests, NEW p \in Requests, NEW x \in UserIds, Finishing(q, x)', Finishing(p, x)'
       PROVE  q = p
  BY <1>7, <1>12 DEF FinishInv
<1>. QED
  BY <1>1, <1>11, <1>12 DEF FinishInv, SignupOpensOneSession

\* The session of a sign-up is the first, and its request is over.
LEMMA OpenSessionKeeps == ASSUME Inv, FinishInv, NEW r \in Requests, OpenSession(r) PROVE FinishInv'
<1>1. Answer(r) /\ origin' = origin /\ pc[r] = "openSession"
  BY DEF OpenSession, observers
<1>2. FinishersStay
  BY <1>1, FinisherAnswers
<1>3. \A q \in Requests, u \in UserIds : Finishing(q, u)' => q # r
  BY <1>1 DEF Answer, Continue, Finishing, Inv, TypeOK
<1>4. CASE sessions' = sessions
  BY <1>1, <1>2, <1>4, CalmKeeps DEF Calm
<1>5. CASE sessions' # sessions
  <2>1. PICK s \in Fresh(SessionIds) :
          sessions' = [sessions EXCEPT ![s] =
            [owner |-> loc[r].user,
             via |-> IF loc[r].kind = "signup" THEN origin[loc[r].user] ELSE loc[r].ref]]
    BY <1>5 DEF OpenSession
  <2>2. PICK v : v = IF loc[r].kind = "signup" THEN origin[loc[r].user] ELSE loc[r].ref
    OBVIOUS
  <2>3. s \in SessionIds /\ s \notin drawn
    BY <2>1, FreshIs
  <2>4. sessions'[s].via = v /\ \A t \in SessionIds \ {s} : sessions'[t] = sessions[t]
    BY <2>1, <2>2, <2>3 DEF Inv, TypeOK
  <2>5. loc[r].user \in UserIds
    BY <1>1, RequestIs DEF RequestOK
  <2>6. loc[r].kind = "signup" => Finishing(r, loc[r].user) /\ v = origin[loc[r].user]
    BY <1>1, <2>2 DEF Finishing
  <2>7. loc[r].kind # "signup" => v \in LinkIds /\ v \notin SignupIds
    BY <1>1, <2>2, RequestIs, IdsAssumption DEF RequestOK, Holds
  <2>8. ASSUME NEW q \in Requests, NEW u \in UserIds, Finishing(q, u)' PROVE v # origin[u]
    <3>1. Finishing(q, u) /\ q # r
      BY <1>2, <1>3, <2>8 DEF FinishersStay
    <3>2. origin[u] \in SignupIds
      BY <3>1, FinishingIs
    <3>3. CASE loc[r].kind = "signup"
      <4>1. u # loc[r].user
        BY <2>5, <2>6, <3>1, <3>3 DEF FinishInv
      <4>2. origin[u] # None
        BY <3>2, NoneAssumption DEF Ids
      <4>. QED
        BY <2>5, <2>6, <3>3, <4>1, <4>2 DEF Inv, SignupInv, SignupOnce
    <3>. QED
      BY <2>7, <3>2, <3>3
  <2>9. ASSUME NEW t \in SessionIds, t # s, sessions[t] # None, v \in SignupIds PROVE sessions[t].via # v
    BY <2>5, <2>6, <2>7, <2>9 DEF FinishInv
  <2>10. SignupOpensOneSession'
    BY <2>3, <2>4, <2>9 DEF FinishInv, SignupOpensOneSession
  <2>11. ASSUME NEW q \in Requests, NEW u \in UserIds, NEW t \in SessionIds, Finishing(q, u)', sessions'[t] # None
         PROVE  sessions'[t].via # origin'[u]
    <3>1. CASE t = s
      BY <1>1, <2>4, <2>8, <2>11, <3>1
    <3>2. CASE t # s
      BY <1>1, <1>2, <2>4, <2>11, <3>2 DEF FinishInv, FinishersStay
    <3>. QED
      BY <3>1, <3>2
  <2>. QED
    BY <1>2, <2>10, <2>11 DEF FinishInv, FinishersStay
<1>. QED
  BY <1>4, <1>5

\* However many requests bring the code of a sign-up, one session comes of it.
THEOREM SignupBecomesOneSession == Spec => []SignupOpensOneSession
<1>1. Init => FinishInv
  <2>. SUFFICES ASSUME Init PROVE FinishInv
    OBVIOUS
  <2>1. \A s \in SessionIds : sessions[s] = None
    BY DEF Init
  <2>2. \A r \in Requests : pc[r] = "idle"
    BY DEF Init
  <2>. QED
    BY <2>1, <2>2 DEF FinishInv, SignupOpensOneSession, Finishing
<1>2. Inv /\ FinishInv /\ [Next]_vars => FinishInv'
  BY StepIsCalm, CalmKeeps, InsertUserKeeps, OpenSessionKeeps
<1>3. FinishInv => SignupOpensOneSession
  BY DEF FinishInv
<1>. QED
  BY <1>1, <1>2, <1>3, Invariance, PTL DEF Spec
=============================================================================
