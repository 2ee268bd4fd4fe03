----------------------------- MODULE MCAccounts -----------------------------
(***************************************************************************)
(* Accounts for TLC: one mailbox spelled in two ways, and what may be      *)
(* restricted.                                                             *)
(***************************************************************************)
EXTENDS Accounts, Naturals, TLC

CONSTANTS Ann, ann, domain

LowerCase == [e \in Emails |-> ann]
DomainPart == [e \in Emails |-> domain]
Blocks == {[type |-> "blocklist", of |-> ann]}

\* What administrators and providers have left behind; a run looks at a few of
\* these at a time.
Marks == Cardinality({u \in Rows(users) : users[u].deleted})
         + Cardinality({u \in Rows(users) : users[u].status # "active"})
         + Cardinality({u \in Rows(users) : users[u].primary # None})
         + Cardinality({t \in Rows(links) : links[t].late})
         + 2 * Cardinality({p \in claims : p[2] \in Phones})
         + 2 * Cardinality({r \in Requests : loc[r].value \in Phones})
         + Cardinality(restrictions) + Cardinality(memberships) + Cardinality(Rows(domains)) + Cardinality(Rows(oauthAccounts))
CONSTANT MaxThings
Bound == Marks + Cardinality(drawn) <= MaxThings

Symmetry == Permutations(Requests)
=============================================================================
