-------------------------- MODULE MCWebhookWorker --------------------------
(***************************************************************************)
(* WebhookWorker for TLC: which event has which type and project, and      *)
(* which endpoint is in the bucket of all projects.                        *)
(***************************************************************************)
EXTENDS WebhookWorker, TLC

CONSTANTS e2, ep2, t1, p1

\* Events of one type and project, all of them for every endpoint.
OneType == [e \in Events |-> t1]
OneProject == [e \in Events |-> p1]
AllTypes == {{}}

\* e2 has no project, and ep2 is in the bucket that gets all of them.
SomeProjects == [e \in Events |-> IF e = e2 THEN DEFAULT ELSE p1]
Buckets == [ep \in Endpoints |-> IF ep = ep2 THEN DEFAULT ELSE p1]
SomeTypes == {{}, {t1}}

WorkerSymmetry == Permutations(Workers)
Symmetry == WorkerSymmetry \cup Permutations(Events)
=============================================================================
