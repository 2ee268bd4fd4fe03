---------------------------- MODULE AuditWorker ----------------------------
(***************************************************************************)
(* processAuditEvents: every message of EventStream becomes a row of       *)
(* audit_logs, and is then acknowledged.                                   *)
(***************************************************************************)
EXTENDS EventStream

VARIABLE auditLogs  \* the audit_logs table: who inserted a row for which message

auditVars == <<streamVars, auditLogs>>

AuditLog == [worker : Workers, message : Nat]

AuditInit == StreamInit /\ auditLogs = {}

\* Mutant: an exception of the insert leaves the loop.
PersistOrThrow(w, p) ==
    /\ pc[w] = "next"
    /\ IsCurrent(p, w)
    /\ \/ /\ auditLogs' = auditLogs \cup {[worker |-> w, message |-> p]}
          /\ Goto(w, "work")
          /\ UNCHANGED <<producerVars, groupVars, batch>>
       \/ "database" \in Faults /\ Abort(w) /\ UNCHANGED auditLogs

\* persistAuditLog: an insert that fails is logged, and the loop goes on.
PersistAuditLog(w, p) ==
    /\ pc[w] = "next"
    /\ IsCurrent(p, w)
    /\ \/ auditLogs' = auditLogs \cup {[worker |-> w, message |-> p]}
       \/ "database" \in Faults /\ UNCHANGED auditLogs
    /\ Goto(w, "work")
    /\ UNCHANGED <<producerVars, groupVars, batch>>

HandleEvent(w) ==
    \E p \in batch[w] :
        \/ PersistAuditLog(w, p)
        \/ Acknowledge(w, p) /\ UNCHANGED auditLogs

AuditNext ==
    \/ Produce /\ UNCHANGED auditLogs
    \/ \E w \in Workers :
          \/ Idle(w) /\ UNCHANGED auditLogs
          \/ HandleEvent(w)
          \/ CrashWorker(w) /\ UNCHANGED auditLogs

AuditSpec == AuditInit /\ [][AuditNext]_auditVars
-----------------------------------------------------------------------------
\* Every variable has its type.
AuditTypeOK == StreamTypeOK /\ auditLogs \subseteq AuditLog

\* A message leaves at most one audit row, whoever crashed or was read twice.
AuditedOnce ==
    \A a, b \in auditLogs : a.message = b.message => a = b

\* A failing insert costs the row of its own message and nothing else: while no
\* reply of Redis is lost, what is open and in nobody's hands was in the batch of
\* a process that died.
OrphansAreBounded ==
    "resend" \notin Faults =>
        Cardinality(pending \ UNION {batch[w] : w \in Workers})
            <= BatchSize * Cardinality({w \in Workers : pc[w] = "dead"})
=============================================================================
