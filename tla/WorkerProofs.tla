---------------------------- MODULE WorkerProofs ----------------------------
(***************************************************************************)
(* The safety of the two workers for any number of processes, any batch    *)
(* size and any mixture of faults: of webhook delivery, with any endpoints *)
(* and events, and that it implements DeliveryLog; and of the audit rows.  *)
(***************************************************************************)
EXTENDS WebhookWorker, AuditWorker, EventStreamProofs, FiniteSetTheorems

-----------------------------------------------------------------------------
(* The webhook worker. *)

\* Worker w is inside deliverEvent with message p.
Handling(p, w) == IsCurrent(p, w) /\ pc[w] \in {"work", "record"}

\* The endpoint is gone, or the outcome of the message is on record.
Settled(p, ep) ==
    \/ endpoints[ep].state = "gone"
    \/ \E d \in deliveries : d.message = p /\ d.endpoint = ep

\* An endpoint is left to be tried, has been tried, or neither, never both, and
\* the outcome of the one just tried is recorded before the loop goes on.
LocalsInv ==
    \A w \in Workers :
        /\ loc[w].targets \cap loc[w].tried = {}
        /\ pc[w] = "work" => loc[w].tried = {}

\* A POST concerns a message that was read; while the message is in a batch, the
\* POST was made in this very iteration, to an endpoint that is not tried again.
PostsInv ==
    \A x \in posts :
        /\ x.message <= cursor
        /\ \A w \in Workers : \A q \in batch[w] :
              /\ x.worker = w => x.message <= q
              /\ x.message = q => Handling(q, w) /\ x.endpoint \notin loc[w].targets

\* The same for a row, which belongs to an endpoint whose outcome is not awaited.
DeliveriesInv ==
    /\ RecordedOnce
    /\ DeliveriesHaveEndpoint
    /\ \A d \in deliveries :
          /\ d.message <= cursor
          /\ \A w \in Workers : d.message \in batch[w] =>
                /\ Handling(d.message, w)
                /\ d.endpoint \notin loc[w].targets \cup loc[w].tried

\* What is addressed is settled when it is acknowledged; until then it is settled
\* or still to be settled by the worker that has it.
AddressedInv ==
    /\ AckedMeansRecorded
    /\ \A p \in Nat, ep \in Endpoints : <<p, ep>> \in addressed =>
          \A w \in Workers : p \in batch[w] =>
              /\ Handling(p, w)
              /\ ep \in loc[w].targets \cup loc[w].tried \/ Settled(p, ep)

Inv ==
    /\ TypeOK /\ BatchesAreExclusive
    /\ LocalsInv /\ PostsInv /\ DeliveriesInv /\ AddressedInv
-----------------------------------------------------------------------------
\* What the steps below use of the types.
LEMMA Facts ==
  ASSUME Inv
  PROVE  /\ StreamInv
         /\ cursor \in Nat /\ pending \subseteq 1 .. cursor
         /\ batch \in [Workers -> SUBSET Nat] /\ loc \in [Workers -> Locals]
         /\ DOMAIN pc = Workers
         /\ endpoints \in [Endpoints -> EndpointRow]
         /\ \A w \in Workers : batch[w] \subseteq 1 .. cursor /\ batch[w] \subseteq pending
         /\ \A w \in Workers, v \in Workers : v # w => batch[v] \cap batch[w] = {}
         /\ \A w \in Workers : loc[w].targets \subseteq Endpoints /\ loc[w].tried \subseteq Endpoints
         /\ \A x \in posts : x.worker \in Workers /\ x.message \in Nat /\ x.endpoint \in Endpoints
         /\ \A d \in deliveries : d.message \in Nat /\ d.endpoint \in Endpoints
<1>1. /\ StreamTypeOK /\ BatchesAreExclusive /\ loc \in [Workers -> Locals]
      /\ posts \subseteq Posted /\ deliveries \subseteq Delivery
      /\ endpoints \in [Endpoints -> EndpointRow]
  BY DEF Inv, TypeOK
<1>2. \A w \in Workers : loc[w].targets \subseteq Endpoints /\ loc[w].tried \subseteq Endpoints
  BY <1>1 DEF Locals
<1>3. \A x \in posts : x.worker \in Workers /\ x.message \in Nat /\ x.endpoint \in Endpoints
  BY <1>1 DEF Posted
<1>4. \A d \in deliveries : d.message \in Nat /\ d.endpoint \in Endpoints
  BY <1>1 DEF Delivery
<1>5. \A w \in Workers : batch[w] \subseteq pending /\ batch[w] \subseteq 1 .. cursor
  BY <1>1 DEF StreamTypeOK, BatchesAreExclusive
<1> QED
  BY <1>1, <1>2, <1>3, <1>4, <1>5 DEF StreamInv, StreamTypeOK, BatchesAreExclusive

\* The tables are empty and no message has been read at the start.
LEMMA Initially == Init => Inv
<1> SUFFICES ASSUME Init PROVE Inv
  OBVIOUS
<1>1. StreamInv /\ StreamInit
  BY StreamInitially DEF Init
<1>2. NoLocals \in Locals /\ loc = [w \in Workers |-> NoLocals]
  BY DEF Init, NoLocals, Locals, Answers
<1>3. endpoints \in [Endpoints -> EndpointRow]
  BY DEF Init, EndpointRow
<1>4. \A w \in Workers : loc[w].targets = {} /\ loc[w].tried = {} /\ loc[w] = NoLocals
  BY <1>2 DEF NoLocals
<1>5. deliveries = {} /\ posts = {} /\ addressed = {}
  BY DEF Init
<1> QED
  BY <1>1, <1>2, <1>3, <1>4, <1>5
  DEF Inv, TypeOK, StreamInv, LocalsInv, PostsInv, DeliveriesInv, RecordedOnce,
      DeliveriesHaveEndpoint, AddressedInv, AckedMeansRecorded

\* A step that leaves the tables alone and, of every batch it does not drop, also
\* what its worker is doing, keeps what is known about the tables.
LEMMA QuietKeeps ==
  ASSUME Inv,
         UNCHANGED <<cursor, pending, endpoints, deliveries, posts, addressed>>,
         \A v \in Workers :
            \/ batch'[v] = {}
            \/ /\ batch'[v] = batch[v] /\ pc'[v] = pc[v]
               /\ loc'[v].targets = loc[v].targets /\ loc'[v].tried = loc[v].tried
  PROVE  PostsInv' /\ DeliveriesInv' /\ AddressedInv'
<1> USE DEF Inv, Handling, IsCurrent
<1>1. PostsInv'
  BY DEF PostsInv
<1>2. DeliveriesInv'
  BY DEF DeliveriesInv, RecordedOnce, DeliveriesHaveEndpoint
<1>3. AddressedInv'
  BY DEF AddressedInv, AckedMeansRecorded, Acked, Settled
<1> QED
  BY <1>1, <1>2, <1>3

\* Nothing the API process does concerns a message that was read.
LEMMA ProduceStep == ASSUME Inv, Produce, UNCHANGED webhookVars PROVE Inv'
<1>1. StreamInv' /\ UNCHANGED <<groupVars, loopVars>>
  BY Facts, ProduceKeeps
  DEF Produce, Commit, Emit, AddToStream, FailToAdd, RedisConnection, ApiCrash
<1>2. TypeOK'
  BY <1>1 DEF Inv, TypeOK, StreamInv, webhookVars, groupVars, loopVars
<1>3. LocalsInv'
  BY <1>1 DEF Inv, LocalsInv, webhookVars, loopVars
<1>4. PostsInv' /\ DeliveriesInv' /\ AddressedInv'
  BY <1>1, QuietKeeps DEF webhookVars, groupVars, loopVars
<1> QED
  BY <1>1, <1>2, <1>3, <1>4 DEF Inv, StreamInv

\* A stuttering step.
LEMMA StutterStep == ASSUME Inv, UNCHANGED vars PROVE Inv'
<1>1. StreamInv'
  BY Facts, StreamStutter DEF vars
<1>2. TypeOK' /\ LocalsInv'
  BY <1>1 DEF Inv, TypeOK, StreamInv, LocalsInv, vars, webhookVars, streamVars, groupVars, loopVars
<1>3. PostsInv' /\ DeliveriesInv' /\ AddressedInv'
  BY QuietKeeps DEF vars, webhookVars, streamVars, groupVars, loopVars
<1> QED
  BY <1>1, <1>2, <1>3 DEF Inv, StreamInv

\* A worker starts, wakes up, reads a batch or ends one.
LEMMA IdleStep == ASSUME Inv, NEW w \in Workers, Idle(w), UNCHANGED webhookVars PROVE Inv'
<1>1. StreamInv'
  BY Facts, IdleKeeps
<1>2. CASE ReadBatch(w)
  <2>1. /\ cursor' \in cursor + 1 .. Len(stream)
        /\ pending' = pending \cup (cursor + 1 .. cursor')
        /\ \/ batch' = [batch EXCEPT ![w] = cursor + 1 .. cursor']
              /\ pc' = [pc EXCEPT ![w] = "next"]
           \/ UNCHANGED loopVars
    BY <1>2, Facts, ReadBatchKeeps
  <2>2. \A v \in Workers :
          \/ batch'[v] = batch[v] /\ pc'[v] = pc[v]
          \/ v = w /\ batch'[v] = cursor + 1 .. cursor' /\ pc'[v] = "next"
    BY <2>1, Facts DEF loopVars
  <2>3. pc[w] = "read"
    BY <1>2 DEF ReadBatch
  <2>4. cursor \in Nat /\ cursor' \in Nat /\ cursor < cursor' /\ Acked' = Acked
    BY <2>1, Facts DEF Acked
  <2>5. loc' = loc /\ endpoints' = endpoints /\ deliveries' = deliveries
        /\ posts' = posts /\ addressed' = addressed
    BY DEF webhookVars
  <2>6. addressed \subseteq (1 .. cursor) \X Endpoints
    BY DEF Inv, TypeOK
  <2>7. addressed' \subseteq (1 .. cursor') \X Endpoints
    BY <2>4, <2>5, <2>6
  <2>8. \A v \in Workers : loc'[v] # NoLocals => pc'[v] \in {"work", "record"}
    BY <2>2, <2>3, <2>5 DEF Inv, TypeOK
  <2>9. TypeOK'
    BY <1>1, <2>5, <2>7, <2>8 DEF Inv, TypeOK, StreamInv
  <2>10. LocalsInv'
    BY <2>2, <2>5 DEF Inv, LocalsInv
  <2>11. \A x \in posts : x.message <= cursor' /\ x.message \notin cursor + 1 .. cursor'
                          /\ \A q \in cursor + 1 .. cursor' : x.message <= q
    BY <2>4, Facts DEF Inv, PostsInv
  <2>12. PostsInv'
    <3> SUFFICES ASSUME NEW x \in posts, NEW v \in Workers, NEW q \in batch'[v]
                 PROVE  /\ x.worker = v => x.message <= q
                        /\ x.message = q => Handling(q, v)' /\ x.endpoint \notin loc'[v].targets
      BY <2>5, <2>11 DEF PostsInv
    <3>1. CASE batch'[v] = batch[v] /\ pc'[v] = pc[v]
      BY <2>5, <3>1 DEF Inv, PostsInv, Handling, IsCurrent
    <3>2. CASE batch'[v] = cursor + 1 .. cursor'
      BY <2>11, <3>2
    <3> QED
      BY <2>2, <3>1, <3>2
  <2>13. \A d \in deliveries : d.message <= cursor' /\ d.message \notin cursor + 1 .. cursor'
    BY <2>4, Facts DEF Inv, DeliveriesInv
  <2>14. DeliveriesInv'
    <3> SUFFICES ASSUME NEW d \in deliveries, NEW v \in Workers, d.message \in batch'[v]
                 PROVE  /\ Handling(d.message, v)'
                        /\ d.endpoint \notin loc'[v].targets \cup loc'[v].tried
      BY <2>5, <2>13 DEF Inv, DeliveriesInv, RecordedOnce, DeliveriesHaveEndpoint
    <3>1. CASE batch'[v] = batch[v] /\ pc'[v] = pc[v]
      BY <2>5, <3>1 DEF Inv, DeliveriesInv, Handling, IsCurrent
    <3>2. CASE batch'[v] = cursor + 1 .. cursor'
      BY <2>13, <3>2
    <3> QED
      BY <2>2, <3>1, <3>2
  <2>15. \A p \in Nat, ep \in Endpoints : <<p, ep>> \in addressed => p \notin cursor + 1 .. cursor'
    BY <2>4, <2>6
  <2>16. AddressedInv'
    BY <2>2, <2>4, <2>5, <2>15
    DEF Inv, AddressedInv, AckedMeansRecorded, Settled, Handling, IsCurrent
  <2> QED
    BY <1>1, <2>9, <2>10, <2>12, <2>14, <2>16 DEF Inv, StreamInv
<1>3. CASE StartWorker(w) \/ FinishBatch(w) \/ Wake(w)
  <2>1. /\ UNCHANGED <<producerVars, groupVars, batch>> /\ pc' = [pc EXCEPT ![w] = "read"]
        /\ pc[w] \notin {"work", "record"} /\ batch[w] = {}
    BY <1>3 DEF StartWorker, FinishBatch, Wake, Goto, Inv, TypeOK, StreamTypeOK
  <2>2. \A v \in Workers : pc'[v] = IF v = w THEN "read" ELSE pc[v]
    BY <2>1, Facts
  <2>3. TypeOK'
    BY <1>1, <2>1, <2>2 DEF Inv, TypeOK, StreamInv, webhookVars, groupVars
  <2>4. LocalsInv'
    BY <2>2 DEF Inv, LocalsInv, webhookVars
  <2>5. PostsInv' /\ DeliveriesInv' /\ AddressedInv'
    BY <2>1, <2>2, QuietKeeps DEF webhookVars, groupVars
  <2> QED
    BY <1>1, <2>3, <2>4, <2>5 DEF Inv, StreamInv
<1> QED
  BY <1>2, <1>3 DEF Idle

\* An exception in deliverEvent, or a crash, forgets the batch.
LEMMA DropStep ==
  ASSUME Inv, NEW w \in Workers, Abort(w) \/ CrashWorker(w), SetLocals(w, NoLocals),
         UNCHANGED <<endpoints, deliveries, posts, addressed>>
  PROVE  Inv'
<1>1. StreamInv' /\ batch' = [batch EXCEPT ![w] = {}]
  BY Facts, DropKeeps
<1>2. /\ UNCHANGED <<producerVars, groupVars>>
      /\ \A v \in Workers : v # w => pc'[v] = pc[v]
  BY Facts DEF Abort, CrashWorker, Goto
<1>3. NoLocals \in Locals /\ NoLocals.targets = {} /\ NoLocals.tried = {}
  BY DEF NoLocals, Locals, Answers
<1>4. /\ loc' \in [Workers -> Locals]
      /\ \A v \in Workers : loc'[v] = IF v = w THEN NoLocals ELSE loc[v]
  BY <1>3, Facts DEF SetLocals
<1>5. \A v \in Workers : batch'[v] = IF v = w THEN {} ELSE batch[v]
  BY <1>1, Facts
<1>6. TypeOK'
  BY <1>1, <1>2, <1>4 DEF Inv, TypeOK, StreamInv, groupVars
<1>7. LocalsInv'
  BY <1>2, <1>3, <1>4 DEF Inv, LocalsInv
<1>8. PostsInv' /\ DeliveriesInv' /\ AddressedInv'
  BY <1>2, <1>4, <1>5, QuietKeeps DEF groupVars
<1> QED
  BY <1>1, <1>6, <1>7, <1>8 DEF Inv, StreamInv

\* An endpoint that goes takes its rows with it, and no other change of an endpoint
\* unsettles what was settled.
LEMMA AdministratorStep == ASSUME Inv, Administrator PROVE Inv'
<1>1. PICK ep \in Endpoints :
        \/ \E eventTypes \in Subscriptions :
              \/ CreateWebhook(ep, eventTypes)
              \/ \E enabled \in BOOLEAN : UpdateWebhook(ep, enabled, eventTypes)
        \/ DeleteWebhook(ep)
  BY DEF Administrator
<1>2. UNCHANGED <<streamVars, loc, posts, addressed>>
  BY <1>1 DEF CreateWebhook, UpdateWebhook, DeleteWebhook
<1>3. /\ UNCHANGED <<emitting, redisUp, stream, cursor, pending, pc, batch, loc, posts, addressed>>
      /\ Acked' = Acked
  BY <1>2 DEF streamVars, producerVars, groupVars, loopVars, Acked
<1>4. StreamInv'
  BY <1>2, Facts, StreamStutter
<1>5. endpoints' \in [Endpoints -> EndpointRow]
  <2>1. \A l \in Subscriptions : l \subseteq Types
    BY AttributesAssumption
  <2>2. ASSUME NEW l \in Subscriptions, CreateWebhook(ep, l) PROVE endpoints' \in [Endpoints -> EndpointRow]
    BY <2>1, <2>2, Facts DEF CreateWebhook, EndpointRow
  <2>3. ASSUME NEW l \in Subscriptions, NEW b \in BOOLEAN, UpdateWebhook(ep, b, l)
        PROVE endpoints' \in [Endpoints -> EndpointRow]
    <3>1. endpoints' = [endpoints EXCEPT ![ep] =
                          [endpoints[ep] EXCEPT !.enabled = b, !.eventTypes = l]]
      BY <2>3, Facts DEF UpdateWebhook, EndpointRow
    <3>2. l \in SUBSET Types /\ endpoints[ep] \in EndpointRow
      BY <2>1, Facts
    <3>3. [endpoints[ep] EXCEPT !.enabled = b, !.eventTypes = l] \in EndpointRow
      BY <3>2 DEF EndpointRow
    <3> QED
      BY <3>1, <3>3, Facts
  <2>4. CASE DeleteWebhook(ep)
    BY <2>4, Facts DEF DeleteWebhook, EndpointRow
  <2> QED
    BY <1>1, <2>2, <2>3, <2>4
<1>6. /\ \A x \in Endpoints : x # ep => endpoints'[x] = endpoints[x]
      /\ \/ deliveries' = deliveries /\ endpoints'[ep].state = "live" /\ endpoints[ep].state # "gone"
         \/ /\ deliveries' = {d \in deliveries : d.endpoint # ep}
            /\ endpoints'[ep].state = "gone"
  <2>1. endpoints[ep] \in EndpointRow
    BY Facts
  <2>2. ASSUME NEW l \in Subscriptions, CreateWebhook(ep, l)
        PROVE /\ \A x \in Endpoints : x # ep => endpoints'[x] = endpoints[x]
              /\ deliveries' = deliveries /\ endpoints'[ep].state = "live"
              /\ endpoints[ep].state # "gone"
    BY <2>2, Facts DEF CreateWebhook
  <2>3. ASSUME NEW l \in Subscriptions, NEW b \in BOOLEAN, UpdateWebhook(ep, b, l)
        PROVE /\ \A x \in Endpoints : x # ep => endpoints'[x] = endpoints[x]
              /\ deliveries' = deliveries /\ endpoints'[ep].state = "live"
              /\ endpoints[ep].state # "gone"
    BY <2>1, <2>3, Facts DEF UpdateWebhook, EndpointRow
  <2>4. CASE DeleteWebhook(ep)
    BY <2>1, <2>4, Facts DEF DeleteWebhook, EndpointRow
  <2> QED
    BY <1>1, <2>2, <2>3, <2>4
<1>7. deliveries' \subseteq deliveries
  BY <1>6
<1>8. TypeOK'
  BY <1>3, <1>4, <1>5, <1>7 DEF Inv, TypeOK, StreamInv
<1>9. LocalsInv' /\ PostsInv'
  BY <1>3 DEF Inv, LocalsInv, PostsInv, Handling, IsCurrent
<1>10. DeliveriesInv'
  <2>1. DeliveriesHaveEndpoint'
    BY <1>6, Facts DEF Inv, DeliveriesInv, DeliveriesHaveEndpoint
  <2> QED
    BY <1>3, <1>7, <2>1 DEF Inv, DeliveriesInv, RecordedOnce, Handling, IsCurrent
<1>11. ASSUME NEW p, NEW x \in Endpoints, Settled(p, x) PROVE Settled(p, x)'
  BY <1>6, <1>11 DEF Settled
<1>12. AddressedInv'
  <2>1. AckedMeansRecorded'
    <3>1. \A p \in Acked, x \in Endpoints : <<p, x>> \in addressed => Settled(p, x)
      BY DEF Inv, AddressedInv, AckedMeansRecorded, Settled
    <3>2. \A p \in Acked', x \in Endpoints : <<p, x>> \in addressed' => Settled(p, x)'
      BY <1>3, <1>11, <3>1
    <3> QED
      BY <3>2 DEF AckedMeansRecorded, Settled
  <2> QED
    BY <1>3, <1>11, <2>1 DEF Inv, AddressedInv, Handling, IsCurrent
<1> QED
  BY <1>4, <1>8, <1>9, <1>10, <1>12 DEF Inv, StreamInv

\* deliverEvent takes up the next message: it was not sent, recorded or addressed
\* before.
LEMMA SelectStep ==
  ASSUME Inv, NEW w \in Workers, NEW p \in batch[w], SelectEndpoints(w, p)
  PROVE  Inv'
<1> DEFINE targets == {ep \in Endpoints : Matches(ep, stream[p])}
<1>1. /\ pc[w] = "next" /\ IsCurrent(p, w) /\ UNCHANGED <<endpoints, deliveries, posts>>
      /\ \/ /\ Goto(w, "work") /\ SetLocals(w, [NoLocals EXCEPT !.targets = targets])
            /\ addressed' = addressed \cup ({p} \X targets)
            /\ UNCHANGED <<producerVars, groupVars, batch>>
         \/ AbortDelivery(w) /\ UNCHANGED addressed
  BY DEF SelectEndpoints
<1>2. CASE AbortDelivery(w) /\ UNCHANGED addressed
  BY <1>1, <1>2, DropStep DEF AbortDelivery
<1>3. CASE /\ Goto(w, "work") /\ SetLocals(w, [NoLocals EXCEPT !.targets = targets])
           /\ addressed' = addressed \cup ({p} \X targets)
           /\ UNCHANGED <<producerVars, groupVars, batch>>
  <2> DEFINE l == [NoLocals EXCEPT !.targets = targets]
  <2>1. l \in Locals /\ l.targets = targets /\ l.tried = {} /\ targets \subseteq Endpoints
    BY DEF NoLocals, Locals, Answers
  <2> HIDE DEF l, targets
  <2>2. /\ loc' \in [Workers -> Locals]
        /\ \A v \in Workers : loc'[v] = IF v = w THEN l ELSE loc[v]
    BY <1>3, <2>1, Facts DEF SetLocals, l
  <2>3. \A v \in Workers : pc'[v] = IF v = w THEN "work" ELSE pc[v]
    BY <1>3, Facts DEF Goto
  <2>4. StreamInv' /\ cursor' = cursor /\ batch' = batch /\ Acked' = Acked
    BY <1>3, Facts, GotoKeeps DEF groupVars, Acked
  <2>5. p \in 1 .. cursor /\ p \in Nat /\ p \notin Acked /\ \A v \in Workers : p \in batch[v] => v = w
    BY Facts DEF Acked
  <2>6. TypeOK'
    BY <1>1, <1>3, <2>1, <2>2, <2>3, <2>4, <2>5 DEF Inv, TypeOK, StreamInv
  <2>7. LocalsInv'
    BY <2>1, <2>2, <2>3 DEF Inv, LocalsInv
  <2>8. /\ \A x \in posts : x.message \notin batch[w]
        /\ \A d \in deliveries : d.message \notin batch[w]
        /\ \A q \in Nat, ep \in Endpoints : <<q, ep>> \in addressed => q \notin batch[w]
    BY <1>1 DEF Inv, PostsInv, DeliveriesInv, AddressedInv, Handling
  <2>9. PostsInv'
    BY <1>1, <2>2, <2>3, <2>4, <2>8 DEF Inv, PostsInv, Handling, IsCurrent
  <2>10. DeliveriesInv'
    BY <1>1, <2>2, <2>3, <2>4, <2>8
    DEF Inv, DeliveriesInv, RecordedOnce, DeliveriesHaveEndpoint, Handling, IsCurrent
  <2>11. AckedMeansRecorded'
    BY <1>1, <1>3, <2>4, <2>5 DEF Inv, AddressedInv, AckedMeansRecorded
  <2>12. ASSUME NEW q \in Nat, NEW ep \in Endpoints, <<q, ep>> \in addressed',
                NEW v \in Workers, q \in batch'[v]
         PROVE  Handling(q, v)' /\ (ep \in loc'[v].targets \cup loc'[v].tried \/ Settled(q, ep)')
    <3>1. CASE <<q, ep>> \in addressed
      <4>1. v # w
        BY <2>4, <2>8, <2>12, <3>1
      <4> QED
        BY <1>1, <2>2, <2>3, <2>4, <2>12, <3>1, <4>1
        DEF Inv, AddressedInv, Settled, Handling, IsCurrent
    <3>2. CASE q = p /\ ep \in targets
      BY <1>1, <2>1, <2>2, <2>3, <2>4, <2>5, <2>12, <3>2 DEF Handling, IsCurrent
    <3> QED
      BY <1>3, <2>12, <3>1, <3>2
  <2> QED
    BY <2>4, <2>6, <2>7, <2>9, <2>10, <2>11, <2>12 DEF Inv, StreamInv, AddressedInv
<1> QED
  BY <1>1, <1>2, <1>3

\* A POST goes to an endpoint that is left for this message, and it is awaited
\* instead of being left.
LEMMA PostStep ==
  ASSUME Inv, NEW w \in Workers, NEW p \in batch[w], NEW ep \in Endpoints, Post(w, p, ep)
  PROVE  Inv'
<1>1. PICK answer \in Answers :
        SetLocals(w, [targets |-> loc[w].targets \ {ep}, tried |-> {ep}, answer |-> answer])
  BY DEF Post
<1> DEFINE l == [targets |-> loc[w].targets \ {ep}, tried |-> {ep}, answer |-> answer]
           x == [worker |-> w, message |-> p, endpoint |-> ep]
<1>2. /\ pc[w] = "work" /\ IsCurrent(p, w) /\ ep \in loc[w].targets
      /\ posts' = posts \cup {x} /\ Goto(w, "record")
      /\ UNCHANGED <<producerVars, groupVars, batch, endpoints, deliveries, addressed>>
  BY DEF Post
<1>3. /\ l \in Locals /\ l.targets = loc[w].targets \ {ep} /\ l.tried = {ep}
  BY Facts DEF Locals
<1>4. p \in 1 .. cursor /\ p \in Nat
  BY Facts
<1>5. x \in Posted /\ x.worker = w /\ x.message = p /\ x.endpoint = ep
  BY <1>4 DEF Posted
<1> HIDE DEF l, x
<1>6. /\ loc' \in [Workers -> Locals]
      /\ \A v \in Workers : loc'[v] = IF v = w THEN l ELSE loc[v]
  BY <1>1, <1>3, Facts DEF SetLocals, l
<1>7. \A v \in Workers : pc'[v] = IF v = w THEN "record" ELSE pc[v]
  BY <1>2, Facts DEF Goto
<1>8. /\ StreamInv' /\ cursor' = cursor /\ pending' = pending /\ batch' = batch /\ Acked' = Acked
      /\ \A v \in Workers : p \in batch[v] => v = w
  BY <1>2, Facts, GotoKeeps DEF groupVars, Acked
<1>9. TypeOK'
  BY <1>2, <1>5, <1>6, <1>7, <1>8 DEF Inv, TypeOK, StreamInv
<1>10. LocalsInv'
  BY <1>3, <1>6, <1>7 DEF Inv, LocalsInv
<1>11. loc[w].tried = {}
  BY <1>2 DEF Inv, LocalsInv
<1>12. PostsInv'
  <2> SUFFICES ASSUME NEW y \in posts'
               PROVE  /\ y.message <= cursor
                      /\ \A v \in Workers : \A q \in batch[v] :
                            /\ y.worker = v => y.message <= q
                            /\ y.message = q => Handling(q, v)' /\ y.endpoint \notin loc'[v].targets
    BY <1>8 DEF PostsInv
  <2>1. CASE y \in posts
    BY <1>3, <1>6, <1>7, <1>8, <2>1 DEF Inv, PostsInv, Handling, IsCurrent
  <2>2. CASE y = x
    BY <1>2, <1>3, <1>4, <1>5, <1>6, <1>7, <1>8, <2>2 DEF Handling, IsCurrent
  <2> QED
    BY <1>2, <2>1, <2>2
<1>13. DeliveriesInv'
  <2>1. ASSUME NEW d \in deliveries, NEW v \in Workers, d.message \in batch[v]
        PROVE  Handling(d.message, v)' /\ d.endpoint \notin loc'[v].targets \cup loc'[v].tried
    BY <1>2, <1>3, <1>6, <1>7, <1>8, <2>1 DEF Inv, DeliveriesInv, Handling, IsCurrent
  <2> QED
    BY <1>2, <1>8, <2>1 DEF Inv, DeliveriesInv, RecordedOnce, DeliveriesHaveEndpoint
<1>14. AddressedInv'
  <2>1. ASSUME NEW q \in Nat, NEW e \in Endpoints, <<q, e>> \in addressed,
               NEW v \in Workers, q \in batch[v]
        PROVE  Handling(q, v)' /\ (e \in loc'[v].targets \cup loc'[v].tried \/ Settled(q, e)')
    BY <1>2, <1>3, <1>6, <1>7, <1>8, <1>11, <2>1 DEF Inv, AddressedInv, Settled, Handling, IsCurrent
  <2> QED
    BY <1>2, <1>8, <2>1 DEF Inv, AddressedInv, AckedMeansRecorded
<1> QED
  BY <1>8, <1>9, <1>10, <1>12, <1>13, <1>14 DEF Inv, StreamInv

\* The insert settles the endpoint just tried, turns into the insert of a failure,
\* or ends the batch.
LEMMA RecordStep ==
  ASSUME Inv, NEW w \in Workers, NEW p \in batch[w], RecordDelivery(w, p)
  PROVE  Inv'
<1>1. /\ pc[w] = "record" /\ IsCurrent(p, w) /\ UNCHANGED <<endpoints, posts, addressed>>
  BY DEF RecordDelivery
<1>2. CASE AbortDelivery(w) /\ UNCHANGED deliveries
  BY <1>1, <1>2, DropStep DEF AbortDelivery
<1>3. CASE /\ SetLocals(w, [loc[w] EXCEPT !.answer = "exception"])
           /\ UNCHANGED <<streamVars, deliveries>>
  <2> DEFINE l == [loc[w] EXCEPT !.answer = "exception"]
  <2>1. loc[w] \in Locals
    BY Facts
  <2>2. l \in Locals /\ l.targets = loc[w].targets /\ l.tried = loc[w].tried
    BY <2>1 DEF Locals, Answers
  <2> HIDE DEF l
  <2>3. /\ loc' \in [Workers -> Locals]
        /\ \A v \in Workers : loc'[v] = IF v = w THEN l ELSE loc[v]
    BY <1>3, <2>2, Facts DEF SetLocals, l
  <2>4. /\ StreamInv' /\ UNCHANGED <<cursor, pending, pc, batch>>
    BY <1>3, Facts, StreamStutter DEF streamVars, groupVars, loopVars
  <2>5. TypeOK'
    BY <1>1, <1>3, <2>3, <2>4 DEF Inv, TypeOK, StreamInv
  <2>6. LocalsInv'
    BY <2>2, <2>3, <2>4 DEF Inv, LocalsInv
  <2>7. PostsInv' /\ DeliveriesInv' /\ AddressedInv'
    BY <1>1, <1>3, <2>2, <2>3, <2>4, QuietKeeps
  <2> QED
    BY <2>4, <2>5, <2>6, <2>7 DEF Inv, StreamInv
<1>4. CASE TriedIsLive(w) /\ deliveries' = deliveries \cup Outcome(w, p) /\ Recorded(w)
  <2> DEFINE l == [loc[w] EXCEPT !.tried = {}]
             status == IF loc[w].answer = "ok" THEN "success" ELSE "failed"
             row(e) == [worker |-> w, message |-> p, endpoint |-> e, status |-> status]
  <2>1. loc[w] \in Locals
    BY Facts
  <2>2. l \in Locals /\ l.targets = loc[w].targets /\ l.tried = {}
    BY <2>1 DEF Locals
  <2>3. p \in 1 .. cursor /\ p \in Nat
    BY Facts
  <2>4. \A d \in Outcome(w, p) :
          d \in Delivery /\ d.message = p /\ d.endpoint \in loc[w].tried
    BY <2>3, Facts DEF Outcome, Delivery
  <2>5. /\ \A e \in loc[w].tried : \E d \in Outcome(w, p) : d.message = p /\ d.endpoint = e
        /\ \A c, d \in Outcome(w, p) : c.endpoint = d.endpoint => c = d
    <3>1. Outcome(w, p) = {row(e) : e \in loc[w].tried}
      BY DEF Outcome
    <3>2. \A e : row(e).message = p /\ row(e).endpoint = e
      OBVIOUS
    <3> HIDE DEF row
    <3> QED
      BY <3>1, <3>2
  <2> HIDE DEF l
  <2>6. Goto(w, "work") /\ SetLocals(w, l) /\ UNCHANGED <<producerVars, groupVars, batch>>
    BY <1>4 DEF Recorded, l
  <2>7. /\ loc' \in [Workers -> Locals]
        /\ \A v \in Workers : loc'[v] = IF v = w THEN l ELSE loc[v]
    BY <2>2, <2>6, Facts DEF SetLocals
  <2>8. \A v \in Workers : pc'[v] = IF v = w THEN "work" ELSE pc[v]
    BY <2>6, Facts DEF Goto
  <2>9. /\ StreamInv' /\ cursor' = cursor /\ batch' = batch /\ Acked' = Acked
        /\ \A v \in Workers : p \in batch[v] => v = w
    BY <2>6, Facts, GotoKeeps DEF groupVars, Acked
  <2>10. \A d \in deliveries : d.message = p => d.endpoint \notin loc[w].tried
    BY DEF Inv, DeliveriesInv
  <2>11. TypeOK'
    BY <1>1, <1>4, <2>2, <2>4, <2>7, <2>8, <2>9 DEF Inv, TypeOK, StreamInv
  <2>12. LocalsInv'
    BY <2>2, <2>7, <2>8 DEF Inv, LocalsInv
  <2>13. PostsInv'
    BY <1>1, <2>2, <2>7, <2>8, <2>9 DEF Inv, PostsInv, Handling, IsCurrent
  <2>14. RecordedOnce'
    BY <1>4, <2>4, <2>5, <2>10 DEF Inv, DeliveriesInv, RecordedOnce
  <2>15. DeliveriesHaveEndpoint'
    BY <1>1, <1>4, <2>4 DEF Inv, DeliveriesInv, DeliveriesHaveEndpoint, TriedIsLive
  <2>16. ASSUME NEW d \in deliveries'
         PROVE  /\ d.message <= cursor
                /\ \A v \in Workers : d.message \in batch[v] =>
                     Handling(d.message, v)' /\ d.endpoint \notin loc'[v].targets \cup loc'[v].tried
    <3>1. CASE d \in deliveries
      BY <1>1, <2>2, <2>7, <2>8, <2>9, <3>1 DEF Inv, DeliveriesInv, Handling, IsCurrent
    <3>2. CASE d \in Outcome(w, p)
      <4>1. d.endpoint \notin l.targets \cup l.tried
        BY <2>2, <2>4, <3>2 DEF Inv, LocalsInv
      <4> QED
        BY <1>1, <2>3, <2>4, <2>7, <2>8, <2>9, <3>2, <4>1 DEF Handling, IsCurrent
    <3> QED
      BY <1>4, <3>1, <3>2
  <2>17. \A q \in Nat, e \in Endpoints : Settled(q, e) => Settled(q, e)'
    BY <1>1, <1>4 DEF Settled
  <2>18. \A e \in loc[w].tried : Settled(p, e)'
    BY <1>4, <2>5 DEF Settled
  <2>19. AckedMeansRecorded'
    <3>1. \A q \in Acked, e \in Endpoints :
            <<q, e>> \in addressed => endpoints'[e].state = "gone"
              \/ \E d \in deliveries' : d.message = q /\ d.endpoint = e
      BY <1>1, <1>4 DEF Inv, AddressedInv, AckedMeansRecorded
    <3> QED
      BY <1>1, <2>9, <3>1 DEF AckedMeansRecorded
  <2>20. ASSUME NEW q \in Nat, NEW e \in Endpoints, <<q, e>> \in addressed,
                NEW v \in Workers, q \in batch[v]
         PROVE  Handling(q, v)' /\ (e \in loc'[v].targets \cup loc'[v].tried \/ Settled(q, e)')
    <3>1. Handling(q, v) /\ (e \in loc[v].targets \cup loc[v].tried \/ Settled(q, e))
      BY <2>20 DEF Inv, AddressedInv
    <3>2. Handling(q, v)'
      BY <1>1, <2>8, <2>9, <3>1 DEF Handling, IsCurrent
    <3>3. v = w => q = p
      BY <1>1, <3>1, CurrentIsOne DEF Handling, Inv, TypeOK
    <3> QED
      BY <2>2, <2>7, <2>17, <2>18, <3>1, <3>2, <3>3
  <2>21. DeliveriesInv' /\ AddressedInv'
    BY <1>1, <2>9, <2>14, <2>15, <2>16, <2>19, <2>20 DEF DeliveriesInv, AddressedInv
  <2> QED
    BY <2>9, <2>11, <2>12, <2>13, <2>21 DEF Inv, StreamInv
<1> QED
  BY <1>2, <1>3, <1>4 DEF RecordDelivery

\* The message is acknowledged when no endpoint is left and none is awaited.
LEMMA FinishStep ==
  ASSUME Inv, NEW w \in Workers, NEW p \in batch[w], FinishEvent(w, p)
  PROVE  Inv'
<1>1. /\ StreamInv' /\ p \in pending /\ p \in Nat
      /\ batch' = [batch EXCEPT ![w] = @ \ {p}] /\ pc' = [pc EXCEPT ![w] = "next"]
      /\ pending' = pending \ {p}
  BY Facts, AcknowledgeKeeps DEF FinishEvent
<1>2. /\ pc[w] = "work" /\ IsCurrent(p, w) /\ loc[w].targets = {} /\ cursor' = cursor
      /\ SetLocals(w, NoLocals) /\ UNCHANGED <<endpoints, deliveries, posts, addressed>>
  BY DEF FinishEvent, Acknowledge
<1>3. NoLocals \in Locals /\ NoLocals.targets = {} /\ NoLocals.tried = {}
  BY DEF NoLocals, Locals, Answers
<1>4. /\ loc' \in [Workers -> Locals]
      /\ \A v \in Workers : loc'[v] = IF v = w THEN NoLocals ELSE loc[v]
  BY <1>2, <1>3, Facts DEF SetLocals
<1>5. \A v \in Workers : /\ pc'[v] = IF v = w THEN "next" ELSE pc[v]
                         /\ batch'[v] = IF v = w THEN batch[w] \ {p} ELSE batch[v]
  BY <1>1, Facts
<1>6. loc[w].tried = {}
  BY <1>2 DEF Inv, LocalsInv
<1>7. \A q : IsCurrent(q, w) => q = p
  BY <1>2, CurrentIsOne DEF Inv, TypeOK
<1>8. TypeOK'
  BY <1>1, <1>2, <1>4, <1>5 DEF Inv, TypeOK, StreamInv
<1>9. LocalsInv'
  BY <1>3, <1>4, <1>5 DEF Inv, LocalsInv
<1>10. PostsInv'
  BY <1>2, <1>4, <1>5, <1>7 DEF Inv, PostsInv, Handling, IsCurrent
<1>11. DeliveriesInv'
  BY <1>2, <1>4, <1>5, <1>7
  DEF Inv, DeliveriesInv, RecordedOnce, DeliveriesHaveEndpoint, Handling, IsCurrent
<1>12. Acked' \subseteq Acked \cup {p}
  BY <1>1, <1>2 DEF Acked
<1>13. \A e \in Endpoints : <<p, e>> \in addressed => Settled(p, e)
  BY <1>1, <1>2, <1>6 DEF Inv, AddressedInv
<1>14. AckedMeansRecorded'
  BY <1>2, <1>12, <1>13 DEF Inv, AddressedInv, AckedMeansRecorded, Settled
<1>15. ASSUME NEW q \in Nat, NEW e \in Endpoints, <<q, e>> \in addressed,
              NEW v \in Workers, q \in batch'[v]
       PROVE  Handling(q, v)' /\ (e \in loc'[v].targets \cup loc'[v].tried \/ Settled(q, e)')
  <2>1. q \in batch[v] /\ (v = w => q # p)
    BY <1>5, <1>15
  <2>2. Handling(q, v) /\ (e \in loc[v].targets \cup loc[v].tried \/ Settled(q, e)) /\ v # w
    BY <1>7, <1>15, <2>1 DEF Inv, AddressedInv, Handling
  <2> QED
    BY <1>2, <1>4, <1>5, <2>1, <2>2 DEF Settled, Handling, IsCurrent
<1> QED
  BY <1>1, <1>2, <1>8, <1>9, <1>10, <1>11, <1>14, <1>15 DEF Inv, StreamInv, AddressedInv
-----------------------------------------------------------------------------
\* Every step keeps the invariant.
LEMMA Step == Inv /\ [Next]_vars => Inv'
<1> SUFFICES ASSUME Inv, [Next]_vars PROVE Inv'
  OBVIOUS
<1>1. CASE Produce /\ UNCHANGED webhookVars
  BY <1>1, ProduceStep
<1>2. ASSUME NEW w \in Workers, Idle(w), UNCHANGED webhookVars PROVE Inv'
  BY <1>2, IdleStep
<1>3. ASSUME NEW w \in Workers, Handle(w) PROVE Inv'
  BY <1>3, SelectStep, PostStep, RecordStep, FinishStep DEF Handle
<1>4. ASSUME NEW w \in Workers, CrashWorker(w), SetLocals(w, NoLocals),
             UNCHANGED <<endpoints, deliveries, posts, addressed>>
      PROVE  Inv'
  BY <1>4, DropStep
<1>5. CASE Administrator
  BY <1>5, AdministratorStep
<1>6. CASE UNCHANGED vars
  BY <1>6, StutterStep
<1> QED
  BY <1>1, <1>2, <1>3, <1>4, <1>5, <1>6 DEF Next

\* Every reachable state satisfies the invariant.
THEOREM Invariance == Spec => []Inv
  BY Initially, Step, PTL DEF Spec

\* Every variable has its type, in every reachable state.
THEOREM Typing == Spec => []TypeOK
<1>1. Inv => TypeOK
  BY DEF Inv
<1> QED
  BY <1>1, Invariance, PTL

\* A message is in the batch of one worker at most, and pending while it is.
THEOREM ExclusiveBatches == Spec => []BatchesAreExclusive
<1>1. Inv => BatchesAreExclusive
  BY DEF Inv
<1> QED
  BY <1>1, Invariance, PTL

\* No acknowledged attempt goes without its row, short of the endpoint's deletion.
THEOREM AcknowledgedIsRecorded == Spec => []AckedMeansRecorded
<1>1. Inv => AckedMeansRecorded
  BY DEF Inv, AddressedInv
<1> QED
  BY <1>1, Invariance, PTL

\* A message leaves one row at most for an endpoint.
THEOREM RecordedAtMostOnce == Spec => []RecordedOnce
<1>1. Inv => RecordedOnce
  BY DEF Inv, DeliveriesInv
<1> QED
  BY <1>1, Invariance, PTL

\* No delivery outlives its endpoint.
THEOREM NoOrphanDelivery == Spec => []DeliveriesHaveEndpoint
<1>1. Inv => DeliveriesHaveEndpoint
  BY DEF Inv, DeliveriesInv
<1> QED
  BY <1>1, Invariance, PTL

\* A POST concerns the oldest message of the batch, and earlier ones of the same
\* worker concern older messages, or this one at another endpoint.
LEMMA PostIsFresh ==
  ASSUME Inv, NEW w \in Workers, NEW p \in batch[w], NEW ep \in Endpoints, Post(w, p, ep)
  PROVE  /\ p \in pending
         /\ \A x \in posts : x.message = p => x.endpoint # ep
         /\ \A x \in posts : x.worker = w /\ x.endpoint = ep => x.message < p
<1>1. ep \in loc[w].targets
  BY DEF Post
<1>2. \A x \in posts : x.message = p => x.endpoint # ep
  BY <1>1 DEF Inv, PostsInv
<1>3. \A x \in posts : x.worker = w => x.message <= p
  BY DEF Inv, PostsInv
<1> QED
  BY <1>2, <1>3, Facts

\* One process sends an endpoint its events in the order of the stream.
THEOREM OrderedPosts == Spec => PostsInStreamOrder
<1>1. Inv /\ [Next]_vars =>
        [\A w \in Workers : \A p \in batch[w], ep \in Endpoints :
            Post(w, p, ep) =>
              \A x \in posts : x.worker = w /\ x.endpoint = ep => x.message < p]_vars
  BY PostIsFresh
<1> QED
  BY <1>1, Invariance, PTL DEF Spec, PostsInStreamOrder
-----------------------------------------------------------------------------
\* Every step of the workers is a step of DeliveryLog or invisible to it.
LEMMA StepImplements == Inv /\ [Next]_vars => [Log!Next]_(Log!vars)
<1> SUFFICES ASSUME Inv, [Next]_vars PROVE [Log!Next]_(Log!vars)
  OBVIOUS
<1> DEFINE sent == {<<x.message, x.endpoint>> : x \in posts}
<1>1. ASSUME UNCHANGED <<stream, cursor, pending, posts>> PROVE UNCHANGED Log!vars
  BY <1>1 DEF Log!vars
<1>2. CASE Produce /\ UNCHANGED webhookVars
  <2>1. ASSUME NEW e \in Events, AddToStream(e) PROVE Log!Publish(e)
    BY <1>2, <2>1 DEF AddToStream, Log!Publish, webhookVars, groupVars
  <2>2. CASE UNCHANGED <<stream, cursor, pending>>
    BY <1>1, <1>2, <2>2 DEF webhookVars
  <2>3. \/ \E e \in Events : AddToStream(e)
        \/ UNCHANGED <<stream, cursor, pending>>
    BY <1>2 DEF Produce, Commit, Emit, FailToAdd, RedisConnection, ApiCrash, groupVars
  <2> QED
    BY <2>1, <2>2, <2>3 DEF Log!Next
<1>3. ASSUME NEW w \in Workers, Idle(w), UNCHANGED webhookVars PROVE [Log!Next]_(Log!vars)
  <2>1. CASE ReadBatch(w)
    <3>1. cursor' \in cursor + 1 .. Len(stream) /\ pending' = pending \cup (cursor + 1 .. cursor')
      BY <2>1, Facts, ReadBatchKeeps
    <3>2. stream' = stream /\ posts' = posts
      BY <1>3, <2>1 DEF ReadBatch, producerVars, webhookVars
    <3>3. Log!Read(cursor')
      BY <3>1, <3>2 DEF Log!Read
    <3>4. cursor' \in 1 .. Len(stream)
      BY <3>1, Facts
    <3> QED
      BY <3>3, <3>4 DEF Log!Next
  <2>2. CASE StartWorker(w) \/ FinishBatch(w) \/ Wake(w)
    BY <1>1, <1>3, <2>2 DEF StartWorker, FinishBatch, Wake, producerVars, groupVars, webhookVars
  <2> QED
    BY <1>3, <2>1, <2>2 DEF Idle
<1>4. ASSUME NEW w \in Workers, NEW p \in batch[w], SelectEndpoints(w, p) \/ RecordDelivery(w, p)
      PROVE  UNCHANGED <<stream, cursor, pending, posts>>
  BY <1>4 DEF SelectEndpoints, RecordDelivery, AbortDelivery, Abort, Recorded, streamVars,
              producerVars, groupVars
<1>5. ASSUME NEW w \in Workers, NEW p \in batch[w], NEW ep \in Endpoints, Post(w, p, ep)
      PROVE  Log!Next
  <2>1. p \in pending /\ <<p, ep>> \notin sent
    BY <1>5, PostIsFresh
  <2>2. PICK x : x.message = p /\ x.endpoint = ep /\ posts' = posts \cup {x}
    BY <1>5 DEF Post
  <2>3. sent' = sent \cup {<<p, ep>>}
    BY <2>2
  <2>4. Log!Send(p, ep)
    BY <1>5, <2>1, <2>3 DEF Post, Log!Send, producerVars, groupVars
  <2> QED
    BY <2>1, <2>4 DEF Log!Next
<1>6. ASSUME NEW w \in Workers, NEW p \in batch[w], FinishEvent(w, p) PROVE Log!Next
  <2>1. p \in pending /\ pending' = pending \ {p}
    BY <1>6, Facts DEF FinishEvent, Acknowledge
  <2>2. Log!Close(p)
    BY <1>6, <2>1 DEF FinishEvent, Acknowledge, Log!Close, producerVars
  <2> QED
    BY <2>1, <2>2 DEF Log!Next
<1>7. ASSUME NEW w \in Workers, CrashWorker(w), UNCHANGED <<endpoints, deliveries, posts, addressed>>
      PROVE  UNCHANGED Log!vars
  BY <1>1, <1>7 DEF CrashWorker, producerVars, groupVars
<1>8. CASE Administrator
  BY <1>1, <1>8
  DEF Administrator, CreateWebhook, UpdateWebhook, DeleteWebhook, streamVars, producerVars, groupVars
<1>9. CASE UNCHANGED vars
  BY <1>1, <1>9 DEF vars, webhookVars, streamVars, producerVars, groupVars
<1> QED
  BY <1>1, <1>2, <1>3, <1>4, <1>5, <1>6, <1>7, <1>8, <1>9 DEF Next, Handle

\* The workers implement DeliveryLog: a message is read once, sent at most once to
\* an endpoint, only while it is open, and closed for good.
THEOREM Refinement == Spec => ImplementsDeliveryLog
<1>1. Init => Log!Init
  BY DEF Init, StreamInit, Log!Init
<1> QED
  BY <1>1, StepImplements, Invariance, PTL DEF Spec, ImplementsDeliveryLog, Log!Spec
-----------------------------------------------------------------------------
(* What follows of DeliveryLog for the workers, and two promises it does not *)
(* make.                                                                     *)

\* A step makes no POST or one, of the message the loop of its worker is at.
LEMMA StepPosts ==
  ASSUME Inv, [Next]_vars
  PROVE  \/ UNCHANGED posts
         \/ \E w \in Workers : \E p \in batch[w], ep \in Endpoints :
              /\ Post(w, p, ep)
              /\ posts' = posts \cup {[worker |-> w, message |-> p, endpoint |-> ep]}
<1>1. CASE Produce /\ UNCHANGED webhookVars
  BY <1>1 DEF webhookVars
<1>2. ASSUME NEW w \in Workers, \/ Idle(w) /\ UNCHANGED webhookVars
                                \/ CrashWorker(w) /\ UNCHANGED <<endpoints, deliveries, posts, addressed>>
      PROVE  UNCHANGED posts
  BY <1>2 DEF webhookVars
<1>3. ASSUME NEW w \in Workers, NEW p \in batch[w],
             SelectEndpoints(w, p) \/ RecordDelivery(w, p) \/ FinishEvent(w, p)
      PROVE  UNCHANGED posts
  BY <1>3 DEF SelectEndpoints, RecordDelivery, FinishEvent
<1>4. ASSUME NEW w \in Workers, NEW p \in batch[w], NEW ep \in Endpoints, Post(w, p, ep)
      PROVE  posts' = posts \cup {[worker |-> w, message |-> p, endpoint |-> ep]}
  BY <1>4 DEF Post
<1>5. CASE Administrator
  BY <1>5 DEF Administrator, CreateWebhook, UpdateWebhook, DeleteWebhook
<1>6. CASE UNCHANGED vars
  BY <1>6 DEF vars, webhookVars
<1> QED
  BY <1>1, <1>2, <1>3, <1>4, <1>5, <1>6 DEF Next, Handle

\* What was published stays where it is, and what was closed stays closed.
LEMMA StepAppends ==
  ASSUME Inv, [Next]_vars
  PROVE  /\ \A p \in 1 .. cursor : stream'[p] = stream[p]
         /\ cursor <= cursor'
         /\ Acked \subseteq Acked'
<1>1. [Log!Next]_(Log!vars)
  BY StepImplements
<1>2. /\ stream \in Seq(Events) /\ cursor \in Nat /\ cursor <= Len(stream)
      /\ pending \subseteq 1 .. cursor
  BY Facts DEF StreamInv, StreamTypeOK
<1>3. ASSUME NEW e \in Events, Log!Publish(e)
      PROVE  /\ \A p \in 1 .. cursor : stream'[p] = stream[p]
             /\ cursor' = cursor /\ pending' = pending
  <2>1. stream' = Append(stream, e) /\ cursor' = cursor /\ pending' = pending
    BY <1>3 DEF Log!Publish
  <2>2. \A p \in 1 .. Len(stream) : Append(stream, e)[p] = stream[p]
    BY <1>2
  <2> QED
    BY <1>2, <2>1, <2>2
<1>4. ASSUME NEW n, Log!Read(n)
      PROVE  /\ stream' = stream /\ cursor' \in cursor + 1 .. Len(stream)
             /\ pending' = pending \cup (cursor + 1 .. cursor')
  BY <1>4 DEF Log!Read
<1>5. ASSUME NEW p \in pending, Log!Close(p) \/ \E ep \in Endpoints : Log!Send(p, ep)
      PROVE  stream' = stream /\ cursor' = cursor /\ pending' \subseteq pending
  BY <1>5 DEF Log!Close, Log!Send
<1>6. CASE UNCHANGED Log!vars
  BY <1>2, <1>6 DEF Log!vars, Acked
<1> QED
  BY <1>1, <1>2, <1>3, <1>4, <1>5, <1>6 DEF Log!Next, Acked

\* An acknowledged message stays acknowledged, and nothing is sent for it again.
ClosedForGood ==
    [][/\ Acked \subseteq Acked'
       /\ \A x \in posts' \ posts : x.message \notin Acked]_vars

\* Whoever crashes, reads again or fails: what is acknowledged is over.
THEOREM AcknowledgedIsOver == Spec => ClosedForGood
<1>1. ASSUME Inv, [Next]_vars
      PROVE  Acked \subseteq Acked' /\ \A x \in posts' \ posts : x.message \notin Acked
  <2>1. ASSUME NEW w \in Workers, NEW p \in batch[w], NEW ep \in Endpoints, Post(w, p, ep)
        PROVE  p \notin Acked
    BY <1>1, <2>1, PostIsFresh DEF Acked
  <2>2. \A x \in posts' \ posts : x.message \notin Acked
    BY <1>1, <2>1, StepPosts
  <2> QED
    BY <1>1, <2>2, StepAppends
<1>2. Inv /\ [Next]_vars =>
        [Acked \subseteq Acked' /\ \A x \in posts' \ posts : x.message \notin Acked]_vars
  BY <1>1
<1> QED
  BY <1>2, Invariance, PTL DEF Spec, ClosedForGood

\* An endpoint is sent events of its own project only, whatever was changed or
\* deleted between the selection and the request.
PostsStayInProject ==
    \A x \in posts :
        EndpointProject[x.endpoint] \in {EventProject[stream[x.message]], DEFAULT}

\* What was selected is of the endpoint's project; what is left to try and what was
\* tried was selected.
ProjectInv ==
    /\ \A p \in Nat, ep \in Endpoints : <<p, ep>> \in addressed =>
          EndpointProject[ep] \in {EventProject[stream[p]], DEFAULT}
    /\ \A x \in posts : <<x.message, x.endpoint>> \in addressed
    /\ \A w \in Workers : \A p \in batch[w] : IsCurrent(p, w) =>
          \A ep \in loc[w].targets : <<p, ep>> \in addressed

\* Nothing is selected but by SelectEndpoints, for the message the loop is at.
LEMMA StepSelects ==
  ASSUME Inv, [Next]_vars
  PROVE  \/ UNCHANGED addressed
         \/ \E w \in Workers : \E p \in batch[w] :
              /\ addressed' = addressed \cup ({p} \X {ep \in Endpoints : Matches(ep, stream[p])})
              /\ stream' = stream
<1>1. CASE Produce /\ UNCHANGED webhookVars
  BY <1>1 DEF webhookVars
<1>2. ASSUME NEW w \in Workers, \/ Idle(w) /\ UNCHANGED webhookVars
                                \/ CrashWorker(w) /\ UNCHANGED <<endpoints, deliveries, posts, addressed>>
      PROVE  UNCHANGED addressed
  BY <1>2 DEF webhookVars
<1>3. ASSUME NEW w \in Workers, NEW p \in batch[w],
             \/ RecordDelivery(w, p) \/ FinishEvent(w, p)
             \/ \E ep \in Endpoints : Post(w, p, ep)
      PROVE  UNCHANGED addressed
  BY <1>3 DEF Post, RecordDelivery, FinishEvent
<1>4. ASSUME NEW w \in Workers, NEW p \in batch[w], SelectEndpoints(w, p)
      PROVE  \/ UNCHANGED addressed
             \/ /\ addressed' = addressed \cup ({p} \X {ep \in Endpoints : Matches(ep, stream[p])})
                /\ stream' = stream
  BY <1>4 DEF SelectEndpoints, producerVars
<1>5. CASE Administrator
  BY <1>5 DEF Administrator, CreateWebhook, UpdateWebhook, DeleteWebhook
<1>6. CASE UNCHANGED vars
  BY <1>6 DEF vars, webhookVars
<1> QED
  BY <1>1, <1>2, <1>3, <1>4, <1>5, <1>6 DEF Next, Handle

\* What a worker has left to try for its current message shrinks, or is what it has
\* just selected.
LEMMA StepTargets ==
  ASSUME Inv, [Next]_vars, NEW v \in Workers, NEW q \in batch'[v], IsCurrent(q, v)'
  PROVE  \/ loc'[v].targets = {}
         \/ /\ q \in batch[v] /\ IsCurrent(q, v)
            /\ loc'[v].targets \subseteq loc[v].targets
         \/ {q} \X loc'[v].targets \subseteq addressed'
<1> DEFINE Goal == \/ loc'[v].targets = {}
                   \/ /\ q \in batch[v] /\ IsCurrent(q, v)
                      /\ loc'[v].targets \subseteq loc[v].targets
                   \/ {q} \X loc'[v].targets \subseteq addressed'
<1>1. ASSUME batch'[v] = batch[v], loc'[v].targets \subseteq loc[v].targets PROVE Goal
  BY <1>1 DEF IsCurrent
<1>2. NoLocals.targets = {}
  BY DEF NoLocals
<1>3. CASE Produce /\ UNCHANGED webhookVars
  <2>1. UNCHANGED <<batch, loc>>
    BY <1>3 DEF Produce, Commit, Emit, AddToStream, FailToAdd, RedisConnection, ApiCrash,
                loopVars, webhookVars
  <2> QED
    BY <1>1, <2>1
<1>4. ASSUME NEW w \in Workers, Idle(w), UNCHANGED webhookVars PROVE Goal
  <2>1. loc' = loc
    BY <1>4 DEF webhookVars
  <2>2. CASE ReadBatch(w)
    <3>1. batch'[v] = batch[v] \/ v = w
      BY <2>2, Facts, ReadBatchKeeps DEF loopVars
    <3>2. pc[w] = "read"
      BY <2>2 DEF ReadBatch
    <3>3. loc[w] = NoLocals
      BY <3>2 DEF Inv, TypeOK
    <3> QED
      BY <1>1, <1>2, <2>1, <3>1, <3>3
  <2>3. CASE StartWorker(w) \/ FinishBatch(w) \/ Wake(w)
    BY <1>1, <2>1, <2>3 DEF StartWorker, FinishBatch, Wake
  <2> QED
    BY <1>4, <2>2, <2>3 DEF Idle
<1>5. ASSUME NEW w \in Workers, SetLocals(w, NoLocals), batch' = [batch EXCEPT ![w] = batch'[w]]
      PROVE  Goal
  <2>1. CASE v = w
    BY <1>2, <1>5, <2>1, Facts DEF SetLocals
  <2>2. CASE v # w
    BY <1>1, <1>5, <2>2, Facts DEF SetLocals
  <2> QED
    BY <2>1, <2>2
<1>6. ASSUME NEW w \in Workers, Abort(w) \/ CrashWorker(w) \/ \E p \in batch[w] : Acknowledge(w, p)
      PROVE  batch' = [batch EXCEPT ![w] = batch'[w]]
  <2>1. PICK B : batch' = [batch EXCEPT ![w] = B]
    BY <1>6, Facts, DropKeeps, AcknowledgeKeeps
  <2> QED
    BY <2>1, Facts
<1>7. ASSUME NEW w \in Workers, NEW p \in batch[w], SelectEndpoints(w, p) PROVE Goal
  <2>1. CASE AbortDelivery(w)
    BY <1>5, <1>6, <2>1 DEF AbortDelivery
  <2>2. CASE ~AbortDelivery(w)
    <3> DEFINE targets == {ep \in Endpoints : Matches(ep, stream[p])}
    <3>1. PICK l : l = [NoLocals EXCEPT !.targets = targets]
      OBVIOUS
    <3>2. l.targets = targets
      BY <3>1 DEF NoLocals
    <3>3. /\ loc' = [loc EXCEPT ![w] = l] /\ batch' = batch
          /\ addressed' = addressed \cup ({p} \X targets) /\ IsCurrent(p, w)
      BY <1>7, <2>2, <3>1 DEF SelectEndpoints, SetLocals
    <3>4. CASE v = w
      <4>1. IsCurrent(q, w)
        BY <3>3, <3>4 DEF IsCurrent
      <4>2. q = p
        BY <3>3, <4>1, Facts, CurrentIsOne DEF StreamInv
      <4>3. loc'[v].targets = targets
        BY <3>2, <3>3, <3>4, Facts
      <4> QED
        BY <3>3, <4>2, <4>3
    <3>5. CASE v # w
      BY <1>1, <3>3, <3>5, Facts
    <3> QED
      BY <3>4, <3>5
  <2> QED
    BY <2>1, <2>2
<1>8. ASSUME NEW w \in Workers, NEW p \in batch[w], NEW ep \in Endpoints, Post(w, p, ep) PROVE Goal
  <2>1. PICK answer \in Answers :
          loc' = [loc EXCEPT ![w] = [targets |-> loc[w].targets \ {ep}, tried |-> {ep},
                                     answer |-> answer]]
    BY <1>8 DEF Post, SetLocals
  <2>2. loc'[w].targets = loc[w].targets \ {ep} /\ (v # w => loc'[v] = loc[v])
    BY <2>1, Facts
  <2> QED
    BY <1>1, <1>8, <2>2 DEF Post
<1>9. ASSUME NEW w \in Workers, NEW p \in batch[w], RecordDelivery(w, p) PROVE Goal
  <2>1. CASE AbortDelivery(w)
    BY <1>5, <1>6, <2>1 DEF AbortDelivery
  <2>2. CASE ~AbortDelivery(w)
    <3>1. PICK l : /\ loc' = [loc EXCEPT ![w] = l]
                   /\ \/ l = [loc[w] EXCEPT !.tried = {}]
                      \/ l = [loc[w] EXCEPT !.answer = "exception"]
                   /\ batch' = batch
      BY <1>9, <2>2 DEF RecordDelivery, Recorded, SetLocals, streamVars, loopVars
    <3>2. loc[w] \in Locals
      BY Facts
    <3>3. l.targets = loc[w].targets
      BY <3>1, <3>2 DEF Locals
    <3>4. loc'[v].targets = loc[v].targets
      BY <3>1, <3>3, Facts
    <3> QED
      BY <1>1, <3>1, <3>4
  <2> QED
    BY <2>1, <2>2
<1>10. ASSUME NEW w \in Workers, NEW p \in batch[w], FinishEvent(w, p) PROVE Goal
  BY <1>5, <1>6, <1>10 DEF FinishEvent
<1>11. ASSUME NEW w \in Workers, CrashWorker(w), SetLocals(w, NoLocals) PROVE Goal
  BY <1>5, <1>6, <1>11
<1>12. CASE Administrator
  <2>1. UNCHANGED <<batch, loc>>
    BY <1>12 DEF Administrator, CreateWebhook, UpdateWebhook, DeleteWebhook, streamVars, loopVars
  <2> QED
    BY <1>1, <2>1
<1>13. CASE UNCHANGED vars
  BY <1>1, <1>13 DEF vars, streamVars, loopVars, webhookVars
<1> QED
  BY <1>3, <1>4, <1>7, <1>8, <1>9, <1>10, <1>11, <1>12, <1>13 DEF Next, Handle

\* Nothing is selected, left to try or tried at the start.
LEMMA ProjectInitially == Init => ProjectInv
<1> SUFFICES ASSUME Init PROVE ProjectInv
  OBVIOUS
<1>1. addressed = {} /\ posts = {} /\ \A w \in Workers : batch[w] = {}
  BY DEF Init, StreamInit
<1> QED
  BY <1>1 DEF ProjectInv

\* What matches is of the endpoint's project, and no message changes.
LEMMA ProjectStep == Inv /\ ProjectInv /\ [Next]_vars => ProjectInv'
<1> SUFFICES ASSUME Inv, ProjectInv, [Next]_vars PROVE ProjectInv'
  OBVIOUS
<1>1. /\ \A p \in 1 .. cursor : stream'[p] = stream[p]
      /\ addressed \subseteq (1 .. cursor) \X Endpoints
  BY StepAppends DEF Inv, TypeOK
<1>2. addressed \subseteq addressed'
  BY StepSelects
<1>3. ASSUME NEW p \in Nat, NEW ep \in Endpoints, <<p, ep>> \in addressed'
      PROVE  EndpointProject[ep] \in {EventProject[stream'[p]], DEFAULT}
  <2>1. CASE <<p, ep>> \in addressed
    <3>1. p \in 1 .. cursor
      BY <1>1, <2>1
    <3> QED
      BY <1>1, <2>1, <3>1 DEF ProjectInv
  <2>2. CASE <<p, ep>> \notin addressed
    <3>1. stream' = stream /\ Matches(ep, stream[p])
      BY <1>3, <2>2, StepSelects
    <3> QED
      BY <3>1 DEF Matches
  <2> QED
    BY <2>1, <2>2
<1>4. ASSUME NEW x \in posts' PROVE <<x.message, x.endpoint>> \in addressed'
  <2>1. CASE x \in posts
    BY <1>2, <2>1 DEF ProjectInv
  <2>2. CASE x \notin posts
    <3>1. PICK w \in Workers : \E p \in batch[w], ep \in Endpoints :
             Post(w, p, ep) /\ x = [worker |-> w, message |-> p, endpoint |-> ep]
      BY <1>4, <2>2, StepPosts
    <3>2. PICK p \in batch[w], ep \in Endpoints :
             Post(w, p, ep) /\ x = [worker |-> w, message |-> p, endpoint |-> ep]
      BY <3>1
    <3>3. <<p, ep>> \in addressed
      BY <3>2 DEF Post, ProjectInv
    <3>4. x.message = p /\ x.endpoint = ep
      BY <3>2
    <3> QED
      BY <1>2, <3>3, <3>4
  <2> QED
    BY <2>1, <2>2
<1>5. ASSUME NEW v \in Workers, NEW q \in batch'[v], IsCurrent(q, v)', NEW ep \in loc'[v].targets
      PROVE  <<q, ep>> \in addressed'
  BY <1>2, <1>5, StepTargets DEF ProjectInv
<1> QED
  BY <1>3, <1>4, <1>5 DEF ProjectInv

\* No project's event reaches an endpoint of another one.
THEOREM ProjectsAreKeptApart == Spec => []PostsStayInProject
<1>1. Inv /\ ProjectInv => PostsStayInProject
  BY Facts DEF ProjectInv, PostsStayInProject
<1>2. Spec => []ProjectInv
  BY ProjectInitially, ProjectStep, Invariance, PTL DEF Spec
<1> QED
  BY <1>1, <1>2, Invariance, PTL

\* A worker with messages has one to handle, and one that is at work has a message:
\* no worker waits inside an iteration for something that never comes.
NoWorkerIsStuck ==
    /\ HasCurrent
    /\ \A w \in Workers : pc[w] \in {"work", "record"} => batch[w] # {}

\* Every step of the worker is one of its loop.
LEMMA StepLoops == Inv /\ [Next]_vars => [LoopNext]_streamVars
<1> SUFFICES ASSUME Inv, [Next]_vars PROVE [LoopNext]_streamVars
  OBVIOUS
<1>1. ASSUME NEW w \in Workers, NEW p \in batch[w], SelectEndpoints(w, p)
      PROVE  Iterate(w) \/ Abort(w)
  BY <1>1 DEF SelectEndpoints, AbortDelivery, Iterate
<1>2. ASSUME NEW w \in Workers, NEW p \in batch[w], NEW ep \in Endpoints, Post(w, p, ep)
      PROVE  Iterate(w)
  BY <1>2 DEF Post, Iterate
<1>3. ASSUME NEW w \in Workers, NEW p \in batch[w], RecordDelivery(w, p)
      PROVE  Iterate(w) \/ Abort(w) \/ UNCHANGED streamVars
  BY <1>3 DEF RecordDelivery, Recorded, AbortDelivery, Iterate
<1>4. ASSUME NEW w \in Workers, NEW p \in batch[w], FinishEvent(w, p) PROVE Acknowledge(w, p)
  BY <1>4 DEF FinishEvent
<1>5. CASE Administrator
  BY <1>5 DEF Administrator, CreateWebhook, UpdateWebhook, DeleteWebhook
<1> QED
  BY <1>1, <1>2, <1>3, <1>4, <1>5 DEF Next, Handle, LoopNext, vars

\* The loop of a webhook worker can always go on.
THEOREM WorkersGoOn == Spec => []NoWorkerIsStuck
<1>1. Init => LoopInv
  BY LoopInitially DEF Init
<1>2. Inv /\ LoopInv /\ [Next]_vars => LoopInv'
  BY Facts, StepLoops, LoopKeeps
<1>3. Inv /\ LoopInv => NoWorkerIsStuck
  BY LoopHasCurrent DEF LoopInv, NoWorkerIsStuck
<1> QED
  BY <1>1, <1>2, <1>3, Invariance, PTL DEF Spec
-----------------------------------------------------------------------------
(* The audit worker. *)

\* There is one row for a message, of a message that was read; while the message
\* is still in a batch, the row was inserted in this very iteration.
AuditRowsInv ==
    /\ AuditedOnce
    /\ \A a \in auditLogs :
          /\ a.message <= cursor
          /\ \A w \in Workers :
                a.message \in batch[w] => pc[w] = "work" /\ IsCurrent(a.message, w)

AuditInv == StreamInv /\ auditLogs \subseteq AuditLog /\ AuditRowsInv

\* The tables are empty at the start.
LEMMA AuditInitially == AuditInit => AuditInv
  BY StreamInitially DEF AuditInit, AuditInv, AuditRowsInv, AuditedOnce

\* Every step keeps the invariant.
LEMMA AuditStep == AuditInv /\ [AuditNext]_auditVars => AuditInv'
<1> SUFFICES ASSUME AuditInv, [AuditNext]_auditVars PROVE AuditInv'
  OBVIOUS
<1>1. StreamInv /\ StreamTypeOK /\ BatchesAreExclusive /\ auditLogs \subseteq AuditLog /\ AuditRowsInv
  BY DEF AuditInv, StreamInv
<1>2. cursor \in Nat /\ pending \subseteq 1 .. cursor
      /\ batch \in [Workers -> SUBSET Nat] /\ DOMAIN pc = Workers
  BY <1>1 DEF StreamTypeOK
<1>3. \A a \in auditLogs : a.message \in Nat
  BY <1>1 DEF AuditLog
<1>4. CASE UNCHANGED auditVars
  BY <1>1, <1>4, StreamStutter
  DEF auditVars, streamVars, loopVars, groupVars, AuditInv, AuditRowsInv, AuditedOnce, IsCurrent
<1>5. CASE Produce /\ UNCHANGED auditLogs
  <2>1. UNCHANGED <<groupVars, loopVars>>
    BY <1>5 DEF Produce, Commit, Emit, AddToStream, FailToAdd, RedisConnection, ApiCrash
  <2> QED
    BY <1>1, <1>5, <2>1, ProduceKeeps
    DEF groupVars, loopVars, AuditInv, AuditRowsInv, AuditedOnce, IsCurrent
<1>6. ASSUME NEW w \in Workers, Idle(w), UNCHANGED auditLogs PROVE AuditInv'
  <2>1. StreamInv'
    BY <1>1, <1>6, IdleKeeps
  <2>2. CASE ReadBatch(w)
    <3>1. /\ cursor' \in cursor + 1 .. Len(stream)
          /\ \/ batch' = [batch EXCEPT ![w] = cursor + 1 .. cursor']
                /\ pc' = [pc EXCEPT ![w] = "next"]
             \/ UNCHANGED loopVars
      BY <1>1, <2>2, ReadBatchKeeps
    <3>2. \A a \in auditLogs : a.message <= cursor' /\ a.message \notin cursor + 1 .. cursor'
      BY <1>1, <1>2, <1>3, <3>1 DEF AuditRowsInv, StreamTypeOK
    <3>3. CASE UNCHANGED loopVars
      BY <1>1, <1>6, <2>1, <3>2, <3>3 DEF loopVars, AuditInv, AuditRowsInv, AuditedOnce, IsCurrent
    <3>4. CASE /\ batch' = [batch EXCEPT ![w] = cursor + 1 .. cursor']
               /\ pc' = [pc EXCEPT ![w] = "next"]
      <4>1. \A v \in Workers :
              /\ batch'[v] = IF v = w THEN cursor + 1 .. cursor' ELSE batch[v]
              /\ v # w => pc'[v] = pc[v]
        BY <1>2, <3>4
      <4>2. AuditRowsInv'
        BY <1>1, <1>6, <3>2, <4>1 DEF AuditRowsInv, AuditedOnce, IsCurrent
      <4> QED
        BY <1>1, <1>6, <2>1, <4>2 DEF AuditInv
    <3> QED
      BY <3>1, <3>3, <3>4
  <2>3. CASE StartWorker(w) \/ FinishBatch(w) \/ Wake(w)
    <3>1. /\ UNCHANGED <<batch, cursor>> /\ pc' = [pc EXCEPT ![w] = "read"]
          /\ pc[w] # "work"
      BY <2>3 DEF StartWorker, FinishBatch, Wake, Goto, groupVars
    <3>2. \A v \in Workers : v # w => pc'[v] = pc[v]
      BY <1>2, <3>1
    <3>3. AuditRowsInv'
      BY <1>1, <1>6, <3>1, <3>2 DEF AuditRowsInv, AuditedOnce, IsCurrent
    <3> QED
      BY <1>1, <1>6, <2>1, <3>3 DEF AuditInv
  <2> QED
    BY <1>6, <2>2, <2>3 DEF Idle
<1>7. ASSUME NEW w \in Workers, NEW p \in batch[w], PersistAuditLog(w, p) PROVE AuditInv'
  <2>1. /\ pc[w] = "next" /\ IsCurrent(p, w) /\ pc' = [pc EXCEPT ![w] = "work"]
        /\ UNCHANGED <<producerVars, groupVars, batch>>
    BY <1>7 DEF PersistAuditLog, Goto
  <2>2. StreamInv'
    BY <1>1, <2>1, GotoKeeps DEF Goto
  <2>3. p \in Nat /\ p <= cursor
    BY <1>1, <1>2 DEF BatchesAreExclusive
  <2>4. \A a \in auditLogs : a.message # p
    BY <1>1, <2>1 DEF AuditRowsInv
  <2>5. \A v \in Workers : pc'[v] = IF v = w THEN "work" ELSE pc[v]
    BY <1>2, <2>1
  <2>6. \A v \in Workers \ {w} : p \notin batch[v]
    BY <1>1 DEF BatchesAreExclusive
  <2>7. cursor' = cursor /\ batch' = batch
    BY <2>1 DEF groupVars
  <2>8. CASE UNCHANGED auditLogs
    BY <1>1, <2>1, <2>2, <2>5, <2>7, <2>8 DEF AuditInv, AuditRowsInv, AuditedOnce, IsCurrent
  <2>9. CASE auditLogs' = auditLogs \cup {[worker |-> w, message |-> p]}
    <3> DEFINE row == [worker |-> w, message |-> p]
    <3>1. row \in AuditLog /\ row.message = p
      BY <2>3 DEF AuditLog
    <3> HIDE DEF row
    <3>2. auditLogs' \subseteq AuditLog
      BY <1>1, <2>9, <3>1 DEF row
    <3>3. AuditedOnce'
      BY <1>1, <2>4, <2>9, <3>1 DEF AuditRowsInv, AuditedOnce, row
    <3>4. ASSUME NEW a \in auditLogs'
          PROVE /\ a.message <= cursor'
                /\ \A v \in Workers :
                     a.message \in batch'[v] => pc'[v] = "work" /\ IsCurrent(a.message, v)'
      <4>1. CASE a \in auditLogs
        BY <1>1, <2>1, <2>5, <2>7, <4>1 DEF AuditRowsInv, IsCurrent
      <4>2. CASE a = row
        BY <2>1, <2>3, <2>5, <2>6, <2>7, <3>1, <4>2 DEF IsCurrent
      <4> QED
        BY <2>9, <4>1, <4>2 DEF row
    <3> QED
      BY <2>2, <3>2, <3>3, <3>4 DEF AuditInv, AuditRowsInv
  <2> QED
    BY <1>7, <2>8, <2>9 DEF PersistAuditLog
<1>8. ASSUME NEW w \in Workers, NEW p \in batch[w], Acknowledge(w, p), UNCHANGED auditLogs
      PROVE AuditInv'
  <2>1. /\ StreamInv'
        /\ batch' = [batch EXCEPT ![w] = @ \ {p}] /\ pc' = [pc EXCEPT ![w] = "next"]
    BY <1>1, <1>8, AcknowledgeKeeps
  <2>2. \A v \in Workers :
          /\ batch'[v] = IF v = w THEN batch[w] \ {p} ELSE batch[v]
          /\ v # w => pc'[v] = pc[v]
    BY <1>2, <2>1
  <2>3. IsCurrent(p, w) /\ cursor' = cursor
    BY <1>8 DEF Acknowledge
  <2>4. \A a \in auditLogs : a.message \in batch[w] => a.message = p
    BY <1>1, <2>3, CurrentIsOne DEF AuditRowsInv
  <2>5. AuditRowsInv'
    BY <1>1, <1>8, <2>2, <2>3, <2>4 DEF AuditRowsInv, AuditedOnce, IsCurrent
  <2> QED
    BY <1>1, <1>8, <2>1, <2>5 DEF AuditInv
<1>9. ASSUME NEW w \in Workers, CrashWorker(w), UNCHANGED auditLogs PROVE AuditInv'
  <2>1. StreamInv' /\ batch' = [batch EXCEPT ![w] = {}]
    BY <1>1, <1>9, DropKeeps
  <2>2. cursor' = cursor /\ pc' = [pc EXCEPT ![w] = "dead"]
    BY <1>9 DEF CrashWorker, Goto, groupVars
  <2>3. \A v \in Workers \ {w} : pc'[v] = pc[v]
    BY <1>2, <2>2
  <2>4. \A v \in Workers : batch'[v] = IF v = w THEN {} ELSE batch[v]
    BY <1>2, <2>1
  <2>5. AuditRowsInv'
    BY <1>1, <1>9, <2>2, <2>3, <2>4 DEF AuditRowsInv, AuditedOnce, IsCurrent
  <2> QED
    BY <1>1, <1>9, <2>1, <2>5 DEF AuditInv
<1> QED
  BY <1>4, <1>5, <1>6, <1>7, <1>8, <1>9 DEF AuditNext, HandleEvent

\* Every reachable state satisfies the invariant.
THEOREM AuditInvariance == AuditSpec => []AuditInv
<1>1. AuditInit => AuditInv
  BY AuditInitially
<1>2. AuditInv /\ [AuditNext]_auditVars => AuditInv'
  BY AuditStep
<1> QED
  BY <1>1, <1>2, PTL DEF AuditSpec

\* However the workers interleave, crash, read again or fail to insert, no message
\* leaves two audit rows.
THEOREM AuditedAtMostOnce == AuditSpec => []AuditedOnce
<1>1. AuditInv => AuditedOnce
  BY DEF AuditInv, AuditRowsInv
<1> QED
  BY <1>1, AuditInvariance, PTL

\* Every variable of the audit worker has its type, in every reachable state.
THEOREM AuditTyping == AuditSpec => []AuditTypeOK
<1>1. AuditInv => AuditTypeOK
  BY DEF AuditInv, StreamInv, AuditTypeOK
<1> QED
  BY <1>1, AuditInvariance, PTL
-----------------------------------------------------------------------------
(* What stays open for ever: the messages that are pending and in no batch. *)

Held == UNION {batch[w] : w \in Workers}
Orphans == pending \ Held
Dead == {w \in Workers : pc[w] = "dead"}

\* A batch has BatchSize messages at most, only finitely many processes have
\* died, and each left one batch.
OrphansInv ==
    /\ \A w \in Workers : Cardinality(batch[w]) <= BatchSize
    /\ IsFiniteSet(Dead)
    /\ "resend" \notin Faults => Cardinality(Orphans) <= BatchSize * Cardinality(Dead)

\* Whatever lies in 1 .. cursor can be counted.
LEMMA Countable ==
  ASSUME StreamInv
  PROVE  /\ \A S \in SUBSET pending : IsFiniteSet(S) /\ Cardinality(S) \in Nat
         /\ \A w \in Workers : batch[w] \in SUBSET pending
<1>1. cursor \in Nat /\ pending \subseteq 1 .. cursor
      /\ \A w \in Workers : batch[w] \subseteq pending
  BY DEF StreamInv, StreamTypeOK, BatchesAreExclusive
<1>2. IsFiniteSet(1 .. cursor)
  BY <1>1, FS_Interval
<1>3. \A S \in SUBSET pending : IsFiniteSet(S)
  BY <1>1, <1>2, FS_Subset
<1> QED
  BY <1>1, <1>3, FS_CardinalityType

\* A step after which no process is dead that was not, no batch is larger and
\* nothing else is orphaned.
LEMMA QuietStep ==
  ASSUME OrphansInv, StreamInv, StreamInv', Dead' = Dead, Orphans' \subseteq Orphans,
         \A w \in Workers : batch'[w] \subseteq batch[w]
  PROVE  OrphansInv'
<1>1. ASSUME NEW w \in Workers PROVE Cardinality(batch'[w]) <= BatchSize
  <2>1. IsFiniteSet(batch[w]) /\ Cardinality(batch[w]) \in Nat
    BY Countable
  <2>2. Cardinality(batch'[w]) <= Cardinality(batch[w]) /\ IsFiniteSet(batch'[w])
    BY <2>1, FS_Subset
  <2> QED
    BY <2>1, <2>2, FS_CardinalityType, BatchSizeAssumption DEF OrphansInv
<1>2. Orphans \in SUBSET pending
  BY DEF Orphans
<1>3. IsFiniteSet(Orphans) /\ Cardinality(Orphans) \in Nat
  BY <1>2, Countable
<1>4. Cardinality(Orphans') <= Cardinality(Orphans) /\ Cardinality(Orphans') \in Nat
  BY <1>3, FS_Subset, FS_CardinalityType
<1>5. Cardinality(Dead) \in Nat
  BY FS_CardinalityType DEF OrphansInv
<1>6. BatchSize * Cardinality(Dead) \in Nat
  BY <1>5, BatchSizeAssumption
<1> QED
  BY <1>1, <1>3, <1>4, <1>5, <1>6 DEF OrphansInv

\* A batch that is read is new, so that nothing becomes an orphan unless the reply
\* was lost.
LEMMA ReadKeepsOrphans ==
  ASSUME OrphansInv, StreamInv, NEW w \in Workers, ReadBatch(w)
  PROVE  OrphansInv'
<1> DEFINE given == cursor + 1 .. cursor'
<1>1. /\ StreamInv' /\ cursor' \in cursor + 1 .. Len(stream) /\ pending' = pending \cup given
      /\ \/ batch' = [batch EXCEPT ![w] = given] /\ pc' = [pc EXCEPT ![w] = "next"]
         \/ UNCHANGED loopVars
  BY ReadBatchKeeps
<1>2. /\ batch \in [Workers -> SUBSET Nat] /\ DOMAIN pc = Workers
      /\ cursor \in Nat /\ Len(stream) \in Nat /\ pc[w] = "read" /\ batch[w] = {}
      /\ "resend" \in Faults \/ (batch' = [batch EXCEPT ![w] = given])
      /\ cursor' <= cursor + BatchSize
  BY BatchSizeAssumption DEF StreamInv, StreamTypeOK, ReadBatch
<1>3. \A v \in Workers : pc'[v] = "dead" <=> pc[v] = "dead"
  BY <1>1, <1>2 DEF loopVars
<1>4. Dead' = Dead
  BY <1>3 DEF Dead
<1>5. cursor' \in Nat /\ cursor + 1 <= cursor'
  BY <1>1, <1>2
<1>6. Cardinality(given) <= BatchSize
  <2>1. Cardinality(given) = cursor' - (cursor + 1) + 1
    BY <1>2, <1>5, FS_Interval
  <2> QED
    BY <1>2, <1>5, <2>1, BatchSizeAssumption
<1> HIDE DEF given
<1>7. \A v \in Workers : Cardinality(batch'[v]) <= BatchSize
  BY <1>1, <1>2, <1>6 DEF OrphansInv, loopVars
<1>8. ASSUME "resend" \notin Faults PROVE Orphans' = Orphans
  <2>1. \A v \in Workers : batch'[v] = IF v = w THEN given ELSE batch[v]
    BY <1>2, <1>8
  <2>2. given \cap pending = {}
    BY <1>2, <1>5 DEF StreamInv, StreamTypeOK, given
  <2>3. Held' = Held \cup given
    BY <1>2, <2>1 DEF Held
  <2>4. \A x : x \in Orphans' <=> x \in Orphans
    <3>1. Held \subseteq pending
      BY DEF Held, StreamInv, BatchesAreExclusive
    <3> QED
      BY <1>1, <2>2, <2>3, <3>1 DEF Orphans
  <2> QED
    BY <2>4
<1> QED
  BY <1>4, <1>7, <1>8 DEF OrphansInv

\* A process that dies leaves its batch.
LEMMA CrashKeepsOrphans ==
  ASSUME OrphansInv, StreamInv, NEW w \in Workers, CrashWorker(w)
  PROVE  OrphansInv'
<1>1. /\ StreamInv' /\ batch' = [batch EXCEPT ![w] = {}] /\ pc' = [pc EXCEPT ![w] = "dead"]
      /\ pending' = pending /\ pc[w] # "dead"
  BY DropKeeps DEF CrashWorker, Goto, groupVars, Running
<1>2. batch \in [Workers -> SUBSET Nat] /\ DOMAIN pc = Workers
  BY DEF StreamInv, StreamTypeOK
<1>3. Dead' = Dead \cup {w} /\ w \notin Dead
  BY <1>1, <1>2 DEF Dead
<1>4. /\ IsFiniteSet(Dead') /\ Cardinality(Dead') = Cardinality(Dead) + 1
      /\ Cardinality(Dead) \in Nat
  BY <1>3, FS_AddElement, FS_CardinalityType DEF OrphansInv
<1>5. \A v \in Workers : batch'[v] = IF v = w THEN {} ELSE batch[v]
  BY <1>1, <1>2
<1>6. \A v \in Workers : Cardinality(batch'[v]) <= BatchSize
  BY <1>5, FS_EmptySet, BatchSizeAssumption DEF OrphansInv
<1>7. Orphans' \subseteq Orphans \cup batch[w]
  BY <1>1, <1>5 DEF Orphans, Held
<1>8. ASSUME "resend" \notin Faults PROVE Cardinality(Orphans') <= BatchSize * Cardinality(Dead')
  <2>1. Orphans \in SUBSET pending /\ batch[w] \in SUBSET pending
    BY Countable DEF Orphans
  <2>2. /\ IsFiniteSet(Orphans) /\ Cardinality(Orphans) \in Nat
        /\ IsFiniteSet(batch[w]) /\ Cardinality(batch[w]) \in Nat
    BY <2>1, Countable
  <2>3. Orphans \cap batch[w] = {}
    BY DEF Orphans, Held
  <2>4. IsFiniteSet(Orphans \cup batch[w])
        /\ Cardinality(Orphans \cup batch[w]) = Cardinality(Orphans) + Cardinality(batch[w])
    BY <2>2, <2>3, FS_Union, FS_EmptySet
  <2>5. Cardinality(Orphans') <= Cardinality(Orphans \cup batch[w])
        /\ Cardinality(Orphans') \in Nat
    BY <1>7, <2>4, FS_Subset, FS_CardinalityType
  <2>6. /\ Cardinality(batch[w]) <= BatchSize
        /\ Cardinality(Orphans) <= BatchSize * Cardinality(Dead)
    BY <1>8 DEF OrphansInv
  <2>7. BatchSize * (Cardinality(Dead) + 1) = BatchSize * Cardinality(Dead) + BatchSize
        /\ BatchSize * Cardinality(Dead) \in Nat
    BY <1>4, BatchSizeAssumption
  <2> QED
    BY <1>4, <2>2, <2>4, <2>5, <2>6, <2>7, BatchSizeAssumption
<1> QED
  BY <1>4, <1>6, <1>8 DEF OrphansInv

\* What is acknowledged was in a batch, so that an orphan stays one.
LEMMA AcknowledgeKeepsOrphans ==
  ASSUME OrphansInv, StreamInv, NEW w \in Workers, NEW p \in batch[w], Acknowledge(w, p)
  PROVE  OrphansInv'
<1>1. /\ StreamInv' /\ batch' = [batch EXCEPT ![w] = @ \ {p}] /\ pc' = [pc EXCEPT ![w] = "next"]
      /\ pending' = pending \ {p} /\ pc[w] = "work"
  BY AcknowledgeKeeps DEF Acknowledge
<1>2. batch \in [Workers -> SUBSET Nat] /\ DOMAIN pc = Workers
  BY DEF StreamInv, StreamTypeOK
<1>3. \A v \in Workers : /\ batch'[v] = IF v = w THEN batch[w] \ {p} ELSE batch[v]
                         /\ pc'[v] = "dead" <=> pc[v] = "dead"
  BY <1>1, <1>2
<1>4. Dead' = Dead
  BY <1>3 DEF Dead
<1>5. Orphans' \subseteq Orphans
  BY <1>1, <1>3 DEF Orphans, Held
<1>6. \A v \in Workers : batch'[v] \subseteq batch[v]
  BY <1>3
<1> QED
  BY <1>1, <1>4, <1>5, <1>6, QuietStep

\* Nothing is pending and nobody is dead at the start.
LEMMA OrphansInitially == AuditInit => OrphansInv
<1> SUFFICES ASSUME AuditInit PROVE OrphansInv
  OBVIOUS
<1>1. /\ pending = {} /\ \A w \in Workers : batch[w] = {} /\ pc[w] = "unborn"
  BY DEF AuditInit, StreamInit
<1>2. Dead = {} /\ Orphans = {}
  BY <1>1 DEF Dead, Orphans
<1> QED
  BY <1>1, <1>2, FS_EmptySet, BatchSizeAssumption DEF OrphansInv

\* Every step keeps the bound.
LEMMA OrphansStep == AuditInv /\ AuditInv' /\ OrphansInv /\ [AuditNext]_auditVars => OrphansInv'
<1> SUFFICES ASSUME AuditInv, AuditInv', OrphansInv, [AuditNext]_auditVars PROVE OrphansInv'
  OBVIOUS
<1>1. StreamInv /\ StreamInv' /\ DOMAIN pc = Workers
  BY DEF AuditInv, StreamInv, StreamTypeOK
<1>2. ASSUME UNCHANGED <<pending, batch>>, \A v \in Workers : pc'[v] = "dead" <=> pc[v] = "dead"
      PROVE  OrphansInv'
  <2>1. Dead' = Dead /\ Orphans' = Orphans
    BY <1>2 DEF Dead, Orphans, Held
  <2> QED
    BY <1>1, <1>2, <2>1, QuietStep
<1>3. CASE UNCHANGED auditVars
  BY <1>2, <1>3 DEF auditVars, streamVars, groupVars, loopVars
<1>4. CASE Produce
  BY <1>2, <1>4
  DEF Produce, Commit, Emit, AddToStream, FailToAdd, RedisConnection, ApiCrash, groupVars, loopVars
<1>5. ASSUME NEW w \in Workers, Idle(w) PROVE OrphansInv'
  <2>1. CASE ReadBatch(w)
    BY <1>1, <2>1, ReadKeepsOrphans
  <2>2. CASE StartWorker(w) \/ FinishBatch(w) \/ Wake(w)
    <3>1. UNCHANGED <<pending, batch>> /\ pc' = [pc EXCEPT ![w] = "read"] /\ pc[w] # "dead"
      BY <2>2 DEF StartWorker, FinishBatch, Wake, Goto, groupVars
    <3> QED
      BY <1>1, <1>2, <3>1
  <2> QED
    BY <1>5, <2>1, <2>2 DEF Idle
<1>6. ASSUME NEW w \in Workers, NEW p \in batch[w], PersistAuditLog(w, p) PROVE OrphansInv'
  <2>1. UNCHANGED <<pending, batch>> /\ pc' = [pc EXCEPT ![w] = "work"] /\ pc[w] = "next"
    BY <1>6 DEF PersistAuditLog, Goto, groupVars
  <2> QED
    BY <1>1, <1>2, <2>1
<1>7. ASSUME NEW w \in Workers, NEW p \in batch[w], Acknowledge(w, p) PROVE OrphansInv'
  BY <1>1, <1>7, AcknowledgeKeepsOrphans
<1>8. ASSUME NEW w \in Workers, CrashWorker(w) PROVE OrphansInv'
  BY <1>1, <1>8, CrashKeepsOrphans
<1> QED
  BY <1>3, <1>4, <1>5, <1>6, <1>7, <1>8 DEF AuditNext, HandleEvent

\* What stays open for ever is at most one batch per process that died.
THEOREM FewOrphans == AuditSpec => []OrphansAreBounded
<1>1. AuditInit => OrphansInv
  BY OrphansInitially
<1>2. AuditInv /\ AuditInv' /\ OrphansInv /\ [AuditNext]_auditVars => OrphansInv'
  BY OrphansStep
<1>3. OrphansInv => OrphansAreBounded
  BY DEF OrphansInv, OrphansAreBounded, Orphans, Held, Dead
<1> QED
  BY <1>1, <1>2, <1>3, AuditInvariance, PTL DEF AuditSpec
-----------------------------------------------------------------------------
\* Where no statement fails, a message that was acknowledged has its audit row.
AuditedBeforeAcked ==
    "database" \notin Faults => \A p \in Acked : \E a \in auditLogs : a.message = p

\* The row is there from the insert on, before the message is acknowledged.
WorkHasRow ==
    "database" \notin Faults =>
        \A w \in Workers : \A p \in batch[w] :
            pc[w] = "work" /\ IsCurrent(p, w) => \E a \in auditLogs : a.message = p

\* The insert comes before the acknowledgement, a row is never removed, and a
\* message that is read is pending.
LEMMA CompletenessStep ==
  AuditInv /\ AuditedBeforeAcked /\ WorkHasRow /\ [AuditNext]_auditVars
    => (AuditedBeforeAcked /\ WorkHasRow)'
<1> SUFFICES ASSUME AuditInv, AuditedBeforeAcked, WorkHasRow, [AuditNext]_auditVars,
                    "database" \notin Faults
             PROVE  (AuditedBeforeAcked /\ WorkHasRow)'
  BY DEF AuditedBeforeAcked, WorkHasRow
<1>1. /\ StreamInv /\ DOMAIN pc = Workers /\ batch \in [Workers -> SUBSET Nat]
      /\ cursor \in Nat /\ pending \subseteq 1 .. cursor
  BY DEF AuditInv, StreamInv, StreamTypeOK
<1>2. ASSUME auditLogs \subseteq auditLogs', Acked' \subseteq Acked,
             \A v \in Workers :
                pc'[v] = "work" => pc[v] = "work" /\ batch'[v] = batch[v]
      PROVE  (AuditedBeforeAcked /\ WorkHasRow)'
  <2>1. AuditedBeforeAcked'
    BY <1>2 DEF AuditedBeforeAcked
  <2>2. \A v \in Workers : \A p : IsCurrent(p, v)' /\ pc'[v] = "work" => IsCurrent(p, v)
    BY <1>2 DEF IsCurrent
  <2>3. WorkHasRow'
    BY <1>2, <2>2 DEF WorkHasRow
  <2> QED
    BY <2>1, <2>3
<1>3. CASE UNCHANGED auditVars
  BY <1>2, <1>3 DEF auditVars, streamVars, groupVars, loopVars, Acked
<1>4. CASE Produce /\ UNCHANGED auditLogs
  BY <1>2, <1>4
  DEF Produce, Commit, Emit, AddToStream, FailToAdd, RedisConnection, ApiCrash, groupVars, loopVars, Acked
<1>5. ASSUME NEW w \in Workers, Idle(w), UNCHANGED auditLogs PROVE (AuditedBeforeAcked /\ WorkHasRow)'
  <2>1. CASE ReadBatch(w)
    <3>1. /\ cursor' \in cursor + 1 .. Len(stream)
          /\ pending' = pending \cup (cursor + 1 .. cursor')
          /\ \/ /\ batch' = [batch EXCEPT ![w] = cursor + 1 .. cursor']
                /\ pc' = [pc EXCEPT ![w] = "next"]
             \/ UNCHANGED loopVars
      BY <1>1, <2>1, ReadBatchKeeps
    <3>2. Acked' \subseteq Acked
      BY <1>1, <3>1 DEF Acked, StreamInv, StreamTypeOK
    <3> QED
      BY <1>1, <1>2, <1>5, <3>1, <3>2 DEF loopVars
  <2>2. CASE StartWorker(w) \/ FinishBatch(w) \/ Wake(w)
    <3>1. UNCHANGED <<cursor, pending, batch>> /\ pc' = [pc EXCEPT ![w] = "read"]
      BY <2>2 DEF StartWorker, FinishBatch, Wake, Goto, groupVars
    <3> QED
      BY <1>1, <1>2, <1>5, <3>1 DEF Acked
  <2> QED
    BY <1>5, <2>1, <2>2 DEF Idle
<1>6. ASSUME NEW w \in Workers, NEW p \in batch[w], PersistAuditLog(w, p)
      PROVE  (AuditedBeforeAcked /\ WorkHasRow)'
  <2> DEFINE row == [worker |-> w, message |-> p]
  <2>1. /\ UNCHANGED <<cursor, pending, batch>> /\ pc' = [pc EXCEPT ![w] = "work"]
        /\ IsCurrent(p, w) /\ auditLogs' = auditLogs \cup {row}
    BY <1>6 DEF PersistAuditLog, Goto, groupVars
  <2>2. row.message = p
    OBVIOUS
  <2> HIDE DEF row
  <2>3. \A q : IsCurrent(q, w) => q = p
    BY <1>1, <2>1, CurrentIsOne DEF StreamInv
  <2>4. \A v \in Workers : pc'[v] = IF v = w THEN "work" ELSE pc[v]
    BY <1>1, <2>1
  <2>5. AuditedBeforeAcked'
    BY <2>1 DEF AuditedBeforeAcked, Acked
  <2>6. WorkHasRow'
    BY <2>1, <2>2, <2>3, <2>4 DEF WorkHasRow, IsCurrent
  <2> QED
    BY <2>5, <2>6
<1>7. ASSUME NEW w \in Workers, NEW p \in batch[w], Acknowledge(w, p), UNCHANGED auditLogs
      PROVE  (AuditedBeforeAcked /\ WorkHasRow)'
  <2>1. /\ batch' = [batch EXCEPT ![w] = @ \ {p}] /\ pc' = [pc EXCEPT ![w] = "next"]
        /\ pending' = pending \ {p} /\ cursor' = cursor /\ IsCurrent(p, w) /\ pc[w] = "work"
    BY <1>1, <1>7, AcknowledgeKeeps DEF Acknowledge
  <2>2. \E a \in auditLogs : a.message = p
    BY <2>1 DEF WorkHasRow
  <2>3. Acked' \subseteq Acked \cup {p}
    BY <2>1 DEF Acked
  <2>4. AuditedBeforeAcked'
    BY <1>7, <2>2, <2>3 DEF AuditedBeforeAcked
  <2>5. \A v \in Workers : v # w => pc'[v] = pc[v] /\ batch'[v] = batch[v]
    BY <1>1, <2>1
  <2>6. WorkHasRow'
    BY <1>1, <1>7, <2>1, <2>5 DEF WorkHasRow, IsCurrent
  <2> QED
    BY <2>4, <2>6
<1>8. ASSUME NEW w \in Workers, CrashWorker(w), UNCHANGED auditLogs
      PROVE  (AuditedBeforeAcked /\ WorkHasRow)'
  <2>1. /\ batch' = [batch EXCEPT ![w] = {}] /\ pc' = [pc EXCEPT ![w] = "dead"]
        /\ UNCHANGED <<cursor, pending>>
    BY <1>8 DEF CrashWorker, Goto, groupVars
  <2> QED
    BY <1>1, <1>2, <1>8, <2>1 DEF Acked
<1> QED
  BY <1>3, <1>4, <1>5, <1>6, <1>7, <1>8 DEF AuditNext, HandleEvent

\* Where no statement fails, no message is acknowledged without its audit row,
\* whoever crashed, was refused or read again.
THEOREM AuditIsComplete == AuditSpec => []AuditedBeforeAcked
<1>1. AuditInit => AuditedBeforeAcked /\ WorkHasRow
  BY DEF AuditInit, StreamInit, AuditedBeforeAcked, WorkHasRow, Acked
<1>2. AuditInv /\ AuditedBeforeAcked /\ WorkHasRow /\ [AuditNext]_auditVars
        => (AuditedBeforeAcked /\ WorkHasRow)'
  BY CompletenessStep
<1> QED
  BY <1>1, <1>2, AuditInvariance, PTL DEF AuditSpec
-----------------------------------------------------------------------------
(* The audit worker, too, implements DeliveryLog, with the table for its only *)
(* endpoint, and is never stuck.                                              *)

Audit == INSTANCE DeliveryLog WITH
    log <- stream, read <- cursor, open <- pending, Endpoints <- {"audit_logs"},
    sent <- {<<a.message, "audit_logs">> : a \in auditLogs}

\* A message is read once, leaves its row only while it is open and only once, and
\* is closed for good.
AuditImplementsDeliveryLog == Audit!Spec

\* Every step of the audit worker is a step of DeliveryLog or invisible to it.
LEMMA AuditStepImplements == AuditInv /\ [AuditNext]_auditVars => [Audit!Next]_(Audit!vars)
<1> SUFFICES ASSUME AuditInv, [AuditNext]_auditVars PROVE [Audit!Next]_(Audit!vars)
  OBVIOUS
<1> DEFINE sent == {<<a.message, "audit_logs">> : a \in auditLogs}
<1>1. /\ StreamInv /\ cursor \in Nat /\ stream \in Seq(Events)
      /\ \A w \in Workers : batch[w] \subseteq pending
  BY DEF AuditInv, StreamInv, StreamTypeOK, BatchesAreExclusive
<1>2. ASSUME UNCHANGED <<stream, cursor, pending, auditLogs>> PROVE UNCHANGED Audit!vars
  BY <1>2 DEF Audit!vars
<1>3. CASE Produce /\ UNCHANGED auditLogs
  <2>1. ASSUME NEW e \in Events, AddToStream(e) PROVE Audit!Publish(e)
    BY <1>3, <2>1 DEF AddToStream, Audit!Publish, groupVars
  <2>2. \/ \E e \in Events : AddToStream(e)
        \/ UNCHANGED <<stream, cursor, pending>>
    BY <1>3 DEF Produce, Commit, Emit, FailToAdd, RedisConnection, ApiCrash, groupVars
  <2> QED
    BY <1>2, <1>3, <2>1, <2>2 DEF Audit!Next
<1>4. ASSUME NEW w \in Workers, Idle(w), UNCHANGED auditLogs PROVE [Audit!Next]_(Audit!vars)
  <2>1. CASE ReadBatch(w)
    <3>1. cursor' \in cursor + 1 .. Len(stream) /\ pending' = pending \cup (cursor + 1 .. cursor')
      BY <1>1, <2>1, ReadBatchKeeps
    <3>2. stream' = stream
      BY <2>1 DEF ReadBatch, producerVars
    <3>3. Audit!Read(cursor')
      BY <1>4, <3>1, <3>2 DEF Audit!Read
    <3>4. cursor' \in 1 .. Len(stream)
      BY <1>1, <3>1
    <3> QED
      BY <3>3, <3>4 DEF Audit!Next
  <2>2. CASE StartWorker(w) \/ FinishBatch(w) \/ Wake(w)
    BY <1>2, <1>4, <2>2 DEF StartWorker, FinishBatch, Wake, producerVars, groupVars
  <2> QED
    BY <1>4, <2>1, <2>2 DEF Idle
<1>5. ASSUME NEW w \in Workers, NEW p \in batch[w], PersistAuditLog(w, p)
      PROVE  [Audit!Next]_(Audit!vars)
  <2>1. p \in pending /\ pc[w] = "next" /\ UNCHANGED <<stream, cursor, pending>>
    BY <1>1, <1>5 DEF PersistAuditLog, producerVars, groupVars
  <2>2. CASE UNCHANGED auditLogs
    BY <1>2, <2>1, <2>2
  <2>3. CASE auditLogs' = auditLogs \cup {[worker |-> w, message |-> p]}
    <3>1. \A a \in auditLogs : a.message # p
      BY <2>1 DEF AuditInv, AuditRowsInv
    <3>2. <<p, "audit_logs">> \notin sent
      BY <3>1
    <3>3. sent' = sent \cup {<<p, "audit_logs">>}
      <4>1. PICK row : row = [worker |-> w, message |-> p]
        OBVIOUS
      <4>2. row.message = p /\ auditLogs' = auditLogs \cup {row}
        BY <2>3, <4>1
      <4> QED
        BY <4>2
    <3>4. Audit!Send(p, "audit_logs")
      BY <2>1, <3>2, <3>3 DEF Audit!Send
    <3> QED
      BY <2>1, <3>4 DEF Audit!Next
  <2> QED
    BY <1>5, <2>2, <2>3 DEF PersistAuditLog
<1>6. ASSUME NEW w \in Workers, NEW p \in batch[w], Acknowledge(w, p), UNCHANGED auditLogs
      PROVE  Audit!Next
  <2>1. p \in pending /\ pending' = pending \ {p}
    BY <1>1, <1>6, AcknowledgeKeeps
  <2>2. Audit!Close(p)
    BY <1>6, <2>1 DEF Acknowledge, Audit!Close, producerVars
  <2> QED
    BY <2>1, <2>2 DEF Audit!Next
<1>7. ASSUME NEW w \in Workers, CrashWorker(w), UNCHANGED auditLogs PROVE UNCHANGED Audit!vars
  BY <1>2, <1>7 DEF CrashWorker, producerVars, groupVars
<1>8. CASE UNCHANGED auditVars
  BY <1>2, <1>8 DEF auditVars, streamVars, producerVars, groupVars
<1> QED
  BY <1>3, <1>4, <1>5, <1>6, <1>7, <1>8 DEF AuditNext, HandleEvent

\* The audit worker promises of its rows what the webhook worker promises of its POSTs.
THEOREM AuditRefinement == AuditSpec => AuditImplementsDeliveryLog
<1>1. AuditInit => Audit!Init
  BY DEF AuditInit, StreamInit, Audit!Init
<1> QED
  BY <1>1, AuditStepImplements, AuditInvariance, PTL
  DEF AuditSpec, AuditImplementsDeliveryLog, Audit!Spec

\* Every step of the audit worker is one of its loop.
LEMMA AuditStepLoops == [AuditNext]_auditVars => [LoopNext]_streamVars
<1>1. ASSUME NEW w \in Workers, NEW p \in batch[w], PersistAuditLog(w, p) PROVE Iterate(w)
  BY <1>1 DEF PersistAuditLog, Iterate
<1> QED
  BY <1>1 DEF AuditNext, HandleEvent, LoopNext, auditVars

\* The loop of an audit worker can always go on.
THEOREM AuditWorkersGoOn == AuditSpec => []NoWorkerIsStuck
<1>1. AuditInit => LoopInv
  BY LoopInitially DEF AuditInit
<1>2. AuditInv /\ LoopInv /\ [AuditNext]_auditVars => LoopInv'
  BY AuditStepLoops, LoopKeeps DEF AuditInv
<1>3. LoopInv => NoWorkerIsStuck
  BY LoopHasCurrent DEF LoopInv, NoWorkerIsStuck
<1> QED
  BY <1>1, <1>2, <1>3, AuditInvariance, PTL DEF AuditSpec
-----------------------------------------------------------------------------
(* From the committed change to its POST and its audit row. *)

\* Under the webhook workers the stream is faithful to what was committed.
THEOREM StreamIsFaithful == Spec => []EventsAreFaithful
<1>1. Init => EmitInv
  BY EmitInitially DEF Init
<1>2. Inv /\ EmitInv /\ [Next]_vars => EmitInv'
  BY StepLoops, EmitKeeps, Facts
<1>3. EmitInv => EventsAreFaithful
  BY DEF EmitInv
<1> QED
  BY <1>1, <1>2, <1>3, Invariance, PTL DEF Spec

\* A row is of a message that was read.
RowsAreOfMessages == \A a \in auditLogs : a.message \in 1 .. cursor

\* Rows are inserted for open messages, and the cursor never goes back.
LEMMA RowsStep == AuditInv /\ RowsAreOfMessages /\ [AuditNext]_auditVars => RowsAreOfMessages'
<1> SUFFICES ASSUME AuditInv, RowsAreOfMessages, [AuditNext]_auditVars PROVE RowsAreOfMessages'
  OBVIOUS
<1> DEFINE sent == {<<a.message, "audit_logs">> : a \in auditLogs}
<1>1. cursor \in Nat /\ Len(stream) \in Nat /\ pending \subseteq 1 .. cursor
  BY DEF AuditInv, StreamInv, StreamTypeOK
<1>2. [Audit!Next]_(Audit!vars)
  BY AuditStepImplements
<1>3. cursor' \in Nat /\ cursor <= cursor' /\ \A x \in sent' : x \in sent \/ x[1] \in pending
  BY <1>1, <1>2 DEF Audit!Next, Audit!vars, Audit!Publish, Audit!Read, Audit!Send, Audit!Close
<1>4. ASSUME NEW a \in auditLogs' PROVE a.message \in 1 .. cursor
  <2>1. <<a.message, "audit_logs">> \in sent'
    OBVIOUS
  <2>2. \A x \in sent : x[1] \in 1 .. cursor
    BY DEF RowsAreOfMessages
  <2> QED
    BY <1>1, <1>3, <2>1, <2>2
<1> QED
  BY <1>1, <1>3, <1>4 DEF RowsAreOfMessages

\* The audit table against the changes themselves: a row is of a committed change;
\* unless a command is sent again, a change has one row at most; and where neither
\* Redis, the API process nor a statement fails, a change whose emit is over is in the
\* stream, and once it is acknowledged there it has its row.
OneAuditRowPerChange ==
    /\ \A a \in auditLogs : emitting[stream[a.message]] \in {"adding", "over"}
    /\ "resend" \notin Faults =>
         \A a, b \in auditLogs : stream[a.message] = stream[b.message] => a = b
    /\ Faults \cap {"redis", "crash", "database"} = {} =>
         \A e \in Events : emitting[e] = "over" =>
            \E p \in 1 .. Len(stream) :
                stream[p] = e /\ (p \in Acked => \E a \in auditLogs : a.message = p)

\* The rows follow the messages, and the messages the changes.
LEMMA RowsFollowChanges ==
  AuditInv /\ RowsAreOfMessages /\ EmitInv /\ AuditedBeforeAcked => OneAuditRowPerChange
<1> SUFFICES ASSUME AuditInv, RowsAreOfMessages, EmitInv, AuditedBeforeAcked
             PROVE  OneAuditRowPerChange
  OBVIOUS
<1>1. /\ cursor \in Nat /\ Len(stream) \in Nat /\ cursor <= Len(stream)
      /\ \A a, b \in auditLogs : a.message = b.message => a = b
  BY DEF AuditInv, AuditRowsInv, AuditedOnce, StreamInv, StreamTypeOK
<1>2. \A a \in auditLogs : a.message \in 1 .. Len(stream)
  BY <1>1 DEF RowsAreOfMessages
<1>3. Faults \cap {"redis", "crash", "database"} = {} =>
        Faults \cap {"redis", "crash"} = {} /\ "database" \notin Faults
  OBVIOUS
<1> QED
  BY <1>1, <1>2, <1>3 DEF EmitInv, EventsAreFaithful, AuditedBeforeAcked, OneAuditRowPerChange

\* What can come between a change and its one audit row is a fault, and a named one.
THEOREM ChangesAreAudited == AuditSpec => []OneAuditRowPerChange
<1>1. AuditInit => RowsAreOfMessages /\ EmitInv
  BY EmitInitially DEF AuditInit, RowsAreOfMessages
<1>2. AuditInv /\ RowsAreOfMessages /\ EmitInv /\ [AuditNext]_auditVars
        => (RowsAreOfMessages /\ EmitInv)'
  BY AuditStepLoops, EmitKeeps, RowsStep DEF AuditInv
<1> QED
  BY <1>1, <1>2, RowsFollowChanges, AuditInvariance, AuditIsComplete, PTL DEF AuditSpec
=============================================================================
