--------------------------- MODULE WebhookWorker ---------------------------
(***************************************************************************)
(* processEvents and the webhook endpoints it delivers to: a message of    *)
(* EventStream is sent by one POST to each endpoint that matches it, the   *)
(* outcome is inserted into webhook_deliveries, and the message is         *)
(* acknowledged.  Endpoints come, change and go meanwhile.                 *)
(***************************************************************************)
EXTENDS EventStream

CONSTANTS
    Types,          \* event types
    Subscriptions,  \* the lists of event types an administrator may choose
    Projects,
    EventType,      \* the type of each event
    EventProject,   \* the project of each event, or DEFAULT for none
    Endpoints,      \* webhook endpoints
    EndpointProject \* the project of each endpoint; no update changes it

\* The bucket of endpoints that get every project's events, and of events that
\* have no project.
DEFAULT == "default"

ASSUME AttributesAssumption ==
    /\ Subscriptions \subseteq SUBSET Types
    /\ EventType \in [Events -> Types]
    /\ EventProject \in [Events -> Projects \cup {DEFAULT}]
    /\ EndpointProject \in [Endpoints -> Projects \cup {DEFAULT}]

VARIABLES
    endpoints,      \* the webhook_endpoints table
    deliveries,     \* the webhook_deliveries table
    loc,            \* the variables of each worker's deliverEvent
    posts,          \* observer: the POSTs that were tried
    addressed       \* observer: <<message, endpoint>> selected for delivery

webhookVars == <<endpoints, deliveries, loc, posts, addressed>>
vars == <<streamVars, webhookVars>>

EndpointRow == [state : {"unborn", "live", "gone"}, enabled : BOOLEAN,
                eventTypes : SUBSET Types]
Delivery == [worker : Workers, message : Nat, endpoint : Endpoints,
             status : {"success", "failed"}]
Posted == [worker : Workers, message : Nat, endpoint : Endpoints]

\* What a POST came to: a response that is ok, one that is not, or an exception.
Answers == {"ok", "notOk", "exception"}

\* targets: the endpoints left for the current message; tried: the one just
\* tried, until its outcome is recorded; answer: that outcome.
Locals == [targets : SUBSET Endpoints, tried : SUBSET Endpoints, answer : Answers]
NoLocals == [targets |-> {}, tried |-> {}, answer |-> "ok"]

SetLocals(w, l) == loc' = [loc EXCEPT ![w] = l]

Init ==
    /\ StreamInit
    /\ endpoints = [ep \in Endpoints |->
                      [state |-> "unborn", enabled |-> TRUE, eventTypes |-> {}]]
    /\ deliveries = {}
    /\ loc = [w \in Workers |-> NoLocals]
    /\ posts = {}
    /\ addressed = {}
-----------------------------------------------------------------------------
(* WebhookService.  An update or a delete first looks the endpoint up in the *)
(* caller's project; as no endpoint ever changes its project and a write to  *)
(* one that is gone does nothing, the lookup and the write are one step.     *)

CreateWebhook(ep, eventTypes) ==
    /\ endpoints[ep].state = "unborn"
    /\ endpoints' = [endpoints EXCEPT ![ep] =
                       [state |-> "live", enabled |-> TRUE, eventTypes |-> eventTypes]]
    /\ UNCHANGED <<streamVars, deliveries, loc, posts, addressed>>

UpdateWebhook(ep, enabled, eventTypes) ==
    /\ endpoints[ep].state = "live"
    /\ endpoints' = [endpoints EXCEPT ![ep].enabled = enabled,
                                      ![ep].eventTypes = eventTypes]
    /\ UNCHANGED <<streamVars, deliveries, loc, posts, addressed>>

\* The deliveries of the endpoint go with it (ON DELETE CASCADE).
DeleteWebhook(ep) ==
    /\ endpoints[ep].state = "live"
    /\ endpoints' = [endpoints EXCEPT ![ep].state = "gone"]
    /\ deliveries' = {d \in deliveries : d.endpoint # ep}
    /\ UNCHANGED <<streamVars, loc, posts, addressed>>
-----------------------------------------------------------------------------
(* deliverEvent and attemptDelivery *)

\* An endpoint without event types gets all of them.
Matches(ep, e) ==
    /\ endpoints[ep].state = "live"
    /\ endpoints[ep].enabled
    /\ EndpointProject[ep] \in {EventProject[e], DEFAULT}
    /\ endpoints[ep].eventTypes = {} \/ EventType[e] \in endpoints[ep].eventTypes

\* An exception in deliverEvent ends the batch.
AbortDelivery(w) ==
    /\ Abort(w)
    /\ SetLocals(w, NoLocals)

\* deliverEvent up to its loop.
SelectEndpoints(w, p) ==
    LET targets == {ep \in Endpoints : Matches(ep, stream[p])}
    IN  /\ pc[w] = "next"
        /\ IsCurrent(p, w)
        /\ \/ /\ Goto(w, "work")
              /\ SetLocals(w, [NoLocals EXCEPT !.targets = targets])
              /\ addressed' = addressed \cup ({p} \X targets)
              /\ UNCHANGED <<producerVars, groupVars, batch>>
           \/ /\ "database" \in Faults
              /\ AbortDelivery(w)
              /\ UNCHANGED addressed
        /\ UNCHANGED <<endpoints, deliveries, posts>>

\* The request to one endpoint, whatever became of its row since.
Post(w, p, ep) ==
    /\ pc[w] = "work"
    /\ IsCurrent(p, w)
    /\ ep \in loc[w].targets
    /\ posts' = posts \cup {[worker |-> w, message |-> p, endpoint |-> ep]}
    /\ Goto(w, "record")
    /\ \E answer \in Answers :
          SetLocals(w, [targets |-> loc[w].targets \ {ep}, tried |-> {ep}, answer |-> answer])
    /\ UNCHANGED <<producerVars, groupVars, batch, endpoints, deliveries, addressed>>

\* The rows an insert adds for the endpoint just tried.
Outcome(w, p) ==
    {[worker |-> w, message |-> p, endpoint |-> ep,
      status |-> IF loc[w].answer = "ok" THEN "success" ELSE "failed"] : ep \in loc[w].tried}

TriedIsLive(w) == \A ep \in loc[w].tried : endpoints[ep].state = "live"

Recorded(w) ==
    /\ Goto(w, "work")
    /\ SetLocals(w, [loc[w] EXCEPT !.tried = {}])
    /\ UNCHANGED <<producerVars, groupVars, batch>>

\* Mutant: the table has no foreign key.
RecordAlways(w, p) ==
    /\ pc[w] = "record"
    /\ IsCurrent(p, w)
    /\ deliveries' = deliveries \cup Outcome(w, p)
    /\ Recorded(w)
    /\ UNCHANGED <<endpoints, posts, addressed>>

\* Mutant: a row for the response, and one more for an exception after it.
RecordTwice(w, p) ==
    /\ pc[w] = "record"
    /\ IsCurrent(p, w)
    /\ TriedIsLive(w)
    /\ deliveries' = deliveries \cup Outcome(w, p)
    /\ \/ Recorded(w)
       \/ /\ loc[w].answer # "exception"
          /\ SetLocals(w, [loc[w] EXCEPT !.answer = "exception"])
          /\ UNCHANGED streamVars
    /\ UNCHANGED <<endpoints, posts, addressed>>

\* The insert.  It fails when the endpoint is gone (the foreign key).  After a
\* response a failure is caught and "failed" is inserted instead; a failure of
\* that insert leaves the loop.
RecordDelivery(w, p) ==
    LET fails == "database" \in Faults \/ ~TriedIsLive(w)
    IN  /\ pc[w] = "record"
        /\ IsCurrent(p, w)
        /\ \/ /\ TriedIsLive(w)
              /\ deliveries' = deliveries \cup Outcome(w, p)
              /\ Recorded(w)
           \/ /\ fails /\ loc[w].answer # "exception"
              /\ SetLocals(w, [loc[w] EXCEPT !.answer = "exception"])
              /\ UNCHANGED <<streamVars, deliveries>>
           \/ /\ fails /\ loc[w].answer = "exception"
              /\ AbortDelivery(w)
              /\ UNCHANGED deliveries
        /\ UNCHANGED <<endpoints, posts, addressed>>

\* Mutant: acknowledges before the endpoints have been tried.
AckFirst(w, p) ==
    /\ Acknowledge(w, p)
    /\ SetLocals(w, NoLocals)
    /\ UNCHANGED <<endpoints, deliveries, posts, addressed>>

\* The end of an iteration: XACK.
FinishEvent(w, p) ==
    /\ loc[w].targets = {}
    /\ Acknowledge(w, p)
    /\ SetLocals(w, NoLocals)
    /\ UNCHANGED <<endpoints, deliveries, posts, addressed>>
-----------------------------------------------------------------------------
Handle(w) ==
    \E p \in batch[w] :
        \/ SelectEndpoints(w, p)
        \/ \E ep \in Endpoints : Post(w, p, ep)
        \/ RecordDelivery(w, p)
        \/ FinishEvent(w, p)

Administrator ==
    \E ep \in Endpoints :
        \/ \E eventTypes \in Subscriptions :
              \/ CreateWebhook(ep, eventTypes)
              \/ \E enabled \in BOOLEAN : UpdateWebhook(ep, enabled, eventTypes)
        \/ DeleteWebhook(ep)

Next ==
    \/ Produce /\ UNCHANGED webhookVars
    \/ \E w \in Workers :
          \/ Idle(w) /\ UNCHANGED webhookVars
          \/ Handle(w)
          \/ /\ CrashWorker(w)
             /\ SetLocals(w, NoLocals)
             /\ UNCHANGED <<endpoints, deliveries, posts, addressed>>
    \/ Administrator

Spec == Init /\ [][Next]_vars

\* A process that runs keeps running its loop, a new one is started when another
\* died, and a POST comes to an end: fetch gives up on an endpoint that does not
\* answer.
FairSpec ==
    /\ Spec
    /\ \A w \in Workers : WF_vars(Idle(w) /\ UNCHANGED webhookVars) /\ WF_vars(Handle(w))
-----------------------------------------------------------------------------
\* Every variable has its type, and a worker has variables only while it
\* handles a message.
TypeOK ==
    /\ StreamTypeOK
    /\ endpoints \in [Endpoints -> EndpointRow]
    /\ deliveries \subseteq Delivery
    /\ loc \in [Workers -> Locals]
    /\ posts \subseteq Posted
    /\ addressed \subseteq (1 .. cursor) \X Endpoints
    /\ \A w \in Workers : loc[w] # NoLocals => pc[w] \in {"work", "record"}

\* What was acknowledged was tried at every endpoint it was addressed to, and the
\* outcome is on record unless the endpoint was deleted.
AckedMeansRecorded ==
    \A p \in Acked, ep \in Endpoints :
        <<p, ep>> \in addressed =>
            \/ endpoints[ep].state = "gone"
            \/ \E d \in deliveries : d.message = p /\ d.endpoint = ep

\* One message leaves at most one row for an endpoint, although an attempt may
\* insert twice.
RecordedOnce ==
    \A c, d \in deliveries : c.message = d.message /\ c.endpoint = d.endpoint => c = d

\* A delivery never outlives its endpoint, although the endpoint may be deleted
\* while the delivery is under way.
DeliveriesHaveEndpoint ==
    \A d \in deliveries : endpoints[d.endpoint].state = "live"

\* One process sends an endpoint its events in the order of the stream.
PostsInStreamOrder ==
    [][\A w \in Workers : \A p \in batch[w], ep \in Endpoints :
          Post(w, p, ep) =>
            \A x \in posts : x.worker = w /\ x.endpoint = ep => x.message < p]_vars

\* The promise of the workers: see DeliveryLog.
Log == INSTANCE DeliveryLog WITH
    log <- stream, read <- cursor, open <- pending,
    sent <- {<<x.message, x.endpoint>> : x \in posts}

\* Every step is a step of DeliveryLog or invisible to it: a message is read once
\* and tried at an endpoint at most once, by this process or a later one.
ImplementsDeliveryLog == Log!Spec
=============================================================================
