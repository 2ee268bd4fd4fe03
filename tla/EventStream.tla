---------------------------- MODULE EventStream ----------------------------
(***************************************************************************)
(* The Redis stream between the API and the worker processes: eventBus.emit *)
(* appends an event, and a consumer group hands every message to one of    *)
(* its workers.  A worker reads a batch, handles its messages one by one   *)
(* and acknowledges each; an exception ends the batch.  What handling a    *)
(* message means is left to WebhookWorker and AuditWorker, which extend    *)
(* this module; their groups share nothing but the stream.                 *)
(*                                                                         *)
(* A message is its position in the stream.  A worker process runs once; a *)
(* restart is another member of Workers, with another pid.                 *)
(***************************************************************************)
EXTENDS Naturals, Sequences, FiniteSets

CONSTANTS
    Events,         \* changes that emit an event once they are committed
    Workers,        \* worker processes, by pid
    BatchSize,      \* COUNT of XREADGROUP
    StreamBound,    \* bound: how long TLC lets the stream become
    Faults          \* which of FaultKinds may happen

\* "redis": the API loses its connection or is refused; "resend": a connection breaks with a
\* command in flight, and the client sends it again; "database": a statement
\* fails (SQLITE_BUSY, a full disk); "crash": a process dies.
FaultKinds == {"redis", "resend", "database", "crash"}

ASSUME FaultsAssumption == Faults \subseteq FaultKinds
ASSUME BatchSizeAssumption == BatchSize \in Nat \ {0}
ASSUME StreamBoundAssumption == StreamBound \in Nat

VARIABLES
    emitting,       \* where the request that commits each event is
    redisUp,        \* redisAvailable in the API process
    stream,         \* blerp_events
    cursor,         \* the last message the group was given
    pending,        \* the group's pending entries list
    pc,             \* where the loop of each worker process is
    batch           \* the messages it has read and not finished

producerVars == <<emitting, redisUp, stream>>
groupVars == <<cursor, pending>>
loopVars == <<pc, batch>>
streamVars == <<producerVars, groupVars, loopVars>>

Running == {"read", "next", "work", "record", "sleep"}

Acked == (1 .. cursor) \ pending

\* Mutant: the messages of a batch are handled in any order.
IsOfBatch(p, w) == p \in batch[w]

\* The message the loop is at.
IsCurrent(p, w) == p \in batch[w] /\ \A q \in batch[w] : p <= q

Goto(w, p) == pc' = [pc EXCEPT ![w] = p]

StreamInit ==
    /\ emitting = [e \in Events |-> "new"]
    /\ redisUp = TRUE
    /\ stream = <<>>
    /\ cursor = 0
    /\ pending = {}
    /\ pc = [w \in Workers |-> "unborn"]
    /\ batch = [w \in Workers |-> {}]
-----------------------------------------------------------------------------
(* The API process. *)

\* The row is inserted; the event comes after it, in no transaction with it.
Commit(e) ==
    /\ emitting[e] = "new"
    /\ emitting' = [emitting EXCEPT ![e] = "committed"]
    /\ UNCHANGED <<redisUp, stream, groupVars, loopVars>>

\* eventBus.emit: without Redis there is no event.
Emit(e) ==
    /\ emitting[e] = "committed"
    /\ emitting' = [emitting EXCEPT ![e] = IF redisUp THEN "adding" ELSE "over"]
    /\ UNCHANGED <<redisUp, stream, groupVars, loopVars>>

\* XADD.  When its reply is lost the client sends it again.
AddToStream(e) ==
    /\ emitting[e] = "adding"
    /\ Len(stream) < StreamBound
    /\ stream' = Append(stream, e)
    /\ \/ emitting' = [emitting EXCEPT ![e] = "over"]
       \/ "resend" \in Faults /\ UNCHANGED emitting
    /\ UNCHANGED <<redisUp, groupVars, loopVars>>

\* An error of XADD is logged: the request succeeds without the event.
FailToAdd(e) ==
    /\ "redis" \in Faults
    /\ emitting[e] = "adding"
    /\ emitting' = [emitting EXCEPT ![e] = "over"]
    /\ UNCHANGED <<redisUp, stream, groupVars, loopVars>>

RedisConnection(up) ==
    /\ "redis" \in Faults
    /\ redisUp' = up
    /\ UNCHANGED <<emitting, stream, groupVars, loopVars>>

ApiCrash ==
    /\ "crash" \in Faults
    /\ emitting' = [e \in Events |->
                      IF emitting[e] \in {"committed", "adding"} THEN "over" ELSE emitting[e]]
    /\ UNCHANGED <<redisUp, stream, groupVars, loopVars>>
-----------------------------------------------------------------------------
(* The loop of a worker process, but for what it does with a message. *)

\* initWorker: the group starts at "0", or exists already.
StartWorker(w) ==
    /\ pc[w] = "unborn"
    /\ Goto(w, "read")
    /\ UNCHANGED <<producerVars, groupVars, batch>>

\* Mutant: the messages of a lost reply are handed out again.
ReadPendingToo(w) ==
    LET last == IF Len(stream) < cursor + BatchSize THEN Len(stream) ELSE cursor + BatchSize
        given == (cursor + 1 .. last) \cup pending
    IN  /\ pc[w] = "read"
        /\ given # {}
        /\ cursor' = last
        /\ pending' = pending \cup given
        /\ batch' = [batch EXCEPT ![w] = given]
        /\ Goto(w, "next")
        /\ UNCHANGED producerVars

\* XREADGROUP ... COUNT n ... STREAMS blerp_events >.  When the reply is lost
\* the command is sent again, and the messages of the first reply stay pending.
ReadBatch(w) ==
    LET last == IF Len(stream) < cursor + BatchSize THEN Len(stream) ELSE cursor + BatchSize
        given == cursor + 1 .. last
    IN  /\ pc[w] = "read"
        /\ cursor < Len(stream)
        /\ cursor' = last
        /\ pending' = pending \cup given
        /\ \/ Goto(w, "next") /\ batch' = [batch EXCEPT ![w] = given]
           \/ "resend" \in Faults /\ UNCHANGED loopVars
        /\ UNCHANGED producerVars

FinishBatch(w) ==
    /\ pc[w] = "next"
    /\ batch[w] = {}
    /\ Goto(w, "read")
    /\ UNCHANGED <<producerVars, groupVars, batch>>

\* XACK
Acknowledge(w, p) ==
    /\ pc[w] = "work"
    /\ IsCurrent(p, w)
    /\ pending' = pending \ {p}
    /\ batch' = [batch EXCEPT ![w] = @ \ {p}]
    /\ Goto(w, "next")
    /\ UNCHANGED <<producerVars, cursor>>

\* The catch of the loop: the rest of the batch is forgotten, and stays pending.
Abort(w) ==
    /\ batch' = [batch EXCEPT ![w] = {}]
    /\ Goto(w, "sleep")
    /\ UNCHANGED <<producerVars, groupVars>>

\* Mutant: nothing calls the loop again after an exception.
NeverWake(w) == pc[w] = "sleep" /\ UNCHANGED streamVars

\* The five seconds after an exception are over.
Wake(w) ==
    /\ pc[w] = "sleep"
    /\ Goto(w, "read")
    /\ UNCHANGED <<producerVars, groupVars, batch>>

\* The process dies.  Another one is running or can still be started.
CrashWorker(w) ==
    /\ "crash" \in Faults
    /\ pc[w] \in Running
    /\ \E v \in Workers \ {w} : pc[v] \in Running \cup {"unborn"}
    /\ Goto(w, "dead")
    /\ batch' = [batch EXCEPT ![w] = {}]
    /\ UNCHANGED <<producerVars, groupVars>>
-----------------------------------------------------------------------------
\* What no worker takes part in.
Produce ==
    \/ \E e \in Events : Commit(e) \/ Emit(e) \/ AddToStream(e) \/ FailToAdd(e)
    \/ \E up \in BOOLEAN : RedisConnection(up)
    \/ ApiCrash

\* The steps of a worker that handle no message.
Idle(w) == StartWorker(w) \/ ReadBatch(w) \/ FinishBatch(w) \/ Wake(w)

StreamTypeOK ==
    /\ emitting \in [Events -> {"new", "committed", "adding", "over"}]
    /\ redisUp \in BOOLEAN
    /\ stream \in Seq(Events)
    /\ cursor \in Nat /\ cursor <= Len(stream)
    /\ pending \subseteq 1 .. cursor
    /\ pc \in [Workers -> Running \cup {"unborn", "dead"}]
    /\ batch \in [Workers -> SUBSET Nat]
    /\ \A w \in Workers : batch[w] # {} => pc[w] \in {"next", "work", "record"}

\* A message belongs to one worker: what a worker has in its batch is pending,
\* and in nobody else's batch, even after replies were lost and processes died.
BatchesAreExclusive ==
    \A w \in Workers :
        /\ batch[w] \subseteq pending
        /\ \A v \in Workers \ {w} : batch[w] \cap batch[v] = {}

\* Whatever fails, the loops go on to later messages: the whole stream is read.
EveryMessageIsRead ==
    \A p \in 1 .. StreamBound : p <= Len(stream) ~> p <= cursor
=============================================================================
