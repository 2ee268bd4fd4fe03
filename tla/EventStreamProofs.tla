------------------------- MODULE EventStreamProofs -------------------------
(***************************************************************************)
(* What the loop of a worker keeps whatever it does with a message: its    *)
(* types, and that a message is in one batch at a time.  The proofs of     *)
(* WebhookWorker and AuditWorker cite these lemmas for the steps they      *)
(* share.                                                                  *)
(***************************************************************************)
EXTENDS EventStream, TLAPS

\* A batch is pending and nobody else's, and a worker has one only between the
\* read and the end of the batch.
StreamInv == StreamTypeOK /\ BatchesAreExclusive

\* Nothing has been read at the start.
LEMMA StreamInitially == StreamInit => StreamInv
  BY BatchSizeAssumption
  DEF StreamInit, StreamInv, StreamTypeOK, BatchesAreExclusive, Running

\* A step that changes nothing here.
LEMMA StreamStutter == StreamInv /\ UNCHANGED streamVars => StreamInv'
  BY DEF StreamInv, StreamTypeOK, BatchesAreExclusive, streamVars, producerVars,
         groupVars, loopVars

\* The API appends to the stream and touches no batch.
LEMMA ProduceKeeps == StreamInv /\ Produce => StreamInv'
<1> SUFFICES ASSUME StreamInv, Produce PROVE StreamInv'
  OBVIOUS
<1> USE DEF StreamInv, StreamTypeOK, BatchesAreExclusive, groupVars, loopVars
<1>1. ASSUME NEW e \in Events, Commit(e) PROVE StreamInv'
  BY <1>1 DEF Commit
<1>2. ASSUME NEW e \in Events, Emit(e) PROVE StreamInv'
  BY <1>2 DEF Emit
<1>3. ASSUME NEW e \in Events, AddToStream(e) PROVE StreamInv'
  <2>1. stream' \in Seq(Events) /\ Len(stream') = Len(stream) + 1
    BY <1>3 DEF AddToStream
  <2>2. emitting' \in [Events -> {"new", "committed", "adding", "over"}]
    BY <1>3 DEF AddToStream
  <2> QED
    BY <1>3, <2>1, <2>2 DEF AddToStream
<1>4. ASSUME NEW e \in Events, FailToAdd(e) PROVE StreamInv'
  BY <1>4 DEF FailToAdd
<1>5. ASSUME NEW up \in BOOLEAN, RedisConnection(up) PROVE StreamInv'
  BY <1>5 DEF RedisConnection
<1>6. CASE ApiCrash
  BY <1>6 DEF ApiCrash
<1> QED
  BY <1>1, <1>2, <1>3, <1>4, <1>5, <1>6 DEF Produce

\* XREADGROUP gives out what lies past the cursor, so what it gives is in no batch.
LEMMA ReadBatchKeeps ==
  ASSUME StreamInv, NEW w \in Workers, ReadBatch(w)
  PROVE  /\ StreamInv'
         /\ cursor' \in cursor + 1 .. Len(stream)
         /\ pending' = pending \cup (cursor + 1 .. cursor')
         /\ \/ batch' = [batch EXCEPT ![w] = cursor + 1 .. cursor']
               /\ pc' = [pc EXCEPT ![w] = "next"]
            \/ UNCHANGED loopVars
<1> DEFINE last == IF Len(stream) < cursor + BatchSize THEN Len(stream)
                   ELSE cursor + BatchSize
           given == cursor + 1 .. last
<1> USE DEF StreamInv, StreamTypeOK, BatchesAreExclusive, producerVars, groupVars, loopVars
<1>1. /\ cursor < Len(stream) /\ cursor' = last /\ pending' = pending \cup given
      /\ UNCHANGED producerVars
      /\ \/ pc' = [pc EXCEPT ![w] = "next"] /\ batch' = [batch EXCEPT ![w] = given]
         \/ UNCHANGED loopVars
  BY DEF ReadBatch, Goto
<1>2. cursor \in Nat /\ Len(stream) \in Nat /\ BatchSize \in Nat \ {0}
  BY BatchSizeAssumption
<1>3. last \in cursor + 1 .. Len(stream) /\ last \in Nat
  BY <1>1, <1>2
<1>4. given \subseteq 1 .. last /\ pending \subseteq 1 .. last /\ given \cap pending = {}
  BY <1>2, <1>3
<1> HIDE DEF last
<1>5. pending' \subseteq 1 .. cursor' /\ cursor' <= Len(stream') /\ cursor' \in Nat
  BY <1>1, <1>2, <1>3, <1>4
<1>6. StreamInv'
  <2>1. CASE UNCHANGED loopVars
    BY <2>1, <1>1, <1>5
  <2>2. CASE pc' = [pc EXCEPT ![w] = "next"] /\ batch' = [batch EXCEPT ![w] = given]
    <3>1. batch' \in [Workers -> SUBSET Nat]
      BY <2>2, <1>2
    <3>2. pc' \in [Workers -> Running \cup {"unborn", "dead"}]
      BY <2>2 DEF Running
    <3>3. StreamTypeOK'
      BY <2>2, <1>1, <1>5, <3>1, <3>2
    <3>4. \A v \in Workers : batch'[v] = IF v = w THEN given ELSE batch[v]
      BY <2>2
    <3>5. BatchesAreExclusive'
      BY <1>1, <1>4, <3>4
    <3> QED
      BY <3>3, <3>5
  <2> QED
    BY <1>1, <2>1, <2>2
<1> QED
  BY <1>1, <1>3, <1>6

\* The steps of a worker between two messages or two batches leave the batches
\* of the others alone.
LEMMA IdleKeeps == StreamInv /\ (\E w \in Workers : Idle(w)) => StreamInv'
<1> SUFFICES ASSUME StreamInv, NEW w \in Workers, Idle(w) PROVE StreamInv'
  OBVIOUS
<1> USE DEF StreamInv, StreamTypeOK, BatchesAreExclusive, producerVars, groupVars, Goto, Running
<1>1. CASE StartWorker(w)
  BY <1>1 DEF StartWorker
<1>2. CASE ReadBatch(w)
  BY <1>2, ReadBatchKeeps
<1>3. CASE FinishBatch(w)
  BY <1>3 DEF FinishBatch
<1>4. CASE Wake(w)
  BY <1>4 DEF Wake
<1> QED
  BY <1>1, <1>2, <1>3, <1>4 DEF Idle

\* The end of a batch, by an exception or by a crash, frees its messages.
LEMMA DropKeeps ==
  ASSUME StreamInv, NEW w \in Workers, Abort(w) \/ CrashWorker(w)
  PROVE  StreamInv' /\ batch' = [batch EXCEPT ![w] = {}]
BY DEF Abort, CrashWorker, Goto, StreamInv, StreamTypeOK, BatchesAreExclusive, producerVars,
       groupVars, Running

\* The loop goes from one part of its body to another.
LEMMA GotoKeeps ==
  ASSUME StreamInv, NEW w \in Workers, NEW p \in {"next", "work", "record"},
         Goto(w, p), UNCHANGED <<producerVars, groupVars, batch>>
  PROVE  StreamInv'
BY DEF Goto, StreamInv, StreamTypeOK, BatchesAreExclusive, producerVars, groupVars, Running

\* XACK takes the message out of the pending list and out of its only batch.
LEMMA AcknowledgeKeeps ==
  ASSUME StreamInv, NEW w \in Workers, NEW p, Acknowledge(w, p)
  PROVE  /\ StreamInv'
         /\ p \in batch[w] /\ p \in pending
         /\ batch' = [batch EXCEPT ![w] = @ \ {p}]
         /\ pc' = [pc EXCEPT ![w] = "next"]
         /\ pending' = pending \ {p}
<1> USE DEF StreamInv, StreamTypeOK, BatchesAreExclusive, producerVars, groupVars
<1>1. /\ pc[w] = "work" /\ p \in batch[w] /\ pending' = pending \ {p}
      /\ batch' = [batch EXCEPT ![w] = @ \ {p}] /\ pc' = [pc EXCEPT ![w] = "next"]
      /\ UNCHANGED <<emitting, redisUp, stream, cursor>>
  BY DEF Acknowledge, IsCurrent, Goto
<1>2. StreamTypeOK'
  BY <1>1 DEF Running
<1>3. \A v \in Workers : batch'[v] = IF v = w THEN batch[w] \ {p} ELSE batch[v]
  BY <1>1
<1>4. BatchesAreExclusive'
  BY <1>1, <1>3
<1> QED
  BY <1>1, <1>2, <1>4

\* The loop is at one message at a time.
LEMMA CurrentIsOne ==
  ASSUME StreamTypeOK, NEW w \in Workers, NEW p, NEW q, IsCurrent(p, w), IsCurrent(q, w)
  PROVE  p = q
<1>1. p \in Nat /\ q \in Nat /\ p <= q /\ q <= p
  BY DEF IsCurrent, StreamTypeOK
<1> QED
  BY <1>1
-----------------------------------------------------------------------------
(* A worker that is inside its loop can go on with it. *)

\* A batch is a piece of the stream, and a worker that is at work has a message.
LoopInv ==
    \A w \in Workers :
        /\ \E a, b \in Nat : batch[w] = a .. b
        /\ pc[w] \in {"work", "record"} => batch[w] # {}

\* The steps a worker takes inside an iteration.
Iterate(w) ==
    \E p \in batch[w], l \in {"next", "work", "record"} :
        IsCurrent(p, w) /\ Goto(w, l) /\ UNCHANGED <<producerVars, groupVars, batch>>

\* Everything that happens to the loops, whatever handling a message means.
LoopNext ==
    \/ Produce
    \/ \E w \in Workers :
          \/ Idle(w) \/ Iterate(w) \/ Abort(w) \/ CrashWorker(w)
          \/ \E p \in batch[w] : Acknowledge(w, p)

\* A batch that is not empty has a message the loop is at.
HasCurrent ==
    \A w \in Workers : batch[w] # {} => \E p \in batch[w] : IsCurrent(p, w)

\* No worker has a batch at the start.
LEMMA LoopInitially == StreamInit => LoopInv
<1> SUFFICES ASSUME StreamInit PROVE LoopInv
  OBVIOUS
<1>1. \A w \in Workers : batch[w] = {} /\ pc[w] = "unborn"
  BY DEF StreamInit
<1>2. {} = 1 .. 0 /\ 0 \in Nat /\ 1 \in Nat
  OBVIOUS
<1> QED
  BY <1>1, <1>2 DEF LoopInv

\* The oldest message of a batch is its current one.
LEMMA LoopHasCurrent == LoopInv => HasCurrent
<1> SUFFICES ASSUME LoopInv, NEW w \in Workers, batch[w] # {}
             PROVE  \E p \in batch[w] : IsCurrent(p, w)
  BY DEF HasCurrent
<1>1. PICK a \in Nat, b \in Nat : batch[w] = a .. b
  BY DEF LoopInv
<1>2. a \in batch[w] /\ \A q \in batch[w] : a <= q
  BY <1>1
<1> QED
  BY <1>2 DEF IsCurrent

\* A batch is read, is worked off from its oldest message on, or is dropped.
LEMMA LoopKeeps == StreamInv /\ LoopInv /\ [LoopNext]_streamVars => LoopInv'
<1> SUFFICES ASSUME StreamInv, LoopInv, [LoopNext]_streamVars PROVE LoopInv'
  OBVIOUS
<1>1. /\ cursor \in Nat /\ DOMAIN pc = Workers /\ batch \in [Workers -> SUBSET Nat]
      /\ \A w \in Workers : pc[w] \in {"work", "record"} => batch[w] # {}
  BY DEF StreamInv, StreamTypeOK, LoopInv
<1>2. ASSUME NEW v \in Workers, batch'[v] = batch[v],
             pc'[v] \in {"work", "record"} => batch[v] # {}
      PROVE  /\ \E a, b \in Nat : batch'[v] = a .. b
             /\ pc'[v] \in {"work", "record"} => batch'[v] # {}
  BY <1>2 DEF LoopInv
<1>3. CASE UNCHANGED loopVars
  BY <1>3 DEF loopVars, LoopInv
<1>4. CASE Produce
  BY <1>3, <1>4
  DEF Produce, Commit, Emit, AddToStream, FailToAdd, RedisConnection, ApiCrash
<1>5. ASSUME NEW w \in Workers, Idle(w) PROVE LoopInv'
  <2>1. CASE ReadBatch(w)
    <3>1. /\ cursor' \in cursor + 1 .. Len(stream)
          /\ \/ batch' = [batch EXCEPT ![w] = cursor + 1 .. cursor']
                /\ pc' = [pc EXCEPT ![w] = "next"]
             \/ UNCHANGED loopVars
      BY <2>1, ReadBatchKeeps
    <3>2. CASE /\ batch' = [batch EXCEPT ![w] = cursor + 1 .. cursor']
               /\ pc' = [pc EXCEPT ![w] = "next"]
      <4>1. /\ batch'[w] = cursor + 1 .. cursor' /\ pc'[w] = "next"
            /\ \A v \in Workers \ {w} : batch'[v] = batch[v] /\ pc'[v] = pc[v]
        BY <1>1, <3>2
      <4>2. cursor + 1 \in Nat /\ cursor' \in Nat
        BY <1>1, <3>1
      <4> QED
        BY <1>1, <1>2, <4>1, <4>2 DEF LoopInv
    <3> QED
      BY <1>3, <3>1, <3>2
  <2>2. CASE StartWorker(w) \/ FinishBatch(w) \/ Wake(w)
    <3>1. batch' = batch /\ \A v \in Workers : pc'[v] = IF v = w THEN "read" ELSE pc[v]
      BY <1>1, <2>2 DEF StartWorker, FinishBatch, Wake, Goto
    <3> QED
      BY <1>1, <1>2, <3>1 DEF LoopInv
  <2> QED
    BY <1>5, <2>1, <2>2 DEF Idle
<1>6. ASSUME NEW w \in Workers, Iterate(w) PROVE LoopInv'
  <2>1. batch[w] # {} /\ batch' = batch /\ \A v \in Workers \ {w} : pc'[v] = pc[v]
    BY <1>1, <1>6 DEF Iterate, Goto
  <2> QED
    BY <1>1, <1>2, <2>1 DEF LoopInv
<1>7. ASSUME NEW w \in Workers, Abort(w) \/ CrashWorker(w) PROVE LoopInv'
  <2>1. /\ batch'[w] = {} /\ pc'[w] \notin {"work", "record"}
        /\ \A v \in Workers \ {w} : batch'[v] = batch[v] /\ pc'[v] = pc[v]
    BY <1>1, <1>7 DEF Abort, CrashWorker, Goto
  <2>2. batch'[w] = 1 .. 0 /\ 0 \in Nat /\ 1 \in Nat
    BY <2>1
  <2> QED
    BY <1>1, <1>2, <2>1, <2>2 DEF LoopInv
<1>8. ASSUME NEW w \in Workers, NEW p \in batch[w], Acknowledge(w, p) PROVE LoopInv'
  <2>1. /\ batch'[w] = batch[w] \ {p} /\ pc'[w] = "next"
        /\ \A v \in Workers \ {w} : batch'[v] = batch[v] /\ pc'[v] = pc[v]
    BY <1>1, <1>8, AcknowledgeKeeps
  <2>2. PICK a \in Nat, b \in Nat : batch[w] = a .. b
    BY DEF LoopInv
  <2>3. a \in batch[w] /\ p \in Nat /\ a <= p /\ p <= a
    BY <1>1, <1>8, <2>2 DEF Acknowledge, IsCurrent
  <2>4. batch'[w] = a + 1 .. b /\ a + 1 \in Nat
    BY <2>1, <2>2, <2>3
  <2> QED
    BY <1>1, <1>2, <2>1, <2>4 DEF LoopInv
<1> QED
  BY <1>3, <1>4, <1>5, <1>6, <1>7, <1>8 DEF LoopNext, streamVars
-----------------------------------------------------------------------------
(* What the stream has of the changes that were committed. *)

\* Only what was committed is in the stream; unless a command is sent again, once at
\* most; and unless Redis or the process fails, it is there when emit is over.
EventsAreFaithful ==
    /\ \A p \in 1 .. Len(stream) : emitting[stream[p]] \in {"adding", "over"}
    /\ "resend" \notin Faults =>
         \A p, q \in 1 .. Len(stream) : stream[p] = stream[q] => p = q
    /\ Faults \cap {"redis", "crash"} = {} =>
         \A e \in Events : emitting[e] = "over" => \E p \in 1 .. Len(stream) : stream[p] = e

\* Without a command that is sent again, an event that is in the stream is not added
\* any more; without a failure of Redis, it is never taken to be down.
EmitInv ==
    /\ EventsAreFaithful
    /\ "resend" \notin Faults => \A p \in 1 .. Len(stream) : emitting[stream[p]] = "over"
    /\ "redis" \notin Faults => redisUp

\* No change has been committed at the start.
LEMMA EmitInitially == StreamInit => EmitInv
<1> SUFFICES ASSUME StreamInit PROVE EmitInv
  OBVIOUS
<1>1. stream = <<>> /\ Len(stream) = 0 /\ redisUp = TRUE /\ \A e \in Events : emitting[e] = "new"
  BY DEF StreamInit
<1> QED
  BY <1>1 DEF EmitInv, EventsAreFaithful

\* An emit appends its event and is over, unless a fault intervenes.
LEMMA EmitKeeps == StreamInv /\ EmitInv /\ [LoopNext]_streamVars => EmitInv'
<1> SUFFICES ASSUME StreamInv, EmitInv, [LoopNext]_streamVars PROVE EmitInv'
  OBVIOUS
<1>1. /\ emitting \in [Events -> {"new", "committed", "adding", "over"}] /\ stream \in Seq(Events)
      /\ Len(stream) \in Nat /\ \A p \in 1 .. Len(stream) : stream[p] \in Events
  BY DEF StreamInv, StreamTypeOK
<1>2. CASE UNCHANGED producerVars
  BY <1>2 DEF producerVars, EmitInv, EventsAreFaithful
<1>3. ASSUME UNCHANGED <<stream, redisUp>>,
             \A e \in Events : \/ emitting'[e] = emitting[e]
                               \/ emitting[e] \notin {"adding", "over"} /\ emitting'[e] # "over"
      PROVE  EmitInv'
  BY <1>1, <1>3 DEF EmitInv, EventsAreFaithful
<1>4. ASSUME NEW e \in Events, Commit(e) PROVE EmitInv'
  <2>1. UNCHANGED <<stream, redisUp>> /\ emitting[e] = "new"
        /\ \A x \in Events : emitting'[x] = IF x = e THEN "committed" ELSE emitting[x]
    BY <1>1, <1>4 DEF Commit
  <2> QED
    BY <1>3, <2>1
<1>5. ASSUME UNCHANGED stream, Faults \cap {"redis", "crash"} # {}, "redis" \notin Faults => redisUp',
             \A e \in Events : emitting[e] \in {"adding", "over"} => emitting'[e] \in {emitting[e], "over"}
      PROVE  EmitInv'
  BY <1>1, <1>5 DEF EmitInv, EventsAreFaithful
<1>6. ASSUME NEW e \in Events, Emit(e) PROVE EmitInv'
  <2>1. UNCHANGED <<stream, redisUp>> /\ emitting[e] = "committed"
        /\ \A x \in Events : emitting'[x] =
             IF x = e THEN (IF redisUp THEN "adding" ELSE "over") ELSE emitting[x]
    BY <1>1, <1>6 DEF Emit
  <2>2. CASE redisUp
    BY <1>3, <2>1, <2>2
  <2>3. CASE ~redisUp
    <3>1. "redis" \in Faults
      BY <2>3 DEF EmitInv
    <3> QED
      BY <1>5, <2>1, <3>1
  <2> QED
    BY <2>2, <2>3
<1>7. ASSUME NEW e \in Events, AddToStream(e) PROVE EmitInv'
  <2>1. /\ stream' = Append(stream, e) /\ emitting[e] = "adding" /\ redisUp' = redisUp
        /\ \/ \A x \in Events : emitting'[x] = IF x = e THEN "over" ELSE emitting[x]
           \/ "resend" \in Faults /\ emitting' = emitting
    BY <1>1, <1>7 DEF AddToStream
  <2>2. /\ Len(stream') = Len(stream) + 1 /\ stream'[Len(stream) + 1] = e
        /\ \A p \in 1 .. Len(stream) : stream'[p] = stream[p]
    BY <1>1, <2>1
  <2>3. \A p \in 1 .. Len(stream') : p = Len(stream) + 1 \/ p \in 1 .. Len(stream)
    BY <1>1, <2>2
  <2>4. \A p \in 1 .. Len(stream') : emitting'[stream'[p]] \in {"adding", "over"}
    BY <1>1, <2>1, <2>2, <2>3 DEF EmitInv, EventsAreFaithful
  <2>5. "resend" \notin Faults =>
          /\ \A p \in 1 .. Len(stream) : stream[p] # e
          /\ \A p \in 1 .. Len(stream') : emitting'[stream'[p]] = "over"
    BY <1>1, <2>1, <2>2, <2>3 DEF EmitInv
  <2>6. "resend" \notin Faults =>
          \A p, q \in 1 .. Len(stream') : stream'[p] = stream'[q] => p = q
    BY <2>2, <2>3, <2>5 DEF EmitInv, EventsAreFaithful
  <2>7. ASSUME Faults \cap {"redis", "crash"} = {}, NEW x \in Events, emitting'[x] = "over"
        PROVE  \E p \in 1 .. Len(stream') : stream'[p] = x
    <3>1. CASE x = e
      <4>1. Len(stream) + 1 \in 1 .. Len(stream')
        BY <1>1, <2>2
      <4> QED
        BY <2>2, <3>1, <4>1
    <3>2. CASE x # e
      <4>1. PICK p \in 1 .. Len(stream) : stream[p] = x
        BY <2>1, <2>7, <3>2 DEF EmitInv, EventsAreFaithful
      <4>2. p \in 1 .. Len(stream') /\ stream'[p] = x
        BY <1>1, <2>2, <4>1
      <4> QED
        BY <4>2
    <3> QED
      BY <3>1, <3>2
  <2> QED
    BY <2>1, <2>4, <2>5, <2>6, <2>7 DEF EmitInv, EventsAreFaithful
<1>8. ASSUME NEW e \in Events, FailToAdd(e) PROVE EmitInv'
  <2>1. "redis" \in Faults /\ stream' = stream
        /\ \A x \in Events : emitting'[x] = IF x = e THEN "over" ELSE emitting[x]
    BY <1>1, <1>8 DEF FailToAdd
  <2> QED
    BY <1>5, <2>1
<1>9. ASSUME NEW up \in BOOLEAN, RedisConnection(up) PROVE EmitInv'
  BY <1>5, <1>9 DEF RedisConnection
<1>10. CASE ApiCrash
  <2>1. "crash" \in Faults /\ stream' = stream /\ redisUp' = redisUp
        /\ \A x \in Events : emitting'[x] =
             IF emitting[x] \in {"committed", "adding"} THEN "over" ELSE emitting[x]
    BY <1>10 DEF ApiCrash
  <2> QED
    BY <1>5, <2>1 DEF EmitInv
<1>11. ASSUME NEW w \in Workers,
              \/ Idle(w) \/ Iterate(w) \/ Abort(w) \/ CrashWorker(w)
              \/ \E p \in batch[w] : Acknowledge(w, p)
       PROVE  UNCHANGED producerVars
  BY <1>11
  DEF Idle, StartWorker, ReadBatch, FinishBatch, Wake, Iterate, Abort, CrashWorker, Acknowledge
<1>12. CASE UNCHANGED streamVars
  BY <1>2, <1>12 DEF streamVars
<1> QED
  BY <1>2, <1>4, <1>6, <1>7, <1>8, <1>9, <1>10, <1>11, <1>12 DEF LoopNext, Produce
=============================================================================
