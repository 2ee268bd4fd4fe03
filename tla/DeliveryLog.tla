---------------------------- MODULE DeliveryLog ----------------------------
(***************************************************************************)
(* What the webhook workers promise about a message, without processes,    *)
(* batches or crashes: it is read once, after all the messages before it;  *)
(* while it is open it may be sent to an endpoint, at most once to each;   *)
(* closing it is final.  No more is promised: a message may stay open for  *)
(* ever, and then nobody is sent it any more.                              *)
(***************************************************************************)
EXTENDS Naturals, Sequences

CONSTANTS Events, Endpoints

VARIABLES
    log,        \* the published events
    read,       \* how much of the log has been read
    open,       \* the messages read and not closed
    sent        \* <<message, endpoint>> for every attempt to deliver

vars == <<log, read, open, sent>>

Init ==
    /\ log = <<>>
    /\ read = 0
    /\ open = {}
    /\ sent = {}

Publish(e) ==
    /\ log' = Append(log, e)
    /\ UNCHANGED <<read, open, sent>>

Read(n) ==
    /\ n \in read + 1 .. Len(log)
    /\ read' = n
    /\ open' = open \cup (read + 1 .. n)
    /\ UNCHANGED <<log, sent>>

Send(p, ep) ==
    /\ p \in open
    /\ <<p, ep>> \notin sent
    /\ sent' = sent \cup {<<p, ep>>}
    /\ UNCHANGED <<log, read, open>>

Close(p) ==
    /\ p \in open
    /\ open' = open \ {p}
    /\ UNCHANGED <<log, read, sent>>

Next ==
    \/ \E e \in Events : Publish(e)
    \/ \E n \in 1 .. Len(log) : Read(n)
    \/ \E p \in open : Close(p) \/ \E ep \in Endpoints : Send(p, ep)

Spec == Init /\ [][Next]_vars
=============================================================================
