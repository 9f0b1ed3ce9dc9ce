------------------------------- MODULE TxFifo -------------------------------
(***************************************************************************)
(* What the TX path promises its callers (spec 4.5 and 5), with no bucket, *)
(* timer or clock: a packet either waits at the end of the backlog or, when *)
(* nothing waits, goes out at once; the backlog leaves from its head, in    *)
(* order, a run of packets at a time; and a non-empty backlog is           *)
(* eventually served.  Packets that bypass the queue are not part of it.    *)
(***************************************************************************)
EXTENDS Naturals, Sequences

CONSTANT Msg        \* the packets

VARIABLES
    backlog,  \* packets waiting, oldest first
    out       \* packets handed to the socket, in order

fifoVars == <<backlog, out>>

Init == backlog = <<>> /\ out = <<>>

\* A packet joins the end of the backlog.
Enqueue(m) == backlog' = Append(backlog, m) /\ UNCHANGED out

\* A packet goes out at once; only allowed when nothing is waiting.
SendNow(m) == backlog = <<>> /\ out' = Append(out, m) /\ UNCHANGED backlog

\* The first k waiting packets go out together, oldest first.
Deliver ==
    \E k \in 1..Len(backlog) :
        /\ out' = out \o SubSeq(backlog, 1, k)
        /\ backlog' = SubSeq(backlog, k + 1, Len(backlog))

Next == \E m \in Msg : Enqueue(m) \/ SendNow(m) \/ Deliver

\* A waiting backlog is served eventually.
FairSpec == Init /\ [][Next]_fifoVars /\ WF_fifoVars(Deliver)

=============================================================================
