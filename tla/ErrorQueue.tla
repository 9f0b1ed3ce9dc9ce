---------------------------- MODULE ErrorQueue ----------------------------
(***************************************************************************)
(* src/ml/util/udpSocket.c, POSIX branch: sendPacketFinal, recvPacket and  *)
(* handleSocketError on one socket made by createSocket, which enables     *)
(* IP_MTU_DISCOVER (DF bit), IP_RECVTTL and IP_RECVERR at the IPPROTO_IP    *)
(* level only.                                                             *)
(*                                                                         *)
(* The kernel side is the environment: datagrams and ICMP errors arrive,   *)
(* an ICMP error on a socket with IP_RECVERR is queued on its error queue  *)
(* and raises the pending socket error sk_err, which the next recvmsg      *)
(* returns once; reading the error queue raises sk_err again while an      *)
(* ICMP entry is left.  A datagram larger than the local MTU is refused by *)
(* sendmsg with EMSGSIZE and leaves a local entry on the error queue.  An  *)
(* ICMP entry carries the part of the offending datagram's payload the     *)
(* router quoted (Quotes): recvmsg(MSG_ERRQUEUE) returns that many bytes.  *)
(***************************************************************************)
EXTENDS Integers, Sequences, SequencesExt, FiniteSets

CONSTANTS
    Family,    \* the socket's family, "AF_INET" or "AF_INET6"
    Sizes,     \* sizes of datagrams the caller sends (bytes)
    LocalMtu,  \* MTU of the outgoing interface
    PathMtu,   \* smallest MTU on the path to the peer
    Quotes,    \* payload bytes an ICMP error may quote
    MaxEvents  \* bound on sends and arrivals

ASSUME /\ Family \in {"AF_INET", "AF_INET6"}
       /\ Sizes \subseteq Nat \ {0} /\ Quotes \subseteq Nat
       /\ PathMtu <= LocalMtu /\ MaxEvents \in Nat

\* ICMP type and code: destination unreachable, fragmentation needed (the
\* path-MTU signal) and port unreachable.
FragNeeded  == [type |-> 3, code |-> 4]
PortUnreach == [type |-> 3, code |-> 3]

Entry == [origin : {"local", "icmp"}, type : Int, code : Int, quote : Nat,
          size : Sizes, id : 1..MaxEvents]

VARIABLES
    inFlight,  \* datagrams sent and not yet answered: [id, size]
    errQ,      \* the socket's error queue
    skErr,     \* a socket error is pending (sk_err # 0)
    rxData,    \* datagrams waiting in the receive queue
    events,    \* sends and arrivals so far
    icmpIn,    \* history: ids of fragmentation-needed errors for this socket
    cbCalls    \* history: each pmtu callback: entry id, size passed, datagram size

vars == <<inFlight, errQ, skErr, rxData, events, icmpIn, cbCalls>>

\* IP_RECVERR is set at the IPPROTO_IP level (line 209): only IPv4 errors
\* reach the error queue.
RecvErr == Family = "AF_INET"

-----------------------------------------------------------------------------
(* sendPacketFinal, lines 257-285.                                         *)

\* The result sendmsg gives for a datagram of `size` bytes, mapped as in
\* lines 274-284: EMSGSIZE is MSGLEN, any other errno FAILURE.
SendResult(size) == IF Family = "AF_INET" /\ size > LocalMtu THEN "MSGLEN"
                                                             ELSE "OK"

SendPacketFinal(size) ==
    /\ events < MaxEvents
    /\ events' = events + 1
    /\ IF SendResult(size) = "MSGLEN"
       THEN /\ errQ' = IF RecvErr
                       THEN Append(errQ, [origin |-> "local", type |-> 0,
                                          code |-> 0, quote |-> 0,
                                          size |-> size, id |-> events + 1])
                       ELSE errQ
            /\ UNCHANGED inFlight
       ELSE /\ inFlight' = inFlight \cup {[id |-> events + 1, size |-> size]}
            /\ UNCHANGED errQ
    /\ UNCHANGED <<skErr, rxData, icmpIn, cbCalls>>

-----------------------------------------------------------------------------
(* The network and the kernel.                                             *)

\* A router answers an in-flight datagram with an ICMP error: frag-needed
\* when it is larger than the path MTU, port unreachable from the peer.
IcmpArrives(d, q) ==
    /\ LET kind == IF d.size > PathMtu THEN FragNeeded ELSE PortUnreach
       IN  /\ errQ' = IF RecvErr
                      THEN Append(errQ, [origin |-> "icmp", type |-> kind.type,
                                         code |-> kind.code, quote |-> q,
                                         size |-> d.size, id |-> d.id])
                      ELSE errQ
           /\ skErr' = (skErr \/ RecvErr)
           /\ icmpIn' = IF kind = FragNeeded THEN icmpIn \cup {d.id} ELSE icmpIn
    /\ inFlight' = inFlight \ {d}
    /\ UNCHANGED <<rxData, events, cbCalls>>

DataArrives ==
    /\ events < MaxEvents
    /\ events' = events + 1
    /\ rxData' = rxData + 1
    /\ UNCHANGED <<inFlight, errQ, skErr, icmpIn, cbCalls>>

-----------------------------------------------------------------------------
(* handleSocketError, lines 295-412, and recvPacket, lines 416-483.        *)

\* Mutant of IsPmtuError: the ICMP code is not checked.
IsPmtuErrorTypeOnly(e) == e.type = 3

\* Line 369: the ICMP error is the path-MTU signal.
IsPmtuError(e) == e.type = 3 /\ e.code = 4

\* The cmsg loop, lines 332-380, over the one entry read: only an ICMP
\* frag-needed entry raises the callback, with *bufsize as its size.
Decode(e, bufsize) ==
    IF e.origin = "icmp" /\ IsPmtuError(e)
    THEN cbCalls' = Append(cbCalls, [id |-> e.id, size |-> bufsize,
                                     dgram |-> e.size])
    ELSE UNCHANGED cbCalls

\* handleSocketError(fd, iofunc, buf, bufsize, ...): one non-blocking read of
\* the error queue (line 328); nothing read, or no payload, returns -1
\* (line 329); the retry of lines 390-410 is compiled out.
HandleSocketError(bufsize) ==
    IF errQ = <<>> THEN UNCHANGED <<errQ, cbCalls>> /\ skErr' = FALSE
    ELSE /\ errQ' = Tail(errQ)
         /\ skErr' = (Tail(errQ) # <<>> /\ Head(Tail(errQ)).origin = "icmp")
         /\ IF Head(errQ).quote <= 0 THEN UNCHANGED cbCalls
                                     ELSE Decode(Head(errQ), bufsize)

\* Mutant of OnRecvFailure: the error queue is not consulted.
OnRecvFailureSkip == UNCHANGED <<errQ, cbCalls>> /\ skErr' = FALSE

\* Line 465: on a failed read, recvPacket hands its own *recvSize, already
\* overwritten with recvmsg's -1 (line 452), to handleSocketError.
OnRecvFailure == HandleSocketError(-1)

\* Mutant of RecvmsgFails: only a pending socket error fails the read, an
\* empty receive queue (EAGAIN) is taken for a datagram.
RecvmsgFailsOnErrorOnly == skErr

\* Lines 449-454: recvmsg returns a negative count (the test of line 454).
RecvmsgFails == skErr \/ rxData = 0

\* recvPacket, lines 416-483, called by the event loop while the socket is
\* readable: a pending socket error fails the read, so does an empty queue
\* (EAGAIN); otherwise one datagram is read with its TTL.
RecvPacket ==
    /\ rxData > 0 \/ skErr \/ errQ # <<>>
    /\ IF ~RecvmsgFails
       THEN rxData' = rxData - 1 /\ UNCHANGED <<errQ, skErr, cbCalls>>
       ELSE OnRecvFailure /\ UNCHANGED rxData
    /\ UNCHANGED <<inFlight, events, icmpIn>>

Init ==
    /\ inFlight = {} /\ errQ = <<>> /\ skErr = FALSE /\ rxData = 0
    /\ events = 0 /\ icmpIn = {} /\ cbCalls = <<>>

Next ==
    \/ \E s \in Sizes : SendPacketFinal(s)
    \/ \E d \in inFlight, q \in Quotes : IcmpArrives(d, q)
    \/ DataArrives
    \/ RecvPacket

Spec == Init /\ [][Next]_vars

\* libevent keeps calling the read callback while the socket is readable.
FairSpec == Spec /\ WF_vars(RecvPacket)

-----------------------------------------------------------------------------
(* Properties.                                                             *)

TypeOK ==
    /\ inFlight \subseteq [id : 1..MaxEvents, size : Sizes]
    /\ errQ \in Seq(Entry) /\ skErr \in BOOLEAN
    /\ rxData \in 0..MaxEvents /\ events \in 0..MaxEvents
    /\ icmpIn \subseteq 1..MaxEvents
    /\ cbCalls \in Seq([id : 1..MaxEvents, size : Int, dgram : Sizes])

\* Spec 4.3: the path-MTU callback is raised only for a fragmentation-
\* needed ICMP error about this socket's datagram, and at most once for
\* each, never for a local EMSGSIZE or another ICMP error.
CallbackOnlyForFragNeeded ==
    /\ \A k \in DOMAIN cbCalls : cbCalls[k].id \in icmpIn
    /\ IsInjective([k \in DOMAIN cbCalls |-> cbCalls[k].id])

\* Spec 4.3 and 8: the callback gets the size of the datagram the router
\* could not forward.
CallbackGetsDatagramSize ==
    \A k \in DOMAIN cbCalls : cbCalls[k].size = cbCalls[k].dgram

\* Spec 4.3 and 6: every fragmentation-needed error that reaches the host
\* for this socket is eventually reported to the path-MTU callback.
EveryFragNeededReported ==
    \A i \in 1..MaxEvents :
        i \in icmpIn ~> \E k \in DOMAIN cbCalls : cbCalls[k].id = i

=============================================================================
