--------------------------- MODULE SocketScheduler ---------------------------
(***************************************************************************)
(* The TX scheduler of rateLimiter.c composed with the socket lifecycle of *)
(* udpSocket.c.  A caller holding a socket submits packets on it with      *)
(* queueOrSendPacket; a throttled packet waits in the TX queue, which      *)
(* records the descriptor number (PacketContainer.udpSocket), until        *)
(* freeSpaceInBucket_cb hands it to sendPacket on that number.  Meanwhile  *)
(* the owner may closeSocket it and createSocket may hand out the same     *)
(* number again (POSIX reuses the lowest free descriptor).                 *)
(*                                                                         *)
(* The ghost gen counts the sockets opened on each descriptor number, so   *)
(* sockOf, the socket each packet was submitted on, tells an old socket    *)
(* from a new one with the same number.                                    *)
(***************************************************************************)
EXTENDS Integers, Sequences

CONSTANTS USEC, BucketSizes, DrainRates, Lens, MaxPkts, MaxParamSets, Win32, ClockBack,
          MaxClockSteps,
          Texts, Form, LocalTexts, NULL, ANY, Fds,
          MaxOpens  \* bound on the sockets opened on one descriptor number

VARIABLES bucket_size, drain_rate, bytes_in_bucket, thenUsec, nowUsec,
          elapsed, txQueue, timers, sent, nextId, paramSets, ideal, refused,
          clockSteps, fdOpen, owned, bound, lastCall,
          gen,     \* [Fds -> Nat]: sockets opened so far on each number
          sockOf   \* sockOf[i]: descriptor and generation packet i was submitted on

RL   == INSTANCE RateLimiter
Sock == INSTANCE UdpSocket

rlVars   == <<bucket_size, drain_rate, bytes_in_bucket, thenUsec, nowUsec,
              elapsed, txQueue, timers, sent, nextId, paramSets, ideal, refused,
              clockSteps>>
sockVars == <<fdOpen, owned, bound, lastCall>>
vars     == <<rlVars, sockVars, gen, sockOf>>

\* queueOrSendPacket(fd, ...) by the holder of socket fd.
Submit(fd, len, hp) ==
    /\ owned[fd]
    /\ RL!QueueOrSendPacket(len, hp)
    /\ sockOf' = Append(sockOf, [fd |-> fd, gen |-> gen[fd]])
    /\ UNCHANGED <<sockVars, gen>>

\* createSocket; the descriptor it opens starts a new generation.
Open(t, r, b) ==
    /\ \A f \in Fds : gen[f] < MaxOpens
    /\ Sock!CreateSocket(t, r, b)
    /\ gen' = [f \in Fds |-> IF fdOpen'[f] /\ ~fdOpen[f] THEN gen[f] + 1
                                                      ELSE gen[f]]
    /\ UNCHANGED <<rlVars, sockOf>>

\* closeSocket: nothing in the TX queue or its timer is touched.
Close(fd) == Sock!CloseSocket(fd) /\ UNCHANGED <<rlVars, gen, sockOf>>

\* The scheduler's own steps leave the sockets alone.
SchedulerStep ==
    /\ \/ RL!FreeSpaceInBucketCb
       \/ \E bs \in BucketSizes, dr \in DrainRates : RL!SetOutputRateParams(bs, dr)
       \/ RL!Tick
       \/ \E d \in ClockBack : RL!StepBack(d)
    /\ UNCHANGED <<sockVars, gen, sockOf>>

Init == RL!Init /\ Sock!Init /\ gen = [f \in Fds |-> 0] /\ sockOf = <<>>

Next ==
    \/ \E fd \in Fds, len \in Lens, hp \in BOOLEAN : Submit(fd, len, hp)
    \/ \E t \in Texts \cup {NULL}, r \in BOOLEAN, b \in BOOLEAN : Open(t, r, b)
    \/ \E fd \in Fds : Close(fd)
    \/ SchedulerStep

Spec == Init /\ [][Next]_vars

-----------------------------------------------------------------------------
(* Properties.                                                             *)

\* The packets a step hands to sendPacket.
NewlySent == {sent'[k] : k \in (Len(sent) + 1)..Len(sent')}

\* Spec 5 (cancellation on close): every packet reaches sendPacket on the
\* socket it was submitted on, still open; closeSocket (udpSocket.c 486-493)
\* would have to drop or flush the packets queued for it and cancel the
\* timer of freeSpaceInBucket_cb (rateLimiter.c 64) for this to hold.
SentOnSubmittingSocket ==
    [][\A p \in NewlySent :
          LET s == sockOf'[p.id] IN fdOpen[s.fd] /\ gen[s.fd] = s.gen]_vars

=============================================================================
