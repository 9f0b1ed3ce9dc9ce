---------------------------- MODULE RateLimiter ----------------------------
(***************************************************************************)
(* src/ml/util/rateLimiter.c: the token bucket (outputRateControl,         *)
(* setOutputRateParams) and the TX queue it guards (queueOrSendPacket,     *)
(* freeSpaceInBucket_cb, planFreeSpaceInBucketEvent).  Everything runs on  *)
(* the single libevent thread, so each function is one atomic action.      *)
(*                                                                         *)
(* Time is counted in ticks, USEC ticks to the second: a tick is the       *)
(* model's tv_usec.  The code's two timevals (now and bib_then) are kept   *)
(* as the two sub-second phases nowUsec, thenUsec and the number of ticks  *)
(* between them, so the split into tv_sec and tv_usec differences that the *)
(* leak formula computes is exact.  The queue, createPacketContainer,      *)
(* takePacketToSend and sendPacket live in ml.c, outside src/: the queue   *)
(* is a FIFO of packets and sendPacket appends to the history `sent`.      *)
(***************************************************************************)
EXTENDS Integers, Sequences, SequencesExt, FiniteSets

CONSTANTS
    USEC,          \* ticks per second (1000000 microseconds in the code)
    BucketSizes,   \* bucketsize arguments of setOutputRateParams (bytes)
    DrainRates,    \* drainrate arguments of setOutputRateParams (bits/s)
    Lens,          \* pktLen of submitted packets (bytes)
    MaxPkts,       \* bound on queueOrSendPacket calls
    MaxParamSets,  \* bound on setOutputRateParams calls
    ClockBack,     \* ticks by which the wall clock may step backwards
    MaxClockSteps, \* bound on the steps back of the wall clock
    Win32          \* TRUE for the _WIN32 build of udpSocket.c

ASSUME /\ USEC \in Nat \ {0}
       /\ BucketSizes \subseteq Nat /\ BucketSizes # {}
       /\ DrainRates \subseteq Nat /\ Lens \subseteq Nat \ {0}
       /\ MaxPkts \in Nat /\ MaxParamSets \in Nat /\ Win32 \in BOOLEAN
       /\ ClockBack \subseteq Nat \ {0} /\ MaxClockSteps \in Nat

MaxBucket == Max(BucketSizes)

\* Ticks of idleness after which outputRateControl always takes the reset
\* branch (line 142) whatever the bucket and rate: the clock stops counting.
IdleCap == (MaxBucket + 3) * USEC

\* How far now may lag behind bib_then after a step back of the wall clock.
MaxBack == IF ClockBack = {} THEN 0 ELSE Max(ClockBack)

Packet == [id : 1..MaxPkts, len : Lens, hp : BOOLEAN]

VARIABLES
    bucket_size, drain_rate, bytes_in_bucket,
    thenUsec,   \* bib_then.tv_usec
    nowUsec,    \* now.tv_usec
    elapsed,    \* now - bib_then in ticks, capped at IdleCap; negative
                \* after the wall clock stepped back
    txQueue,    \* the TX queue of ml.c
    timers,     \* ticks left on each pending freeSpaceInBucket_cb event
    sent,       \* history: packets passed to sendPacket, in order
    nextId,     \* number of queueOrSendPacket calls so far
    paramSets,  \* number of setOutputRateParams calls so far
    clockSteps, \* number of steps back of the wall clock so far
    ideal,      \* history: the bucket under exact leaking in real time,
                \* in 1/USEC bytes
    refused     \* history: packets sendPacketFinal refused after sendPacket

vars == <<bucket_size, drain_rate, bytes_in_bucket, thenUsec, nowUsec,
          elapsed, txQueue, timers, sent, nextId, paramSets, ideal, refused,
          clockSteps>>

-----------------------------------------------------------------------------
(* outputRateControl, lines 130-159.                                       *)

\* C integer division, which truncates toward zero.
CDiv(a, b) == IF a >= 0 THEN a \div b ELSE -((-a) \div b)

\* now.tv_sec - bib_then.tv_sec and now.tv_usec - bib_then.tv_usec.
DSec(tu, el)  == (tu + el) \div USEC
DUsec(tu, el) == ((tu + el) % USEC) - tu

\* Line 142: an idle gap longer than the bucket needs to drain empties it.
IdleReset(b, rate, tu, el) == DSec(tu, el) - 1 > b \div rate + 1

\* Lines 145-146: the bytes leaked since bib_then.
Leaked(rate, tu, el) ==
    rate * DSec(tu, el) + CDiv(rate * DUsec(tu, el), USEC)

\* Mutant of UnsignedExceeds: leaked taken as a signed number, so a negative
\* leak is subtracted and fills the bucket.
SignedExceeds(l, b) == l > b

\* Line 147: leaked is an unsigned int.  A negative leak (now before
\* bib_then) wraps to 2^32 + l, which exceeds any bucket.
UnsignedExceeds(l, b) == l < 0 \/ l > b

\* Mutant of Fits: the packet's own length is left out of the test.
FitsIgnoringLen(b, len, size) == b <= size

\* Line 152: the packet fits in what is left of the bucket.
Fits(b, len, size) == b + len <= size

\* The bucket after one call outputRateControl(len), and whether it said OK.
OutputRateControl(b, size, rate, tu, el, len) ==
    IF rate <= 0 THEN [bib |-> 0, ok |-> TRUE]
    ELSE LET lb == IF \/ IdleReset(b, rate, tu, el)
                      \/ UnsignedExceeds(Leaked(rate, tu, el), b)
                   THEN 0 ELSE b - Leaked(rate, tu, el)
         IN IF Fits(lb, len, size) THEN [bib |-> lb + len, ok |-> TRUE]
                                   ELSE [bib |-> lb, ok |-> FALSE]

\* The same call against a bucket that leaks exactly rate bytes a second
\* (the leak itself happens tick by tick, in Tick).
IdealAfter(ib, rate, len, ok) ==
    IF rate <= 0 THEN 0 ELSE IF ok THEN ib + len * USEC ELSE ib

\* Every call of outputRateControl sets bib_then = now.
Stamp == thenUsec' = nowUsec /\ elapsed' = 0

\* sendPacket ends in sendPacketFinal.  The POSIX one (udpSocket.c 257-285)
\* leaves the bucket alone; the _WIN32 one (udpSocket.c 546-570) first calls
\* outputRateControl(total_len) again, el ticks after phase tu, and returns
\* THROTTLE without writing when it says no (line 555).  The bucket after
\* the call, and whether the datagram was written.
Transmit(b, tu, el, len) ==
    IF Win32 THEN OutputRateControl(b, bucket_size, drain_rate, tu, el, len)
             ELSE [bib |-> b, ok |-> TRUE]

-----------------------------------------------------------------------------
(* The TX queue and its timer, lines 37-122.                               *)

\* planFreeSpaceInBucketEvent, lines 88-89: ticks until `bytes` have drained.
TxTime(bytes, rate) ==
    LET sec == bytes \div rate
    IN  sec * USEC + ((bytes - sec * rate) * USEC) \div rate

\* Mutant of MustQueue: a packet never waits behind the queue.
MustQueueNever(q) == FALSE

\* Mutant of Rearm: the wake-up is planned only when the loop left more
\* than one packet.
RearmIfSeveral(tm, q) ==
    IF Len(q) > 1 THEN Append(tm, TxTime(Head(q).len, drain_rate)) ELSE tm

\* Mutant of Rearm: the wake-up after draining is forgotten.
RearmNever(tm, q) == tm

\* Line 104: a packet that finds others waiting queues behind them.
MustQueue(q) == q # <<>>

\* Line 77: after draining, a non-empty queue gets a new wake-up.
Rearm(tm, q) == IF q # <<>> THEN Append(tm, TxTime(Head(q).len, drain_rate))
                            ELSE tm

\* The while loop of freeSpaceInBucket_cb, lines 53-73, from bucket b and
\* ideal bucket ib, el ticks after phase tu: the bucket after it, the packets
\* it sent and the queue it leaves.  Only the first test sees elapsed time.
RECURSIVE Drain(_, _, _, _, _)
Drain(b, ib, tu, el, q) ==
    IF q = <<>>
    THEN [bib |-> b, ideal |-> ib, out |-> <<>>, lost |-> <<>>, rest |-> q]
    ELSE LET r  == OutputRateControl(b, bucket_size, drain_rate, tu, el,
                                     Head(q).len)
             ib2 == IdealAfter(ib, drain_rate, Head(q).len, r.ok)
         IN IF ~r.ok
            THEN [bib |-> r.bib, ideal |-> ib2, out |-> <<>>, lost |-> <<>>,
                  rest |-> q]
            ELSE LET w == Transmit(r.bib, nowUsec, 0, Head(q).len)
                     d == Drain(w.bib, ib2, nowUsec, 0, Tail(q))
                 IN  [d EXCEPT !.out  = <<Head(q)>> \o @,
                               !.lost = IF w.ok THEN @ ELSE <<Head(q)>> \o @]

\* queueOrSendPacket(len, priority), lines 99-122.
QueueOrSendPacket(len, hp) ==
    /\ nextId < MaxPkts
    /\ LET p == [id |-> nextId + 1, len |-> len, hp |-> hp]
           r == OutputRateControl(bytes_in_bucket, bucket_size, drain_rate,
                                  thenUsec, elapsed, len)
       IN \/ /\ ~hp /\ MustQueue(txQueue)
             /\ txQueue' = Append(txQueue, p)
             /\ UNCHANGED <<bytes_in_bucket, ideal, thenUsec, elapsed,
                            timers, sent, refused>>
          \/ /\ ~hp /\ ~MustQueue(txQueue)
             /\ ideal' = IdealAfter(ideal, drain_rate, len, r.ok)
             /\ Stamp
             /\ IF r.ok
                THEN LET w == Transmit(r.bib, nowUsec, 0, len)
                     IN  /\ bytes_in_bucket' = w.bib
                         /\ sent' = Append(sent, p)
                         /\ refused' = IF w.ok THEN refused
                                                ELSE Append(refused, p)
                         /\ UNCHANGED <<txQueue, timers>>
                ELSE /\ bytes_in_bucket' = r.bib
                     /\ timers' = Append(timers, TxTime(len, drain_rate))
                     /\ txQueue' = Append(txQueue, p)
                     /\ UNCHANGED <<sent, refused>>
          \/ /\ hp
             /\ LET w == Transmit(bytes_in_bucket, thenUsec, elapsed, len)
                IN  /\ bytes_in_bucket' = w.bib
                    /\ refused' = IF w.ok THEN refused ELSE Append(refused, p)
             /\ sent' = Append(sent, p)
             /\ IF Win32 THEN Stamp ELSE UNCHANGED <<thenUsec, elapsed>>
             /\ UNCHANGED <<ideal, txQueue, timers>>
    /\ nextId' = nextId + 1
    /\ UNCHANGED <<bucket_size, drain_rate, nowUsec, paramSets, clockSteps>>

\* freeSpaceInBucket_cb, lines 37-80: libevent fires a due timer.
FreeSpaceInBucketCb ==
    \E i \in DOMAIN timers :
        /\ timers[i] = 0
        /\ LET d == Drain(bytes_in_bucket, ideal, thenUsec, elapsed, txQueue)
           IN  /\ bytes_in_bucket' = d.bib
               /\ ideal' = d.ideal
               /\ txQueue' = d.rest
               /\ sent' = sent \o d.out
               /\ refused' = refused \o d.lost
               /\ timers' = Rearm(RemoveAt(timers, i), d.rest)
        /\ IF txQueue = <<>> THEN UNCHANGED <<thenUsec, elapsed>> ELSE Stamp
        /\ UNCHANGED <<bucket_size, drain_rate, nowUsec, nextId, paramSets,
                       clockSteps>>

\* setOutputRateParams(bucketsize, drainrate), lines 124-128: the bucket is
\* resized, accounted at the old rate, then the rate changes.
SetOutputRateParams(bs, dr) ==
    /\ paramSets < MaxParamSets
    /\ LET r == OutputRateControl(bytes_in_bucket, bs, drain_rate,
                                  thenUsec, elapsed, 0)
       IN  /\ bytes_in_bucket' = r.bib
           /\ ideal' = IdealAfter(ideal, drain_rate, 0, r.ok)
    /\ Stamp
    /\ bucket_size' = bs
    /\ drain_rate' = dr \div 8
    /\ paramSets' = paramSets + 1
    /\ UNCHANGED <<nowUsec, txQueue, timers, sent, nextId, refused, clockSteps>>

\* One tick of real time: the wall clock advances, pending timers count
\* down and the exact bucket leaks drain_rate/USEC bytes.
Tick ==
    /\ nowUsec' = (nowUsec + 1) % USEC
    /\ elapsed' = IF elapsed < IdleCap THEN elapsed + 1 ELSE IdleCap
    /\ timers' = [i \in DOMAIN timers |-> IF timers[i] > 0 THEN timers[i] - 1
                                                          ELSE 0]
    /\ ideal' = IF ideal > drain_rate THEN ideal - drain_rate ELSE 0
    /\ UNCHANGED <<bucket_size, drain_rate, bytes_in_bucket, thenUsec,
                   txQueue, sent, nextId, paramSets, refused, clockSteps>>

\* The wall clock that gettimeofday reads is set back d ticks (settimeofday,
\* an NTP step), at most MaxClockSteps times, at most once between two
\* accounting calls and not after a gap the model no longer counts (IdleCap).  No real time passes, and
\* libevent's timers, which run on the monotonic clock, and the exact
\* bucket are untouched.
StepBack(d) ==
    /\ clockSteps < MaxClockSteps /\ elapsed \in 0..(IdleCap - 1)
    /\ nowUsec' = (nowUsec - d) % USEC
    /\ elapsed' = elapsed - d
    /\ clockSteps' = clockSteps + 1
    /\ UNCHANGED <<bucket_size, drain_rate, bytes_in_bucket, thenUsec, timers,
                   txQueue, sent, nextId, paramSets, ideal, refused>>

\* The statics of rateLimiter.c start at zero, bib_then at the epoch.
Init ==
    /\ bucket_size = 0 /\ drain_rate = 0 /\ bytes_in_bucket = 0
    /\ thenUsec = 0 /\ nowUsec \in 0..(USEC - 1) /\ elapsed = IdleCap
    /\ txQueue = <<>> /\ timers = <<>> /\ sent = <<>>
    /\ nextId = 0 /\ paramSets = 0 /\ ideal = 0 /\ refused = <<>>
    /\ clockSteps = 0

Next ==
    \/ \E len \in Lens, hp \in BOOLEAN : QueueOrSendPacket(len, hp)
    \/ FreeSpaceInBucketCb
    \/ \E bs \in BucketSizes, dr \in DrainRates : SetOutputRateParams(bs, dr)
    \/ Tick
    \/ \E d \in ClockBack : StepBack(d)

Spec == Init /\ [][Next]_vars

\* The clock always advances, and libevent runs a due timer's callback.
FairSpec == Spec /\ WF_vars(Tick) /\ WF_vars(FreeSpaceInBucketCb)

-----------------------------------------------------------------------------
(* Properties.                                                             *)

TypeOK ==
    /\ bucket_size \in BucketSizes \cup {0}
    /\ drain_rate \in {dr \div 8 : dr \in DrainRates} \cup {0}
    /\ bytes_in_bucket \in 0..MaxBucket
    /\ thenUsec \in 0..(USEC - 1) /\ nowUsec \in 0..(USEC - 1)
    /\ elapsed \in -MaxBack..IdleCap
    /\ txQueue \in Seq(Packet) /\ sent \in Seq(Packet)
    /\ timers \in Seq(Nat)
    /\ nextId \in 0..MaxPkts /\ paramSets \in 0..MaxParamSets
    /\ clockSteps \in 0..MaxClockSteps
    /\ ideal \in Nat /\ refused \in Seq(Packet)

\* FIFO (spec 5): the packets that are not high priority reach sendPacket
\* in the order queueOrSendPacket was called with them, whether they went
\* out at once or through the queue and freeSpaceInBucket_cb.
SentInFifoOrder ==
    LET np == SelectSeq(sent, LAMBDA p : ~p.hp)
    IN  \A k \in 1..(Len(np) - 1) : np[k].id < np[k + 1].id

\* Spec 3 and 5: exactly one freeSpaceInBucket_cb event is pending while the
\* TX queue holds packets and none while it is empty, so no queued packet
\* is stranded and timers are never stacked.
TimerIffQueued == Len(timers) = IF txQueue = <<>> THEN 0 ELSE 1

\* Spec 3: after every accounting step 0 <= bytes_in_bucket <= bucket_size.
BucketWithinCapacity == bytes_in_bucket <= bucket_size

\* Spec 8: the bucket drains at drain_rate.  At any moment, the bucket as
\* outputRateControl would account it now is within a byte of a bucket that
\* leaks exactly drain_rate bytes per second after the same admissions: the
\* truncated leak of lines 145-146 neither keeps a whole byte too many (a
\* positive tv_usec term rounded down) nor lets one out too many (a negative
\* one rounded up).
LeakTracksElapsedTime ==
    drain_rate > 0 =>
        LET b == OutputRateControl(bytes_in_bucket, bucket_size, drain_rate,
                                   thenUsec, elapsed, 0).bib
        IN  b * USEC - ideal \in -(USEC - 1)..(USEC - 1)

\* Spec 4.5: every packet put in the TX queue is eventually sent.
EveryQueuedPacketSent ==
    \A i \in 1..MaxPkts :
        (\E k \in DOMAIN txQueue : txQueue[k].id = i)
            ~> (\E k \in DOMAIN sent : sent[k].id = i)

\* Spec 4.5 and 7: a packet the scheduler let through, and a high-priority
\* packet, which bypasses rate control, is written by sendPacket: the
\* transport never drops a packet on its own account, and a THROTTLE from
\* the socket layer never follows an admission.
AdmittedPacketsWritten == refused = <<>>

\* The scheduler seen as the abstract channel of TxFifo: its backlog is the
\* TX queue, its output the packets without the HP flag that reached
\* sendPacket.
Fifo == INSTANCE TxFifo WITH Msg <- Packet, backlog <- txQueue,
                             out <- SelectSeq(sent, LAMBDA p : ~p.hp)

\* queueOrSendPacket, freeSpaceInBucket_cb and setOutputRateParams together
\* implement TxFifo: a packet goes out at once only when nothing waits
\* (line 104), the callback's loop sends a prefix of the queue in order
\* (lines 53-73), and a non-empty queue is eventually served by the
\* re-armed timer (line 77).
ImplementsTxFifo == Fifo!FairSpec

=============================================================================
