# TLA+ models of the PeerStreamer messaging-layer transport

This directory holds TLA+ models of the transport core in `src/ml/util/`:
- `rateLimiter.c`: the token bucket and the TX queue it guards;
- `udpSocket.c`: address conversion, the socket lifecycle, send/receive, the error-queue decoder, and the local-address autodetection.

The TLC configurations check these models. `PROJECT.json` lists the components, runs, mutants, the map from definitions to source lines, the findings and the hazards.

## The system

Everything runs on one libevent thread. Every function below is therefore one atomic step, and concurrency comes only from the order in which these events arrive:
- caller calls;
- timer callbacks;
- readability callbacks;
- the network.

| Part (spec name) | Code | State | Operations |
|---|---|---|---|
| TokenBucket | rateLimiter.c 27-33, 124-159 | `bucket_size`, `drain_rate`, `bytes_in_bucket`, `bib_then` (process globals) | `outputRateControl(len)`, `setOutputRateParams(size, bits/s)` |
| TransmissionScheduler | rateLimiter.c 37-122 | the TX queue of ml.c (outside src/), pending libevent timers | `queueOrSendPacket`, `freeSpaceInBucket_cb`, `planFreeSpaceInBucketEvent` |
| AddressResolver | udpSocket.c 22-135 | none | `resolve_hostname`, `address_family`, `init_sockaddr`, `get_sockaddr_*` |
| SocketEndpoint | udpSocket.c 137-285, 416-493 | the descriptor, its options and its binding | `createSocket`, `sendPacketFinal`, `recvPacket`, `getTTL`, `closeSocket` |
| ErrorQueueDecoder | udpSocket.c 295-412 | the kernel's error queue and `sk_err` | `handleSocketError` |
| mlAutodetectIPAddress | udpSocket.c 495-543 | the descriptors it leaves open | `mlAutodetectIPAddress` |

How the parts interact:
1. `queueOrSendPacket` asks the bucket whether to send now.
2. If the bucket says no, it queues the packet and arms a one-shot timer sized to when the head of the queue fits.
3. The timer's callback drains the queue while the bucket admits, then re-arms.
4. `sendPacket` (in ml.c) ends in `sendPacketFinal`.
5. A failed `recvmsg` in `recvPacket` calls `handleSocketError`. That function reads one entry of the error queue and raises the caller's path-MTU callback for an ICMP "fragmentation needed".

## Modules

**`RateLimiter.tla`** models TokenBucket and TransmissionScheduler.

Time is counted in ticks, `USEC` per second. The model keeps:
- the sub-second phases of `now` and `bib_then` (`nowUsec`, `thenUsec`);
- the ticks between them (`elapsed`).

This makes the code's split of the leak into a `tv_sec` difference and a (possibly negative) `tv_usec` difference exact, including C's truncating division (`CDiv`, `Leaked`). `elapsed` stops counting at `IdleCap`, a point past which line 142 always resets the bucket.

`OutputRateControl` is the whole function as an operator returning the new bucket and the verdict. Every action that calls it also performs `Stamp` (`bib_then = now`).

The actions are the code's entry points:
- `QueueOrSendPacket(len, hp)`. Its three disjuncts are: queue behind others; admit-or-queue-and-plan on an empty queue; high-priority bypass.
- `FreeSpaceInBucketCb`. A due timer fires. The recursive `Drain` is the `while` loop of lines 53-73. `Rearm` is line 77.
- `SetOutputRateParams(bs, dr)`. It accounts with the new size at the old rate, then sets the rate.
- `Tick`. One tick of real time: the wall clock advances, pending timers count down, and the exact bucket `ideal` leaks.
- `StepBack(d)`. The wall clock that `gettimeofday` reads is set back `d` ticks, as by `settimeofday` or an NTP step. libevent's timers run on the monotonic clock and `ideal` runs on real time, so neither moves. `elapsed` becomes negative. Line 147's unsigned `leaked` then wraps (`UnsignedExceeds`), and the bucket is emptied. The steps are counted (`clockSteps`) and bounded by `MaxClockSteps`.

Packets carry an id, a length and the HP flag. `sent` is the history of what reached `sendPacket`. The ghost `ideal` holds the bucket under exact leaking in real time, in 1/`USEC` bytes, for the drift property. That property compares it with the bucket as `outputRateControl` would account it at that moment, because the code only leaks the bucket when it is called.

The constant `Win32` selects the backend of `sendPacketFinal`, which every send ends in:
- on POSIX, `Transmit` writes the packet and leaves the bucket alone;
- in the `_WIN32` build (udpSocket.c 546-570), `Transmit` runs `outputRateControl` again and refuses with `THROTTLE` when the bucket says no.

`refused` records packets refused this way after the scheduler admitted them. In `Drain`, a refused packet is still removed and destroyed, as line 64 ignores the result.

**`UdpSocket.tla`** models AddressResolver as `createSocket` uses it, and the socket lifecycle.

An address text is a model value. Its `Form` says which parser accepts it:
- dotted quad;
- a short IPv4 form only `getaddrinfo` takes;
- an IPv6 literal;
- a scoped IPv6 form;
- a name;
- junk.

Under that abstraction:
- `AddressFamily` is `address_family`.
- `Pton` is `inet_pton`.
- `InitSockaddr` is `init_sockaddr` on createSocket's zeroed structure.
- `CreateSocket(t, reuseOk, bindOk)` is `createSocket`, with the outcomes of `setsockopt(SO_REUSEADDR)` and `bind` chosen by the environment. `CreateResult` is its return value.
- `CloseSocket` is `closeSocket`.

Descriptors come from `Fds`, lowest free first.

**`ErrorQueue.tla`** models SendPacketFinal, RecvPacket and HandleSocketError on one socket.

The kernel is the environment:
- datagrams arrive (`DataArrives`);
- routers answer in-flight datagrams with ICMP errors (`IcmpArrives`), which queue an entry and raise `sk_err`;
- `recvmsg` fails once per pending `sk_err`;
- reading the error queue re-raises `sk_err` while an ICMP entry remains;
- `sendmsg` with `EMSGSIZE` queues a local entry.

`HandleSocketError(bufsize)` reads exactly one entry and drops one that carries no payload. `Decode` is the cmsg loop. `cbCalls` records each callback with the size it was given and the size of the datagram the router refused.

**`Autodetect.tla`** models `mlAutodetectIPAddress` (Linux build). Each call is one action, `Call(routes, ifs)`, whose routing table and `getifaddrs` list the environment chooses:
- `ScanRoutes` is the `fgets`/`sscanf` loop over `/proc/net/route`, as a RECURSIVE operator over the lines. Its break test `!strcpy(dst, "00000000")` is always false, so the loop ends with the interface of the last line.
- `FirstInetAddr` is the walk of the `getifaddrs` list, using `SelectInSeq`.
- `MlAutodetectIPAddress` is the whole function, NULL returns included.
- `leakedFiles` counts the FILEs the function never closes. `fopen` and `getifaddrs` fail once the descriptors (`FreeFds`) are used up.

An address is the position of its entry in the list, and 0 stands for NULL.

**`TxFifo.tla`** is the abstract specification of the TX path: what spec 4.5 and 5 promise, with no bucket, timer or clock.
- A packet either joins the end of the backlog (`Enqueue`) or, when nothing waits, goes out at once (`SendNow`).
- `Deliver` sends a run of packets from the head of the backlog.
- Weak fairness on `Deliver` says a waiting backlog is eventually served.

`RateLimiter` instantiates it as `Fifo` with the refinement mapping `backlog <- txQueue` and `out <- SelectSeq(sent, LAMBDA p : ~p.hp)`. `ImplementsTxFifo == Fifo!FairSpec` is checked as a PROPERTY:
- HP packets and the steps of the clock, the timers and `setOutputRateParams` are stuttering steps of the abstract channel;
- a drain that sends k packets is one `Deliver`.

**`SocketScheduler.tla`** composes the two components that share a descriptor number. It holds `RL == INSTANCE RateLimiter` and `Sock == INSTANCE UdpSocket` over the union of their variables. Its actions are:
- `Submit(fd, len, hp)`: the holder of socket `fd` calls `queueOrSendPacket`;
- `Open`: `createSocket`;
- `Close`: `closeSocket`, which touches neither the TX queue nor its timer, as in the code;
- `SchedulerStep`: the timer callback, the rate change and the clock.

Two ghosts support its property:
- `gen` counts the sockets opened on each number;
- `sockOf` records the socket each packet was submitted on.

The `MC*.tla` modules give the constants values. Each `.cfg` is one run.

## Runs

| Run | Expect | What it shows |
|---|---|---|
| rl_main | pass | The wall clock may step back once. Normal packets leave in submission order (`SentInFifoOrder`). Exactly one wake-up is pending while the queue is non-empty, so timers are never stacked and the queue is never stranded (`TimerIffQueued`). The bucket stays within a fixed capacity (`BucketWithinCapacity`). With packets no longer than the bucket, every queued packet is eventually sent (`EveryQueuedPacketSent`). The scheduler refines `TxFifo`, in both safety and fairness (`ImplementsTxFifo`). |
| rl_oversize | violation | A packet longer than `bucket_size` is queued forever and blocks the queue. |
| rl_drift | violation | The leak is not within a byte of `drain_rate` × elapsed time. Per-call truncation of two quarter-second leaks leaves a byte in the bucket that exact leaking has drained. Checked on its own, the other direction is also violated: a negative `tv_usec` difference rounded toward zero lets a byte out early on each call that straddles a second boundary. |
| rl_win32 | violation | With `Win32`, a 3-byte packet admitted into an empty 3-byte bucket is charged again by `sendPacketFinal` and refused (`AdmittedPacketsWritten`). |
| sock_safety | pass | A descriptor handed out is open and bound to the wildcard or a local address. |
| sock_leak | violation | The `setsockopt` and `bind` failure paths leak the socket. |
| sock_bind | violation | `createSocket(port, NULL)` fails. A short or scoped literal binds the wildcard. |
| eq_pass | pass | IPv4: the callback fires once for each fragmentation-needed error and for nothing else, and every such error is eventually reported. |
| eq_size | violation | The callback raised from `recvPacket` gets size -1. |
| eq_ipv6 | violation | IPv6 sockets never report a path-MTU error. |
| ad_route | violation | `mlAutodetectIPAddress` returns the address of the interface named on the last line of `/proc/net/route`, not of the default route's interface (`AutodetectFindsDefaultRoute`). |
| sched_reuse | violation | A packet queued on a socket whose owner closes it is still handed to `sendPacket` on that number, whether the number is closed or already reused by a new socket (`SentOnSubmittingSocket`). |

`PROJECT.json` ("findings") explains each violation against the spec or the header.

A shrinking `setOutputRateParams` leaves `bytes_in_bucket` above the new `bucket_size` until it drains. No run is kept for it. With `BucketSizes <- MC_ResizeBuckets`, TLC reports it against `BucketWithinCapacity` (see the hazard at rateLimiter.c:125).

Every property of a passing run has a mutant: a plausible bug in a mapped definition that TLC then catches. The mutants are:
- the admission test ignoring the length;
- `leaked` taken as a signed number, so a clock step back fills the bucket;
- a packet never waiting behind the queue;
- a forgotten or partial re-arm;
- a dropped bind error check;
- `EAGAIN` taken for data;
- a missing ICMP code check;
- a failed read that skips `handleSocketError`.

`MustQueueNever` also breaks `ImplementsTxFifo`: a packet that overtakes the queue is a `SendNow` with a non-empty backlog.

## Bounds and why they suffice

**RateLimiter: two or four ticks per second.**
- `rl_main` uses two ticks per second with rates of 0, 1 and 3 B/s. Two ticks already give negative `tv_usec` differences and a truncated half-second leak. The properties of `rl_main` do not depend on the leak's rounding, and four ticks per second would push the liveness mutant past two minutes.
- The drift, oversize and Windows runs use four ticks per second with rates 0, 1 and 3 B/s, so that successive negative `tv_usec` differences can occur.
- The rates cover the disabled limiter, a rate that divides every length, and one that does not.
- Packet lengths 1 and 3 go into a 3-byte bucket, so one packet fills it and two do not fit together.
- Three packets allow one sent, one queued and one queued behind it.
- Two `setOutputRateParams` calls allow a rate change while packets wait.
- `IdleCap` keeps the clock finite without losing a behaviour: beyond it the reset branch is always taken.
- `rl_main` lets the wall clock step back once by one tick. One tick is enough to make `elapsed` negative, whether or not the step crosses a second boundary.

**UdpSocket: one text of each parser class and two descriptors.**
- There is a local and a foreign IPv4 address.
- Two descriptors are enough to show a leaked one making the next call fail.

**SocketScheduler: one local address and one descriptor number.**
- A closed socket's number is the next one `createSocket` returns.
- A one-byte bucket at 1 B/s makes the second of two packets wait for a timer.
- `MaxOpens = 2` allows a close followed by a reopen.

**Autodetect: two interfaces, up to two routes and two `getifaddrs` entries, three free descriptors.**
- A default route and another route can name different interfaces.
- An interface can have an IPv4 entry, an IPv6 entry, or an entry with no address.
- Three descriptors are used up after a few calls.

**ErrorQueue: datagrams of 1000, 1450 and 9000 bytes.**
- The sizes fit everywhere, exceed only the 1400-byte path, or exceed the 1500-byte interface.
- With four events, two errors can be queued behind each other and behind a local entry.

## Fairness

`RateLimiter`'s `FairSpec` assumes two things:
- the clock advances (`WF Tick`);
- libevent eventually runs a due timer's callback (`WF FreeSpaceInBucketCb`). A single-threaded loop that keeps dispatching guarantees this.

`ErrorQueue`'s `FairSpec` assumes libevent keeps calling the read callback while the socket is readable (`WF RecvPacket`). Readability includes a pending `sk_err`.

No fairness is assumed for callers, the network or the wall clock's steps back.

Steps back are bounded (`MaxClockSteps`). A clock that kept being set back before it passed `bib_then` would hold the bucket full forever. That is an environment no code could serve, not a behaviour of this code.

`eq_*` runs use `CHECK_DEADLOCK FALSE`, because a socket with nothing to read legitimately sits idle.

## Not modelled, and why

- `resolve_hostname`, `get_sockaddr_ip` and `get_sockaddr_port` are pure conversions that change no state.
- `getTTL` and the TTL copy in `recvPacket` copy a value.
- `mlAutodetectIPAddress` outside Linux (lines 528-540) is a `gethostname`/`gethostbyname` lookup with no state of its own. The memory of the `getifaddrs` list it leaks is not modelled either.
- In the `_WIN32` backend, only `sendPacketFinal` is modelled. `recvPacket` changes no state the models hold: it never calls `handleSocketError`, and its `if(err = WSAECONNRESET)` only selects a log line. As a result, no path-MTU error is ever reported on Windows. `getTTL` returns a constant.
- In `ErrorQueue`, `SendResult` returns only `OK` or `MSGLEN`. A send failing for another reason (`FAILURE`) is left out. So is the path MTU the kernel caches after an ICMP report, which decides whether a later send is refused. No property depends on either: the runs are about which reports reach the error queue, not about later sends.
- `repoclient.h`, the monitoring plugins and the tests are outside the transport layer (spec 1).
- Not modelled as environment behaviour:
  - `evtimer_new` failing, an allocation failure after which `event_add(NULL)` crashes the process;
  - the gap between the `gettimeofday` calls inside one callback, which is modelled as zero.

## Plan for later sittings

Done:
- the abstract channel `TxFifo` with its refinement;
- the `SocketScheduler` composition;
- the Windows `sendPacketFinal`;
- the wall clock stepping back;
- `mlAutodetectIPAddress`.

1. The zero-payload ICMP entry that `handleSocketError` consumes without decoding, and local `EMSGSIZE` never reaching the path-MTU callback (spec 8's 9000-byte scenario).
