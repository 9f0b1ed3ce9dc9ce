----------------------------- MODULE UdpSocket -----------------------------
(***************************************************************************)
(* src/ml/util/udpSocket.c, POSIX branch: the address conversion that     *)
(* createSocket relies on (address_family, init_sockaddr) and the socket   *)
(* lifecycle (createSocket, closeSocket).                                  *)
(*                                                                         *)
(* An address text is a model value whose Form says which parser accepts   *)
(* it: "v4" is a dotted quad, "v4short" a form getaddrinfo accepts and     *)
(* inet_pton(AF_INET) rejects (e.g. "10.1"), "v6" an IPv6 literal,         *)
(* "v6scoped" one with a zone suffix that only getaddrinfo accepts         *)
(* (e.g. "fe80::1%eth0"), "name" a resolvable host name, "junk" anything   *)
(* else.                                                                  *)
(* File descriptors come from the set Fds, lowest free first, as POSIX     *)
(* socket() allocates them.                                                *)
(***************************************************************************)
EXTENDS Integers, Sequences, FiniteSets, FiniteSetsExt

CONSTANTS
    Texts,       \* address texts a caller may pass
    Form,        \* [Texts -> forms above]
    LocalTexts,  \* addresses configured on a local interface
    NULL,        \* the NULL pointer
    ANY,         \* the wildcard address INADDR_ANY / in6addr_any
    Fds          \* descriptors the process may get

ASSUME /\ Form \in [Texts -> {"v4", "v4short", "v6", "v6scoped", "name", "junk"}]
       /\ Fds \subseteq Nat /\ Fds # {}

VARIABLES
    fdOpen,   \* [Fds -> BOOLEAN]: the descriptor is an open socket
    owned,    \* [Fds -> BOOLEAN]: its number was returned to a caller
    bound,    \* [Fds -> Texts \cup {ANY, NULL}]: the address it is bound to
    lastCall  \* history: the latest createSocket call, its result and binding

vars == <<fdOpen, owned, bound, lastCall>>

-----------------------------------------------------------------------------
(* Address conversion, lines 59-112.                                       *)

\* address_family, lines 59-73: getaddrinfo with AI_NUMERICHOST; a NULL
\* node with a NULL service is EAI_NONAME, so NULL is AF_UNSPEC too.
AddressFamily(t) ==
    IF t = NULL THEN "AF_UNSPEC"
    ELSE CASE Form[t] \in {"v4", "v4short"}  -> "AF_INET"
           [] Form[t] \in {"v6", "v6scoped"} -> "AF_INET6"
           [] OTHER                          -> "AF_UNSPEC"

\* inet_pton(af, t): 1 for the strict literal of that family, else 0.
Pton(af, t) == IF (af = "AF_INET" /\ Form[t] = "v4")
                  \/ (af = "AF_INET6" /\ Form[t] = "v6") THEN 1 ELSE 0

\* init_sockaddr(addr, port, t), lines 75-112, on the zeroed sockaddr that
\* createSocket passes (line 145): the family, the address the structure
\* holds (zero, i.e. the wildcard, where inet_pton did not write it) and the
\* returned inet_status.  The NULL branches of lines 89-90 and 99-100 need
\* AF_INET or AF_INET6 for a NULL text, which address_family never gives.
InitSockaddr(t) ==
    LET af == AddressFamily(t)
    IN  IF af = "AF_UNSPEC" THEN [family |-> af, addr |-> ANY, status |-> 0]
        ELSE [family |-> af,
              addr   |-> IF Pton(af, t) = 1 THEN t ELSE ANY,
              status |-> Pton(af, t)]

-----------------------------------------------------------------------------
(* Socket lifecycle, lines 137-232 and 486-493.                            *)

\* bind() can only succeed for the wildcard or a local address; even then
\* another process may hold the port without SO_REUSEADDR.
BindOutcomes(a) == IF a \in LocalTexts \cup {ANY} THEN BOOLEAN ELSE {FALSE}

\* Mutant of CreateResult: the bind() error check is dropped.
CreateResultIgnoringBind(sa, free, reuseOk, bindOk) ==
    CASE sa.status < 0                        -> -1
      [] sa.family = "AF_UNSPEC" \/ free = {} -> -1
      [] ~reuseOk                              -> -1
      [] OTHER                                 -> Min(free)

\* What createSocket returns, lines 146-230: -1 when init_sockaddr is
\* negative, when socket() fails (no descriptor, or the AF_UNSPEC family)
\* or when setsockopt(SO_REUSEADDR) fails, -2 when bind() fails, else the
\* lowest free descriptor, which socket() allocated.
CreateResult(sa, free, reuseOk, bindOk) ==
    CASE sa.status < 0                        -> -1
      [] sa.family = "AF_UNSPEC" \/ free = {} -> -1
      [] ~reuseOk                              -> -1
      [] ~bindOk                               -> -2
      [] OTHER                                 -> Min(free)

\* createSocket(port, t), lines 137-232.  reuseOk is the outcome of
\* setsockopt(SO_REUSEADDR), bindOk that of bind(); the IP_MTU_DISCOVER,
\* IP_RECVTTL and IP_RECVERR options only log when they fail.  No error
\* path after socket() closes the descriptor.
CreateSocket(t, reuseOk, bindOk) ==
    LET sa     == InitSockaddr(t)
        free   == {f \in Fds : ~fdOpen[f]}
        fd     == Min(free)
        ret    == CreateResult(sa, free, reuseOk, bindOk)
        opened == sa.status >= 0 /\ sa.family # "AF_UNSPEC" /\ free # {}
    IN  /\ bindOk \in BindOutcomes(sa.addr)
        /\ fdOpen' = IF opened THEN [fdOpen EXCEPT ![fd] = TRUE] ELSE fdOpen
        /\ owned'  = IF ret >= 0 THEN [owned EXCEPT ![ret] = TRUE] ELSE owned
        /\ bound'  = IF opened /\ reuseOk /\ bindOk
                     THEN [bound EXCEPT ![fd] = sa.addr] ELSE bound
        /\ lastCall' = [text |-> t, ret |-> ret, hadFd |-> free # {},
                         optsOk |-> reuseOk,
                         bound |-> IF ret >= 0 THEN sa.addr ELSE NULL]

\* closeSocket(fd), lines 486-493: the owner closes its descriptor.
CloseSocket(fd) ==
    /\ fdOpen[fd] /\ owned[fd]
    /\ fdOpen' = [fdOpen EXCEPT ![fd] = FALSE]
    /\ owned'  = [owned EXCEPT ![fd] = FALSE]
    /\ bound'  = [bound EXCEPT ![fd] = NULL]
    /\ UNCHANGED lastCall

Init ==
    /\ fdOpen = [f \in Fds |-> FALSE]
    /\ owned  = [f \in Fds |-> FALSE]
    /\ bound  = [f \in Fds |-> NULL]
    /\ lastCall = NULL

Next ==
    \/ \E t \in Texts \cup {NULL}, r \in BOOLEAN, b \in BOOLEAN :
           CreateSocket(t, r, b)
    \/ \E fd \in Fds : CloseSocket(fd)

Spec == Init /\ [][Next]_vars

-----------------------------------------------------------------------------
(* Properties.                                                             *)

\* Types, and udpSocket.h's contract for createSocket: a descriptor handed to
\* a caller is an open socket bound to an address of this host.
TypeOK ==
    /\ fdOpen \in [Fds -> BOOLEAN] /\ owned \in [Fds -> BOOLEAN]
    /\ bound \in [Fds -> Texts \cup {ANY, NULL}]
    /\ \A f \in Fds : owned[f] => fdOpen[f] /\ bound[f] \in LocalTexts \cup {ANY}
    /\ lastCall = NULL \/ lastCall.ret \in Fds \cup {-1, -2}

\* Spec 3 and 7: a descriptor createSocket opens is either handed to the
\* caller or released; an error return never leaves a socket open that no
\* one holds (the bind and setsockopt failure paths return without close).
NoLeakedSocket == \A f \in Fds : fdOpen[f] => owned[f]

\* The address the caller asked for: the wildcard for NULL (udpSocket.h).
Requested(t) == IF t = NULL THEN ANY ELSE t

\* Spec 4.1/4.2 and udpSocket.h: createSocket(port, t) either fails or
\* returns a socket bound to t (to every interface when t is NULL), and a
\* literal or NULL that names a bindable address is not refused.
BindHonoursAddress ==
    lastCall # NULL =>
        LET c == lastCall IN
        /\ c.ret >= 0 => c.bound = Requested(c.text)
        /\ (c.text = NULL \/ Form[c.text] \in {"v4", "v6"})
              /\ c.hadFd /\ c.optsOk => c.ret # -1

=============================================================================
