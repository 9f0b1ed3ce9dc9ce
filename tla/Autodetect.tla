----------------------------- MODULE Autodetect -----------------------------
(***************************************************************************)
(* src/ml/util/udpSocket.c 495-543: mlAutodetectIPAddress, Linux build.    *)
(* It scans /proc/net/route for the interface of the default route and     *)
(* returns the first IPv4 address getifaddrs lists for that interface.     *)
(*                                                                         *)
(* The routing table and the interface list are the environment, chosen    *)
(* afresh at each call.  A line of /proc/net/route is its first two fields *)
(* (interface, destination in hex).  The kernel pads every line to 127     *)
(* characters, so fgets(line, 127) also returns a remainder of blanks,     *)
(* which sscanf scans nothing from; the model leaves those out.  An entry  *)
(* of getifaddrs is its name, its family and whether ifa_addr is set, and  *)
(* the address returned is the entry's position in the list, 0 for NULL.   *)
(* Descriptors are the resource the function uses: it never closes the     *)
(* FILE it opens.                                                          *)
(***************************************************************************)
EXTENDS Naturals, Sequences, SequencesExt

CONSTANTS
    Ifaces,      \* interface names
    MaxRoutes,   \* bound on the routes in /proc/net/route
    MaxEntries,  \* bound on the entries getifaddrs returns
    FreeFds      \* descriptors the process has free before the first call

ASSUME MaxRoutes \in Nat /\ MaxEntries \in Nat /\ FreeFds \in Nat

Default == "00000000"

\* The first line of /proc/net/route, and the lines after it.
Header == [iface |-> "Iface", dst |-> "Destination"]
Route  == [iface : Ifaces, dst : {Default, "0001A8C0"}]

Entry == [name : Ifaces, family : {"AF_INET", "AF_INET6"}, hasAddr : BOOLEAN]

VARIABLES
    leakedFiles,  \* FILEs opened by fopen that no path closes
    last          \* the latest call: its routing table, interfaces, result

vars == <<leakedFiles, last>>

-----------------------------------------------------------------------------

\* Lines 502-514: fgets and sscanf("%s\t%s") into iface and dst, line by
\* line, until the file ends.  The break of line 510 tests
\* !strcpy(dst, "00000000"): strcpy returns dst, never NULL, so the test is
\* FALSE for every line (it overwrites dst instead of comparing it), and the
\* copy of the uninitialised ifc at line 511 is never reached.  iface ends as
\* the first field of the last line.
RECURSIVE ScanRoutes(_, _)
ScanRoutes(lines, iface) ==
    IF lines = <<>> THEN iface
    ELSE ScanRoutes(Tail(lines), Head(lines).iface)

\* Lines 520-527: the first entry with an address, of family AF_INET, on
\* interface iface; 0 (NULL, line 542) when the walk reaches the end.
FirstInetAddr(ifs, iface) ==
    SelectInSeq(ifs, LAMBDA e : e.hasAddr /\ e.family = "AF_INET"
                                /\ e.name = iface)

\* Lines 499-543: one call with fds descriptors free.  fopen needs one
\* (line 500), and getifaddrs a netlink socket besides (line 518).  Line
\* 515 returns NULL when no line named an interface.
MlAutodetectIPAddress(fds, routes, ifs) ==
    IF fds = 0 THEN 0
    ELSE LET iface == ScanRoutes(<<Header>> \o routes, "")
         IN  IF iface = "" \/ fds = 1 THEN 0
             ELSE FirstInetAddr(ifs, iface)

\* A call: the FILE it opened stays open whatever it returns.
Call(routes, ifs) ==
    /\ last' = [routes |-> routes, ifs |-> ifs,
                result |-> MlAutodetectIPAddress(FreeFds - leakedFiles,
                                                 routes, ifs)]
    /\ leakedFiles' = IF leakedFiles < FreeFds THEN leakedFiles + 1
                                               ELSE leakedFiles

\* Before the first call: as if it had been called on an empty table.
Init == leakedFiles = 0 /\ last = [routes |-> <<>>, ifs |-> <<>>, result |-> 0]

Next == \E routes \in BoundedSeq(Route, MaxRoutes),
           ifs \in BoundedSeq(Entry, MaxEntries) : Call(routes, ifs)

Spec == Init /\ [][Next]_vars

-----------------------------------------------------------------------------
(* Properties.                                                             *)

TypeOK ==
    /\ leakedFiles \in 0..FreeFds
    /\ last.routes \in BoundedSeq(Route, MaxRoutes)
    /\ last.ifs \in BoundedSeq(Entry, MaxEntries)
    /\ last.result \in 0..MaxEntries

\* The interface of the default route: the first route whose destination
\* is 00000000, "" when there is none.
DefaultIface(routes) ==
    LET k == SelectInSeq(routes, LAMBDA l : l.dst = Default)
    IN  IF k = 0 THEN "" ELSE routes[k].iface

\* What the test against "00000000" at line 510 is written for: every call
\* returns the IPv4 address of the interface the default route uses, and
\* NULL only when there is no default route or that interface has no IPv4
\* address, however often it has been called before.
AutodetectFindsDefaultRoute ==
    last.result = IF DefaultIface(last.routes) = "" THEN 0
                  ELSE FirstInetAddr(last.ifs, DefaultIface(last.routes))

=============================================================================
