---------------------------- MODULE MCErrorQueue ----------------------------
(* Instantiation of ErrorQueue for TLC: a 1500-byte interface, a 1400-byte *)
(* path, datagrams that fit everywhere, only locally, or nowhere, and      *)
(* ICMP errors that quote the first eight payload bytes.                   *)
EXTENDS ErrorQueue

MC_Sizes == {1000, 1450, 9000}
\* RFC 1812 routers quote as much of the datagram as fits
MC_FullQuotes == {8}
=============================================================================
