---------------------------- MODULE MCUdpSocket ----------------------------
(* Instantiation of UdpSocket for TLC: one text of each parser class, a    *)
(* local IPv4 and IPv6 address and a foreign one, two descriptors so that  *)
(* a leaked one can starve the next createSocket.                          *)
EXTENDS UdpSocket

CONSTANTS v4Local, v4Foreign, v4Short, v6Local, v6Scoped, Name, Junk

MC_Texts == {v4Local, v4Foreign, v4Short, v6Local, v6Scoped, Name, Junk}
MC_Form == [t \in MC_Texts |->
              CASE t \in {v4Local, v4Foreign} -> "v4"
                [] t = v4Short                -> "v4short"
                [] t = v6Local                -> "v6"
                [] t = v6Scoped               -> "v6scoped"
                [] t = Name                   -> "name"
                [] OTHER                      -> "junk"]
MC_LocalTexts == {v4Local, v6Local}
MC_Fds == {3, 4}
=============================================================================
