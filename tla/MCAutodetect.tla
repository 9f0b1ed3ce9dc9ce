---------------------------- MODULE MCAutodetect ----------------------------
(* Instantiation of Autodetect for TLC: two interfaces, so the default     *)
(* route and another route can leave by different ones; two routes and two *)
(* getifaddrs entries; three free descriptors, so the leak exhausts them   *)
(* after a few calls.                                                      *)
EXTENDS Autodetect
MC_Ifaces == {"eth0", "wlan0"}
=============================================================================
