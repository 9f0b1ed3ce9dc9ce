--------------------------- MODULE MCRateLimiter ---------------------------
(* Instantiation of RateLimiter for TLC.  Four ticks make a second, so the *)
(* sub-second part of the leak formula and its truncation are exercised;   *)
(* drain rates 0, 1 and 3 bytes/s (0, 8 and 24 bits/s) cover the disabled  *)
(* limiter, a rate that divides every length and one that does not.       *)
EXTENDS RateLimiter

MC_USEC == 4
MC_DrainRates == {0, 8, 24}
MC_Lens == {1, 3}
\* a packet longer than the bucket
MC_OversizeLens == {1, 4}
\* a resize that shrinks the bucket under what it holds
MC_ResizeBuckets == {1, 3}
=============================================================================
