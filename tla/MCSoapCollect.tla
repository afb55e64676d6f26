--------------------------- MODULE MCSoapCollect ---------------------------
(****************************************************************************)
(* A small instance of SoapCollect for TLC.  The host list is enumerated    *)
(* twice under one metric name with different TTLs, and its number of       *)
(* entries is a metric too, so that all three share cache entries.  A TTL   *)
(* of 0 is shorter than a step of the clock, one of 1 is not.               *)
(****************************************************************************)
EXTENDS SoapCollect

CONSTANTS hosts, active, entries, x, lan

SharedHosts ==
    <<[service |-> hosts, kind |-> "hosts", name |-> active, fixed |-> <<lan>>, ttl |-> 0],
      [service |-> hosts, kind |-> "count", name |-> entries, fixed |-> <<>>, ttl |-> 1],
      [service |-> hosts, kind |-> "hosts", name |-> active, fixed |-> <<lan>>, ttl |-> 1]>>
=============================================================================
