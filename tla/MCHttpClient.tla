---------------------------- MODULE MCHttpClient ----------------------------
(* A small instance of HttpClient for TLC: three seconds of window, two retries
   and a timeout that spares all of them, or none. *)
EXTENDS HttpClient

MCTimeouts    == {3, 9, 13}
ShortPauses   == {0, 1, 2}
LongPauses    == {1, 8, 9}       \* 8 and 9 do not fit an int of 16 values

\* Overdrawn, low, at the threshold, and unusable.
Quotas ==
  {[limit |-> 200, remaining |-> -1], [limit |-> 200, remaining |-> 19],
   [limit |-> 200, remaining |-> 20], [limit |-> 0, remaining |-> 0]}
=============================================================================
