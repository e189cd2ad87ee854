----------------------------- MODULE MCJobWait ------------------------------
(* A small instance of JobWait for TLC: sleeps of one, two and four seconds, tokens
   that last no time, less than the refresh margin, or longer. *)
EXTENDS JobWait

MCTimeouts    == {0, 3, 9}
MCLifetimes   == {0, 1, 6}
MCRetryAfters == {1, 2}
MCErrors      == {TransportError, 504}
=============================================================================
