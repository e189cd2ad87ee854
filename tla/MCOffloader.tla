---------------------------- MODULE MCOffloader -----------------------------
(* A small instance of Offloader for TLC: two calls, of which one has a timeout,
   and two directory names, so that names can collide and be used again. *)
EXTENDS Offloader

CONSTANTS c1, c2, d1, d2

MCCalls      == {c1, c2}
MCTimedCalls == {c1}
MCDirs       == {d1, d2}
=============================================================================
