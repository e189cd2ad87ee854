-------------------------- MODULE MCDeviceSession --------------------------
(* A small instance of DeviceSession for TLC: two computers, two calibration
   sets, and environments that select nothing, a computer, or two things. *)
EXTENDS DeviceSession, TLC

CONSTANTS c1, c2, s1, s2

TwoComputers    == {c1, c2}
TwoCalibrations == {s1, s2}
TwoAliases      == (c1 :> "a1") @@ (c2 :> "a2")

Bare == [url |-> TRUE, id |-> None, alias |-> None, token |-> FALSE, file |-> FALSE]

MCEnvironments ==
  {Bare, [Bare EXCEPT !.url = FALSE, !.id = c1],
   [Bare EXCEPT !.token = TRUE, !.file = TRUE],
   [Bare EXCEPT !.id = c2, !.alias = "a1"], [Bare EXCEPT !.alias = "a2"]}

MCErrors == {404, 500}
=============================================================================
