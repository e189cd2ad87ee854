---------------------------- MODULE HttpRequest ----------------------------
(***************************************************************************)
(* What a caller of iqm::http::Get and Post may rely on: a request is      *)
(* outstanding from the call until it returns one answer, the IQM Server   *)
(* carries it out at most once, and a success means that it did.  After a  *)
(* failure it may have been carried out or not.  DeviceJob is written      *)
(* against this contract.                                                  *)
(***************************************************************************)
EXTENDS Naturals

VARIABLES
  outstanding,  \* whether the call has not returned yet
  effects,      \* how often the server has carried the request out
  result        \* what the last call returned: "none", "success" or "failure"

vars == <<outstanding, effects, result>>

Init == outstanding = FALSE /\ effects = 0 /\ result = "none"

Send ==
  /\ ~outstanding
  /\ outstanding' = TRUE
  /\ effects' = 0
  /\ result' = "none"

Act ==
  /\ outstanding /\ effects = 0
  /\ effects' = 1
  /\ UNCHANGED <<outstanding, result>>

Succeed ==
  /\ outstanding /\ effects = 1
  /\ outstanding' = FALSE
  /\ result' = "success"
  /\ UNCHANGED effects

Fail ==
  /\ outstanding
  /\ outstanding' = FALSE
  /\ result' = "failure"
  /\ UNCHANGED effects

Next == Send \/ Act \/ Succeed \/ Fail

Spec == Init /\ [][Next]_vars

=============================================================================
