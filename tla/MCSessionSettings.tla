------------------------- MODULE MCSessionSettings -------------------------
(* A small instance of SessionSettings for TLC: two computers, the default
   device and one named device, and environments that set nothing, everything,
   or one thing. *)
EXTENDS SessionSettings, TLC

CONSTANTS c1, c2

TwoComputers == {c1, c2}
TwoAliases   == (c1 :> "a1") @@ (c2 :> "a2")
TwoDevices   == ("iqm.default" :> None) @@ ("iqm.garnet" :> "a1")

Bare == [url |-> FALSE, legacyUrl |-> FALSE, id |-> None, alias |-> None,
         legacyAlias |-> None, token |-> FALSE, file |-> FALSE]
Routed == [Bare EXCEPT !.url = TRUE, !.legacyUrl = TRUE, !.id = c1, !.alias = "a2",
                       !.legacyAlias = "a1"]
MCSettings ==
  {Bare, Routed, [Routed EXCEPT !.url = FALSE, !.id = None], [Bare EXCEPT !.legacyAlias = "a2"],
   [Bare EXCEPT !.token = TRUE], [Routed EXCEPT !.file = TRUE]}
=============================================================================
