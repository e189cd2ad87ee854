-------------------------- MODULE SessionSnapshot --------------------------
(***************************************************************************)
(* What a device session promises its caller: parameters can be set until  *)
(* it is initialized, initialization happens at once or not at all, and    *)
(* an initialized session is one unchanging picture of one quantum         *)
(* computer under one calibration.  DeviceSession implements it.           *)
(***************************************************************************)
CONSTANTS
  Configs,    \* what a caller can have set
  NoConfig,   \* nothing set
  Pictures,   \* what an initialized session can show
  NoPicture

VARIABLES
  state,    \* "ALLOCATED", "INITIALIZED" or "freed"
  config,   \* the parameters of the session
  picture   \* what it shows

vars == <<state, config, picture>>

Init == state = "ALLOCATED" /\ config = NoConfig /\ picture = NoPicture

Configure ==
  /\ state = "ALLOCATED"
  /\ config' \in Configs
  /\ UNCHANGED <<state, picture>>

Initialize ==
  /\ state = "ALLOCATED"
  /\ state' = "INITIALIZED"
  /\ picture' \in Pictures
  /\ UNCHANGED config

Free ==
  /\ state # "freed"
  /\ state' = "freed"
  /\ UNCHANGED <<config, picture>>

Next == Configure \/ Initialize \/ Free

Spec == Init /\ [][Next]_vars

=============================================================================
