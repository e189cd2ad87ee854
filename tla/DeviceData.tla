----------------------------- MODULE DeviceData -----------------------------
(***************************************************************************)
(* What a session reads and what it makes of it: the results of jobs, the  *)
(* picture of a quantum computer, its status, the settings a session       *)
(* starts from, and the expiry of tokens.  The parts share no state: a     *)
(* behaviour takes the steps of one.                                       *)
(***************************************************************************)
EXTENDS JobResults, DeviceModel, DeviceStatus, SessionSettings, TokenText

VARIABLE part
Parts == {"results", "model", "status", "settings", "token"}

\* The parts that stand still have one initial state.
Init ==
  /\ part \in Parts
  /\ ResultsInit /\ (part # "results" => job = CHOOSE j \in Jobs : TRUE)
  /\ ModelInit
  /\ StatusInit
  /\ part # "status" => /\ computer = [healthy |-> TRUE, windows |-> TRUE, length |-> 0]
                        /\ endpoints = [id |-> TRUE, health |-> TRUE, queue |-> TRUE]
  /\ TextInit
  /\ SettingsInit /\ (part # "settings" => environ = CHOOSE e \in Settings : TRUE)

Next ==
  /\ UNCHANGED part
  /\ \/ /\ part = "results" /\ ResultsNext
        /\ UNCHANGED <<modelVars, statusVars, settingsVars, tokenTextVars>>
     \/ /\ part = "model" /\ ModelNext
        /\ UNCHANGED <<resultVars, statusVars, settingsVars, tokenTextVars>>
     \/ /\ part = "status" /\ StatusNext
        /\ UNCHANGED <<resultVars, modelVars, settingsVars, tokenTextVars>>
     \/ /\ part = "settings" /\ SettingsNext
        /\ UNCHANGED <<resultVars, modelVars, statusVars, tokenTextVars>>
     \/ /\ part = "token" /\ TextNext
        /\ UNCHANGED <<resultVars, modelVars, statusVars, settingsVars>>

vars == <<part, resultVars, modelVars, statusVars, settingsVars, tokenTextVars>>
Spec == Init /\ [][Next]_vars

\* Every part keeps to its types.
TypeOK == ResultsTypeOK /\ ModelTypeOK /\ StatusTypeOK
=============================================================================
