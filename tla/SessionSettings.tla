-------------------------- MODULE SessionSettings --------------------------
(***************************************************************************)
(* From the arguments of a Python adapter to an initialized session:       *)
(* session_parameters (src/python/iqm/qdmi/_session.py) resolves arguments *)
(* and environment, the driver fills in what the manifest says about the   *)
(* device, and the session itself (DeviceSession, whose operators are used *)
(* here) resolves what is still open against the environment once more.    *)
(* Environment variables are unset or not empty.                           *)
(***************************************************************************)
CONSTANTS
  Computers, AliasOf, Calibrations, None,  \* as in DeviceSession
  Manifest,    \* for each device id, the alias its manifest entry selects, or None
  DefaultId,   \* IQM_QDMI_DEVICE_ID
  Settings     \* the environments: url, legacyUrl, id, alias, legacyAlias, token, file

Aliases == {AliasOf[c] : c \in Computers}

ASSUME NoneAssumption == None # "manifest"
ASSUME ManifestAssumption ==
  /\ Manifest \in [DOMAIN Manifest -> Aliases \cup {None}]
  /\ DefaultId \in DOMAIN Manifest
  /\ \A d \in DOMAIN Manifest : (Manifest[d] = None) = (d = DefaultId)
ASSUME SettingsAssumption ==
  Settings \subseteq
    [url : BOOLEAN, legacyUrl : BOOLEAN, id : Computers \cup {None},
     alias : Aliases \cup {None}, legacyAlias : Aliases \cup {None},
     token : BOOLEAN, file : BOOLEAN]

VARIABLES
  environ,    \* the environment variables
  device,     \* the device id the adapter is given
  arguments,  \* its other arguments
  parameters, \* what the session gets: its URL and its other parameters
  session     \* what initialization makes of them, or None

settingsVars == <<environ, device, arguments, parameters, session>>

SettingsInit ==
  /\ environ \in Settings
  /\ device = None /\ arguments = None /\ parameters = None /\ session = None

\* A value, or else the next best one.
Or(a, b) == IF a # None THEN a ELSE b

EnvironmentUrl ==
  IF environ.url THEN "IQM_SERVER_URL" ELSE IF environ.legacyUrl THEN "IQM_BASE_URL" ELSE None
EnvironmentAlias == Or(environ.alias, environ.legacyAlias)

-----------------------------------------------------------------------------

\* The arguments of IQMBackend or IQMDevice.
Arguments ==
  [url : {None, "argument"}, token : BOOLEAN, file : BOOLEAN,
   id : Computers \cup {None}, alias : Aliases \cup {None}]

SessionParametersFieldwise(d, a) ==
  LET routed == d = DefaultId IN
  [url   |-> IF routed THEN Or(a.url, EnvironmentUrl) ELSE a.url,
   id    |-> IF routed THEN Or(a.id, environ.id) ELSE a.id,
   alias |-> IF routed THEN Or(a.alias, EnvironmentAlias) ELSE a.alias,
   token |-> a.token \/ environ.token,
   file  |-> a.file \/ environ.file]

\* session_parameters: the environment routes only the default device, and selects
\* a computer only if the arguments do not; token and tokens file are each taken
\* from the arguments or else from the environment.
SessionParameters(d, a) ==
  LET routed == d = DefaultId
      selects == routed /\ a.id = None /\ a.alias = None
  IN  [url   |-> IF routed THEN Or(a.url, EnvironmentUrl) ELSE a.url,
       id    |-> IF selects THEN environ.id ELSE a.id,
       alias |-> IF selects THEN EnvironmentAlias ELSE a.alias,
       token |-> a.token \/ environ.token,
       file  |-> a.file \/ environ.file]

\* The driver: a setting overrides the manifest's; every manifest entry has a URL.
Merged(d, p) == [p EXCEPT !.url = Or(@, "manifest"), !.alias = Or(@, Manifest[d])]

Open ==
  /\ device = None
  /\ device' \in DOMAIN Manifest
  /\ arguments' \in Arguments
  /\ parameters' = Merged(device', SessionParameters(device', arguments'))
  /\ UNCHANGED <<environ, session>>

\* What DeviceSession sees of parameters and environment.
Config == [url |-> parameters.url # None, id |-> parameters.id, alias |-> parameters.alias,
           calibration |-> None, token |-> parameters.token, file |-> parameters.file]

Session == INSTANCE DeviceSession WITH
  Environments <- {}, ErrorCodes <- {},
  state <- "ALLOCATED", config <- Config, picture <- None, step <- "idle", draft <- None,
  ret <- "SUCCESS", offered <- Computers, default <- None,
  environment <- [url |-> EnvironmentUrl # None, id |-> environ.id, alias |-> EnvironmentAlias,
                  token |-> environ.token, file |-> environ.file]

\* The computer a session goes for: an id before an alias.
Goal(selection) ==
  IF selection.id # None THEN selection.id
  ELSE IF selection.alias # None THEN CHOOSE c \in Computers : AliasOf[c] = selection.alias
  ELSE None

\* The first part of the initialization: defaults, then the authentication source.
Initialize ==
  /\ device # None /\ session = None
  /\ session' = [url |-> Or(parameters.url, EnvironmentUrl),
                 goal |-> Goal(Session!Selected), refused |-> Session!AuthConflict]
  /\ UNCHANGED <<environ, device, arguments, parameters>>

SettingsNext == Open \/ Initialize

SettingsSpec == SettingsInit /\ [][SettingsNext]_settingsVars

-----------------------------------------------------------------------------
(* Properties *)

\* Environment variables cannot redirect a named device: without arguments it is
\* the manifest's computer at the manifest's URL.  An argument that selects a
\* computer is followed, for any device and whichever kind of selector the
\* environment or the manifest has; without one, the default device follows the
\* environment (docs/qiskit.md 60-69).
RoutingRespected ==
  session # None =>
    LET named == device # DefaultId IN
    /\ session.url = IF arguments.url # None THEN arguments.url
                     ELSE IF named THEN "manifest" ELSE Or(EnvironmentUrl, "manifest")
    /\ session.goal = Goal(IF arguments.id # None \/ arguments.alias # None THEN arguments
                           ELSE IF named THEN [id |-> None, alias |-> Manifest[device]]
                           ELSE [id |-> environ.id, alias |-> EnvironmentAlias])

\* "Explicit arguments override environment defaults" (docs/qiskit.md 60-62, on the
\* token and the tokens file among others): a session opened with one of the two as
\* an argument is not refused because the environment has the other.
ExplicitAuthenticationWins ==
  session # None /\ arguments.token # arguments.file => ~session.refused

-----------------------------------------------------------------------------
(* What the proof of RoutingRespected adds to it *)

\* The session gets what session_parameters and the driver make of the arguments.
OpenedInv ==
  /\ device # None =>
       /\ device \in DOMAIN Manifest /\ arguments \in Arguments
       /\ parameters = Merged(device, SessionParameters(device, arguments))
  /\ device = None => session = None
=============================================================================
