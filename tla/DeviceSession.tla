--------------------------- MODULE DeviceSession ---------------------------
(***************************************************************************)
(* A device session of the IQM QDMI device (src/src/iqm_device.cpp): the   *)
(* caller sets parameters, then initializes it.  Initialization selects a  *)
(* quantum computer and fetches its architecture, its calibrated gates and *)
(* its quality metrics, one request after the other, while the IQM Server  *)
(* goes on calibrating and may take computers off the list.                *)
(*                                                                         *)
(* A GET changes nothing on the server: only the moment at which the       *)
(* server answers it matters, so that a request and its answer are one     *)
(* step here.  What the answers say about sites, gates and metrics is left *)
(* out; whose they are, and of which calibration, is kept.                 *)
(***************************************************************************)
EXTENDS HttpResponse

CONSTANTS
  Computers,     \* ids of quantum computers
  AliasOf,       \* the alias of each
  Calibrations,  \* ids of calibration sets
  None,          \* a parameter that is not set, an item not fetched yet
  Environments,  \* what the environment variables can be
  ErrorCodes     \* HTTP status codes of failing answers

Aliases == {AliasOf[c] : c \in Computers}

Selections == [id : Computers \cup {None}, alias : Aliases \cup {None}]

ASSUME ComputersAssumption ==
  /\ Computers # {} /\ Calibrations # {}
  /\ AliasOf \in [Computers -> Aliases]
  /\ \A c, d \in Computers : AliasOf[c] = AliasOf[d] => c = d
  /\ None \notin Computers \cup Aliases \cup Calibrations
  /\ "default" \notin Calibrations
ASSUME EnvironmentsAssumption ==
  Environments \subseteq
    [url : BOOLEAN, id : Computers \cup {None}, alias : Aliases \cup {None},
     token : BOOLEAN, file : BOOLEAN]
ASSUME ErrorCodesAssumption == ErrorCodes \subseteq (300..599)

VARIABLES
  \* the session
  state,        \* session_status_, or "freed"
  config,       \* the parameters its caller has set
  picture,      \* what it knows of the quantum computer
  \* the initialization in progress
  step,         \* the request it is at, or "idle"
  draft,        \* the session being initialized, before it is moved into place
  ret,          \* what the last call returned
  \* around it
  environment,  \* the environment variables
  offered,      \* the computers the server lists
  default       \* the calibration set each computer uses by default

sessionVars == <<state, config, picture>>
serverVars  == <<offered, default>>
vars == <<sessionVars, step, draft, ret, environment, serverVars>>

-----------------------------------------------------------------------------
(* Parameters *)

Configs ==
  [url : BOOLEAN, id : Computers \cup {None}, alias : Aliases \cup {None},
   calibration : Calibrations \cup {None}, token : BOOLEAN, file : BOOLEAN]

NoConfig == [url |-> FALSE, id |-> None, alias |-> None, calibration |-> None,
             token |-> FALSE, file |-> FALSE]

\* What is fetched: the selected computer, whose architecture, and the
\* calibration sets the session, its gates and its metrics belong to.
Pictures ==
  [id : Computers \cup {None}, alias : Aliases \cup {None},
   architecture : Computers \cup {None},
   calibration : Calibrations \cup {None, "default"},
   gates : Calibrations \cup {None}, metrics : Calibrations \cup {None},
   supports : BOOLEAN]

NoPicture == [id |-> None, alias |-> None, architecture |-> None,
              calibration |-> None, gates |-> None, metrics |-> None,
              supports |-> FALSE]

Init ==
  /\ state = "ALLOCATED" /\ config = NoConfig /\ picture = NoPicture
  /\ step = "idle" /\ draft = NoPicture /\ ret = "SUCCESS"
  /\ environment \in Environments
  /\ offered = Computers
  /\ default \in [Computers -> Calibrations]

Return(code) == step' = "idle" /\ draft' = NoPicture /\ ret' = code

StoreSwapped ==
  \/ \E p \in {"url", "token", "file"} : config' = [config EXCEPT ![p] = TRUE]
  \/ \E c \in Computers : config' = [config EXCEPT !.alias = c]
  \/ \E a \in Aliases : config' = [config EXCEPT !.id = a]

\* A value is stored for one of the parameters; an empty URL is no URL.
Store ==
  \/ \E p \in {"url", "token", "file"} : config' = [config EXCEPT ![p] = TRUE]
  \/ config' = [config EXCEPT !.url = FALSE]
  \/ \E c \in Computers : config' = [config EXCEPT !.id = c]
  \/ \E a \in Aliases : config' = [config EXCEPT !.alias = a]
  \/ \E s \in Calibrations : config' = [config EXCEPT !.calibration = s]

\* One parameter is set, left alone for want of a value, or refused.
SetParameter ==
  /\ step = "idle" /\ state # "freed"
  /\ \/ Return("INVALIDARGUMENT") /\ UNCHANGED config
     \/ /\ state # "ALLOCATED"
        /\ Return("BADSTATE") /\ UNCHANGED config
     \/ /\ state = "ALLOCATED"
        /\ Return("NOTSUPPORTED") /\ UNCHANGED config
     \/ /\ state = "ALLOCATED"
        /\ Store \/ UNCHANGED config
        /\ Return("SUCCESS")
  /\ UNCHANGED <<state, picture, environment, serverVars>>

Free ==
  /\ step = "idle" /\ state # "freed"
  /\ state' = "freed"
  /\ UNCHANGED <<config, picture, step, draft, ret, environment, serverVars>>

-----------------------------------------------------------------------------
(* Initialization *)

\* Apply_environment_session_defaults: the environment selects a computer only
\* if the caller has not.
UrlKnown == config.url \/ environment.url

SelectedFieldwise ==
  [id    |-> IF config.id = None THEN environment.id ELSE config.id,
   alias |-> IF config.alias = None THEN environment.alias ELSE config.alias]

Selected ==
  IF config.id # None \/ config.alias # None
    THEN [id |-> config.id, alias |-> config.alias]
    ELSE [id |-> environment.id, alias |-> environment.alias]

\* TokenManager::TokenManager refuses two methods from the same source.
AuthConflict ==
  IF config.token \/ config.file
    THEN config.token /\ config.file
    ELSE environment.token /\ environment.file

\* The calibration set the gates are asked for.
RequestedSet == IF config.calibration = None THEN "default" ELSE config.calibration

\* The next request needs a token first, except where the last one is reused.
Proceed(next, d) ==
  \/ step' = next /\ draft' = d /\ UNCHANGED ret
  \/ Return("PERMISSIONDENIED")

InitStart ==
  /\ step = "idle" /\ state # "freed"
  /\ \/ /\ state = "INITIALIZED"
        /\ Return("BADSTATE")
     \/ /\ state = "ALLOCATED" /\ (~UrlKnown \/ AuthConflict)
        /\ Return("FATAL")
     \/ /\ state = "ALLOCATED" /\ UrlKnown /\ ~AuthConflict
        /\ Proceed("computers",
                   [NoPicture EXCEPT !.id = Selected.id, !.alias = Selected.alias])
  /\ UNCHANGED <<sessionVars, environment, serverVars>>

\* A request fails, or its answer is not what it should be.
RequestFails ==
  \E code \in {Handle_response(c) : c \in ErrorCodes \cup {TransportError}}
               \cup {"FATAL"} : Return(code)

Selects(c) ==
  /\ draft.id # None => c = draft.id
  /\ draft.id = None /\ draft.alias # None => AliasOf[c] = draft.alias

ComputersDone ==
  /\ step = "computers"
  /\ \/ RequestFails
     \/ /\ ~\E c \in offered : Selects(c)
        /\ Return("FATAL")
     \/ \E c \in offered :
          /\ Selects(c)
          /\ step' = "architecture"
          /\ draft' = [draft EXCEPT !.id = c, !.alias = AliasOf[c]]
          /\ UNCHANGED ret
  /\ UNCHANGED <<sessionVars, environment, serverVars>>

ArchitectureDone ==
  /\ step = "architecture"
  /\ \/ RequestFails
     \/ \E c \in offered :
          /\ AliasOf[c] = draft.alias
          /\ Proceed("gates",
                     [draft EXCEPT !.architecture = c, !.calibration = RequestedSet])
  /\ UNCHANGED <<sessionVars, environment, serverVars>>

\* The set the server resolves a request to. What it makes of an id it was
\* given is not taken for granted.
Resolves(set) ==
  IF draft.calibration = "default"
    THEN \E c \in offered : AliasOf[c] = draft.alias /\ set = default[c]
    ELSE set \in Calibrations

AcceptsAnySet(set) == TRUE

\* The set is one the caller can live with.
Accepts(set) == config.calibration # None => set = config.calibration

\* calibration_set_id_ becomes the id the server resolved the request to.
ResolvedSet(set) == set

GatesDone ==
  /\ step = "gates"
  /\ \/ RequestFails
     \/ \E set \in Calibrations :
          /\ Resolves(set)
          /\ \/ /\ ~Accepts(set)
                /\ Return("FATAL")
             \/ /\ Accepts(set)
                /\ Proceed("metrics", [draft EXCEPT !.calibration = ResolvedSet(set),
                                                    !.gates = set])
  /\ UNCHANGED <<sessionVars, environment, serverVars>>

\* The quality metrics of a calibration set, as the server understands its name.
Measured(set) ==
  IF set # "default" THEN {set}
  ELSE {default[c] : c \in {d \in offered : AliasOf[d] = draft.alias}}

MetricsDone ==
  /\ step = "metrics"
  /\ \/ RequestFails
     \/ \E set \in Measured(draft.calibration) :
          Proceed("health", [draft EXCEPT !.metrics = set])
  /\ UNCHANGED <<sessionVars, environment, serverVars>>

HealthDoneNotMoved ==
  /\ step = "health"
  /\ state' = "INITIALIZED"
  /\ Return("SUCCESS")
  /\ UNCHANGED <<config, picture, environment, serverVars>>

\* The health check may fail; it only tells whether calibration jobs work.
\* Then the draft is moved into place.
HealthDone ==
  /\ step = "health"
  /\ \E supported \in BOOLEAN : picture' = [draft EXCEPT !.supports = supported]
  /\ state' = "INITIALIZED"
  /\ Return("SUCCESS")
  /\ UNCHANGED <<config, environment, serverVars>>

-----------------------------------------------------------------------------
(* The IQM Server *)

Recalibrate ==
  /\ \E c \in Computers, s \in Calibrations : default' = [default EXCEPT ![c] = s]
  /\ UNCHANGED <<sessionVars, step, draft, ret, environment, offered>>

Withdraw ==
  /\ \E c \in offered : offered' = offered \ {c}
  /\ UNCHANGED <<sessionVars, step, draft, ret, environment, default>>

-----------------------------------------------------------------------------
InitContinues ==
  ComputersDone \/ ArchitectureDone \/ GatesDone \/ MetricsDone \/ HealthDone

Next == SetParameter \/ Free \/ InitStart \/ InitContinues \/ Recalibrate \/ Withdraw

Spec == Init /\ [][Next]_vars

-----------------------------------------------------------------------------
(* Properties *)

Steps == {"idle", "computers", "architecture", "gates", "metrics", "health"}

\* Every variable keeps to its type.
TypeOK ==
  /\ state \in {"ALLOCATED", "INITIALIZED", "freed"}
  /\ config \in Configs
  /\ picture \in Pictures /\ draft \in Pictures
  /\ step \in Steps
  /\ ret \in QdmiCodes
  /\ environment \in Environments
  /\ offered \subseteq Computers
  /\ default \in [Computers -> Calibrations]

\* Everything is about one computer and one calibration set that has an id.
Coherent(p) ==
  /\ p.id \in Computers /\ p.alias = AliasOf[p.id] /\ p.architecture = p.id
  /\ p.calibration \in Calibrations
  /\ p.gates = p.calibration /\ p.metrics = p.calibration

\* However the server calibrates while a session is initialized, its
\* architecture, gates and metrics belong to one computer and one calibration
\* set, the one its jobs are submitted with.
PictureIsCoherent == state = "INITIALIZED" => Coherent(picture)

\* A calibration set the caller asked for is the one the session uses.
CalibrationIsPinned ==
  state = "INITIALIZED" /\ config.calibration # None =>
    picture.calibration = config.calibration

\* What the caller selects comes before what the environment selects, and an id
\* before an alias.
SelectionRespected ==
  state = "INITIALIZED" =>
    \/ config.id # None /\ picture.id = config.id
    \/ config.id = None /\ config.alias # None /\ picture.alias = config.alias
    \/ /\ config.id = None /\ config.alias = None
       /\ environment.id # None => picture.id = environment.id
       /\ environment.id = None /\ environment.alias # None =>
            picture.alias = environment.alias

Snapshot == INSTANCE SessionSnapshot
              WITH Pictures <- {p \in Pictures : Coherent(p)}

\* An initialization takes effect at once, when it succeeds, or not at all, and
\* nothing the server does later changes an initialized session.
ImplementsSnapshot == Snapshot!Spec

\* docs/usage.md says that without a base URL "the session initialization path
\* falls back to IQM_SERVER_URL, then its IQM_BASE_URL alias, before using the
\* standard Resonance endpoint".
UrlHasDefault ==
  [][InitStart /\ state = "ALLOCATED" /\ ~AuthConflict /\ step' = "idle" =>
       ret' # "FATAL"]_vars

-----------------------------------------------------------------------------
(* What the proofs add to the invariants above to make them inductive *)

\* How much of the draft is filled at each request.
DraftInv ==
  /\ step # "idle" => state = "ALLOCATED"
  /\ step = "computers" => draft.id = Selected.id /\ draft.alias = Selected.alias
  /\ step \notin {"idle", "computers"} =>
       /\ draft.id \in Computers /\ draft.alias = AliasOf[draft.id]
       /\ Selected.id # None => draft.id = Selected.id
       /\ Selected.id = None /\ Selected.alias # None => draft.alias = Selected.alias
  /\ step \in {"gates", "metrics", "health"} => draft.architecture = draft.id
  /\ step = "gates" => draft.calibration = RequestedSet
  /\ step \in {"metrics", "health"} =>
       /\ draft.gates \in Calibrations /\ draft.calibration = draft.gates
       /\ Accepts(draft.gates)
  /\ step = "health" => draft.metrics = draft.calibration

IInv == /\ TypeOK /\ DraftInv
        /\ PictureIsCoherent /\ CalibrationIsPinned /\ SelectionRespected

=============================================================================
