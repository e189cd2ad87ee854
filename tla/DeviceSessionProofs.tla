------------------------ MODULE DeviceSessionProofs ------------------------
(***************************************************************************)
(* Proofs about DeviceSession: an initialized session shows one computer   *)
(* under one calibration, the ones its caller or the environment selected, *)
(* and initialization is atomic for the caller (SessionSnapshot), for any  *)
(* set of computers and calibration sets and whatever the server does.     *)
(***************************************************************************)
EXTENDS DeviceSession, TLAPS

USE DEF sessionVars, serverVars

-----------------------------------------------------------------------------
(* Codes and selections *)

LEMMA ResponseIsCode ==
  ASSUME NEW c \in ErrorCodes \cup {TransportError}
  PROVE  Handle_response(c) \in QdmiCodes
BY ErrorCodesAssumption
   DEF Handle_response, QdmiCodes, QdmiErrors, Is2xx, TransportError

LEMMA FailureReturns ==
  ASSUME RequestFails
  PROVE  step' = "idle" /\ draft' = NoPicture /\ ret' \in QdmiCodes
BY ResponseIsCode DEF RequestFails, Return, QdmiCodes, QdmiErrors

LEMMA ProceedType ==
  ASSUME NEW next \in Steps, NEW d \in Pictures, Proceed(next, d), ret \in QdmiCodes
  PROVE  /\ step' \in Steps /\ draft' \in Pictures /\ ret' \in QdmiCodes
         /\ \/ step' = next /\ draft' = d
            \/ step' = "idle" /\ draft' = NoPicture
<1>1. NoPicture \in Pictures
  BY DEF NoPicture, Pictures
<1>2. CASE step' = next /\ draft' = d /\ UNCHANGED ret
  BY <1>2
<1>3. CASE Return("PERMISSIONDENIED")
  <2>1. "PERMISSIONDENIED" \in QdmiCodes
    BY DEF QdmiCodes, QdmiErrors
  <2>. QED
    BY <1>1, <1>3, <2>1 DEF Return, Steps
<1>. QED
  BY <1>2, <1>3 DEF Proceed

LEMMA SelectedType ==
  ASSUME TypeOK
  PROVE  Selected.id \in Computers \cup {None} /\ Selected.alias \in Aliases \cup {None}
<1>1. config \in Configs /\ environment \in Environments
  BY DEF TypeOK
<1>2. /\ config.id \in Computers \cup {None} /\ config.alias \in Aliases \cup {None}
  BY <1>1 DEF Configs
<1>3. /\ environment.id \in Computers \cup {None}
      /\ environment.alias \in Aliases \cup {None}
  BY <1>1, EnvironmentsAssumption
<1>. QED
  BY <1>2, <1>3 DEF Selected

-----------------------------------------------------------------------------
(* The invariant is inductive *)

LEMMA InitIInv == Init => IInv
<1>. SUFFICES ASSUME Init PROVE IInv
  OBVIOUS
<1>1. NoPicture \in Pictures /\ NoConfig \in Configs
  BY DEF NoPicture, Pictures, NoConfig, Configs
<1>2. TypeOK
  BY <1>1 DEF Init, TypeOK, Steps, QdmiCodes
<1>3. DraftInv /\ PictureIsCoherent /\ CalibrationIsPinned /\ SelectionRespected
  BY DEF Init, DraftInv, PictureIsCoherent, CalibrationIsPinned, SelectionRespected
<1>. QED
  BY <1>2, <1>3 DEF IInv

\* A call that only ends, or a server that only moves on, keeps the invariant.
LEMMA EndKeeps ==
  ASSUME IInv, UNCHANGED <<sessionVars, environment>>,
         step' = "idle", draft' \in Pictures, ret' \in QdmiCodes,
         offered' \subseteq Computers, default' \in [Computers -> Calibrations]
  PROVE  IInv'
<1>1. TypeOK'
  BY DEF IInv, TypeOK, Steps
<1>2. DraftInv'
  BY DEF DraftInv
<1>3. PictureIsCoherent' /\ CalibrationIsPinned' /\ SelectionRespected'
  BY DEF IInv, PictureIsCoherent, CalibrationIsPinned, SelectionRespected
<1>. QED
  BY <1>1, <1>2, <1>3 DEF IInv

\* A request that succeeds leaves an invariant to check of the draft alone.
LEMMA DraftKeeps ==
  ASSUME IInv, UNCHANGED <<sessionVars, environment, serverVars>>,
         step' \in Steps, draft' \in Pictures, ret' \in QdmiCodes, DraftInv'
  PROVE  IInv'
<1>1. TypeOK'
  BY DEF IInv, TypeOK
<1>2. PictureIsCoherent' /\ CalibrationIsPinned' /\ SelectionRespected'
  BY DEF IInv, PictureIsCoherent, CalibrationIsPinned, SelectionRespected
<1>. QED
  BY <1>1, <1>2 DEF IInv

LEMMA NoPictureType == NoPicture \in Pictures
BY DEF NoPicture, Pictures

LEMMA SetParameterKeeps ==
  ASSUME IInv, SetParameter
  PROVE  IInv'
<1>1. config' \in Configs
  BY DEF SetParameter, Store, Configs, IInv, TypeOK
<1>2. /\ step = "idle" /\ step' = "idle" /\ draft' = NoPicture
      /\ ret' \in QdmiCodes
      /\ UNCHANGED <<state, picture, environment, serverVars>>
      /\ state = "ALLOCATED" \/ UNCHANGED config
  BY DEF SetParameter, Return, QdmiCodes, QdmiErrors
<1>3. CASE UNCHANGED config
  BY <1>2, <1>3, EndKeeps, NoPictureType DEF IInv, TypeOK
<1>4. CASE state = "ALLOCATED"
  <2>1. TypeOK'
    BY <1>1, <1>2, NoPictureType DEF IInv, TypeOK
  <2>2. DraftInv' /\ PictureIsCoherent' /\ CalibrationIsPinned' /\ SelectionRespected'
    BY <1>2, <1>4 DEF DraftInv, PictureIsCoherent, CalibrationIsPinned,
                      SelectionRespected
  <2>. QED
    BY <2>1, <2>2 DEF IInv
<1>. QED
  BY <1>2, <1>3, <1>4

LEMMA FreeKeeps ==
  ASSUME IInv, Free
  PROVE  IInv'
<1>1. TypeOK'
  BY DEF Free, IInv, TypeOK
<1>2. DraftInv' /\ PictureIsCoherent' /\ CalibrationIsPinned' /\ SelectionRespected'
  BY DEF Free, DraftInv, PictureIsCoherent, CalibrationIsPinned, SelectionRespected
<1>. QED
  BY <1>1, <1>2 DEF IInv

LEMMA InitStartKeeps ==
  ASSUME IInv, InitStart
  PROVE  IInv'
<1>. DEFINE d == [NoPicture EXCEPT !.id = Selected.id, !.alias = Selected.alias]
<1>1. d \in Pictures
  BY SelectedType DEF IInv, NoPicture, Pictures
<1>2. UNCHANGED <<sessionVars, environment, serverVars>>
  BY DEF InitStart
<1>3. CASE Return("BADSTATE") \/ Return("FATAL")
  BY <1>2, <1>3, EndKeeps, NoPictureType DEF Return, QdmiCodes, QdmiErrors, IInv, TypeOK
<1>4. CASE state = "ALLOCATED" /\ Proceed("computers", d)
  <2>1. /\ step' \in Steps /\ draft' \in Pictures /\ ret' \in QdmiCodes
        /\ \/ step' = "computers" /\ draft' = d
           \/ step' = "idle" /\ draft' = NoPicture
    BY <1>1, <1>4, ProceedType DEF Steps, IInv, TypeOK
  <2>2. Selected' = Selected
    BY <1>2 DEF Selected
  <2>3. d.id = Selected.id /\ d.alias = Selected.alias
    BY DEF NoPicture
  <2>4. DraftInv'
    BY <1>2, <1>4, <2>1, <2>2, <2>3 DEF DraftInv
  <2>. QED
    BY <1>2, <2>1, <2>4, DraftKeeps
<1>. QED
  BY <1>3, <1>4 DEF InitStart

LEMMA ComputersKeeps ==
  ASSUME IInv, ComputersDone
  PROVE  IInv'
<1>1. /\ step = "computers" /\ UNCHANGED <<sessionVars, environment, serverVars>>
      /\ state = "ALLOCATED" /\ draft \in Pictures
      /\ draft.id = Selected.id /\ draft.alias = Selected.alias
  BY DEF ComputersDone, IInv, TypeOK, DraftInv
<1>2. CASE RequestFails \/ Return("FATAL")
  BY <1>1, <1>2, FailureReturns, EndKeeps, NoPictureType
     DEF Return, QdmiCodes, QdmiErrors, IInv, TypeOK
<1>3. ASSUME NEW c \in offered, Selects(c), step' = "architecture",
             draft' = [draft EXCEPT !.id = c, !.alias = AliasOf[c]], UNCHANGED ret
      PROVE  IInv'
  <2>1. c \in Computers /\ AliasOf[c] \in Aliases
    BY ComputersAssumption DEF IInv, TypeOK
  <2>2. /\ draft' \in Pictures /\ step' \in Steps /\ ret' \in QdmiCodes
        /\ draft'.id = c /\ draft'.alias = AliasOf[c]
    BY <1>1, <1>3, <2>1 DEF Pictures, Steps, IInv, TypeOK
  <2>3. /\ Selected.id # None => c = Selected.id
        /\ Selected.id = None /\ Selected.alias # None => AliasOf[c] = Selected.alias
        /\ Selected' = Selected
    BY <1>1, <1>3 DEF Selects, Selected
  <2>4. DraftInv'
    BY <1>1, <1>3, <2>1, <2>2, <2>3 DEF DraftInv
  <2>. QED
    BY <1>1, <2>2, <2>4, DraftKeeps
<1>. QED
  BY <1>2, <1>3 DEF ComputersDone

\* What the requests after the first one rely on.
LEMMA Chosen ==
  ASSUME IInv, step \in {"architecture", "gates", "metrics", "health"}
  PROVE  /\ state = "ALLOCATED" /\ draft \in Pictures
         /\ draft.id \in Computers /\ draft.alias = AliasOf[draft.id]
         /\ Selected.id # None => draft.id = Selected.id
         /\ Selected.id = None /\ Selected.alias # None => draft.alias = Selected.alias
BY DEF IInv, TypeOK, DraftInv

LEMMA ArchitectureKeeps ==
  ASSUME IInv, ArchitectureDone
  PROVE  IInv'
<1>1. /\ step = "architecture" /\ UNCHANGED <<sessionVars, environment, serverVars>>
  BY DEF ArchitectureDone
<1>2. CASE RequestFails
  BY <1>1, <1>2, FailureReturns, EndKeeps, NoPictureType DEF IInv, TypeOK
<1>3. ASSUME NEW c \in offered, AliasOf[c] = draft.alias,
             Proceed("gates",
               [draft EXCEPT !.architecture = c, !.calibration = RequestedSet])
      PROVE  IInv'
  <2>. DEFINE d == [draft EXCEPT !.architecture = c, !.calibration = RequestedSet]
  <2>1. c = draft.id /\ c \in Computers
    BY <1>1, <1>3, Chosen, ComputersAssumption DEF IInv, TypeOK
  <2>2. RequestedSet \in Calibrations \cup {"default"} /\ RequestedSet' = RequestedSet
    BY <1>1 DEF RequestedSet, IInv, TypeOK, Configs
  <2>3. /\ d \in Pictures /\ d.id = draft.id /\ d.alias = draft.alias
        /\ d.architecture = c /\ d.calibration = RequestedSet
    BY <1>1, <2>1, <2>2, Chosen DEF Pictures
  <2>4. /\ step' \in Steps /\ draft' \in Pictures /\ ret' \in QdmiCodes
        /\ \/ step' = "gates" /\ draft' = d
           \/ step' = "idle" /\ draft' = NoPicture
    BY <1>3, <2>3, ProceedType DEF Steps, IInv, TypeOK
  <2>5. DraftInv'
    BY <1>1, <2>1, <2>2, <2>3, <2>4, Chosen DEF DraftInv, Selected
  <2>. QED
    BY <1>1, <2>4, <2>5, DraftKeeps
<1>. QED
  BY <1>2, <1>3 DEF ArchitectureDone

LEMMA GatesKeeps ==
  ASSUME IInv, GatesDone
  PROVE  IInv'
<1>1. /\ step = "gates" /\ UNCHANGED <<sessionVars, environment, serverVars>>
      /\ draft.architecture = draft.id
  BY DEF GatesDone, IInv, DraftInv
<1>2. CASE RequestFails \/ Return("FATAL")
  BY <1>1, <1>2, FailureReturns, EndKeeps, NoPictureType
     DEF Return, QdmiCodes, QdmiErrors, IInv, TypeOK
<1>3. ASSUME NEW set \in Calibrations, Accepts(set),
             Proceed("metrics", [draft EXCEPT !.calibration = ResolvedSet(set),
                                              !.gates = set])
      PROVE  IInv'
  <2>. DEFINE d == [draft EXCEPT !.calibration = ResolvedSet(set), !.gates = set]
  <2>1. /\ d \in Pictures /\ d.id = draft.id /\ d.alias = draft.alias
        /\ d.architecture = draft.architecture /\ d.calibration = set /\ d.gates = set
    BY <1>1, Chosen DEF Pictures, ResolvedSet
  <2>2. /\ step' \in Steps /\ draft' \in Pictures /\ ret' \in QdmiCodes
        /\ \/ step' = "metrics" /\ draft' = d
           \/ step' = "idle" /\ draft' = NoPicture
    BY <1>3, <2>1, ProceedType DEF Steps, IInv, TypeOK
  <2>3. Accepts(set)'
    BY <1>1, <1>3 DEF Accepts
  <2>4. DraftInv'
    BY <1>1, <2>1, <2>2, <2>3, Chosen DEF DraftInv, Selected, Accepts
  <2>. QED
    BY <1>1, <2>2, <2>4, DraftKeeps
<1>. QED
  BY <1>2, <1>3 DEF GatesDone

LEMMA MetricsKeeps ==
  ASSUME IInv, MetricsDone
  PROVE  IInv'
<1>1. /\ step = "metrics" /\ UNCHANGED <<sessionVars, environment, serverVars>>
      /\ draft.architecture = draft.id
      /\ draft.gates \in Calibrations /\ draft.calibration = draft.gates
      /\ Accepts(draft.gates)
  BY DEF MetricsDone, IInv, DraftInv
<1>2. CASE RequestFails
  BY <1>1, <1>2, FailureReturns, EndKeeps, NoPictureType DEF IInv, TypeOK
<1>3. ASSUME NEW set \in Measured(draft.calibration),
             Proceed("health", [draft EXCEPT !.metrics = set])
      PROVE  IInv'
  <2>. DEFINE d == [draft EXCEPT !.metrics = set]
  <2>1. set = draft.calibration
    BY <1>1, <1>3, ComputersAssumption DEF Measured
  <2>2. /\ d \in Pictures /\ d.id = draft.id /\ d.alias = draft.alias
        /\ d.architecture = draft.architecture /\ d.calibration = draft.calibration
        /\ d.gates = draft.gates /\ d.metrics = set
    BY <1>1, <2>1, Chosen DEF Pictures
  <2>3. /\ step' \in Steps /\ draft' \in Pictures /\ ret' \in QdmiCodes
        /\ \/ step' = "health" /\ draft' = d
           \/ step' = "idle" /\ draft' = NoPicture
    BY <1>3, <2>2, ProceedType DEF Steps, IInv, TypeOK
  <2>4. DraftInv'
    BY <1>1, <2>1, <2>2, <2>3, Chosen DEF DraftInv, Selected, Accepts
  <2>. QED
    BY <1>1, <2>3, <2>4, DraftKeeps
<1>. QED
  BY <1>2, <1>3 DEF MetricsDone

\* The draft at the last request is what an initialized session must show.
LEMMA DraftIsCoherent ==
  ASSUME IInv, step = "health", NEW b \in BOOLEAN
  PROVE  /\ [draft EXCEPT !.supports = b] \in Pictures
         /\ Coherent([draft EXCEPT !.supports = b])
<1>1. /\ draft.architecture = draft.id
      /\ draft.gates \in Calibrations /\ draft.calibration = draft.gates
      /\ draft.metrics = draft.calibration
  BY DEF IInv, DraftInv
<1>. QED
  BY <1>1, Chosen DEF Pictures, Coherent

LEMMA HealthKeeps ==
  ASSUME IInv, HealthDone
  PROVE  IInv'
<1>1. PICK b \in BOOLEAN : picture' = [draft EXCEPT !.supports = b]
  BY DEF HealthDone
<1>2. /\ step = "health" /\ state' = "INITIALIZED" /\ step' = "idle"
      /\ draft' = NoPicture /\ ret' = "SUCCESS"
      /\ UNCHANGED <<config, environment, serverVars>>
  BY DEF HealthDone, Return
<1>3. /\ picture' \in Pictures /\ Coherent(picture')
  BY <1>1, <1>2, DraftIsCoherent
<1>4. /\ picture'.id = draft.id /\ picture'.alias = draft.alias
      /\ picture'.calibration = draft.calibration
  BY <1>1, <1>2, Chosen DEF Pictures
<1>5. TypeOK'
  BY <1>2, <1>3, NoPictureType DEF IInv, TypeOK, Steps, QdmiCodes
<1>6. DraftInv'
  BY <1>2 DEF DraftInv
<1>7. PictureIsCoherent'
  BY <1>3 DEF PictureIsCoherent, Coherent
<1>8. CalibrationIsPinned'
  BY <1>2, <1>4 DEF IInv, DraftInv, Accepts, CalibrationIsPinned
<1>9. SelectionRespected'
  BY <1>2, <1>4, Chosen DEF Selected, SelectionRespected
<1>. QED
  BY <1>5, <1>6, <1>7, <1>8, <1>9 DEF IInv

LEMMA ServerKeeps ==
  ASSUME IInv, Recalibrate \/ Withdraw \/ UNCHANGED vars
  PROVE  IInv'
<1>1. UNCHANGED <<sessionVars, step, draft, ret, environment>>
  BY DEF Recalibrate, Withdraw, vars
<1>2. offered' \subseteq Computers /\ default' \in [Computers -> Calibrations]
  BY DEF Recalibrate, Withdraw, vars, IInv, TypeOK
<1>3. TypeOK'
  BY <1>1, <1>2 DEF IInv, TypeOK
<1>4. DraftInv'
  BY <1>1 DEF IInv, DraftInv, Selected, RequestedSet, Accepts
<1>5. PictureIsCoherent' /\ CalibrationIsPinned' /\ SelectionRespected'
  BY <1>1 DEF IInv, PictureIsCoherent, CalibrationIsPinned, SelectionRespected
<1>. QED
  BY <1>3, <1>4, <1>5 DEF IInv

LEMMA NextIInv == IInv /\ [Next]_vars => IInv'
BY SetParameterKeeps, FreeKeeps, InitStartKeeps, ComputersKeeps, ArchitectureKeeps,
   GatesKeeps, MetricsKeeps, HealthKeeps, ServerKeeps
   DEF Next, InitContinues

\* The invariant behind the theorems below is inductive.
THEOREM Invariance == Spec => []IInv
BY InitIInv, NextIInv, PTL DEF Spec

-----------------------------------------------------------------------------
(* What the user of a session can rely on *)

\* Every variable of the model of a session (IQM_QDMI_device_session_init and the
\* requests it makes) keeps to its type.
THEOREM TypeCorrect == Spec => []TypeOK
<1>1. IInv => TypeOK
  BY DEF IInv
<1>. QED
  BY <1>1, Invariance, PTL

\* However the IQM Server calibrates meanwhile, an initialized session has the
\* architecture, gates and metrics of one computer under one calibration set.
THEOREM IsCoherent == Spec => []PictureIsCoherent
<1>1. IInv => PictureIsCoherent
  BY DEF IInv
<1>. QED
  BY <1>1, Invariance, PTL

\* The calibration set given by the caller is the one the session uses.
THEOREM PinsCalibration == Spec => []CalibrationIsPinned
<1>1. IInv => CalibrationIsPinned
  BY DEF IInv
<1>. QED
  BY <1>1, Invariance, PTL

\* The caller's selection of a computer comes before that of the environment.
THEOREM RespectsSelection == Spec => []SelectionRespected
<1>1. IInv => SelectionRespected
  BY DEF IInv
<1>. QED
  BY <1>1, Invariance, PTL

-----------------------------------------------------------------------------
(* The abstract session *)

LEMMA StepRefines ==
  ASSUME IInv, [Next]_vars
  PROVE  [Snapshot!Next]_(Snapshot!vars)
<1>1. CASE SetParameter
  <2>1. config' \in Configs
    BY <1>1, SetParameterKeeps DEF IInv, TypeOK
  <2>. QED
    BY <1>1, <2>1 DEF SetParameter, Snapshot!Next, Snapshot!Configure, Snapshot!vars
<1>2. CASE Free
  BY <1>2 DEF Free, Snapshot!Next, Snapshot!Free
<1>3. CASE HealthDone
  <2>1. PICK b \in BOOLEAN : picture' = [draft EXCEPT !.supports = b]
    BY <1>3 DEF HealthDone
  <2>2. /\ state = "ALLOCATED" /\ state' = "INITIALIZED" /\ UNCHANGED config
    BY <1>3, Chosen DEF HealthDone
  <2>3. picture' \in {p \in Pictures : Coherent(p)}
    BY <1>3, <2>1, DraftIsCoherent DEF HealthDone
  <2>. QED
    BY <2>2, <2>3 DEF Snapshot!Next, Snapshot!Initialize
<1>4. CASE \/ InitStart \/ ComputersDone \/ ArchitectureDone \/ GatesDone
           \/ MetricsDone \/ Recalibrate \/ Withdraw \/ UNCHANGED vars
  BY <1>4 DEF InitStart, ComputersDone, ArchitectureDone, GatesDone, MetricsDone,
              Recalibrate, Withdraw, vars, Snapshot!vars
<1>. QED
  BY <1>1, <1>2, <1>3, <1>4 DEF Next, InitContinues

\* Initialization takes effect at once or not at all, and an initialized session
\* stays as it is: DeviceSession implements SessionSnapshot.
THEOREM KeepsSnapshot == Spec => ImplementsSnapshot
<1>1. Init => Snapshot!Init
  BY DEF Init, Snapshot!Init
<1>2. IInv /\ [Next]_vars => [Snapshot!Next]_(Snapshot!vars)
  BY StepRefines
<1>. QED
  BY <1>1, <1>2, Invariance, PTL DEF Spec, ImplementsSnapshot, Snapshot!Spec

=============================================================================
