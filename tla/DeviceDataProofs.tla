-------------------------- MODULE DeviceDataProofs --------------------------
(***************************************************************************)
(* Proofs about what a session makes of what it reads: the status of a     *)
(* quantum computer, the settings a session starts from, the coherence     *)
(* times and fidelities it shows, and the expiry of its tokens.            *)
(***************************************************************************)
EXTENDS DeviceModel, DeviceStatus, SessionSettings, TokenText, FiniteSetTheorems,
        SequenceTheorems, TLAPS

-----------------------------------------------------------------------------
(* DeviceStatus *)

\* The status of a healthy computer is what its queue says.
LEMMA HealthyStatus ==
  ASSUME NEW c, Healthy(c)
  PROVE  RightStatus(c) = IF ~Available(c) THEN "MAINTENANCE"
                          ELSE IF Free(c) THEN "IDLE" ELSE "BUSY"
BY DEF RightStatus

LEMMA Cures ==
  ASSUME NEW c \in Computer
  PROVE  /\ Cured(c) \in Computer
         /\ Healthy(Cured(c))
         /\ Cured(c).windows = c.windows /\ Cured(c).length = c.length
         /\ Healthy(c) => RightStatus(Cured(c)) = RightStatus(c)
<1>1. Cured(c) \in Computer /\ Cured(c).healthy = TRUE
         /\ Cured(c).windows = c.windows /\ Cured(c).length = c.length
  BY DEF Cured, Computer
<1>2. Healthy(Cured(c))
  BY <1>1 DEF Healthy
<1>3. Available(Cured(c)) = Available(c) /\ Free(Cured(c)) = Free(c)
  BY <1>1 DEF Available, Free
<1>. QED
  BY <1>1, <1>2, <1>3, HealthyStatus

LEMMA Statuses ==
  ASSUME NEW c
  PROVE  RightStatus(c) \in {"MAINTENANCE", "IDLE", "BUSY"}
BY DEF RightStatus

\* What a computer's queue makes of it, when it is healthy.
LEMMA QueueSays ==
  ASSUME NEW c \in Computer, Healthy(c)
  PROVE  /\ HasQueue /\ c.windows = FALSE => RightStatus(c) = "MAINTENANCE"
         /\ HasQueue /\ c.windows # FALSE =>
              RightStatus(c) = IF c.length = Unknown \/ c.length >= QUEUE_BUSY_THRESHOLD
                               THEN "BUSY" ELSE "IDLE"
         /\ ~HasQueue => RightStatus(c) = "IDLE"
<1>1. c.length # Unknown => c.length \in Int
  BY StatusBoundsAssumption DEF Computer
<1>2. HasQueue => (Free(c) <=> ~(c.length = Unknown \/ c.length >= QUEUE_BUSY_THRESHOLD))
  BY <1>1 DEF Free, QUEUE_BUSY_THRESHOLD
<1>3. HasQueue => (Available(c) <=> c.windows # FALSE)
  BY DEF Available
<1>4. ~HasQueue => Free(c) /\ Available(c)
  BY DEF Free, Available
<1>. HIDE DEF HasQueue
<1>. QED
  BY <1>2, <1>3, <1>4, HealthyStatus, Zenon

-----------------------------------------------------------------------------

LEMMA StatusStarts == StatusInit => StatusTypeOK /\ QueryInv
BY StatusBoundsAssumption DEF StatusInit, StatusTypeOK, QueryInv

\* The other changes leave a healthy computer healthy.
LEMMA ChangesOfComputer ==
  ASSUME StatusTypeOK, ServerChanges
  PROVE  /\ computer' \in Computer
         /\ \/ Cured(computer') = Cured(computer)
            \/ computer'.healthy = computer.healthy
<1>1. CASE computer' = [computer EXCEPT !.healthy = ~@]
  BY <1>1 DEF StatusTypeOK, Computer, Cured
<1>2. CASE /\ computer.windows # Unknown
           /\ computer' = [computer EXCEPT !.windows = ~@]
  BY <1>2 DEF StatusTypeOK, Computer
<1>3. CASE /\ computer.length # Unknown
           /\ \E n \in {computer.length - 1, computer.length + 1} \cap 0..MaxQueue :
                computer' = [computer EXCEPT !.length = n]
  <2>1. PICK n \in 0..MaxQueue : computer' = [computer EXCEPT !.length = n]
    BY <1>3
  <2>. QED
    BY <2>1 DEF StatusTypeOK, Computer
<1>. QED
  BY <1>1, <1>2, <1>3 DEF ServerChanges

LEMMA StatusChanges ==
  ASSUME StatusTypeOK, QueryInv, ServerChanges
  PROVE  StatusTypeOK' /\ QueryInv'
<1>1. /\ computer' \in Computer
      /\ \/ Cured(computer') = Cured(computer)
         \/ computer'.healthy = computer.healthy
  BY ChangesOfComputer
<1>2. /\ probe # "idle" /\ changes \in Nat /\ changes < MaxChanges /\ changes' = changes + 1
      /\ held' = held \cup {RightStatus(computer')}
      /\ UNCHANGED <<endpoints, probe, failed, answer>>
  BY StatusBoundsAssumption DEF ServerChanges, StatusTypeOK
<1>3. changes' \in 0..MaxChanges /\ changes' # 0 /\ (changes' <= 1 => changes = 0 /\ changes <= 1)
  BY <1>2, StatusBoundsAssumption
<1>4. RightStatus(computer') \in {"MAINTENANCE", "IDLE", "BUSY"}
  BY Statuses
<1>5. StatusTypeOK'
  BY <1>1, <1>2, <1>3, <1>4 DEF StatusTypeOK
<1>6. RightStatus(computer)' = RightStatus(computer')
  BY <1>2 DEF RightStatus, Healthy, Available, Free, HasQueue
<1>7. RightStatus(Cured(computer))' = RightStatus(Cured(computer'))
  BY <1>2 DEF RightStatus, Healthy, Available, Free, HasQueue, Cured
<1>8. ASSUME probe' = "queue", changes' <= 1
      PROVE  RightStatus(Cured(computer')) \in held'
  <2>1. probe = "queue" /\ changes = 0 /\ changes <= 1
    BY <1>2, <1>3, <1>8
  <2>2. Healthy(computer) /\ RightStatus(Cured(computer)) \in held
    BY <2>1 DEF QueryInv
  <2>3. CASE Cured(computer') = Cured(computer)
    BY <1>2, <2>2, <2>3
  <2>4. CASE computer'.healthy = computer.healthy
    <3>1. Healthy(computer')
      BY <2>2, <2>4 DEF Healthy
    <3>. QED
      BY <1>1, <1>2, <3>1, Cures
  <2>. QED
    BY <1>1, <2>3, <2>4
<1>. QED
  BY <1>2, <1>3, <1>5, <1>6, <1>7, <1>8 DEF QueryInv

LEMMA QueryStarts ==
  ASSUME StatusTypeOK, QueryStatus \/ QueryQueueLength
  PROVE  StatusTypeOK' /\ QueryInv'
<1>1. /\ probe' \in {"health", "length"} /\ held' = {RightStatus(computer)} /\ changes' = 0
      /\ failed' = FALSE /\ UNCHANGED <<computer, endpoints, answer>>
  BY DEF QueryStatus, QueryQueueLength, Start
<1>2. RightStatus(computer)' = RightStatus(computer)
  BY <1>1 DEF RightStatus, Healthy, Available, Free, HasQueue
<1>3. StatusTypeOK'
  BY <1>1, Statuses, StatusBoundsAssumption DEF StatusTypeOK
<1>. QED
  BY <1>1, <1>2, <1>3 DEF QueryInv

\* A query that ends leaves nothing to be known.
LEMMA QueryEnds ==
  ASSUME StatusTypeOK, NEW s \in {"MAINTENANCE", "IDLE", "BUSY", "LENGTH", "NOTSUPPORTED",
                                  "PERMISSIONDENIED"}, Returns(s)
  PROVE  StatusTypeOK' /\ QueryInv'
BY DEF StatusTypeOK, QueryInv, Returns

\* The health is good, or nobody asks for it.
LEMMA QueryGoesOn ==
  ASSUME StatusTypeOK, QueryInv, HealthDone, probe' = "queue"
  PROVE  StatusTypeOK' /\ QueryInv'
<1>1. /\ probe = "health" /\ UNCHANGED <<computer, endpoints, held, changes, answer>>
      /\ \E outcome \in Outcomes("health") :
           /\ failed' = (failed \/ outcome = "UNAVAILABLE")
           /\ outcome = "UNSUPPORTED" \/ (outcome = "ANSWERED" /\ computer.healthy)
  BY DEF HealthDone, Returns
<1>2. ~failed' /\ Healthy(computer)
  BY <1>1 DEF QueryInv, Outcomes, Supported, Healthy
<1>3. StatusTypeOK'
  BY <1>1 DEF StatusTypeOK
<1>4. RightStatus(computer) \in held
  BY <1>1 DEF QueryInv
<1>5. RightStatus(Cured(computer)) \in held
  BY <1>2, <1>4, Cures DEF StatusTypeOK
<1>6. /\ RightStatus(computer)' = RightStatus(computer) /\ Healthy(computer)' = Healthy(computer)
      /\ RightStatus(Cured(computer))' = RightStatus(Cured(computer))
  BY <1>1 DEF RightStatus, Healthy, Available, Free, HasQueue, Cured
<1>. QED
  BY <1>1, <1>2, <1>3, <1>4, <1>5, <1>6 DEF QueryInv

LEMMA StatusInvariance == StatusSpec => [](StatusTypeOK /\ QueryInv)
<1>1. ASSUME StatusTypeOK, QueryInv, [StatusNext]_statusVars
      PROVE  StatusTypeOK' /\ QueryInv'
  <2>1. CASE QueryStatus \/ QueryQueueLength
    BY <1>1, <2>1, QueryStarts
  <2>2. CASE HealthDone
    <3>1. CASE probe' = "queue"
      BY <1>1, <2>2, <3>1, QueryGoesOn
    <3>2. CASE probe' # "queue"
      BY <1>1, <2>2, <3>2, QueryEnds DEF HealthDone
    <3>. QED
      BY <3>1, <3>2
  <2>3. CASE QueueDone
    BY <1>1, <2>3, QueryEnds DEF QueueDone
  <2>4. CASE LengthDone
    BY <1>1, <2>4, QueryEnds DEF LengthDone
  <2>5. CASE Denied
    BY <1>1, <2>5, QueryEnds DEF Denied
  <2>6. CASE ServerChanges
    BY <1>1, <2>6, StatusChanges
  <2>7. CASE UNCHANGED statusVars
    BY <1>1, <2>7 DEF statusVars, StatusTypeOK, QueryInv, RightStatus, Healthy, Available,
                      Free, HasQueue, Cured
  <2>. QED
    BY <1>1, <2>1, <2>2, <2>3, <2>4, <2>5, <2>6, <2>7 DEF StatusNext
<1>. QED
  BY <1>1, StatusStarts, PTL DEF StatusSpec

-----------------------------------------------------------------------------

LEMMA HealthAnswer ==
  ASSUME StatusTypeOK, QueryInv, HealthDone, probe' = "idle"
  PROVE  IF failed' THEN answer' \in {"BUSY", "PERMISSIONDENIED"} ELSE answer' \in held
<1>1. probe = "health" /\ ~failed /\ RightStatus(computer) \in held
  BY DEF HealthDone, QueryInv
<1>2. PICK outcome \in Outcomes("health") :
        /\ failed' = (failed \/ outcome = "UNAVAILABLE")
        /\ \/ outcome = "ANSWERED" /\ ~computer.healthy /\ answer' = "MAINTENANCE"
           \/ outcome = "UNAVAILABLE" /\ answer' = "BUSY"
  BY DEF HealthDone, Returns
<1>3. CASE outcome = "ANSWERED"
  <2>1. ~Healthy(computer)
    BY <1>2, <1>3 DEF Outcomes, Supported, Healthy
  <2>2. RightStatus(computer) = "MAINTENANCE"
    BY <2>1 DEF RightStatus
  <2>. QED
    BY <1>1, <1>2, <1>3, <2>2
<1>4. CASE outcome = "UNAVAILABLE"
  BY <1>2, <1>4
<1>. QED
  BY <1>2, <1>3, <1>4

LEMMA QueueAnswer ==
  ASSUME StatusTypeOK, QueryInv, QueueDone
  PROVE  IF failed' THEN answer' \in {"BUSY", "PERMISSIONDENIED"}
         ELSE changes <= 1 => answer' \in held
<1>1. probe = "queue" /\ ~failed /\ RightStatus(computer) \in held
      /\ (changes <= 1 => RightStatus(Cured(computer)) \in held)
  BY DEF QueueDone, QueryInv
<1>2. PICK outcome \in Outcomes("queue") :
        /\ failed' = (failed \/ outcome = "UNAVAILABLE")
        /\ \/ outcome = "UNAVAILABLE" /\ answer' = "BUSY"
           \/ outcome = "UNSUPPORTED" /\ answer' = "IDLE"
           \/ outcome = "ANSWERED" /\ computer.windows = FALSE /\ answer' = "MAINTENANCE"
           \/ /\ outcome = "ANSWERED" /\ computer.windows # FALSE
              /\ answer' = IF Occupied THEN "BUSY" ELSE "IDLE"
  BY DEF QueueDone, Returns
<1>3. /\ outcome = "ANSWERED" => HasQueue
      /\ outcome = "UNSUPPORTED" => ~HasQueue
  BY DEF Outcomes, Supported, HasQueue
<1>4. outcome # "UNAVAILABLE" => answer' = RightStatus(Cured(computer))
  <2>. DEFINE c == Cured(computer)
  <2>1. c \in Computer /\ Healthy(c) /\ c.windows = computer.windows /\ c.length = computer.length
    BY Cures DEF StatusTypeOK
  <2>2. Occupied <=> c.length = Unknown \/ c.length >= QUEUE_BUSY_THRESHOLD
    BY <2>1 DEF Occupied
  <2>. HIDE DEF c
  <2>. QED
    BY <1>2, <1>3, <2>1, <2>2, QueueSays DEF c
<1>. QED
  BY <1>1, <1>2, <1>4

\* The answer to a query is a status that was right meanwhile, unless a request
\* failed or the computer changed twice.
THEOREM HoldsStatus == StatusSpec => StatusHeldDuringQuery
<1>1. ASSUME StatusTypeOK, QueryInv, [StatusNext]_statusVars,
             probe \in {"health", "queue"}, probe' = "idle"
      PROVE  IF failed' THEN answer' \in {"BUSY", "PERMISSIONDENIED"}
             ELSE changes <= 1 => answer' \in held
  <2>1. CASE HealthDone
    BY <1>1, <2>1, HealthAnswer
  <2>2. CASE QueueDone
    BY <1>1, <2>2, QueueAnswer
  <2>3. CASE Denied
    BY <2>3 DEF Denied, Returns
  <2>. QED
    BY <1>1, <2>1, <2>2, <2>3 DEF StatusNext, statusVars, QueryStatus, QueryQueueLength, Start,
                                  LengthDone, ServerChanges
<1>. QED
  BY <1>1, StatusInvariance, PTL DEF StatusSpec, StatusHeldDuringQuery

-----------------------------------------------------------------------------
(* SessionSettings *)

\* A session goes for what its parameters select, or else the environment.
LEMMA GoalOfSelection ==
  ASSUME NEW p, NEW q, p.id = q.id,
         p.id # None \/ p.alias = q.alias
  PROVE  Goal(p) = Goal(q)
<1>. DEFINE Called(alias) == CHOOSE c \in Computers : AliasOf[c] = alias
<1>1. \A s : Goal(s) = IF s.id # None THEN s.id
                       ELSE IF s.alias # None THEN Called(s.alias) ELSE None
  BY DEF Goal
<1>. HIDE DEF Called
<1>. QED
  BY <1>1

LEMMA Parameters ==
  ASSUME NEW d \in DOMAIN Manifest, NEW a \in Arguments,
         parameters = Merged(d, SessionParameters(d, a))
  PROVE  /\ d # DefaultId =>
              /\ parameters.url = Or(a.url, "manifest")
              /\ parameters.id = a.id /\ parameters.alias = Or(a.alias, Manifest[d])
         /\ d = DefaultId =>
              /\ parameters.url = Or(Or(a.url, EnvironmentUrl), "manifest")
              /\ a.id # None \/ a.alias # None =>
                   parameters.id = a.id /\ parameters.alias = a.alias
              /\ a.id = None /\ a.alias = None =>
                   parameters.id = environ.id /\ parameters.alias = EnvironmentAlias
<1>1. d = DefaultId => Manifest[d] = None
  BY ManifestAssumption
<1>. DEFINE routed == d = DefaultId
            selects == routed /\ a.id = None /\ a.alias = None
<1>2. /\ parameters.url = Or(IF routed THEN Or(a.url, EnvironmentUrl) ELSE a.url, "manifest")
      /\ parameters.id = IF selects THEN environ.id ELSE a.id
      /\ parameters.alias = Or(IF selects THEN EnvironmentAlias ELSE a.alias, Manifest[d])
  BY DEF Merged, SessionParameters
<1>. QED
  BY <1>1, <1>2 DEF Or

LEMMA SessionSelects ==
  Session!Selected =
    IF parameters.id # None \/ parameters.alias # None
    THEN [id |-> parameters.id, alias |-> parameters.alias]
    ELSE [id |-> environ.id, alias |-> EnvironmentAlias]
BY DEF Session!Selected, Config

LEMMA InitializeRoutes ==
  ASSUME OpenedInv, Initialize
  PROVE  RoutingRespected'
<1>. DEFINE d == device
            a == arguments
            named == d # DefaultId
            wanted == IF a.id # None \/ a.alias # None THEN a
                      ELSE IF named THEN [id |-> None, alias |-> Manifest[d]]
                      ELSE [id |-> environ.id, alias |-> EnvironmentAlias]
<1>1. /\ d \in DOMAIN Manifest /\ a \in Arguments
      /\ parameters = Merged(d, SessionParameters(d, a))
      /\ UNCHANGED <<environ, device, arguments>>
      /\ session'.url = Or(parameters.url, EnvironmentUrl)
      /\ session'.goal = Goal(Session!Selected)
  BY DEF OpenedInv, Initialize
<1>2. session'.url = IF a.url # None THEN a.url
                     ELSE IF named THEN "manifest" ELSE Or(EnvironmentUrl, "manifest")
  BY <1>1, Parameters, NoneAssumption DEF Or
<1>3. Goal(Session!Selected) = Goal(wanted)
  <2>1. CASE a.id # None \/ a.alias # None
    <3>1. /\ parameters.id = a.id
          /\ a.id = None => parameters.alias = a.alias
      BY <1>1, <2>1, Parameters DEF Or
    <3>2. Session!Selected = [id |-> parameters.id, alias |-> parameters.alias]
      BY <2>1, <3>1, SessionSelects
    <3>3. wanted = a
      BY <2>1
    <3>. QED
      BY <3>1, <3>2, <3>3, GoalOfSelection
  <2>2. CASE a.id = None /\ a.alias = None /\ named
    <3>1. parameters.id = None /\ parameters.alias = Manifest[d] /\ Manifest[d] # None
      BY <1>1, <2>2, Parameters, ManifestAssumption DEF Or
    <3>. QED
      BY <2>2, <3>1, SessionSelects
  <2>3. CASE a.id = None /\ a.alias = None /\ ~named
    <3>1. parameters.id = environ.id /\ parameters.alias = EnvironmentAlias
      BY <1>1, <2>3, Parameters
    <3>. QED
      BY <2>3, <3>1, SessionSelects
  <2>. QED
    BY <2>1, <2>2, <2>3
<1>4. /\ EnvironmentUrl' = EnvironmentUrl /\ EnvironmentAlias' = EnvironmentAlias
  BY <1>1 DEF EnvironmentUrl, EnvironmentAlias
<1>. QED
  BY <1>1, <1>2, <1>3, <1>4 DEF RoutingRespected, Goal

\* The settings are resolved once, and routing is decided by then: a named device
\* is its manifest's unless an argument says otherwise.
THEOREM RespectsRouting == SettingsSpec => []RoutingRespected
<1>1. SettingsInit => OpenedInv /\ RoutingRespected
  BY DEF SettingsInit, OpenedInv, RoutingRespected
<1>2. ASSUME OpenedInv, RoutingRespected, [SettingsNext]_settingsVars
      PROVE  OpenedInv' /\ RoutingRespected'
  <2>1. CASE Open
    <3>1. OpenedInv'
      BY <1>2, <2>1 DEF Open, OpenedInv, Merged, SessionParameters, EnvironmentUrl,
                        EnvironmentAlias
    <3>2. session' = None
      BY <1>2, <2>1 DEF Open, OpenedInv
    <3>. QED
      BY <3>1, <3>2 DEF RoutingRespected
  <2>2. CASE Initialize
    <3>1. OpenedInv'
      BY <1>2, <2>2 DEF Initialize, OpenedInv, Merged, SessionParameters, EnvironmentUrl,
                        EnvironmentAlias
    <3>. QED
      BY <1>2, <2>2, <3>1, InitializeRoutes
  <2>3. CASE UNCHANGED settingsVars
    BY <1>2, <2>3 DEF settingsVars, OpenedInv, RoutingRespected, Merged, SessionParameters,
                      EnvironmentUrl, EnvironmentAlias, Goal
  <2>. QED
    BY <1>2, <2>1, <2>2, <2>3 DEF SettingsNext
<1>. QED
  BY <1>1, <1>2, PTL DEF SettingsSpec

-----------------------------------------------------------------------------
(* DeviceModel: the last valid observation *)

\* A set of natural numbers has a least element, and a bounded one a greatest.
LEMMA LeastNatural ==
  ASSUME NEW T, T \subseteq Nat, T # {}
  PROVE  \E m \in T : \A k \in T : m <= k
<1>. DEFINE Below(n) == 1..n
            Initial == {Below(n) : n \in T}
<1>1. \A n \in Nat : Below(n) \subseteq Nat /\ IsFiniteSet(Below(n))
  BY FS_Interval
<1>2. Initial \subseteq FiniteSubsetsOf(Nat) /\ Initial # {}
  <2>. HIDE DEF Below
  <2>. QED
    BY <1>1 DEF FiniteSubsetsOf
<1>3. \E U \in Initial : \A V \in Initial : <<V, U>> \notin StrictSubsetOrdering(Nat)
  <2>. HIDE DEF Initial
  <2>. QED
    BY <1>2, FS_StrictSubsetOrderingWellFounded, WFMin, Zenon
<1>4. PICK m \in T : \A k \in T : <<Below(k), Below(m)>> \notin StrictSubsetOrdering(Nat)
  BY <1>3
<1>5. ASSUME NEW k \in T, k < m PROVE FALSE
  <2>1. Below(k) \subseteq Below(m) /\ m \in Below(m) /\ m \notin Below(k)
    BY <1>5
  <2>. HIDE DEF Below
  <2>2. <<Below(k), Below(m)>> \in StrictSubsetOrdering(Nat)
    BY <1>1, <2>1 DEF StrictSubsetOrdering
  <2>. QED
    BY <1>4, <2>2
<1>. QED
  BY <1>4, <1>5

LEMMA GreatestNatural ==
  ASSUME NEW n \in Nat, NEW T, T \subseteq 1..n, T # {}
  PROVE  \E m \in T : \A k \in T : k <= m
<1>. DEFINE Mirror == {n - k : k \in T}
<1>1. Mirror \subseteq Nat /\ Mirror # {}
  <2>1. \A k \in T : n - k \in Nat
    OBVIOUS
  <2>. QED
    BY <2>1
<1>2. PICK d \in Mirror : \A e \in Mirror : d <= e
  BY <1>1, LeastNatural, Zenon
<1>3. PICK m \in T : d = n - m
  BY <1>2
<1>4. ASSUME NEW k \in T PROVE k <= m
  <2>1. n - k \in Mirror
    BY <1>4
  <2>2. n - m <= n - k
    BY <1>2, <1>3, <2>1
  <2>. QED
    BY <2>2
<1>. QED
  BY <1>4

\* A metric is a valid observation of the field, if there is one.
LEMMA MetricIsValid ==
  ASSUME NEW obs \in Observations, NEW field
  PROVE  \/ /\ Metric(obs, field) = 0
            /\ \A i \in DOMAIN obs : obs[i].field = field => obs[i].invalid
         \/ /\ Metric(obs, field) \in DOMAIN obs /\ Metric(obs, field) # 0
            /\ obs[Metric(obs, field)].field = field /\ ~obs[Metric(obs, field)].invalid
<1>. DEFINE found == {i \in DOMAIN obs : obs[i].field = field /\ ~obs[i].invalid}
<1>1. obs \in Seq(Range(obs)) /\ Len(obs) \in Nat /\ DOMAIN obs = 1..Len(obs)
  BY DocumentsAssumption
<1>2. CASE found = {}
  <2>1. Metric(obs, field) = 0
    BY <1>2 DEF Metric
  <2>2. \A i \in DOMAIN obs : obs[i].field = field => obs[i].invalid
    BY <1>2
  <2>. QED
    BY <2>1, <2>2
<1>3. CASE found # {}
  <2>1. found \subseteq 1..Len(obs)
    BY <1>1
  <2>2. \E m \in found : \A j \in found : j <= m
    <3>. HIDE DEF found
    <3>. QED
      BY <1>1, <1>3, <2>1, GreatestNatural, Zenon
  <2>3. Metric(obs, field) = CHOOSE i \in found : \A j \in found : j <= i
    BY <1>3 DEF Metric
  <2>4. Metric(obs, field) \in found
    <3>. HIDE DEF found
    <3>. QED
      BY <2>2, <2>3
  <2>. QED
    BY <1>1, <2>4
<1>. QED
  BY <1>2, <1>3

-----------------------------------------------------------------------------
(* DeviceModel: coherence times *)

LEMMA WholeMicroseconds ==
  ASSUME NEW v \in Int \cup {NotFinite}
  PROVE  \/ Microseconds(v) = 0
         \/ /\ Microseconds(v) \in 1..(TooMany - 1)
            /\ v \in {2 * Microseconds(v), 2 * Microseconds(v) + 1}
BY TooManyAssumption DEF Microseconds

\* What is measured was observed, unless nothing is.
LEMMA MeasuredIsObserved ==
  ASSUME NEW obs \in Observations, NEW s, NEW time, NEW t, t = Measured(obs, s, time, 0), t # 0
  PROVE  /\ t \in 1..(TooMany - 1)
         /\ \E o \in Range(obs) :
              o.field = <<time, s>> /\ ~o.invalid /\ o.value \in {2 * t, 2 * t + 1}
<1>. DEFINE i == Metric(obs, <<time, s>>)
<1>1. i # 0 /\ t = Microseconds(obs[i].value)
  BY DEF Measured
<1>2. i \in DOMAIN obs /\ obs[i].field = <<time, s>> /\ ~obs[i].invalid
  BY <1>1, MetricIsValid
<1>3. obs[i] \in Range(obs)
  BY <1>2 DEF Range
<1>4. obs[i].value \in Int \cup {NotFinite}
  BY <1>3, DocumentsAssumption
<1>. HIDE DEF i
<1>. QED
  BY <1>1, <1>2, <1>3, <1>4, WholeMicroseconds

LEMMA MetricsMeasure ==
  ASSUME NotYetRead, ProcessMetrics
  PROVE  CoherenceIsObserved'
<1>1. /\ observations' \in Observations /\ UNCHANGED sites
      /\ coherence = [s \in Range(sites) |-> [t1 |-> 0, t2 |-> 0]]
      /\ coherence' = [s \in Range(sites) |->
           [t1 |-> Measured(observations', s, "t1", coherence[s].t1),
            t2 |-> Measured(observations', s, "t2", coherence[s].t2)]]
  BY DEF ProcessMetrics, NotYetRead
<1>2. ASSUME NEW s \in Range(sites)'
      PROVE  /\ coherence'[s].t1 = Measured(observations', s, "t1", 0)
             /\ coherence'[s].t2 = Measured(observations', s, "t2", 0)
  <2>1. s \in Range(sites)
    BY <1>1, <1>2 DEF Range
  <2>2. coherence[s].t1 = 0 /\ coherence[s].t2 = 0
    BY <1>1, <2>1
  <2>. QED
    BY <1>1, <2>1, <2>2
<1>3. ASSUME NEW s \in Range(sites)', NEW time \in {"t1", "t2"},
             SiteTime(s, time)'.code = "SUCCESS"
      PROVE  LET t == SiteTime(s, time)' IN
             /\ t.value \in 1..(TooMany - 1)
             /\ \E o \in Range(observations)' :
                  /\ o.field = <<time, s>> /\ ~o.invalid
                  /\ o.value \in {2 * t.value, 2 * t.value + 1}
  <2>1. coherence'[s][time] = Measured(observations', s, time, 0)
    BY <1>2, <1>3
  <2>2. SiteTime(s, time)'.value = coherence'[s][time] /\ coherence'[s][time] > 0
    BY <1>3 DEF SiteTime, Value, Unsupported
  <2>3. coherence'[s][time] # 0
    BY <2>2
  <2>. DEFINE t == coherence'[s][time]
  <2>4. /\ t \in 1..(TooMany - 1)
        /\ \E o \in Range(observations') :
             o.field = <<time, s>> /\ ~o.invalid /\ o.value \in {2 * t, 2 * t + 1}
    <3>1. observations' \in Observations /\ t = Measured(observations', s, time, 0) /\ t # 0
      BY <1>1, <2>1, <2>3
    <3>. HIDE DEF t
    <3>. QED
      BY <3>1, MeasuredIsObserved, Zenon
  <2>5. Range(observations)' = Range(observations')
    BY DEF Range
  <2>. QED
    BY <2>2, <2>4, <2>5
<1>. QED
  BY <1>3 DEF CoherenceIsObserved

-----------------------------------------------------------------------------
(* DeviceModel: the loci of an operation and their fidelities *)

LEMMA ReverseOnce ==
  ASSUME NEW S, NEW l \in Seq(S)
  PROVE  /\ Reverse(l) \in Seq(S) /\ Len(Reverse(l)) = Len(l)
         /\ \A i \in 1..Len(l) : Reverse(l)[i] = l[Len(l) - i + 1]
BY DEF Reverse

LEMMA ReverseTwice ==
  ASSUME NEW S, NEW l \in Seq(S)
  PROVE  /\ Reverse(l) \in Seq(S) /\ Len(Reverse(l)) = Len(l)
         /\ Reverse(Reverse(l)) = l
<1>. DEFINE r == Reverse(l)
<1>1. /\ r \in Seq(S) /\ Len(r) = Len(l) /\ Len(l) \in Nat
      /\ \A i \in 1..Len(l) : r[i] = l[Len(l) - i + 1]
  BY ReverseOnce
<1>2. /\ Reverse(r) \in Seq(S) /\ Len(Reverse(r)) = Len(r)
      /\ \A i \in 1..Len(r) : Reverse(r)[i] = r[Len(r) - i + 1]
  <2>. HIDE DEF r
  <2>. QED
    BY <1>1, ReverseOnce
<1>. HIDE DEF r
<1>3. \A i \in 1..Len(l) : Reverse(r)[i] = l[i]
  BY <1>1, <1>2
<1>4. Reverse(r) = l
  BY <1>1, <1>2, <1>3, SeqEqual
<1>. QED
  BY <1>1, <1>4 DEF r

\* What is registered for an operation is a list of loci of one size.
LEMMA LociOfOneSize ==
  ASSUME LociInv, stage \in {"operations", "ready"}, NEW op \in DOMAIN loci
  PROVE  /\ op \in DOMAIN gates /\ loci[op] = gates[op].loci[gates[op].default]
         /\ loci[op] \in Loci /\ Len(loci[op]) \in Nat \ {0}
         /\ Len(loci[op][1]) \in Nat \ {0}
         /\ \A i \in 1..Len(loci[op]) :
              loci[op][i] \in Seq(STRING) /\ Len(loci[op][i]) = Len(loci[op][1])
<1>1. /\ op \in DOMAIN gates /\ gates \in GateSets
      /\ loci[op] = gates[op].loci[gates[op].default] /\ Describable(loci[op])
  BY DEF LociInv
<1>2. loci[op] \in Loci
  BY <1>1, DocumentsAssumption
<1>3. DOMAIN loci[op] = 1..Len(loci[op]) /\ Len(loci[op]) \in Nat
      /\ \A i \in 1..Len(loci[op]) : loci[op][i] \in Seq(STRING)
  BY <1>2 DEF Loci
<1>4. loci[op] # <<>> /\ loci[op][1] # <<>>
      /\ \A i \in 1..Len(loci[op]) : Len(loci[op][i]) = Len(loci[op][1])
  BY <1>1, <1>3 DEF Describable
<1>5. Len(loci[op]) # 0
  BY <1>2, <1>4 DEF Loci
<1>6. loci[op][1] \in Seq(STRING)
  BY <1>3, <1>5
<1>7. Len(loci[op][1]) \in Nat \ {0}
  BY <1>4, <1>6
<1>. QED
  BY <1>1, <1>2, <1>3, <1>4, <1>5, <1>7

LEMMA LocusSize ==
  ASSUME LociInv, stage \in {"operations", "ready"}, NEW op \in DOMAIN loci,
         NEW l \in Range(loci[op])
  PROVE  l \in Seq(STRING) /\ l # Absent /\ Len(l) = Len(loci[op][1])
<1>1. PICK i \in DOMAIN loci[op] : l = loci[op][i]
  BY DEF Range
<1>2. i \in 1..Len(loci[op])
  BY <1>1, LociOfOneSize DEF Loci
<1>3. l \in Seq(STRING) /\ Len(l) = Len(loci[op][1])
  BY <1>1, <1>2, LociOfOneSize
<1>4. Absent \notin Seq(STRING)
  BY DocumentsAssumption
<1>. QED
  BY <1>3, <1>4

LEMMA GatesKeepLoci ==
  ASSUME LociInv, [ModelNext]_modelVars
  PROVE  LociInv'
<1>1. CASE ProcessArchitecture
  BY <1>1 DEF ProcessArchitecture, LociInv
<1>2. CASE ProcessGates
  <2>1. CASE stage' = "failed"
    BY <2>1 DEF LociInv
  <2>2. CASE stage' # "failed"
    <3>1. /\ gates' \in GateSets
          /\ loci' = [g \in {k \in DOMAIN gates' \ Skipped : Describable(DefaultLoci(k))} |->
                        DefaultLoci(g)]
      BY <1>2, <2>2 DEF ProcessGates
    <3>2. ASSUME NEW op \in DOMAIN loci'
          PROVE  /\ op \in DOMAIN gates' /\ loci'[op] = gates'[op].loci[gates'[op].default]
                 /\ Describable(loci'[op])
      BY <3>1, <3>2 DEF DefaultLoci
    <3>3. ASSUME NEW l PROVE Describable(l)' = Describable(l)
      OBVIOUS
    <3>. QED
      BY <3>1, <3>2 DEF LociInv, Describable
  <2>. QED
    BY <2>1, <2>2
<1>3. CASE ProcessMetrics
  BY <1>3 DEF ProcessMetrics, LociInv, Describable
<1>4. CASE UNCHANGED modelVars
  BY <1>4 DEF modelVars, documents, LociInv, Describable
<1>. QED
  BY <1>1, <1>2, <1>3, <1>4 DEF ModelNext

LEMMA MetricsRate ==
  ASSUME FidelityInv, [ModelNext]_modelVars
  PROVE  FidelityInv'
<1>1. CASE ProcessArchitecture \/ ProcessGates
  <2>1. stage' # "ready"
    BY <1>1 DEF ProcessArchitecture, ProcessGates
  <2>. QED
    BY <2>1 DEF FidelityInv
<1>2. CASE ProcessMetrics
  <2>. DEFINE valid(g) == {l \in Range(loci[g]) : Metric(observations', Field(g, l)) # 0}
  <2>1. /\ observations' \in Observations /\ UNCHANGED <<gates, loci>>
        /\ fidelity' = [g \in Rated |-> [l \in valid(g) |-> Metric(observations', Field(g, l))]]
    BY <1>2 DEF ProcessMetrics
  <2>2. Rated' = Rated
    BY <2>1 DEF Rated, ArityOf
  <2>3. \A g, l : Field(g, l)' = Field(g, l)
    BY <2>1 DEF Field
  <2>4. \A g : Range(loci[g])' = Range(loci[g])
    BY <2>1 DEF Range
  <2>5. \A field : Metric(observations, field)' = Metric(observations', field)
    BY DEF Metric
  <2>. QED
    BY <2>1, <2>2, <2>3, <2>4, <2>5 DEF FidelityInv
<1>3. CASE UNCHANGED modelVars
  <2>1. UNCHANGED <<stage, gates, loci, fidelity, observations>>
    BY <1>3 DEF modelVars, documents
  <2>2. Rated' = Rated
    BY <2>1 DEF Rated, ArityOf
  <2>3. \A g, l : Field(g, l)' = Field(g, l)
    BY <2>1 DEF Field
  <2>4. \A g : Range(loci[g])' = Range(loci[g])
    BY <2>1 DEF Range
  <2>5. \A field : Metric(observations, field)' = Metric(observations, field)
    BY <2>1 DEF Metric
  <2>. QED
    BY <2>1, <2>2, <2>3, <2>4, <2>5 DEF FidelityInv
<1>. QED
  BY <1>1, <1>2, <1>3 DEF ModelNext

\* The fidelity query at sites that are a locus of the operation.
LEMMA FidelityQuery ==
  ASSUME LociInv, FidelityInv, stage = "ready", NEW op \in DOMAIN loci,
         NEW at \in Seq(STRING), Len(at) = Len(loci[op][1]), IsLocus(op, at)
  PROVE  OperationProperty(op, "FIDELITY", at, Absent) =
           IF op \in Rated THEN FidelityAt(op, at) ELSE Unsupported
<1>1. at # Absent /\ DOMAIN fidelity = Rated
  BY DocumentsAssumption DEF FidelityInv
<1>. QED
  BY <1>1 DEF OperationProperty

\* A fidelity is that of a valid observation, and withheld only if there is none.
LEMMA FidelityObserved ==
  ASSUME LociInv, FidelityInv, stage = "ready", NEW op \in Rated, NEW l \in Range(loci[op])
  PROVE  /\ l \in DOMAIN fidelity[op] =>
              /\ fidelity[op][l] \in DOMAIN observations
              /\ ~observations[fidelity[op][l]].invalid
              /\ observations[fidelity[op][l]].field = Field(op, l)
         /\ l \notin DOMAIN fidelity[op] =>
              \A o \in Range(observations) : o.invalid \/ o.field # Field(op, l)
<1>1. /\ observations \in Observations
      /\ l \in DOMAIN fidelity[op] <=> Metric(observations, Field(op, l)) # 0
      /\ l \in DOMAIN fidelity[op] => fidelity[op][l] = Metric(observations, Field(op, l))
  BY DEF FidelityInv
<1>2. CASE l \in DOMAIN fidelity[op]
  BY <1>1, <1>2, MetricIsValid
<1>3. CASE l \notin DOMAIN fidelity[op]
  <2>1. \A i \in DOMAIN observations :
          observations[i].field = Field(op, l) => observations[i].invalid
    BY <1>1, <1>3, MetricIsValid
  <2>. QED
    BY <1>3, <2>1 DEF Range
<1>. QED
  BY <1>2, <1>3

LEMMA FidelityShown ==
  ASSUME LociInv, FidelityInv, stage = "ready", NEW op \in DOMAIN loci,
         NEW l \in Range(loci[op]), NEW f, f = OperationProperty(op, "FIDELITY", l, Absent)
  PROVE  /\ f.code = "SUCCESS" =>
              /\ ~observations[f.value].invalid
              /\ observations[f.value].field[1] = op
              /\ observations[f.value].field[2] = gates[op].default
              /\ observations[f.value].field[3] \in {l, Reverse(l)}
         /\ op \in Rated /\ f.code # "SUCCESS" =>
              \A o \in Range(observations) : o.invalid \/ o.field # Field(op, l)
<1>1. f = IF op \in Rated THEN FidelityAt(op, l) ELSE Unsupported
  BY LocusSize, FidelityQuery DEF IsLocus
<1>2. ASSUME op \in Rated, NEW k \in DOMAIN fidelity[op], f = Value(fidelity[op][k]),
             k \in {l, Reverse(l)}
      PROVE  /\ ~observations[f.value].invalid
             /\ observations[f.value].field[1] = op
             /\ observations[f.value].field[2] = gates[op].default
             /\ observations[f.value].field[3] \in {l, Reverse(l)}
  <2>1. k \in Range(loci[op])
    BY <1>2 DEF FidelityInv
  <2>2. f.value = fidelity[op][k] /\ ~observations[f.value].invalid
        /\ observations[f.value].field = <<op, gates[op].default, k>>
    BY <1>2, <2>1, FidelityObserved DEF Value, Field
  <2>. QED
    BY <1>2, <2>2
<1>3. f.code = "SUCCESS" =>
        /\ op \in Rated
        /\ \E k \in DOMAIN fidelity[op] : k \in {l, Reverse(l)} /\ f = Value(fidelity[op][k])
  BY <1>1 DEF FidelityAt, Value, Unsupported
<1>4. op \in Rated /\ f.code # "SUCCESS" => l \notin DOMAIN fidelity[op]
  BY <1>1 DEF FidelityAt, Value
<1>. QED
  BY <1>2, <1>3, <1>4, FidelityObserved

\* The two orders of a pair that is listed once show the same fidelity.
LEMMA FidelityOfPair ==
  ASSUME LociInv, FidelityInv, stage = "ready", NEW op \in DOMAIN loci,
         NEW l \in Range(loci[op]), op # "move", Len(l) = 2, Reverse(l) \notin Range(loci[op])
  PROVE  OperationProperty(op, "FIDELITY", Reverse(l), Absent) =
           OperationProperty(op, "FIDELITY", l, Absent)
<1>1. l \in Seq(STRING) /\ Len(l) = Len(loci[op][1])
  BY LocusSize
<1>2. Reverse(l) \in Seq(STRING) /\ Len(Reverse(l)) = Len(l) /\ Reverse(Reverse(l)) = l
  BY <1>1, ReverseTwice
<1>3. IsLocus(op, l) /\ IsLocus(op, Reverse(l))
  BY <1>1, <1>2 DEF IsLocus, EitherOrder
<1>4. op \in Rated => Reverse(l) \notin DOMAIN fidelity[op]
  BY DEF FidelityInv
<1>5. op \in Rated => FidelityAt(op, Reverse(l)) = FidelityAt(op, l)
  BY <1>2, <1>4 DEF FidelityAt
<1>. QED
  BY <1>1, <1>2, <1>3, <1>5, FidelityQuery

LEMMA FidelityFollows ==
  ASSUME LociInv, FidelityInv
  PROVE  FidelityIsOfThisGate
<1>. SUFFICES ASSUME stage = "ready", NEW op \in DOMAIN loci, NEW l \in Range(loci[op])
              PROVE  LET f == OperationProperty(op, "FIDELITY", l, Absent) IN
                     /\ f.code = "SUCCESS" =>
                          /\ ~observations[f.value].invalid
                          /\ observations[f.value].field[1] = op
                          /\ observations[f.value].field[2] = gates[op].default
                          /\ observations[f.value].field[3] \in {l, Reverse(l)}
                     /\ op # "move" /\ Len(l) = 2 /\ Reverse(l) \notin Range(loci[op]) =>
                          OperationProperty(op, "FIDELITY", Reverse(l), Absent) = f
                     /\ op \in Rated /\ f.code # "SUCCESS" =>
                          \A o \in Range(observations) : o.invalid \/ o.field # Field(op, l)
  BY DEF FidelityIsOfThisGate
<1>. QED
  BY FidelityShown, FidelityOfPair

-----------------------------------------------------------------------------
(* DeviceModel: loci in one flat list, and sliced apart again *)

\* What FlattenSeq folds over.
Flattened(ss, n, f) == f = [i \in 1..n |-> IF i = 1 THEN ss[i] ELSE f[i - 1] \o ss[i]]

LEMMA FlattenedNext ==
  ASSUME NEW ss, NEW n \in Nat, NEW f, Flattened(ss, n, f)
  PROVE  \E g : Flattened(ss, n + 1, g)
<1>. DEFINE g == [i \in 1..(n + 1) |->
                    IF i <= n THEN f[i] ELSE IF i = 1 THEN ss[i] ELSE f[i - 1] \o ss[i]]
<1>1. \A i \in 1..n : f[i] = IF i = 1 THEN ss[i] ELSE f[i - 1] \o ss[i]
  BY DEF Flattened
<1>2. ASSUME NEW i \in 1..(n + 1)
      PROVE  g[i] = IF i = 1 THEN ss[i] ELSE g[i - 1] \o ss[i]
  <2>1. CASE i = 1
    <3>1. i <= n => f[i] = ss[i]
      BY <1>1, <2>1
    <3>2. g[i] = ss[i]
      BY <2>1, <3>1
    <3>. QED
      BY <2>1, <3>2
  <2>2. CASE i # 1
    <3>1. i - 1 \in 1..n /\ i - 1 \in 1..(n + 1)
      BY <2>2
    <3>2. g[i - 1] = f[i - 1]
      BY <3>1
    <3>3. ASSUME i <= n PROVE f[i] = f[i - 1] \o ss[i]
      <4>1. i \in 1..n
        BY <3>3
      <4>2. f[i] = IF i = 1 THEN ss[i] ELSE f[i - 1] \o ss[i]
        BY <1>1, <4>1
      <4>. QED
        BY <2>2, <4>2
    <3>4. g[i] = f[i - 1] \o ss[i]
      BY <2>2, <3>3
    <3>. QED
      BY <2>2, <3>2, <3>4
  <2>. QED
    BY <2>1, <2>2
<1>3. g = [i \in 1..(n + 1) |-> g[i]]
  OBVIOUS
<1>4. g = [i \in 1..(n + 1) |-> IF i = 1 THEN ss[i] ELSE g[i - 1] \o ss[i]]
  <2>. HIDE DEF g
  <2>. QED
    BY <1>2, <1>3
<1>. QED
  BY <1>4 DEF Flattened

LEMMA FlattenedExists ==
  ASSUME NEW ss, NEW n \in Nat
  PROVE  \E f : Flattened(ss, n, f)
<1>. DEFINE Without == {m \in Nat : ~ \E f : Flattened(ss, m, f)}
<1>1. SUFFICES ASSUME Without # {} PROVE FALSE
  OBVIOUS
<1>2. PICK m \in Without : \A k \in Without : m <= k
  <2>. HIDE DEF Without
  <2>1. Without \subseteq Nat
    BY DEF Without
  <2>. QED
    BY <1>1, <2>1, LeastNatural, Zenon
<1>3. m # 0
  <2>1. Flattened(ss, 0, <<>>)
    BY DEF Flattened
  <2>. QED
    BY <2>1
<1>4. m - 1 \in Nat /\ m - 1 \notin Without
  BY <1>2, <1>3
<1>5. PICK f : Flattened(ss, m - 1, f)
  BY <1>4
<1>6. \E g : Flattened(ss, m - 1 + 1, g)
  BY <1>4, <1>5, FlattenedNext
<1>. QED
  BY <1>6

LEMMA FlattenSeqIs ==
  ASSUME NEW S, NEW ss \in Seq(Seq(S)), Len(ss) # 0
  PROVE  \E f : Flattened(ss, Len(ss), f) /\ FlattenSeq(ss) = f[Len(ss)]
<1>1. Len(ss) \in Nat
  OBVIOUS
<1>. DEFINE f == CHOOSE g : Flattened(ss, Len(ss), g)
<1>2. FlattenSeq(ss) = f[Len(ss)]
  BY DEF FlattenSeq, Flattened
<1>3. Flattened(ss, Len(ss), f)
  BY <1>1, FlattenedExists
<1>. QED
  BY <1>2, <1>3

LEMMA Products ==
  ASSUME NEW w \in Nat, NEW a \in Nat, NEW b \in Nat, a <= b
  PROVE  /\ a * w \in Nat /\ (a + 1) * w = a * w + w /\ a * w <= b * w

BY SMT

LEMMA Quotient ==
  ASSUME NEW w \in Nat \ {0}, NEW k \in Nat
  PROVE  (k * w) \div w = k
BY SMT

\* The first i lists, each of w elements, one after the other.
Joins(ss, w, i, t) ==
  /\ Len(t) = i * w
  /\ \A p \in 1..i, j \in 1..w : t[(p - 1) * w + j] = ss[p][j]
  /\ \A m \in 1..Len(t) : \E p \in 1..i, j \in 1..w : t[m] = ss[p][j]

LEMMA JoinsNext ==
  ASSUME NEW S, NEW ss \in Seq(Seq(S)), NEW w \in Nat, NEW i \in 1..(Len(ss) - 1),
         Len(ss[i + 1]) = w, NEW t \in Seq(S), Joins(ss, w, i, t)
  PROVE  t \o ss[i + 1] \in Seq(S) /\ Joins(ss, w, i + 1, t \o ss[i + 1])
<1>. DEFINE u == t \o ss[i + 1]
<1>1. ss[i + 1] \in Seq(S) /\ Len(ss) \in Nat /\ i \in Nat /\ i + 1 \in Nat
  OBVIOUS
<1>2. /\ u \in Seq(S) /\ Len(u) = Len(t) + w /\ Len(t) = i * w /\ i * w \in Nat
      /\ \A m \in 1..(i * w) : u[m] = t[m]
      /\ \A j \in 1..w : u[i * w + j] = ss[i + 1][j]
  <2>1. Len(t) = i * w /\ i * w \in Nat
    BY <1>1, Products DEF Joins
  <2>2. /\ u \in Seq(S) /\ Len(u) = Len(t) + w
        /\ \A m \in 1..(Len(t) + w) : u[m] = IF m <= Len(t) THEN t[m] ELSE ss[i + 1][m - Len(t)]
    BY <1>1, ConcatProperties
  <2>. DEFINE N == i * w
  <2>. HIDE DEF N, u
  <2>3. Len(t) = N /\ N \in Nat
    BY <2>1 DEF N
  <2>4. /\ \A m \in 1..N : u[m] = t[m]
        /\ \A j \in 1..w : u[N + j] = ss[i + 1][j]
    BY <2>2, <2>3
  <2>. QED
    BY <2>2, <2>3, <2>4 DEF N
<1>3. Len(u) = (i + 1) * w
  BY <1>1, <1>2, Products
<1>4. ASSUME NEW p \in 1..(i + 1), NEW j \in 1..w
      PROVE  u[(p - 1) * w + j] = ss[p][j]
  <2>1. CASE p = i + 1
    <3>1. p - 1 = i
      BY <1>1, <2>1
    <3>. QED
      BY <1>2, <2>1, <3>1
  <2>2. CASE p \in 1..i
    <3>1. (p - 1) * w \in Nat /\ p * w \in Nat
          /\ (p - 1) * w + w = p * w /\ p * w <= i * w
      <4>1. p - 1 \in Nat /\ p \in Nat /\ p - 1 + 1 = p /\ p <= i
        BY <1>1, <2>2
      <4>. QED
        BY <1>1, <4>1, Products
    <3>2. (p - 1) * w + j \in 1..(i * w)
      <4>. DEFINE L == (p - 1) * w
                  M == p * w
                  N == i * w
      <4>1. L \in Nat /\ M \in Nat /\ N \in Nat /\ L + w = M /\ M <= N
        BY <1>2, <3>1
      <4>. HIDE DEF L, M, N
      <4>2. L + j \in 1..N
        BY <4>1
      <4>. QED
        BY <4>2 DEF L, N
    <3>3. u[(p - 1) * w + j] = t[(p - 1) * w + j]
      BY <1>2, <3>2
    <3>. QED
      BY <2>2, <3>3 DEF Joins
  <2>3. p = i + 1 \/ p \in 1..i
    BY <1>1
  <2>. QED
    BY <2>1, <2>2, <2>3
<1>5. ASSUME NEW m \in 1..Len(u)
      PROVE  \E p \in 1..(i + 1), j \in 1..w : u[m] = ss[p][j]
  <2>1. CASE m <= i * w
    <3>1. m \in 1..Len(t) /\ u[m] = t[m]
      BY <1>2, <2>1
    <3>2. PICK p \in 1..i, j \in 1..w : t[m] = ss[p][j]
      BY <3>1 DEF Joins
    <3>3. p \in 1..(i + 1)
      BY <1>1
    <3>. QED
      BY <3>1, <3>2, <3>3
  <2>2. CASE ~(m <= i * w)
    <3>1. m - i * w \in 1..w /\ i * w + (m - i * w) = m
      BY <1>2, <2>2
    <3>2. i + 1 \in 1..(i + 1)
      BY <1>1
    <3>3. u[m] = ss[i + 1][m - i * w]
      BY <1>2, <3>1
    <3>. QED
      BY <3>1, <3>2, <3>3, Zenon
  <2>. QED
    BY <2>1, <2>2
<1>. QED
  BY <1>2, <1>3, <1>4, <1>5 DEF Joins

LEMMA FlattenJoins ==
  ASSUME NEW S, NEW ss \in Seq(Seq(S)), NEW w \in Nat, Len(ss) # 0,
         \A i \in 1..Len(ss) : Len(ss[i]) = w
  PROVE  FlattenSeq(ss) \in Seq(S) /\ Joins(ss, w, Len(ss), FlattenSeq(ss))
<1>1. PICK f : Flattened(ss, Len(ss), f) /\ FlattenSeq(ss) = f[Len(ss)]
  BY FlattenSeqIs
<1>. DEFINE n == Len(ss)
            Wrong == {i \in 1..n : ~(f[i] \in Seq(S) /\ Joins(ss, w, i, f[i]))}
<1>2. n \in Nat /\ n # 0 /\ \A i \in 1..n : ss[i] \in Seq(S) /\ Len(ss[i]) = w
  OBVIOUS
<1>3. \A i \in 1..n : f[i] = IF i = 1 THEN ss[i] ELSE f[i - 1] \o ss[i]
  BY <1>1 DEF Flattened
<1>4. Wrong = {}
  <2>. SUFFICES ASSUME Wrong # {} PROVE FALSE
    OBVIOUS
  <2>1. PICK m \in Wrong : \A k \in Wrong : m <= k
    <3>1. Wrong \subseteq Nat
      OBVIOUS
    <3>. HIDE DEF Wrong
    <3>. QED
      BY <3>1, LeastNatural, Zenon
  <2>2. CASE m = 1
    <3>1. f[1] = ss[1] /\ ss[1] \in Seq(S) /\ Len(ss[1]) = w
      BY <1>2, <1>3
    <3>2. Joins(ss, w, 1, ss[1])
      <4>1. \A p \in 1..1, j \in 1..w : (p - 1) * w + j = j /\ p = 1
        OBVIOUS
      <4>2. \A k \in 1..w : \E p \in 1..1, j \in 1..w : ss[1][k] = ss[p][j]
        OBVIOUS
      <4>3. 1 * w = w
        OBVIOUS
      <4>. QED
        BY <3>1, <4>1, <4>2, <4>3 DEF Joins
    <3>. QED
      BY <2>2, <3>1, <3>2
  <2>3. CASE m # 1
    <3>1. m - 1 \in 1..(n - 1) /\ m - 1 \notin Wrong /\ m - 1 \in 1..n /\ m - 1 + 1 = m
      BY <1>2, <2>1, <2>3
    <3>2. f[m - 1] \in Seq(S) /\ Joins(ss, w, m - 1, f[m - 1])
      BY <3>1
    <3>3. f[m] = f[m - 1] \o ss[m] /\ Len(ss[m]) = w
      BY <1>2, <1>3, <2>3
    <3>4. f[m] \in Seq(S) /\ Joins(ss, w, m, f[m])
      BY <3>1, <3>2, <3>3, JoinsNext
    <3>. QED
      BY <3>4
  <2>. QED
    BY <2>2, <2>3
<1>. QED
  BY <1>1, <1>2, <1>4

\* A part of a sequence, as SubSeq returns it.
LEMMA Windows ==
  ASSUME NEW f, NEW N \in Nat, NEW w \in Nat \ {0}
  PROVE  SubSeq(f, N + 1, N + w) = [j \in 1..w |-> f[N + j]]
OBVIOUS

LEMMA SlicesOfFlattened ==
  ASSUME NEW S, NEW ss \in Seq(Seq(S)), NEW w \in Nat \ {0}, Len(ss) # 0,
         \A i \in 1..Len(ss) : Len(ss[i]) = w
  PROVE  Slices(FlattenSeq(ss), w) = Range(ss)
<1>. DEFINE flat == FlattenSeq(ss)
            n == Len(ss)
<1>1. /\ flat \in Seq(S) /\ Len(flat) = n * w /\ n \in Nat /\ w \in Nat
      /\ \A p \in 1..n, j \in 1..w : flat[(p - 1) * w + j] = ss[p][j]
  <2>1. n \in Nat /\ w \in Nat
    OBVIOUS
  <2>2. flat \in Seq(S) /\ Joins(ss, w, n, flat)
    BY <2>1, FlattenJoins
  <2>. HIDE DEF flat, n
  <2>. QED
    BY <2>1, <2>2 DEF Joins
<1>2. Len(flat) \div w = n
  BY <1>1, Quotient
<1>3. ASSUME NEW i \in 0..(n - 1)
      PROVE  SubSeq(flat, i * w + 1, (i + 1) * w) = ss[i + 1]
  <2>1. i \in Nat /\ i + 1 \in 1..n /\ i + 1 - 1 = i /\ i + 1 \in Nat /\ i + 1 <= n
    BY <1>1
  <2>2. i * w \in Nat /\ (i + 1) * w = i * w + w /\ (i + 1) * w <= n * w
    <3>1. (i + 1) * w <= n * w
      BY <1>1, <2>1, Products
    <3>2. i * w \in Nat /\ (i + 1) * w = i * w + w
      BY <1>1, <2>1, Products
    <3>. QED
      BY <3>1, <3>2
  <2>3. ss[i + 1] \in Seq(S) /\ Len(ss[i + 1]) = w
    BY <2>1
  <2>4. \A j \in 1..w : flat[i * w + j] = ss[i + 1][j]
    BY <1>1, <2>1
  <2>. DEFINE N == i * w
  <2>5. /\ N \in Nat /\ (i + 1) * w = N + w /\ N + w <= Len(flat)
        /\ \A j \in 1..w : flat[N + j] = ss[i + 1][j]
    BY <1>1, <2>2, <2>4
  <2>. HIDE DEF N, flat
  <2>6. ss[i + 1] = [j \in 1..w |-> ss[i + 1][j]]
    BY <2>3
  <2>7. [j \in 1..w |-> flat[N + j]] = [j \in 1..w |-> ss[i + 1][j]]
    BY <2>5, Zenon
  <2>8. SubSeq(flat, N + 1, N + w) = [j \in 1..w |-> flat[N + j]]
    BY <2>5, Windows
  <2>9. SubSeq(flat, N + 1, N + w) = ss[i + 1]
    BY <2>6, <2>7, <2>8, Zenon
  <2>. QED
    BY <2>5, <2>9 DEF N
<1>4. Slices(flat, w) = {ss[i + 1] : i \in 0..(n - 1)}
  <2>. HIDE DEF flat
  <2>. QED
    BY <1>1, <1>2, <1>3 DEF Slices
<1>5. {ss[i + 1] : i \in 0..(n - 1)} = Range(ss)
  <2>1. DOMAIN ss = 1..n
    OBVIOUS
  <2>2. \A p \in 1..n : p - 1 \in 0..(n - 1) /\ p - 1 + 1 = p
    BY <1>1
  <2>3. \A i \in 0..(n - 1) : i + 1 \in 1..n
    BY <1>1
  <2>. QED
    BY <2>1, <2>2, <2>3 DEF Range
<1>. QED
  BY <1>4, <1>5

\* What the queries say of the size, the sites and the loci of an operation.
LEMMA LociQueries ==
  ASSUME LociInv, stage = "ready", NEW op \in DOMAIN loci
  PROVE  /\ OperationProperty(op, "SITES", Absent, Absent) = Value(FlattenSeq(loci[op]))
         /\ OperationProperty(op, "QUBITSNUM", Absent, Absent) = Value(Len(loci[op][1]))
         /\ \A at \in Seq(STRING) :
              Len(at) = Len(loci[op][1]) =>
                OperationProperty(op, "PARAMETERSNUM", at, Absent) =
                  IF IsLocus(op, at) THEN Value(ParametersNum(op)) ELSE Refused
<1>1. Absent \notin Seq(STRING)
  BY DocumentsAssumption
<1>. QED
  BY <1>1 DEF OperationProperty

LEMMA SlicesFollow ==
  ASSUME LociInv
  PROVE  SlicesAreLoci
<1>. SUFFICES ASSUME stage = "ready", NEW op \in DOMAIN gates,
                     OperationProperty(op, "SITES", Absent, Absent).code = "SUCCESS"
              PROVE  LET listed == gates[op].loci[gates[op].default]
                         flat == OperationProperty(op, "SITES", Absent, Absent)
                         size == OperationProperty(op, "QUBITSNUM", Absent, Absent)
                     IN  /\ Slices(flat.value, size.value) = Range(listed)
                         /\ \A l \in Range(listed) :
                              /\ OperationProperty(op, "PARAMETERSNUM", l, Absent).code
                                   = "SUCCESS"
                              /\ size.value = 2 /\ Reverse(l) \notin Range(listed) =>
                                   OperationProperty(op, "PARAMETERSNUM", Reverse(l), Absent).code
                                     = IF op = "move" THEN "INVALIDARGUMENT" ELSE "SUCCESS"
  BY DEF SlicesAreLoci
<1>1. op \in DOMAIN loci
  BY DEF OperationProperty, Refused
<1>2. /\ gates[op].loci[gates[op].default] = loci[op]
      /\ OperationProperty(op, "SITES", Absent, Absent).value = FlattenSeq(loci[op])
      /\ OperationProperty(op, "QUBITSNUM", Absent, Absent).value = Len(loci[op][1])
  BY <1>1, LociQueries, LociOfOneSize DEF Value
<1>3. Slices(FlattenSeq(loci[op]), Len(loci[op][1])) = Range(loci[op])
  BY <1>1, LociOfOneSize, SlicesOfFlattened DEF Loci
<1>4. ASSUME NEW l \in Range(loci[op])
      PROVE  /\ OperationProperty(op, "PARAMETERSNUM", l, Absent).code = "SUCCESS"
             /\ Len(loci[op][1]) = 2 /\ Reverse(l) \notin Range(loci[op]) =>
                  OperationProperty(op, "PARAMETERSNUM", Reverse(l), Absent).code
                    = IF op = "move" THEN "INVALIDARGUMENT" ELSE "SUCCESS"
  <2>1. l \in Seq(STRING) /\ Len(l) = Len(loci[op][1])
    BY <1>1, <1>4, LocusSize
  <2>2. Reverse(l) \in Seq(STRING) /\ Len(Reverse(l)) = Len(l) /\ Reverse(Reverse(l)) = l
    BY <2>1, ReverseTwice
  <2>3. IsLocus(op, l)
    BY <1>4 DEF IsLocus
  <2>4. Len(loci[op][1]) = 2 /\ Reverse(l) \notin Range(loci[op]) =>
          (IsLocus(op, Reverse(l)) <=> op # "move")
    BY <1>4, <2>2 DEF IsLocus, EitherOrder
  <2>5. /\ Value(ParametersNum(op)).code = "SUCCESS"
        /\ Refused.code = "INVALIDARGUMENT"
    BY DEF Value, Refused
  <2>6. /\ OperationProperty(op, "PARAMETERSNUM", l, Absent) = Value(ParametersNum(op))
        /\ OperationProperty(op, "PARAMETERSNUM", Reverse(l), Absent) =
             IF IsLocus(op, Reverse(l)) THEN Value(ParametersNum(op)) ELSE Refused
    BY <1>1, <2>1, <2>2, <2>3, LociQueries
  <2>. QED
    BY <2>4, <2>5, <2>6
<1>. QED
  BY <1>2, <1>3, <1>4

-----------------------------------------------------------------------------
(* DeviceModel: theorems *)

LEMMA ModelStarts ==
  ModelInit => ModelTypeOK /\ NotYetRead /\ LociInv /\ FidelityInv /\ CoherenceIsObserved
BY TooManyAssumption DEF ModelInit, ModelTypeOK, NotYetRead, LociInv, FidelityInv,
                         CoherenceIsObserved, NoFunction, Range

LEMMA ReadInOrder ==
  ASSUME NotYetRead, [ModelNext]_modelVars
  PROVE  NotYetRead'
<1>1. CASE ProcessArchitecture
  <2>1. /\ stage = "new" /\ stage' \in {"sites", "failed"} /\ UNCHANGED <<loci, fidelity>>
        /\ coherence' = [s \in Range(sites') |-> [t1 |-> 0, t2 |-> 0]]
    BY <1>1 DEF ProcessArchitecture
  <2>2. Range(sites') = Range(sites)'
    BY DEF Range
  <2>. QED
    BY <2>1, <2>2 DEF NotYetRead, NoFunction
<1>2. CASE ProcessGates
  <2>1. /\ stage = "sites" /\ stage' \in {"operations", "failed"}
        /\ UNCHANGED <<sites, coherence, fidelity>>
    BY <1>2 DEF ProcessGates
  <2>2. Range(sites)' = Range(sites)
    BY <2>1 DEF Range
  <2>. QED
    BY <2>1, <2>2 DEF NotYetRead, NoFunction
<1>3. CASE ProcessMetrics
  BY <1>3 DEF ProcessMetrics, NotYetRead
<1>4. CASE UNCHANGED modelVars
  BY <1>4 DEF modelVars, NotYetRead, Range, NoFunction
<1>. QED
  BY <1>1, <1>2, <1>3, <1>4 DEF ModelNext

LEMMA FunctionIsSeq ==
  ASSUME NEW S, NEW n \in Nat, NEW f \in [1..n -> S]
  PROVE  f \in Seq(S) /\ Len(f) = n
<1>1. f \in Seq(S)
  BY SeqDef
<1>. QED
  BY <1>1, LenProperties

LEMMA PairIsSeq ==
  ASSUME NEW S, NEW a \in S, NEW b \in S
  PROVE  <<a, b>> \in Seq(S) /\ Len(<<a, b>>) = 2
OBVIOUS

LEMMA ReverseRange ==
  ASSUME NEW S, NEW l \in Seq(S)
  PROVE  Range(Reverse(l)) \subseteq Range(l)
<1>1. /\ DOMAIN Reverse(l) = 1..Len(l) /\ DOMAIN l = 1..Len(l) /\ Len(l) \in Nat
      /\ \A i \in 1..Len(l) : Reverse(l)[i] = l[Len(l) - i + 1]
  BY ReverseOnce
<1>2. \A i \in 1..Len(l) : Len(l) - i + 1 \in 1..Len(l)
  BY <1>1
<1>. QED
  BY <1>1, <1>2 DEF Range

\* The two times of a site.
LEMMA RangeOfTimes ==
  ASSUME NEW a, NEW b
  PROVE  Range([t1 |-> a, t2 |-> b]) = {a, b}
BY DEF Range

\* Both directions of every edge between known sites lead from and to known sites.
LEMMA CouplingsKnown ==
  ASSUME NEW a \in Architectures, NEW known,
         \A e \in Range(a.connectivity) : Range(e) \subseteq known,
         NEW c \in Range(FlattenSeq([i \in DOMAIN a.connectivity |->
                           <<a.connectivity[i], Reverse(a.connectivity[i])>>]))
  PROVE  Range(c) \subseteq known
<1>. DEFINE edges == a.connectivity
            pairs == [i \in DOMAIN edges |-> <<edges[i], Reverse(edges[i])>>]
<1>1. /\ edges \in Seq(Seq(STRING)) /\ Len(edges) \in Nat /\ DOMAIN edges = 1..Len(edges)
      /\ \A i \in 1..Len(edges) : edges[i] \in Seq(STRING)
  BY DocumentsAssumption DEF Loci
<1>2. \A i \in 1..Len(edges) : Reverse(edges[i]) \in Seq(STRING)
  BY <1>1, ReverseTwice
<1>3. ASSUME NEW i \in 1..Len(edges)
      PROVE  pairs[i] \in Seq(Seq(STRING)) /\ Len(pairs[i]) = 2
  <2>1. pairs[i] = <<edges[i], Reverse(edges[i])>>
    BY <1>1
  <2>. HIDE DEF pairs, edges
  <2>. QED
    BY <1>1, <1>2, <1>3, <2>1, PairIsSeq
<1>4. pairs \in Seq(Seq(Seq(STRING))) /\ Len(pairs) = Len(edges)
  <2>1. pairs = [i \in 1..Len(edges) |-> pairs[i]]
    BY <1>1
  <2>. HIDE DEF pairs, edges
  <2>2. pairs \in [1..Len(edges) -> Seq(Seq(STRING))]
    BY <1>3, <2>1
  <2>. QED
    BY <1>1, <2>2, FunctionIsSeq
<1>5. CASE Len(pairs) = 0
  <2>1. FlattenSeq(pairs) = pairs /\ DOMAIN pairs = {}
    BY <1>1, <1>4, <1>5 DEF FlattenSeq
  <2>. QED
    BY <2>1 DEF Range
<1>6. CASE Len(pairs) # 0
  <2>. DEFINE flat == FlattenSeq(pairs)
  <2>1. FlattenSeq(pairs) \in Seq(Seq(STRING)) /\ Joins(pairs, 2, Len(pairs), FlattenSeq(pairs))
    <3>. HIDE DEF pairs, edges
    <3>. QED
      BY <1>3, <1>4, <1>6, FlattenJoins
  <2>2. PICK m \in 1..Len(flat) : c = flat[m]
    <3>1. c \in Range(flat)
      OBVIOUS
    <3>2. DOMAIN flat = 1..Len(flat)
      BY <2>1
    <3>. HIDE DEF flat
    <3>. QED
      BY <3>1, <3>2 DEF Range
  <2>3. PICK p \in 1..Len(pairs), j \in 1..2 : c = pairs[p][j]
    BY <2>1, <2>2 DEF Joins
  <2>4. p \in DOMAIN edges /\ (c = edges[p] \/ c = Reverse(edges[p]))
    BY <1>1, <1>4, <2>3
  <2>5. Range(edges[p]) \subseteq known
    BY <2>4 DEF Range
  <2>6. Range(Reverse(edges[p])) \subseteq Range(edges[p])
    BY <1>1, <2>4, ReverseRange
  <2>. QED
    BY <2>4, <2>5, <2>6
<1>. QED
  BY <1>5, <1>6

LEMMA ArchitectureTypes ==
  ASSUME ModelTypeOK, NotYetRead, ProcessArchitecture
  PROVE  ModelTypeOK'
<1>1. PICK a \in Architectures :
        LET all == a.qubits \o a.resonators IN
        /\ sites' = all /\ qubitsNum' = Len(a.qubits)
        /\ coherence' = [s \in Range(all) |-> [t1 |-> 0, t2 |-> 0]]
        /\ \/ /\ stage' = "failed" /\ UNCHANGED couplings
           \/ /\ \A e \in Range(a.connectivity) : Range(e) \subseteq Range(all)
              /\ couplings' = FlattenSeq([i \in DOMAIN a.connectivity |->
                                <<a.connectivity[i], Reverse(a.connectivity[i])>>])
              /\ stage' = "sites"
  BY DEF ProcessArchitecture
<1>2. stage = "new" /\ loci' = NoFunction /\ fidelity' = NoFunction /\ couplings = <<>>
  BY DEF ProcessArchitecture, NotYetRead
<1>3. stage' \in {"sites", "failed"} /\ qubitsNum' \in 0..Len(sites')
  <2>1. a.qubits \in Seq(STRING) /\ a.resonators \in Seq(STRING)
    BY DocumentsAssumption
  <2>2. Len(sites') = Len(a.qubits) + Len(a.resonators)
    BY <1>1, <2>1, ConcatProperties
  <2>3. Len(a.qubits) \in Nat /\ Len(a.resonators) \in Nat
    BY <2>1, LenProperties
  <2>4. qubitsNum' = Len(a.qubits) /\ stage' \in {"sites", "failed"}
    BY <1>1
  <2>5. \A m, n \in Nat : m \in 0..(m + n)
    OBVIOUS
  <2>6. Len(a.qubits) \in 0..(Len(a.qubits) + Len(a.resonators))
    BY <2>3, <2>5, Zenon
  <2>. QED
    BY <2>2, <2>4, <2>6, Zenon
<1>4. \A c \in Range(couplings') : Range(c) \subseteq Range(sites')
  <2>1. CASE couplings' = <<>>
    BY <2>1 DEF Range
  <2>2. CASE couplings' # <<>>
    BY <1>1, <1>2, <2>2, CouplingsKnown
  <2>. QED
    BY <2>1, <2>2
<1>5. DOMAIN loci' = {} /\ DOMAIN fidelity' = {}
  BY <1>2 DEF NoFunction
<1>6. \A s \in DOMAIN coherence' : Range(coherence'[s]) \subseteq 0..(TooMany - 1)
  BY <1>1, RangeOfTimes, TooManyAssumption
<1>. QED
  BY <1>3, <1>4, <1>5, <1>6 DEF ModelTypeOK

LEMMA GatesTypes ==
  ASSUME ModelTypeOK, NotYetRead, ProcessGates
  PROVE  ModelTypeOK'
<1>1. UNCHANGED <<sites, qubitsNum, couplings, coherence, fidelity>> /\ fidelity = NoFunction
  BY DEF ProcessGates, NotYetRead
<1>2. \A s : Range(s)' = Range(s)
  BY DEF Range
<1>3. stage' \in {"operations", "failed"}
  BY DEF ProcessGates
<1>4. \A op \in DOMAIN loci' : \A l \in Range(loci'[op]) : Range(l) \subseteq Range(sites)
  <2>1. CASE loci' = loci
    BY <2>1 DEF ModelTypeOK
  <2>2. CASE loci' # loci
    BY <2>2 DEF ProcessGates
  <2>. QED
    BY <2>1, <2>2
<1>5. DOMAIN fidelity' = {}
  BY <1>1 DEF NoFunction
<1>. QED
  BY <1>1, <1>3, <1>4, <1>5 DEF ModelTypeOK

LEMMA MetricsTypes ==
  ASSUME ModelTypeOK, NotYetRead, ProcessMetrics
  PROVE  ModelTypeOK'
<1>1. /\ UNCHANGED <<sites, qubitsNum, couplings, loci>> /\ stage' = "ready"
      /\ DOMAIN fidelity' = Rated /\ observations' \in Observations
      /\ coherence = [s \in Range(sites) |-> [t1 |-> 0, t2 |-> 0]]
      /\ coherence' = [s \in Range(sites) |->
           [t1 |-> Measured(observations', s, "t1", coherence[s].t1),
            t2 |-> Measured(observations', s, "t2", coherence[s].t2)]]
  BY DEF ProcessMetrics, NotYetRead
<1>2. Rated \subseteq DOMAIN loci
  BY DEF Rated
<1>3. ASSUME NEW s, NEW time
      PROVE  Measured(observations', s, time, 0) \in 0..(TooMany - 1)
  <2>. DEFINE t == Measured(observations', s, time, 0)
  <2>1. t # 0 => t \in 1..(TooMany - 1)
    <3>. HIDE DEF t
    <3>. QED
      BY <1>1, MeasuredIsObserved, Zenon DEF t
  <2>. HIDE DEF t
  <2>2. t \in 0..(TooMany - 1)
    BY <2>1, TooManyAssumption
  <2>. QED
    BY <2>2 DEF t
<1>4. \A s \in DOMAIN coherence' : Range(coherence'[s]) \subseteq 0..(TooMany - 1)
  BY <1>1, <1>3, RangeOfTimes
<1>. QED
  BY <1>1, <1>2, <1>4 DEF ModelTypeOK

LEMMA CoherenceStays ==
  ASSUME NotYetRead, CoherenceIsObserved, [ModelNext]_modelVars
  PROVE  CoherenceIsObserved'
<1>1. CASE ProcessArchitecture \/ ProcessGates
  BY <1>1 DEF ProcessArchitecture, ProcessGates, CoherenceIsObserved
<1>2. CASE ProcessMetrics
  BY <1>2, MetricsMeasure
<1>3. CASE UNCHANGED modelVars
  BY <1>3 DEF modelVars, documents, CoherenceIsObserved, SiteTime, Value, Unsupported, Range
<1>. QED
  BY <1>1, <1>2, <1>3 DEF ModelNext

LEMMA ModelInvariance ==
  ModelSpec => [](ModelTypeOK /\ NotYetRead /\ LociInv /\ FidelityInv /\ CoherenceIsObserved)
<1>1. ASSUME ModelTypeOK, NotYetRead, [ModelNext]_modelVars
      PROVE  ModelTypeOK'
  <2>1. CASE UNCHANGED modelVars
    BY <1>1, <2>1 DEF modelVars, ModelTypeOK
  <2>. QED
    BY <1>1, <2>1, ArchitectureTypes, GatesTypes, MetricsTypes DEF ModelNext
<1>. QED
  BY <1>1, ModelStarts, ReadInOrder, GatesKeepLoci, MetricsRate, CoherenceStays, PTL
     DEF ModelSpec

\* Whatever the documents list, everything a session keeps refers to its sites,
\* and its coherence times fit their type.
THEOREM KeepsModelTypes == ModelSpec => []ModelTypeOK
BY ModelInvariance, PTL

\* A coherence time that is shown was validly observed, whatever was.
THEOREM ShowsObservedCoherence == ModelSpec => []CoherenceIsObserved
BY ModelInvariance, PTL

\* A fidelity that is shown is that of a valid observation of this gate at these
\* sites, and the last of several.
THEOREM ShowsFidelityOfGate == ModelSpec => []FidelityIsOfThisGate
BY ModelInvariance, FidelityFollows, PTL

\* However many loci of whatever size a gate has, its flat list of sites falls
\* apart into them again.
THEOREM SlicesLoci == ModelSpec => []SlicesAreLoci
BY ModelInvariance, SlicesFollow, PTL

-----------------------------------------------------------------------------
(* TokenText *)

Octet == 0..255
Six == 0..63

\* Both alphabets are read, and a character that is in neither as -1.
LEMMA LetterIsRead ==
  ASSUME NEW n \in Six, NEW url \in BOOLEAN
  PROVE  /\ Letter(n, url) \in Octet /\ Letter(n, url) # Pad
         /\ DECODE_TABLE(Letter(n, url)) = n
<1>. USE DEF Six, Octet
<1>1. CASE n \in 0..25
  <2>1. Letter(n, url) = n + 65
    BY <1>1 DEF Letter
  <2>. QED
    BY <1>1, <2>1 DEF DECODE_TABLE, Pad
<1>2. CASE n \in 26..51
  <2>1. Letter(n, url) = n + 71
    BY <1>2 DEF Letter
  <2>. QED
    BY <1>2, <2>1 DEF DECODE_TABLE, Pad
<1>3. CASE n \in 52..61
  <2>1. Letter(n, url) = n - 4
    BY <1>3 DEF Letter
  <2>. QED
    BY <1>3, <2>1 DEF DECODE_TABLE, Pad
<1>4. CASE n = 62
  <2>1. Letter(n, url) = IF url THEN 45 ELSE 43
    BY <1>4 DEF Letter
  <2>. QED
    BY <1>4, <2>1 DEF DECODE_TABLE, Pad
<1>5. CASE n = 63
  <2>1. Letter(n, url) = IF url THEN 95 ELSE 47
    BY <1>5 DEF Letter
  <2>. QED
    BY <1>5, <2>1 DEF DECODE_TABLE, Pad
<1>. QED
  BY <1>1, <1>2, <1>3, <1>4, <1>5

LEMMA TableValues ==
  ASSUME NEW c
  PROVE  DECODE_TABLE(c) \in -1..63
BY DEF DECODE_TABLE

\* The sextets of three bytes, and what is made of them.
S1(x) == x \div 4
S2(x, y) == (x % 4) * 16 + (y \div 16)
S3(y, z) == (y % 16) * 4 + (z \div 64)
S4(z) == z % 64
T1(g) == (g \div 262144) % 64
T2(g) == (g \div 4096) % 64
T3(g) == (g \div 64) % 64
T4(g) == (g \div 1) % 64
Bytes(x, y, z) == x * 65536 + y * 256 + z
Join(a, b, c, d) == (a * 262144 + b * 4096 + c * 64 + d) % 16777216

LEMMA Sextets ==
  ASSUME NEW x \in Octet, NEW y \in Octet, NEW z \in Octet
  PROVE  /\ T1(Bytes(x, y, z)) = S1(x) /\ S1(x) \in Six
         /\ T2(Bytes(x, y, z)) = S2(x, y) /\ S2(x, y) \in Six
         /\ T3(Bytes(x, y, z)) = S3(y, z) /\ S3(y, z) \in Six
         /\ T4(Bytes(x, y, z)) = S4(z) /\ S4(z) \in Six
<1>. USE DEF Octet, Six
<1>. DEFINE g == x * 65536 + y * 256 + z
<1>1. /\ g \in Nat /\ g \div 262144 = x \div 4 /\ g \div 4096 = x * 16 + (y \div 16)
      /\ g \div 64 = (x * 16 + (y \div 16)) * 64 + (y % 16) * 4 + (z \div 64)
      /\ g \div 1 = g
  OBVIOUS
<1>2. x \div 4 \in Six /\ y \div 16 \in 0..15 /\ z \div 64 \in 0..3
      /\ x % 4 \in 0..3 /\ y % 16 \in 0..15
  OBVIOUS
<1>3. (g \div 262144) % 64 = S1(x) /\ S1(x) \in Six
  BY <1>1, <1>2 DEF S1
<1>4. (g \div 4096) % 64 = S2(x, y) /\ S2(x, y) \in Six
  <2>1. x * 16 = (x \div 4) * 64 + (x % 4) * 16
    OBVIOUS
  <2>. HIDE DEF g
  <2>. QED
    BY <1>1, <1>2, <2>1 DEF S2
<1>5. (g \div 64) % 64 = S3(y, z) /\ S3(y, z) \in Six
  <2>. HIDE DEF g
  <2>. QED
    BY <1>1, <1>2 DEF S3
<1>6. (g \div 1) % 64 = S4(z) /\ S4(z) \in Six
  BY <1>1 DEF S4
<1>7. Bytes(x, y, z) = g
  BY DEF Bytes
<1>. HIDE DEF g
<1>. QED
  BY <1>3, <1>4, <1>5, <1>6, <1>7 DEF T1, T2, T3, T4

LEMMA Joined3 ==
  ASSUME NEW x \in Octet, NEW y \in Octet, NEW z \in Octet
  PROVE  /\ Join(S1(x), S2(x, y), S3(y, z), S4(z)) = Bytes(x, y, z)
         /\ (Bytes(x, y, z) \div 65536) % 256 = x
         /\ (Bytes(x, y, z) \div 256) % 256 = y
         /\ (Bytes(x, y, z) \div 1) % 256 = z
BY DEF Octet, Bytes, Join, S1, S2, S3, S4

\* Byte i of group q, 0 behind the end.
ByteAt(bytes, q, i) == IF 3 * q + i <= Len(bytes) THEN bytes[3 * q + i] ELSE 0

LEMMA ByteType ==
  ASSUME NEW p \in Seq(Octet), NEW q \in Nat, NEW i \in 1..3
  PROVE  ByteAt(p, q, i) \in Octet
<1>1. ASSUME 3 * q + i <= Len(p) PROVE p[3 * q + i] \in Octet
  <2>1. 3 * q + i \in 1..Len(p)
    BY <1>1
  <2>. HIDE <1>1
  <2>. QED
    BY <2>1, ElementOfSeq, Zenon
<1>. QED
  BY <1>1 DEF ByteAt, Octet

LEMMA BytesAt ==
  ASSUME NEW p \in Seq(Octet), NEW q \in Nat
  PROVE  ByteAt(p, q, 1) \in Octet /\ ByteAt(p, q, 2) \in Octet /\ ByteAt(p, q, 3) \in Octet
<1>1. 1 \in 1..3 /\ 2 \in 1..3 /\ 3 \in 1..3
  OBVIOUS
<1>. QED
  BY <1>1, ByteType, Zenon

LEMMA SixBitsOf ==
  ASSUME NEW p \in Seq(Octet), NEW q \in Nat
  PROVE  /\ SixBits(p, 4 * q) = S1(ByteAt(p, q, 1))
         /\ SixBits(p, 4 * q + 1) = S2(ByteAt(p, q, 1), ByteAt(p, q, 2))
         /\ SixBits(p, 4 * q + 2) = S3(ByteAt(p, q, 2), ByteAt(p, q, 3))
         /\ SixBits(p, 4 * q + 3) = S4(ByteAt(p, q, 3))
<1>. DEFINE b1 == ByteAt(p, q, 1)
            b2 == ByteAt(p, q, 2)
            b3 == ByteAt(p, q, 3)
<1>1. b1 \in Octet /\ b2 \in Octet /\ b3 \in Octet
  BY BytesAt, Zenon
<1>2. Group(p, q) = Bytes(b1, b2, b3)
  BY DEF Group, ByteAt, Bytes
<1>3. /\ (4 * q) \div 4 = q /\ ((4 * q) % 4) + 1 = 1
      /\ (4 * q + 1) \div 4 = q /\ ((4 * q + 1) % 4) + 1 = 2
      /\ (4 * q + 2) \div 4 = q /\ ((4 * q + 2) % 4) + 1 = 3
      /\ (4 * q + 3) \div 4 = q /\ ((4 * q + 3) % 4) + 1 = 4
  OBVIOUS
<1>. HIDE DEF b1, b2, b3
<1>4. \A k : k \div 4 = q =>
        /\ (k % 4) + 1 = 1 => SixBits(p, k) = T1(Group(p, q))
        /\ (k % 4) + 1 = 2 => SixBits(p, k) = T2(Group(p, q))
        /\ (k % 4) + 1 = 3 => SixBits(p, k) = T3(Group(p, q))
        /\ (k % 4) + 1 = 4 => SixBits(p, k) = T4(Group(p, q))
  BY DEF SixBits, T1, T2, T3, T4
<1>5. /\ SixBits(p, 4 * q) = T1(Bytes(b1, b2, b3)) /\ SixBits(p, 4 * q + 1) = T2(Bytes(b1, b2, b3))
      /\ SixBits(p, 4 * q + 2) = T3(Bytes(b1, b2, b3)) /\ SixBits(p, 4 * q + 3) = T4(Bytes(b1, b2, b3))
  BY <1>2, <1>3, <1>4, Zenon
<1>6. /\ T1(Bytes(b1, b2, b3)) = S1(b1) /\ T2(Bytes(b1, b2, b3)) = S2(b1, b2)
      /\ T3(Bytes(b1, b2, b3)) = S3(b2, b3) /\ T4(Bytes(b1, b2, b3)) = S4(b3)
  BY <1>1, Sextets, SMT
<1>. QED
  BY <1>5, <1>6, Zenon DEF b1, b2, b3

LEMMA SixBitsType ==
  ASSUME NEW p \in Seq(Octet), NEW k \in Nat
  PROVE  SixBits(p, k) \in Six
<1>. DEFINE q == k \div 4
            b1 == ByteAt(p, q, 1)
            b2 == ByteAt(p, q, 2)
            b3 == ByteAt(p, q, 3)
<1>1. q \in Nat /\ k \in {4 * q, 4 * q + 1, 4 * q + 2, 4 * q + 3}
  OBVIOUS
<1>. HIDE DEF q
<1>2. /\ SixBits(p, 4 * q) = S1(b1) /\ SixBits(p, 4 * q + 1) = S2(b1, b2)
      /\ SixBits(p, 4 * q + 2) = S3(b2, b3) /\ SixBits(p, 4 * q + 3) = S4(b3)
  BY <1>1, SixBitsOf, Zenon
<1>3. b1 \in Octet /\ b2 \in Octet /\ b3 \in Octet
  BY <1>1, BytesAt, Zenon
<1>. HIDE DEF b1, b2, b3
<1>4. S1(b1) \in Six /\ S2(b1, b2) \in Six /\ S3(b2, b3) \in Six /\ S4(b3) \in Six
  BY <1>3, Sextets, SMT
<1>. QED
  BY <1>1, <1>2, <1>4

\* The letters that three bytes at a time make, m groups and r bytes more.
Letters(m, r) == 4 * m + (IF r = 0 THEN 0 ELSE r + 1)

\* The first n characters are the letters of p.
Spells(chars, n, p) ==
  /\ n <= Len(chars)
  /\ \A k \in 1..n : chars[k] # Pad /\ DECODE_TABLE(chars[k]) = SixBits(p, k - 1)

LEMMA EncodedIs ==
  ASSUME NEW p \in Seq(Octet), NEW m \in Nat, NEW r \in 0..2, Len(p) = 3 * m + r,
         NEW url \in BOOLEAN, NEW padded \in BOOLEAN
  PROVE  LET e == Encoded(p, url, padded)
             n == Letters(m, r)
         IN  /\ e \in Seq(Octet)
             /\ Len(e) = IF padded /\ r # 0 THEN 4 * m + 4 ELSE n
             /\ Spells(e, n, p)
             /\ \A k \in (n + 1)..Len(e) : e[k] = Pad
<1>. DEFINE n == Letters(m, r)
            full == IF padded THEN ((n + 3) \div 4) * 4 ELSE n
            e == [k \in 1..full |-> IF k <= n THEN Letter(SixBits(p, k - 1), url) ELSE Pad]
<1>1. (8 * Len(p) + 5) \div 6 = n
  <2>1. CASE r = 0
    BY <2>1 DEF Letters
  <2>2. CASE r = 1
    BY <2>2 DEF Letters
  <2>3. CASE r = 2
    BY <2>3 DEF Letters
  <2>. QED
    BY <2>1, <2>2, <2>3
<1>2. Encoded(p, url, padded) = e
  BY <1>1 DEF Encoded
<1>3. n \in Nat /\ full \in Nat /\ n <= full
      /\ full = IF padded /\ r # 0 THEN 4 * m + 4 ELSE n
  <2>1. CASE r = 0
    BY <2>1 DEF Letters
  <2>2. CASE r = 1
    BY <2>2 DEF Letters
  <2>3. CASE r = 2
    BY <2>3 DEF Letters
  <2>. QED
    BY <2>1, <2>2, <2>3
<1>. HIDE DEF n, full
<1>4. ASSUME NEW k \in 1..n
      PROVE  e[k] = Letter(SixBits(p, k - 1), url) /\ k \in 1..full
             /\ e[k] \in Octet /\ e[k] # Pad /\ DECODE_TABLE(e[k]) = SixBits(p, k - 1)
  <2>1. e[k] = Letter(SixBits(p, k - 1), url) /\ k \in 1..full
    BY <1>3
  <2>2. k - 1 \in Nat
    BY <1>3
  <2>3. SixBits(p, k - 1) \in Six
    BY <2>2, SixBitsType, Zenon
  <2>4. /\ Letter(SixBits(p, k - 1), url) \in Octet /\ Letter(SixBits(p, k - 1), url) # Pad
        /\ DECODE_TABLE(Letter(SixBits(p, k - 1), url)) = SixBits(p, k - 1)
    BY <2>3, LetterIsRead, Zenon
  <2>. HIDE DEF e
  <2>. QED
    BY <2>1, <2>4, Zenon
<1>5. \A k \in (n + 1)..full : e[k] = Pad
  BY <1>3
<1>6. \A k \in 1..full : e[k] \in Octet
  <2>1. Pad \in Octet
    BY DEF Pad, Octet
  <2>2. \A k \in 1..full : k \in 1..n \/ k \in (n + 1)..full
    BY <1>3
  <2>. HIDE DEF e
  <2>. QED
    BY <1>4, <1>5, <2>1, <2>2
<1>7. e = [k \in 1..full |-> e[k]]
  OBVIOUS
<1>. HIDE DEF e
<1>8. e \in Seq(Octet) /\ Len(e) = full
  <2>1. e \in [1..full -> Octet]
    BY <1>6, <1>7
  <2>. QED
    BY <1>3, <2>1, FunctionIsSeq
<1>9. Spells(e, n, p)
  BY <1>3, <1>4, <1>8 DEF Spells
<1>. QED
  BY <1>2, <1>3, <1>5, <1>8, <1>9 DEF n

LEMMA PaddedIs ==
  ASSUME NEW t \in Seq(Octet), NEW l \in Nat, NEW s \in 1..4, Len(t) = 4 * l + s
  PROVE  LET c == PaddedToFour(t)
         IN  /\ c \in Seq(Octet) /\ Len(c) = 4 * l + 4
             /\ \A k \in 1..(4 * l + s) : c[k] = t[k]
             /\ \A k \in (4 * l + s + 1)..(4 * l + 4) : c[k] = Pad
<1>. DEFINE w == 4 - s
            pads == [i \in 1..w |-> Pad]
<1>1. (4 - (Len(t) % 4)) % 4 = w /\ w \in Nat
  <2>1. CASE s = 4
    BY <2>1
  <2>2. CASE s = 1
    BY <2>2
  <2>3. CASE s = 2
    BY <2>3
  <2>4. CASE s = 3
    BY <2>4
  <2>. QED
    BY <2>1, <2>2, <2>3, <2>4
<1>2. PaddedToFour(t) = t \o pads
  BY <1>1 DEF PaddedToFour
<1>3. pads \in [1..w -> Octet]
  BY DEF Pad, Octet
<1>4. \A i \in 1..w : pads[i] = Pad
  OBVIOUS
<1>. HIDE DEF pads, w
<1>5. pads \in Seq(Octet) /\ Len(pads) = w
  BY <1>1, <1>3, FunctionIsSeq
<1>6. /\ t \o pads \in Seq(Octet) /\ Len(t \o pads) = Len(t) + w
      /\ \A k \in 1..Len(t) : (t \o pads)[k] = t[k]
      /\ \A k \in (Len(t) + 1)..(Len(t) + w) : (t \o pads)[k] = pads[k - Len(t)]
  BY <1>5
<1>7. w = 4 - s
  BY DEF w
<1>8. ASSUME NEW k \in (4 * l + s + 1)..(4 * l + 4) PROVE (t \o pads)[k] = Pad
  <2>1. k \in (Len(t) + 1)..(Len(t) + w) /\ k - Len(t) \in 1..w
    BY <1>7
  <2>. QED
    BY <1>4, <1>6, <2>1
<1>. QED
  BY <1>2, <1>6, <1>7, <1>8, SMTT(30)

\* How many bytes a text of l + 1 groups is read as.
LEMMA PaddingIs ==
  ASSUME NEW c \in Seq(Octet), NEW l \in Nat, Len(c) = 4 * l + 4
  PROVE  /\ Padding(c) = (IF c[4 * l + 4] = Pad THEN 1 ELSE 0) + (IF c[4 * l + 3] = Pad THEN 1 ELSE 0)
         /\ Padding(c) \in 0..2
         /\ (Len(c) * 3) \div 4 - Padding(c) = 3 * l + 3 - Padding(c)
         /\ 3 * l + 3 - Padding(c) \in Nat
<1>1. Padding(c) = (IF c[4 * l + 4] = Pad THEN 1 ELSE 0) + (IF c[4 * l + 3] = Pad THEN 1 ELSE 0)
  BY DEF Padding
<1>2. Padding(c) \in 0..2
  BY <1>1
<1>3. (Len(c) * 3) \div 4 = 3 * l + 3
  OBVIOUS
<1>. QED
  BY <1>1, <1>2, <1>3

\* The bytes of 24 bits.
U1(g) == (g \div 65536) % 256
U2(g) == (g \div 256) % 256
U3(g) == (g \div 1) % 256

JoinAt(c, q) == Join(Sextet(c, 4 * q + 1), Sextet(c, 4 * q + 2), Sextet(c, 4 * q + 3), Sextet(c, 4 * q + 4))

LEMMA SextetType ==
  ASSUME NEW c, NEW i
  PROVE  Sextet(c, i) \in -1..63
BY TableValues DEF Sextet

LEMMA JoinType ==
  ASSUME NEW c, NEW q
  PROVE  /\ JoinAt(c, q) \in Nat /\ Triple(c, q) = JoinAt(c, q)
         /\ U1(JoinAt(c, q)) \in Octet /\ U2(JoinAt(c, q)) \in Octet /\ U3(JoinAt(c, q)) \in Octet
<1>1. JoinAt(c, q) \in Nat
  <2>1. \A i : Sextet(c, i) \in Int
    BY SextetType
  <2>. QED
    BY <2>1 DEF JoinAt, Join
<1>2. Triple(c, q) = JoinAt(c, q)
  BY DEF Triple, JoinAt, Join
<1>3. \A g \in Nat : U1(g) \in Octet /\ U2(g) \in Octet /\ U3(g) \in Octet
  BY DEF U1, U2, U3, Octet
<1>. QED
  BY <1>1, <1>2, <1>3

LEMMA DecodedIs ==
  ASSUME NEW c \in Seq(Octet), NEW l \in Nat, Len(c) = 4 * l + 4
  PROVE  /\ Base64_decode(c) \in Seq(Octet)
         /\ Len(Base64_decode(c)) = 3 * l + 3 - Padding(c)
         /\ \A q \in Nat :
              /\ 3 * q + 1 <= Len(Base64_decode(c)) => Base64_decode(c)[3 * q + 1] = U1(JoinAt(c, q))
              /\ 3 * q + 2 <= Len(Base64_decode(c)) => Base64_decode(c)[3 * q + 2] = U2(JoinAt(c, q))
              /\ 3 * q + 3 <= Len(Base64_decode(c)) => Base64_decode(c)[3 * q + 3] = U3(JoinAt(c, q))
<1>. DEFINE n == 3 * l + 3 - Padding(c)
            byte(j) == (Triple(c, (j - 1) \div 3) \div <<65536, 256, 1>>[((j - 1) % 3) + 1]) % 256
            d == [j \in 1..n |-> byte(j)]
<1>1. n \in Nat /\ Base64_decode(c) = d
  BY PaddingIs DEF Base64_decode
<1>2. ASSUME NEW q \in Nat
      PROVE  /\ byte(3 * q + 1) = U1(JoinAt(c, q))
             /\ byte(3 * q + 2) = U2(JoinAt(c, q))
             /\ byte(3 * q + 3) = U3(JoinAt(c, q))
  <2>1. \A j : (j - 1) \div 3 = q =>
          /\ ((j - 1) % 3) + 1 = 1 => byte(j) = U1(Triple(c, q))
          /\ ((j - 1) % 3) + 1 = 2 => byte(j) = U2(Triple(c, q))
          /\ ((j - 1) % 3) + 1 = 3 => byte(j) = U3(Triple(c, q))
    BY DEF U1, U2, U3
  <2>2. /\ (3 * q + 1 - 1) \div 3 = q /\ ((3 * q + 1 - 1) % 3) + 1 = 1
        /\ (3 * q + 2 - 1) \div 3 = q /\ ((3 * q + 2 - 1) % 3) + 1 = 2
        /\ (3 * q + 3 - 1) \div 3 = q /\ ((3 * q + 3 - 1) % 3) + 1 = 3
    OBVIOUS
  <2>. HIDE DEF byte
  <2>3. Triple(c, q) = JoinAt(c, q)
    BY JoinType, Zenon
  <2>4. byte(3 * q + 1) = U1(JoinAt(c, q))
    BY <2>1, <2>2, <2>3
  <2>5. byte(3 * q + 2) = U2(JoinAt(c, q))
    BY <2>1, <2>2, <2>3
  <2>6. byte(3 * q + 3) = U3(JoinAt(c, q))
    BY <2>1, <2>2, <2>3
  <2>. QED
    BY <2>4, <2>5, <2>6, Zenon
<1>. HIDE DEF n, byte
<1>3. ASSUME NEW j \in 1..n PROVE byte(j) \in Octet
  <2>. DEFINE q == (j - 1) \div 3
  <2>1. q \in Nat /\ j \in {3 * q + 1, 3 * q + 2, 3 * q + 3}
    BY <1>1
  <2>. HIDE DEF q
  <2>2. U1(JoinAt(c, q)) \in Octet /\ U2(JoinAt(c, q)) \in Octet /\ U3(JoinAt(c, q)) \in Octet
    BY JoinType, Zenon
  <2>3. /\ byte(3 * q + 1) = U1(JoinAt(c, q))
        /\ byte(3 * q + 2) = U2(JoinAt(c, q))
        /\ byte(3 * q + 3) = U3(JoinAt(c, q))
    BY <1>2, <2>1, Zenon
  <2>. QED
    BY <2>1, <2>2, <2>3
<1>4. d \in Seq(Octet) /\ Len(d) = n
  <2>1. d \in [1..n -> Octet]
    BY <1>3
  <2>. QED
    BY <1>1, <2>1, FunctionIsSeq
<1>5. \A j \in 1..n : d[j] = byte(j)
  OBVIOUS
<1>. HIDE DEF d
<1>6. \A j \in Nat : 1 <= j /\ j <= n => d[j] = byte(j)
  BY <1>1, <1>5
<1>7. ASSUME NEW q \in Nat
      PROVE  /\ 3 * q + 1 <= n => d[3 * q + 1] = U1(JoinAt(c, q))
             /\ 3 * q + 2 <= n => d[3 * q + 2] = U2(JoinAt(c, q))
             /\ 3 * q + 3 <= n => d[3 * q + 3] = U3(JoinAt(c, q))
  <2>1. 3 * q + 1 \in Nat /\ 1 <= 3 * q + 1 /\ 3 * q + 2 \in Nat /\ 1 <= 3 * q + 2
        /\ 3 * q + 3 \in Nat /\ 1 <= 3 * q + 3
    OBVIOUS
  <2>2. /\ 3 * q + 1 <= n => d[3 * q + 1] = byte(3 * q + 1)
        /\ 3 * q + 2 <= n => d[3 * q + 2] = byte(3 * q + 2)
        /\ 3 * q + 3 <= n => d[3 * q + 3] = byte(3 * q + 3)
    BY <1>6, <2>1, Zenon
  <2>3. /\ byte(3 * q + 1) = U1(JoinAt(c, q))
        /\ byte(3 * q + 2) = U2(JoinAt(c, q))
        /\ byte(3 * q + 3) = U3(JoinAt(c, q))
    BY <1>2, Zenon
  <2>. QED
    BY <2>2, <2>3, Zenon
<1>8. Base64_decode(c) = d
  BY <1>1
<1>. QED
  BY <1>4, <1>7, <1>8, Zenon DEF n

\* The bytes of four sextets, where the last of them may be others.
LEMMA HighByte ==
  ASSUME NEW x \in Int, 0 <= x, x <= 255, NEW low \in Int, 0 <= low, low <= 65535
  PROVE  U1((x * 65536 + low) % 16777216) = x
BY DEF U1

LEMMA MiddleByte ==
  ASSUME NEW x \in Int, 0 <= x, x <= 255, NEW y \in Int, 0 <= y, y <= 255,
         NEW low \in Int, 0 <= low, low <= 255
  PROVE  U2(Bytes(x, y, low) % 16777216) = y
BY DEF U2, Bytes

LEMMA JoinedBytes ==
  ASSUME NEW x \in Octet, NEW y \in Octet, NEW z \in Octet, NEW a \in Six, NEW b \in Six
  PROVE  /\ U1(Join(S1(x), S2(x, y), a, b)) = x
         /\ U2(Join(S1(x), S2(x, y), S3(y, z), b)) = y
         /\ U3(Join(S1(x), S2(x, y), S3(y, z), S4(z))) = z
<1>1. U1(Join(S1(x), S2(x, y), a, b)) = x
  <2>. DEFINE h == y \div 16
              low == h * 4096 + a * 64 + b
              g == S1(x) * 262144 + S2(x, y) * 4096 + a * 64 + b
  <2>1. h \in 0..15
    BY DEF Octet
  <2>2. g = x * 65536 + low
    <3>1. x = (x \div 4) * 4 + (x % 4)
      BY DEF Octet
    <3>. QED
      BY <3>1 DEF S1, S2, Octet, Six
  <2>. HIDE DEF h
  <2>3. low \in Int /\ 0 <= low /\ low <= 65535
    BY <2>1 DEF Six
  <2>. HIDE DEF low, g
  <2>4. U1(g % 16777216) = x
    <3>1. x \in Int /\ 0 <= x /\ x <= 255
      BY DEF Octet
    <3>. QED
      BY <2>2, <2>3, <3>1, HighByte
  <2>. QED
    BY <2>4 DEF Join, g
<1>2. U2(Join(S1(x), S2(x, y), S3(y, z), b)) = y
  <2>. DEFINE h == z \div 64
              low == h * 64 + b
              g == S1(x) * 262144 + S2(x, y) * 4096 + S3(y, z) * 64 + b
  <2>1. h \in 0..3
    BY DEF Octet
  <2>2. g = Bytes(x, y, low)
    <3>. DEFINE xh == x \div 4
                xl == x % 4
                yh == y \div 16
                yl == y % 16
    <3>1. x = xh * 4 + xl /\ y = yh * 16 + yl
      BY DEF Octet
    <3>2. xh \in Int /\ xl \in Int /\ yh \in Int /\ yl \in Int /\ b \in Int
      BY DEF Octet, Six
    <3>3. S1(x) = xh /\ S2(x, y) = xl * 16 + yh /\ S3(y, z) = yl * 4 + h
      BY DEF S1, S2, S3
    <3>. HIDE DEF xh, xl, yh, yl, h
    <3>. QED
      BY <2>1, <3>1, <3>2, <3>3 DEF Bytes
  <2>. HIDE DEF h
  <2>3. low \in Int /\ 0 <= low /\ low <= 255
    BY <2>1 DEF Six
  <2>. HIDE DEF low, g
  <2>4. U2(g % 16777216) = y
    <3>1. x \in Int /\ 0 <= x /\ x <= 255 /\ y \in Int /\ 0 <= y /\ y <= 255
      BY DEF Octet
    <3>. QED
      BY <2>2, <2>3, <3>1, MiddleByte
  <2>. QED
    BY <2>4 DEF Join, g
<1>3. U3(Join(S1(x), S2(x, y), S3(y, z), S4(z))) = z
  <2>1. Join(S1(x), S2(x, y), S3(y, z), S4(z)) = Bytes(x, y, z) /\ (Bytes(x, y, z) \div 1) % 256 = z
    BY Joined3
  <2>. QED
    BY <2>1 DEF U3
<1>. QED
  BY <1>1, <1>2, <1>3

\* A closing brace of which bits are missing, or before which -1 is subtracted.
LEMMA SpoiltBytes ==
  ASSUME NEW x \in Octet
  PROVE  /\ U1(Join(S1(125), 0, 0, 0)) = 124
         /\ U1(Join(S1(125), S2(125, 0), -1, 0)) = 124
         /\ U2(Join(S1(125), S2(125, 0), -1, 0)) = 255
         /\ U1(Join(S1(x), S2(x, 125), S3(125, 0), -1)) = x
         /\ U2(Join(S1(x), S2(x, 125), S3(125, 0), -1)) = 124
         /\ U3(Join(S1(x), S2(x, 125), S3(125, 0), -1)) = 255
<1>. USE DEF Octet
<1>1. S1(125) = 31 /\ S2(125, 0) = 16 /\ S3(125, 0) = 52
  BY DEF S1, S2, S3
<1>2. Join(S1(125), 0, 0, 0) = 31 * 262144
  BY <1>1 DEF Join
<1>3. Join(S1(125), S2(125, 0), -1, 0) = 125 * 65536 - 64
  BY <1>1 DEF Join
<1>4. Join(S1(x), S2(x, 125), S3(125, 0), -1) = x * 65536 + 32000 - 1
  <2>1. S1(x) * 262144 + S2(x, 125) * 4096 + 52 * 64 + (-1) = x * 65536 + 32000 - 1
    BY DEF S1, S2
  <2>. QED
    BY <1>1, <2>1 DEF Join
<1>5. U1(Join(S1(125), 0, 0, 0)) = 124
  BY <1>2 DEF U1
<1>6. /\ U1(Join(S1(125), S2(125, 0), -1, 0)) = 124
      /\ U2(Join(S1(125), S2(125, 0), -1, 0)) = 255
  BY <1>3 DEF U1, U2
<1>7. /\ U1(Join(S1(x), S2(x, 125), S3(125, 0), -1)) = x
      /\ U2(Join(S1(x), S2(x, 125), S3(125, 0), -1)) = 124
      /\ U3(Join(S1(x), S2(x, 125), S3(125, 0), -1)) = 255
  BY <1>4 DEF U1, U2, U3
<1>. QED
  BY <1>5, <1>6, <1>7

LEMMA SextetIs ==
  ASSUME NEW c \in Seq(Octet), NEW n \in Nat, NEW p, Spells(c, n, p),
         NEW k \in 1..n, NEW i, i = k - 1
  PROVE  Sextet(c, k) = SixBits(p, i)
BY DEF Spells, Sextet

\* Group q of a text that is the letters of p as far as group q needs them.
LEMMA GroupAgrees ==
  ASSUME NEW p \in Seq(Octet), NEW c \in Seq(Octet), NEW l \in Nat, Len(c) = 4 * l + 4,
         NEW n \in Nat, Spells(c, n, p), NEW q \in Nat
  PROVE  /\ 4 * q + 1 <= n => Sextet(c, 4 * q + 1) = S1(ByteAt(p, q, 1))
         /\ 4 * q + 2 <= n => Sextet(c, 4 * q + 2) = S2(ByteAt(p, q, 1), ByteAt(p, q, 2))
         /\ 4 * q + 3 <= n => Sextet(c, 4 * q + 3) = S3(ByteAt(p, q, 2), ByteAt(p, q, 3))
         /\ 4 * q + 4 <= n => Sextet(c, 4 * q + 4) = S4(ByteAt(p, q, 3))
<1>1. /\ SixBits(p, 4 * q) = S1(ByteAt(p, q, 1))
      /\ SixBits(p, 4 * q + 1) = S2(ByteAt(p, q, 1), ByteAt(p, q, 2))
      /\ SixBits(p, 4 * q + 2) = S3(ByteAt(p, q, 2), ByteAt(p, q, 3))
      /\ SixBits(p, 4 * q + 3) = S4(ByteAt(p, q, 3))
  BY SixBitsOf, Zenon
<1>2. ASSUME 4 * q + 1 <= n PROVE Sextet(c, 4 * q + 1) = SixBits(p, 4 * q)
  <2>1. 4 * q + 1 \in 1..n /\ 4 * q = 4 * q + 1 - 1
    BY <1>2
  <2>. QED
    BY <2>1, SextetIs
<1>3. ASSUME 4 * q + 2 <= n PROVE Sextet(c, 4 * q + 2) = SixBits(p, 4 * q + 1)
  <2>1. 4 * q + 2 \in 1..n /\ 4 * q + 1 = 4 * q + 2 - 1
    BY <1>3
  <2>. QED
    BY <2>1, SextetIs
<1>4. ASSUME 4 * q + 3 <= n PROVE Sextet(c, 4 * q + 3) = SixBits(p, 4 * q + 2)
  <2>1. 4 * q + 3 \in 1..n /\ 4 * q + 2 = 4 * q + 3 - 1
    BY <1>4
  <2>. QED
    BY <2>1, SextetIs
<1>5. ASSUME 4 * q + 4 <= n PROVE Sextet(c, 4 * q + 4) = SixBits(p, 4 * q + 3)
  <2>1. 4 * q + 4 \in 1..n /\ 4 * q + 3 = 4 * q + 4 - 1
    BY <1>5
  <2>. QED
    BY <2>1, SextetIs
<1>. QED
  BY <1>1, <1>2, <1>3, <1>4, <1>5, Zenon

\* A byte is right when its own sextets are letters of p and the others, -1 excepted, any.
LEMMA BytesAgree ==
  ASSUME NEW p \in Seq(Octet), NEW c \in Seq(Octet), NEW l \in Nat, Len(c) = 4 * l + 4,
         NEW n \in Nat, Spells(c, n, p), NEW q \in Nat,
         4 * q + 2 <= n, Sextet(c, 4 * q + 3) \in Six, Sextet(c, 4 * q + 4) \in Six
  PROVE  /\ 3 * q + 1 <= Len(Base64_decode(c)) => Base64_decode(c)[3 * q + 1] = ByteAt(p, q, 1)
         /\ 3 * q + 2 <= Len(Base64_decode(c)) /\ 4 * q + 3 <= n =>
              Base64_decode(c)[3 * q + 2] = ByteAt(p, q, 2)
         /\ 3 * q + 3 <= Len(Base64_decode(c)) /\ 4 * q + 4 <= n =>
              Base64_decode(c)[3 * q + 3] = ByteAt(p, q, 3)
<1>. DEFINE b1 == ByteAt(p, q, 1)
            b2 == ByteAt(p, q, 2)
            b3 == ByteAt(p, q, 3)
            v3 == Sextet(c, 4 * q + 3)
            v4 == Sextet(c, 4 * q + 4)
            d == Base64_decode(c)
<1>1. b1 \in Octet /\ b2 \in Octet /\ b3 \in Octet
  BY BytesAt, Zenon
<1>2. /\ Sextet(c, 4 * q + 1) = S1(b1)
      /\ Sextet(c, 4 * q + 2) = S2(b1, b2)
      /\ 4 * q + 3 <= n => v3 = S3(b2, b3)
      /\ 4 * q + 4 <= n => v4 = S4(b3)
  <2>1. 4 * q + 1 <= n
    OBVIOUS
  <2>. QED
    BY <2>1, GroupAgrees, ZenonT(40)
<1>3. JoinAt(c, q) = Join(S1(b1), S2(b1, b2), v3, v4)
  BY <1>2, Zenon DEF JoinAt
<1>4. 4 * q + 4 <= n => 4 * q + 3 <= n
  OBVIOUS
<1>5. /\ 3 * q + 1 <= Len(d) => d[3 * q + 1] = U1(JoinAt(c, q))
      /\ 3 * q + 2 <= Len(d) => d[3 * q + 2] = U2(JoinAt(c, q))
      /\ 3 * q + 3 <= Len(d) => d[3 * q + 3] = U3(JoinAt(c, q))
  BY DecodedIs, Zenon
<1>6. v3 \in Six /\ v4 \in Six
  OBVIOUS
<1>. HIDE DEF b1, b2, b3, v3, v4, d
<1>7. /\ U1(Join(S1(b1), S2(b1, b2), v3, v4)) = b1
      /\ U2(Join(S1(b1), S2(b1, b2), S3(b2, b3), v4)) = b2
      /\ U3(Join(S1(b1), S2(b1, b2), S3(b2, b3), S4(b3))) = b3
  BY <1>1, <1>6, JoinedBytes, SMT
<1>8. 3 * q + 1 <= Len(d) => d[3 * q + 1] = b1
  BY <1>3, <1>5, <1>7, Zenon
<1>9. 3 * q + 2 <= Len(d) /\ 4 * q + 3 <= n => d[3 * q + 2] = b2
  BY <1>2, <1>3, <1>5, <1>7, Zenon
<1>10. ASSUME 3 * q + 3 <= Len(d), 4 * q + 4 <= n
       PROVE  d[3 * q + 3] = b3
  <2>1. d[3 * q + 3] = U3(Join(S1(b1), S2(b1, b2), v3, v4))
    BY <1>3, <1>5, <1>10, Zenon
  <2>2. v3 = S3(b2, b3) /\ v4 = S4(b3)
    BY <1>2, <1>4, <1>10, Zenon
  <2>. QED
    BY <1>7, <2>1, <2>2, Zenon
<1>. QED
  BY <1>8, <1>9, <1>10 DEF b1, b2, b3, d

LEMMA WholeGroups ==
  ASSUME NEW p \in Seq(Octet), NEW c \in Seq(Octet), NEW l \in Nat, Len(c) = 4 * l + 4,
         NEW n \in Nat, Spells(c, n, p), NEW k \in Nat, 4 * k <= n, 3 * k <= Len(p)
  PROVE  \A j \in 1..(3 * k) : j <= Len(Base64_decode(c)) => Base64_decode(c)[j] = p[j]
<1>. SUFFICES ASSUME NEW j \in 1..(3 * k), j <= Len(Base64_decode(c))
              PROVE  Base64_decode(c)[j] = p[j]
  OBVIOUS
<1>. DEFINE q == (j - 1) \div 3
            d == Base64_decode(c)
<1>1. q \in Nat /\ j \in {3 * q + 1, 3 * q + 2, 3 * q + 3} /\ q < k
  OBVIOUS
<1>. HIDE DEF q, d
<1>2. 4 * q + 2 <= n /\ 4 * q + 3 <= n /\ 4 * q + 4 <= n
  BY <1>1
<1>3. Sextet(c, 4 * q + 3) \in Six /\ Sextet(c, 4 * q + 4) \in Six
  <2>1. ByteAt(p, q, 2) \in Octet /\ ByteAt(p, q, 3) \in Octet
    BY <1>1, BytesAt, Zenon
  <2>2. S3(ByteAt(p, q, 2), ByteAt(p, q, 3)) \in Six /\ S4(ByteAt(p, q, 3)) \in Six
    BY <2>1, Sextets, Zenon
  <2>. QED
    BY <1>1, <1>2, <2>2, GroupAgrees, ZenonT(40)
<1>4. /\ 3 * q + 1 <= Len(d) => d[3 * q + 1] = ByteAt(p, q, 1)
      /\ 3 * q + 2 <= Len(d) => d[3 * q + 2] = ByteAt(p, q, 2)
      /\ 3 * q + 3 <= Len(d) => d[3 * q + 3] = ByteAt(p, q, 3)
  BY <1>1, <1>2, <1>3, BytesAgree, ZenonT(40) DEF d
<1>5. /\ j = 3 * q + 1 => ByteAt(p, q, 1) = p[j]
      /\ j = 3 * q + 2 => ByteAt(p, q, 2) = p[j]
      /\ j = 3 * q + 3 => ByteAt(p, q, 3) = p[j]
  BY <1>1 DEF ByteAt
<1>6. j <= Len(d)
  BY DEF d
<1>7. d[j] = p[j]
  <2>1. CASE j = 3 * q + 1
    BY <1>4, <1>5, <1>6, <2>1, Zenon
  <2>2. CASE j = 3 * q + 2
    BY <1>4, <1>5, <1>6, <2>2, Zenon
  <2>3. CASE j = 3 * q + 3
    BY <1>4, <1>5, <1>6, <2>3, Zenon
  <2>. QED
    BY <1>1, <2>1, <2>2, <2>3, Zenon
<1>. QED
  BY <1>7 DEF d

LEMMA SpellsOn ==
  ASSUME NEW t, NEW p, NEW n \in Nat, NEW k \in Nat, k <= n, Spells(t, n, p),
         NEW c, k <= Len(c), \A i \in 1..k : c[i] = t[i]
  PROVE  Spells(c, k, p)
<1>1. ASSUME NEW i \in 1..k
      PROVE  c[i] # Pad /\ DECODE_TABLE(c[i]) = SixBits(p, i - 1)
  <2>1. i \in 1..n /\ c[i] = t[i]
    OBVIOUS
  <2>. QED
    BY <2>1, Zenon DEF Spells
<1>. QED
  BY <1>1, Zenon DEF Spells

LEMMA PadIsZero ==
  ASSUME NEW c, NEW i, i \in 1..Len(c), c[i] = Pad
  PROVE  Sextet(c, i) = 0 /\ Sextet(c, i) \in Six
BY DEF Sextet, Six

LEMMA EqualSequences ==
  ASSUME NEW S, NEW s \in Seq(S), NEW t \in Seq(S), Len(s) = Len(t),
         \A j \in 1..Len(t) : s[j] = t[j]
  PROVE  s = t
<1>1. DOMAIN s = 1..Len(s) /\ DOMAIN t = 1..Len(t)
  OBVIOUS
<1>2. s = [j \in 1..Len(s) |-> s[j]] /\ t = [j \in 1..Len(t) |-> t[j]]
  OBVIOUS
<1>. QED
  BY <1>2, Zenon

LEMMA ThirdSextet ==
  ASSUME NEW p \in Seq(Octet), NEW c \in Seq(Octet), NEW l \in Nat, Len(c) = 4 * l + 4,
         NEW n \in Nat, Spells(c, n, p), NEW q \in Nat, 4 * q + 3 <= n
  PROVE  Sextet(c, 4 * q + 3) \in Six
<1>1. ByteAt(p, q, 2) \in Octet /\ ByteAt(p, q, 3) \in Octet
  BY BytesAt, Zenon
<1>2. S3(ByteAt(p, q, 2), ByteAt(p, q, 3)) \in Six
  BY <1>1, Sextets, Zenon
<1>3. Sextet(c, 4 * q + 3) = S3(ByteAt(p, q, 2), ByteAt(p, q, 3))
  BY GroupAgrees, Zenon
<1>. QED
  BY <1>2, <1>3, Zenon

\* What is read of a text: p and more, or less than p and no closing brace behind it.
Readable(bytes, p) == Len(p) <= Len(bytes) /\ \A j \in 1..Len(p) : bytes[j] = p[j]
Spoilt(bytes, p) == \A j \in 1..Len(bytes) : IF j < Len(p) THEN bytes[j] = p[j] ELSE bytes[j] # 125

\* All letters of p, and none that is -1 behind them in the last group.
LEMMA BeginsWith ==
  ASSUME NEW p \in Seq(Octet), NEW m \in Nat, NEW r \in 0..2, Len(p) = 3 * m + r,
         NEW c \in Seq(Octet), NEW l \in Nat, Len(c) = 4 * l + 4,
         Spells(c, Letters(m, r), p),
         r # 0 => Sextet(c, 4 * m + 3) \in Six /\ Sextet(c, 4 * m + 4) \in Six,
         Len(p) <= Len(Base64_decode(c))
  PROVE  Readable(Base64_decode(c), p)
<1>. DEFINE n == Letters(m, r)
            d == Base64_decode(c)
<1>1. n \in Nat /\ 4 * m <= n /\ 3 * m <= Len(p)
  BY DEF Letters
<1>2. \A j \in 1..(3 * m) : j <= Len(d) => d[j] = p[j]
  <2>1. Spells(c, n, p)
    OBVIOUS
  <2>. HIDE DEF n
  <2>. QED
    BY <1>1, <2>1, WholeGroups
<1>3. Len(d) \in Nat /\ Len(p) <= Len(d)
  <2>1. d \in Seq(Octet)
    BY DecodedIs, Zenon
  <2>. HIDE DEF d
  <2>2. Len(d) \in Nat
    BY <2>1
  <2>. QED
    BY <2>2 DEF d
<1>. HIDE DEF d
<1>4. ASSUME r # 0
      PROVE  /\ d[3 * m + 1] = ByteAt(p, m, 1)
             /\ 3 * m + 2 <= Len(d) /\ 4 * m + 3 <= n => d[3 * m + 2] = ByteAt(p, m, 2)
  <2>1. 4 * m + 2 <= n /\ 3 * m + 1 <= Len(d)
    BY <1>3, <1>4 DEF Letters
  <2>2. Sextet(c, 4 * m + 3) \in Six /\ Sextet(c, 4 * m + 4) \in Six
    BY <1>4
  <2>3. Spells(c, n, p)
    OBVIOUS
  <2>. HIDE DEF n
  <2>. QED
    BY <1>1, <2>1, <2>2, <2>3, BytesAgree DEF d
<1>5. \A j \in 1..Len(p) : d[j] = p[j]
  <2>1. CASE r = 0
    BY <1>2, <1>3, <2>1
  <2>2. CASE r = 1
    <3>1. d[3 * m + 1] = p[3 * m + 1]
      BY <1>4, <2>2 DEF ByteAt
    <3>2. \A j \in 1..Len(p) : j \in 1..(3 * m) \/ j = 3 * m + 1
      BY <2>2
    <3>3. \A j \in 1..(3 * m) : d[j] = p[j]
      BY <1>1, <1>2, <1>3
    <3>. QED
      BY <3>1, <3>2, <3>3, Zenon
  <2>3. CASE r = 2
    <3>1. 3 * m + 2 <= Len(d) /\ 4 * m + 3 <= n
      BY <1>3, <2>3 DEF Letters
    <3>2. d[3 * m + 1] = p[3 * m + 1] /\ d[3 * m + 2] = p[3 * m + 2]
      BY <1>4, <2>3, <3>1 DEF ByteAt
    <3>3. \A j \in 1..Len(p) : j \in 1..(3 * m) \/ j = 3 * m + 1 \/ j = 3 * m + 2
      BY <2>3
    <3>4. \A j \in 1..(3 * m) : d[j] = p[j]
      BY <1>1, <1>2, <1>3
    <3>. QED
      BY <3>2, <3>3, <3>4, Zenon
  <2>. QED
    BY <2>1, <2>2, <2>3
<1>. QED
  BY <1>3, <1>5 DEF Readable, d

\* The text of p that has all its letters, and padding, is read as p.
LEMMA FilledDecodes ==
  ASSUME NEW p \in Seq(Octet), NEW m \in Nat, NEW r \in 0..2, Len(p) = 3 * m + r,
         NEW c \in Seq(Octet), NEW l \in Nat, Len(c) = 4 * l + 4,
         m = IF r = 0 THEN l + 1 ELSE l,
         Spells(c, Letters(m, r), p),
         \A k \in (Letters(m, r) + 1)..(4 * l + 4) : c[k] = Pad
  PROVE  Base64_decode(c) = p
<1>. DEFINE n == Letters(m, r)
            d == Base64_decode(c)
<1>1. d \in Seq(Octet) /\ Len(d) = 3 * l + 3 - Padding(c)
  BY DecodedIs, Zenon
<1>2. Padding(c) = (IF c[4 * l + 4] = Pad THEN 1 ELSE 0) + (IF c[4 * l + 3] = Pad THEN 1 ELSE 0)
  BY PaddingIs, Zenon
<1>3. \A k \in 1..n : c[k] # Pad
  BY DEF Spells
<1>. HIDE DEF d
<1>4. Len(d) = Len(p)
  <2>1. CASE r = 0
    <3>1. 4 * l + 4 \in 1..n /\ 4 * l + 3 \in 1..n
      BY <2>1 DEF Letters
    <3>. QED
      BY <1>1, <1>2, <1>3, <2>1, <3>1
  <2>2. CASE r = 1
    <3>1. c[4 * l + 4] = Pad /\ c[4 * l + 3] = Pad
      BY <2>2 DEF Letters
    <3>. QED
      BY <1>1, <1>2, <2>2, <3>1
  <2>3. CASE r = 2
    <3>1. c[4 * l + 4] = Pad /\ c[4 * l + 3] # Pad
      BY <1>3, <2>3 DEF Letters
    <3>. QED
      BY <1>1, <1>2, <2>3, <3>1
  <2>. QED
    BY <2>1, <2>2, <2>3
<1>5. ASSUME r # 0
      PROVE  Sextet(c, 4 * m + 3) \in Six /\ Sextet(c, 4 * m + 4) \in Six
  <2>1. m = l
    BY <1>5
  <2>2. CASE r = 1
    <3>1. 4 * l + 3 \in (n + 1)..(4 * l + 4) /\ 4 * l + 4 \in (n + 1)..(4 * l + 4)
      BY <2>1, <2>2 DEF Letters
    <3>. QED
      BY <2>1, <3>1, PadIsZero, SMTT(30)
  <2>3. CASE r = 2
    <3>1. Sextet(c, 4 * m + 4) \in Six
      <4>1. 4 * l + 4 \in (n + 1)..(4 * l + 4)
        BY <2>1, <2>3 DEF Letters
      <4>. QED
        BY <2>1, <4>1, PadIsZero
    <3>2. n \in Nat /\ 4 * m + 3 <= n
      BY <2>3 DEF Letters
    <3>3. Sextet(c, 4 * m + 3) \in Six
      BY <3>2, ThirdSextet, Zenon
    <3>. QED
      BY <3>1, <3>3
  <2>. QED
    BY <1>5, <2>2, <2>3
<1>6. Readable(d, p)
  <2>1. Len(p) <= Len(d)
    BY <1>4
  <2>. QED
    BY <1>5, <2>1, BeginsWith, Zenon DEF d
<1>7. d = p
  BY <1>1, <1>4, <1>6, EqualSequences DEF Readable
<1>. QED
  BY <1>7 DEF d

LEMMA TextDecodes ==
  ASSUME NEW p \in Seq(Octet), NEW m \in Nat, NEW r \in 0..2, Len(p) = 3 * m + r,
         NEW l \in Nat, m = IF r = 0 THEN l + 1 ELSE l,
         NEW t \in Seq(Octet), Len(t) <= 4 * l + 4,
         Spells(t, Letters(m, r), p),
         \A k \in (Letters(m, r) + 1)..Len(t) : t[k] = Pad
  PROVE  Base64_decode(PaddedToFour(t)) = p
<1>. DEFINE n == Letters(m, r)
            c == PaddedToFour(t)
            s == Len(t) - 4 * l
<1>1. n \in Nat /\ n <= Len(t)
  BY DEF Letters, Spells
<1>2. s \in 1..4 /\ Len(t) = 4 * l + s
  BY <1>1 DEF Letters
<1>. HIDE DEF n, s
<1>3. /\ c \in Seq(Octet) /\ Len(c) = 4 * l + 4
      /\ \A k \in 1..(4 * l + s) : c[k] = t[k]
      /\ \A k \in (4 * l + s + 1)..(4 * l + 4) : c[k] = Pad
  BY <1>2, PaddedIs
<1>. HIDE DEF c
<1>4. Spells(c, n, p)
  BY <1>1, <1>2, <1>3, SpellsOn DEF n
<1>5. \A k \in (n + 1)..(4 * l + 4) : c[k] = Pad
  <2>1. \A k \in (n + 1)..(4 * l + 4) : k \in (n + 1)..Len(t) \/ k \in (4 * l + s + 1)..(4 * l + 4)
    BY <1>1, <1>2
  <2>2. \A k \in (n + 1)..Len(t) : k \in 1..(4 * l + s)
    BY <1>1, <1>2
  <2>. QED
    BY <1>3, <2>1, <2>2 DEF n
<1>. QED
  BY <1>3, <1>4, <1>5, FilledDecodes DEF n, c

\* e is what an issuer writes for p.
Writes(e, p, m, r, padded) ==
  /\ e \in Seq(Octet)
  /\ Len(e) = IF padded /\ r # 0 THEN 4 * m + 4 ELSE Letters(m, r)
  /\ Spells(e, Letters(m, r), p)
  /\ \A k \in (Letters(m, r) + 1)..Len(e) : e[k] = Pad

LEMMA FrontIs ==
  ASSUME NEW S, NEW s \in Seq(S), s # <<>>
  PROVE  /\ Front(s) \in Seq(S) /\ Len(Front(s)) = Len(s) - 1
         /\ \A k \in 1..(Len(s) - 1) : Front(s)[k] = s[k]
<1>1. Len(s) \in Nat /\ Len(s) >= 1
  BY EmptySeq
<1>. DEFINE n == Len(s) - 1
            f == SubSeq(s, 1, n)
<1>2. n \in Int /\ 1 \in Int /\ \A i \in 1..n : s[i] \in S
  BY <1>1
<1>3. /\ f \in Seq(S) /\ Len(f) = IF 1 <= n THEN n - 1 + 1 ELSE 0
      /\ \A k \in 1..(n - 1 + 1) : f[k] = s[1 + k - 1]
  <2>. HIDE DEF n
  <2>. QED
    BY <1>2, SubSeqProperties
<1>4. f = Front(s)
  BY DEF Front
<1>. HIDE DEF f
<1>. QED
  BY <1>1, <1>3, <1>4

\* With one character more than it has letters a text of whole groups has a group of
\* that character behind it.
LEMMA LongReadsWhole ==
  ASSUME NEW p \in Seq(Octet), NEW m \in Nat, NEW r \in 0..2, Len(p) = 3 * m + r,
         NEW padded \in BOOLEAN, padded \/ r = 0, NEW e, Writes(e, p, m, r, padded),
         NEW ch \in Octet
  PROVE  Readable(Base64_decode(PaddedToFour(Append(e, ch))), p)
<1>. DEFINE n == Letters(m, r)
            l == IF r = 0 THEN m ELSE m + 1
            t == Append(e, ch)
            c == PaddedToFour(t)
<1>1. n \in Nat /\ l \in Nat /\ Len(e) = 4 * l /\ n <= 4 * l /\ e \in Seq(Octet)
  <2>1. e \in Seq(Octet) /\ Len(e) = IF padded /\ r # 0 THEN 4 * m + 4 ELSE n
    BY Zenon DEF Writes
  <2>2. n \in Nat /\ n <= 4 * l /\ l \in Nat
    BY DEF Letters
  <2>3. Len(e) = 4 * l
    BY <2>1 DEF Letters
  <2>. QED
    BY <2>1, <2>2, <2>3
<1>2. t \in Seq(Octet) /\ Len(t) = 4 * l + 1 /\ \A k \in 1..(4 * l) : t[k] = e[k]
  BY <1>1
<1>. HIDE DEF l, t
<1>3. /\ c \in Seq(Octet) /\ Len(c) = 4 * l + 4
      /\ \A k \in 1..(4 * l + 1) : c[k] = t[k]
      /\ \A k \in (4 * l + 2)..(4 * l + 4) : c[k] = Pad
  <2>1. l \in Nat /\ t \in Seq(Octet) /\ Len(t) = 4 * l + 1
    BY <1>1, <1>2
  <2>2. 4 * l + 1 + 1 = 4 * l + 2
    BY <2>1
  <2>3. 1 \in 1..4
    OBVIOUS
  <2>4. /\ c \in Seq(Octet) /\ Len(c) = 4 * l + 4
        /\ \A k \in 1..(4 * l + 1) : c[k] = t[k]
        /\ \A k \in (4 * l + 1 + 1)..(4 * l + 4) : c[k] = Pad
    BY <2>1, <2>3, PaddedIs, Zenon
  <2>. QED
    BY <2>2, <2>4, Zenon
<1>. HIDE DEF c
<1>4. \A k \in 1..(4 * l) : c[k] = e[k]
  BY <1>1, <1>2, <1>3
<1>5. Spells(c, n, p)
  <2>1. Spells(e, n, p)
    BY DEF Writes
  <2>2. n <= Len(c) /\ \A k \in 1..n : c[k] = e[k]
    BY <1>1, <1>3, <1>4
  <2>. HIDE DEF n
  <2>. QED
    BY <1>1, <2>1, <2>2, SpellsOn
<1>6. Len(p) <= Len(Base64_decode(c))
  <2>1. Padding(c) \in 0..2
    BY <1>1, <1>3, PaddingIs, Zenon
  <2>2. Len(Base64_decode(c)) = 3 * l + 3 - Padding(c)
    BY <1>1, <1>3, DecodedIs, Zenon
  <2>. QED
    BY <1>1, <2>1, <2>2 DEF l
<1>7. ASSUME r # 0
      PROVE  Sextet(c, 4 * m + 3) \in Six /\ Sextet(c, 4 * m + 4) \in Six
  <2>1. l = m + 1 /\ Len(e) = 4 * m + 4 /\ 4 * m + 3 \in 1..(4 * l) /\ 4 * m + 4 \in 1..(4 * l)
    BY <1>1, <1>7 DEF l
  <2>2. c[4 * m + 3] = e[4 * m + 3] /\ c[4 * m + 4] = e[4 * m + 4]
    BY <1>4, <2>1
  <2>3. 4 * m + 3 \in 1..Len(c) /\ 4 * m + 4 \in 1..Len(c)
    BY <1>3, <2>1
  <2>4. 4 * m + 4 > n
    BY <1>7 DEF Letters
  <2>5. e[4 * m + 4] = Pad
    BY <1>1, <2>1, <2>4 DEF Writes
  <2>6. Sextet(c, 4 * m + 4) \in Six
    BY <2>2, <2>3, <2>5, PadIsZero
  <2>7. CASE r = 1
    <3>1. e[4 * m + 3] = Pad
      BY <2>1, <2>7 DEF Writes, Letters
    <3>. QED
      BY <2>2, <2>3, <2>6, <3>1, PadIsZero
  <2>8. CASE r = 2
    <3>1. 4 * m + 3 <= n
      BY <2>8 DEF Letters
    <3>2. Sextet(c, 4 * m + 3) \in Six
      BY <1>1, <1>3, <1>5, <3>1, ThirdSextet, Zenon
    <3>. QED
      BY <2>6, <3>2
  <2>. QED
    BY <1>7, <2>7, <2>8
<1>8. Readable(Base64_decode(c), p)
  BY <1>1, <1>3, <1>5, <1>6, <1>7, BeginsWith, Zenon
<1>. QED
  BY <1>8 DEF c, t

\* Without padding the character joins the last group.  If it is in no alphabet, it
\* is read as -1, which spoils the closing brace.
LEMMA LongReadsOne ==
  ASSUME NEW p \in Seq(Octet), NEW m \in Nat, Len(p) = 3 * m + 1, p[Len(p)] = 125,
         NEW e, Writes(e, p, m, 1, FALSE), NEW ch \in Octet
  PROVE  LET d == Base64_decode(PaddedToFour(Append(e, ch)))
         IN  Readable(d, p) \/ Spoilt(d, p)
<1>. DEFINE t == Append(e, ch)
            c == PaddedToFour(t)
            d == Base64_decode(c)
            v == Sextet(c, 4 * m + 3)
<1>1. /\ e \in Seq(Octet) /\ Len(e) = 4 * m + 2 /\ Spells(e, 4 * m + 2, p)
      /\ Letters(m, 1) = 4 * m + 2
  BY DEF Writes, Letters
<1>2. t \in Seq(Octet) /\ Len(t) = 4 * m + 3 /\ \A k \in 1..(4 * m + 2) : t[k] = e[k]
  BY <1>1
<1>. HIDE DEF t
<1>3. /\ c \in Seq(Octet) /\ Len(c) = 4 * m + 4
      /\ \A k \in 1..(4 * m + 3) : c[k] = t[k]
      /\ c[4 * m + 4] = Pad
  <2>1. 3 \in 1..4 /\ 4 * m + 4 \in (4 * m + 3 + 1)..(4 * m + 4)
    OBVIOUS
  <2>. QED
    BY <1>2, <2>1, PaddedIs
<1>. HIDE DEF c
<1>4. Spells(c, 4 * m + 2, p)
  <2>1. 4 * m + 2 \in Nat /\ 4 * m + 2 <= 4 * m + 2
    OBVIOUS
  <2>2. 4 * m + 2 <= Len(c) /\ \A k \in 1..(4 * m + 2) : c[k] = e[k]
    BY <1>2, <1>3
  <2>. QED
    BY <1>1, <2>1, <2>2, SpellsOn
<1>5. Padding(c) \in 1..2
  <2>1. Padding(c) = (IF c[4 * m + 4] = Pad THEN 1 ELSE 0) + (IF c[4 * m + 3] = Pad THEN 1 ELSE 0)
    BY <1>3, PaddingIs, Zenon
  <2>. QED
    BY <1>3, <2>1
<1>6. d \in Seq(Octet) /\ Len(d) = 3 * m + 3 - Padding(c)
  BY <1>3, DecodedIs, Zenon
<1>7. Sextet(c, 4 * m + 4) = 0 /\ Sextet(c, 4 * m + 4) \in Six
  <2>1. 4 * m + 4 \in 1..Len(c)
    BY <1>3
  <2>. QED
    BY <1>3, <2>1, PadIsZero
<1>8. v = -1 \/ v \in Six
  <2>1. v \in -1..63
    BY SextetType
  <2>. HIDE DEF v
  <2>. QED
    BY <2>1 DEF Six
<1>. HIDE DEF d
<1>9. CASE v \in Six
  <2>1. Len(p) <= Len(d)
    BY <1>5, <1>6
  <2>2. Readable(d, p)
    <3>1. 1 \in 0..2
      OBVIOUS
    <3>. QED
      BY <1>1, <1>3, <1>4, <1>7, <1>9, <2>1, <3>1, BeginsWith DEF d
  <2>. QED
    BY <2>2 DEF d, c, t
<1>10. CASE v = -1
  <2>1. ByteAt(p, m, 1) = 125 /\ ByteAt(p, m, 2) = 0
    BY DEF ByteAt
  <2>2. JoinAt(c, m) = Join(S1(125), S2(125, 0), -1, 0)
    <3>1. 4 * m + 2 \in Nat /\ 4 * m + 1 <= 4 * m + 2 /\ 4 * m + 2 <= 4 * m + 2
      OBVIOUS
    <3>2. /\ Sextet(c, 4 * m + 1) = S1(ByteAt(p, m, 1))
          /\ Sextet(c, 4 * m + 2) = S2(ByteAt(p, m, 1), ByteAt(p, m, 2))
      BY <1>3, <1>4, <3>1, GroupAgrees, Zenon
    <3>. QED
      BY <1>7, <1>10, <2>1, <3>2 DEF JoinAt
  <2>3. U1(JoinAt(c, m)) = 124 /\ U2(JoinAt(c, m)) = 255
    <3>1. 0 \in Octet
      BY DEF Octet
    <3>. QED
      BY <2>2, <3>1, SpoiltBytes
  <2>4. /\ d[3 * m + 1] = 124
        /\ 3 * m + 2 <= Len(d) => d[3 * m + 2] = 255
    <3>1. /\ 3 * m + 1 <= Len(d) => d[3 * m + 1] = U1(JoinAt(c, m))
          /\ 3 * m + 2 <= Len(d) => d[3 * m + 2] = U2(JoinAt(c, m))
      BY <1>3, DecodedIs, ZenonT(40) DEF d
    <3>2. 3 * m + 1 <= Len(d)
      BY <1>5, <1>6
    <3>. QED
      BY <2>3, <3>1, <3>2
  <2>5. \A j \in 1..(3 * m) : j <= Len(d) => d[j] = p[j]
    <3>. DEFINE n == 4 * m + 2
    <3>1. n \in Nat /\ 4 * m <= n /\ 3 * m <= Len(p) /\ Spells(c, n, p)
      BY <1>4
    <3>2. c \in Seq(Octet) /\ Len(c) = 4 * m + 4
      BY <1>3
    <3>. HIDE DEF n
    <3>. QED
      BY <3>1, <3>2, WholeGroups DEF d
  <2>6. Len(d) \in (3 * m + 1)..(3 * m + 2)
    BY <1>5, <1>6
  <2>7. Spoilt(d, p)
    BY <2>4, <2>5, <2>6 DEF Spoilt
  <2>. QED
    BY <2>7 DEF d, c, t
<1>. QED
  BY <1>8, <1>9, <1>10

LEMMA LongReadsTwo ==
  ASSUME NEW p \in Seq(Octet), NEW m \in Nat, Len(p) = 3 * m + 2, p[Len(p)] = 125,
         NEW e, Writes(e, p, m, 2, FALSE), NEW ch \in Octet
  PROVE  LET d == Base64_decode(PaddedToFour(Append(e, ch)))
         IN  Readable(d, p) \/ Spoilt(d, p)
<1>. DEFINE t == Append(e, ch)
            c == PaddedToFour(t)
            d == Base64_decode(c)
            v == Sextet(c, 4 * m + 4)
            x == ByteAt(p, m, 1)
<1>1. /\ e \in Seq(Octet) /\ Len(e) = 4 * m + 3 /\ Spells(e, 4 * m + 3, p)
      /\ Letters(m, 2) = 4 * m + 3
  BY DEF Writes, Letters
<1>2. t \in Seq(Octet) /\ Len(t) = 4 * m + 4 /\ \A k \in 1..(4 * m + 3) : t[k] = e[k]
  BY <1>1
<1>. HIDE DEF t
<1>3. /\ c \in Seq(Octet) /\ Len(c) = 4 * m + 4
      /\ \A k \in 1..(4 * m + 4) : c[k] = t[k]
  <2>1. 4 \in 1..4
    OBVIOUS
  <2>. QED
    BY <1>2, <2>1, PaddedIs
<1>. HIDE DEF c
<1>4. Spells(c, 4 * m + 3, p)
  <2>1. 4 * m + 3 \in Nat /\ 4 * m + 3 <= 4 * m + 3
    OBVIOUS
  <2>2. 4 * m + 3 <= Len(c) /\ \A k \in 1..(4 * m + 3) : c[k] = e[k]
    BY <1>2, <1>3
  <2>. QED
    BY <1>1, <2>1, <2>2, SpellsOn
<1>5. Padding(c) \in 0..1
  <2>1. Padding(c) = (IF c[4 * m + 4] = Pad THEN 1 ELSE 0) + (IF c[4 * m + 3] = Pad THEN 1 ELSE 0)
    BY <1>3, PaddingIs, Zenon
  <2>2. c[4 * m + 3] # Pad
    BY <1>4 DEF Spells
  <2>. QED
    BY <2>1, <2>2
<1>6. d \in Seq(Octet) /\ Len(d) = 3 * m + 3 - Padding(c)
  BY <1>3, DecodedIs, Zenon
<1>7. 4 * m + 3 \in Nat /\ 4 * m + 1 <= 4 * m + 3 /\ 4 * m + 2 <= 4 * m + 3 /\ 4 * m + 3 <= 4 * m + 3
  OBVIOUS
<1>8. Sextet(c, 4 * m + 3) \in Six
  BY <1>3, <1>4, <1>7, ThirdSextet
<1>9. v = -1 \/ v \in Six
  <2>1. v \in -1..63
    BY SextetType
  <2>. HIDE DEF v
  <2>. QED
    BY <2>1 DEF Six
<1>. HIDE DEF d
<1>10. CASE v \in Six
  <2>1. Len(p) <= Len(d)
    BY <1>5, <1>6
  <2>2. Readable(d, p)
    <3>1. 2 \in 0..2
      OBVIOUS
    <3>. QED
      BY <1>1, <1>3, <1>4, <1>8, <1>10, <2>1, <3>1, BeginsWith DEF d
  <2>. QED
    BY <2>2 DEF d, c, t
<1>11. CASE v = -1
  <2>1. ByteAt(p, m, 2) = 125 /\ ByteAt(p, m, 3) = 0
    BY DEF ByteAt
  <2>2. x = p[3 * m + 1] /\ x \in Octet
    <3>1. x \in Octet
      BY BytesAt, Zenon
    <3>2. x = p[3 * m + 1]
      BY DEF ByteAt
    <3>. QED
      BY <3>1, <3>2
  <2>. HIDE DEF x
  <2>3. JoinAt(c, m) = Join(S1(x), S2(x, 125), S3(125, 0), -1)
    <3>1. /\ Sextet(c, 4 * m + 1) = S1(x)
          /\ Sextet(c, 4 * m + 2) = S2(x, ByteAt(p, m, 2))
          /\ Sextet(c, 4 * m + 3) = S3(ByteAt(p, m, 2), ByteAt(p, m, 3))
      BY <1>3, <1>4, <1>7, GroupAgrees, Zenon DEF x
    <3>. QED
      BY <1>11, <2>1, <3>1 DEF JoinAt
  <2>4. U1(JoinAt(c, m)) = x /\ U2(JoinAt(c, m)) = 124 /\ U3(JoinAt(c, m)) = 255
    BY <2>2, <2>3, SpoiltBytes
  <2>5. /\ d[3 * m + 1] = x /\ d[3 * m + 2] = 124
        /\ 3 * m + 3 <= Len(d) => d[3 * m + 3] = 255
    <3>1. /\ 3 * m + 1 <= Len(d) => d[3 * m + 1] = U1(JoinAt(c, m))
          /\ 3 * m + 2 <= Len(d) => d[3 * m + 2] = U2(JoinAt(c, m))
          /\ 3 * m + 3 <= Len(d) => d[3 * m + 3] = U3(JoinAt(c, m))
      BY <1>3, DecodedIs, ZenonT(40) DEF d
    <3>2. 3 * m + 1 <= Len(d) /\ 3 * m + 2 <= Len(d)
      BY <1>5, <1>6
    <3>. QED
      BY <2>4, <3>1, <3>2
  <2>6. \A j \in 1..(3 * m) : j <= Len(d) => d[j] = p[j]
    <3>. DEFINE n == 4 * m + 3
    <3>1. n \in Nat /\ 4 * m <= n /\ 3 * m <= Len(p) /\ Spells(c, n, p)
      BY <1>4
    <3>2. c \in Seq(Octet) /\ Len(c) = 4 * m + 4
      BY <1>3
    <3>. HIDE DEF n
    <3>. QED
      BY <3>1, <3>2, WholeGroups DEF d
  <2>7. Len(d) \in (3 * m + 2)..(3 * m + 3)
    BY <1>5, <1>6
  <2>8. Spoilt(d, p)
    BY <2>2, <2>5, <2>6, <2>7 DEF Spoilt
  <2>. QED
    BY <2>8 DEF d, c, t
<1>. QED
  BY <1>9, <1>10, <1>11

\* With a character less the last byte is gone, or lacks its bits.
LEMMA ShortReadsWhole ==
  ASSUME NEW p \in Seq(Octet), NEW l \in Nat, Len(p) = 3 * l + 3,
         NEW padded \in BOOLEAN, NEW e, Writes(e, p, l + 1, 0, padded)
  PROVE  Spoilt(Base64_decode(PaddedToFour(Front(e))), p)
<1>. DEFINE t == Front(e)
            c == PaddedToFour(t)
            d == Base64_decode(c)
            n == 4 * l + 3
<1>1. e \in Seq(Octet) /\ Len(e) = 4 * l + 4 /\ Spells(e, 4 * l + 4, p)
  BY DEF Writes, Letters
<1>2. t \in Seq(Octet) /\ Len(t) = 4 * l + 3 /\ \A k \in 1..(4 * l + 3) : t[k] = e[k]
  <2>1. e # <<>>
    BY <1>1
  <2>2. /\ t \in Seq(Octet) /\ Len(t) = Len(e) - 1
        /\ \A k \in 1..(Len(e) - 1) : t[k] = e[k]
    BY <1>1, <2>1, FrontIs, Zenon
  <2>. HIDE DEF t
  <2>. QED
    BY <1>1, <2>2
<1>. HIDE DEF t
<1>3. /\ c \in Seq(Octet) /\ Len(c) = 4 * l + 4
      /\ \A k \in 1..(4 * l + 3) : c[k] = t[k]
      /\ c[4 * l + 4] = Pad
  <2>1. 3 \in 1..4 /\ 4 * l + 4 \in (4 * l + 3 + 1)..(4 * l + 4)
    OBVIOUS
  <2>. QED
    BY <1>2, <2>1, PaddedIs
<1>. HIDE DEF c
<1>4. Spells(c, n, p) /\ n \in Nat /\ 4 * l <= n /\ 4 * l + 2 <= n /\ 4 * l + 3 <= n
  <2>1. 4 * l + 4 \in Nat /\ n \in Nat /\ n <= 4 * l + 4
    OBVIOUS
  <2>2. n <= Len(c) /\ \A k \in 1..n : c[k] = e[k]
    BY <1>2, <1>3
  <2>3. Spells(c, n, p)
    <3>. HIDE DEF n
    <3>. QED
      BY <1>1, <2>1, <2>2, SpellsOn
  <2>. QED
    BY <2>3
<1>5. c[4 * l + 3] # Pad
  BY <1>4 DEF Spells
<1>6. d \in Seq(Octet) /\ Len(d) = 3 * l + 2
  <2>1. d \in Seq(Octet) /\ Len(d) = 3 * l + 3 - Padding(c)
    BY <1>3, DecodedIs, Zenon
  <2>2. Padding(c) = (IF c[4 * l + 4] = Pad THEN 1 ELSE 0) + (IF c[4 * l + 3] = Pad THEN 1 ELSE 0)
    BY <1>3, PaddingIs, Zenon
  <2>. QED
    BY <1>3, <1>5, <2>1, <2>2
<1>. HIDE DEF d, n
<1>7. \A j \in 1..(3 * l) : j <= Len(d) => d[j] = p[j]
  <2>1. c \in Seq(Octet) /\ Len(c) = 4 * l + 4 /\ 3 * l <= Len(p)
    BY <1>3
  <2>. QED
    BY <1>4, <2>1, WholeGroups DEF d
<1>8. d[3 * l + 1] = p[3 * l + 1] /\ d[3 * l + 2] = p[3 * l + 2]
  <2>1. Sextet(c, 4 * l + 3) \in Six
    BY <1>3, <1>4, ThirdSextet, Zenon
  <2>2. Sextet(c, 4 * l + 4) \in Six
    <3>1. 4 * l + 4 \in 1..Len(c)
      BY <1>3
    <3>. QED
      BY <1>3, <3>1, PadIsZero
  <2>3. /\ 3 * l + 1 <= Len(d) => d[3 * l + 1] = ByteAt(p, l, 1)
        /\ 3 * l + 2 <= Len(d) /\ 4 * l + 3 <= n => d[3 * l + 2] = ByteAt(p, l, 2)
    BY <1>3, <1>4, <2>1, <2>2, BytesAgree, Zenon DEF d
  <2>4. ByteAt(p, l, 1) = p[3 * l + 1] /\ ByteAt(p, l, 2) = p[3 * l + 2]
    BY DEF ByteAt
  <2>5. 3 * l + 1 <= Len(d) /\ 3 * l + 2 <= Len(d)
    BY <1>6
  <2>. QED
    BY <1>4, <2>3, <2>4, <2>5, Zenon
<1>9. Spoilt(d, p)
  BY <1>6, <1>7, <1>8 DEF Spoilt
<1>. QED
  BY <1>9 DEF d, c, t

LEMMA ShortReadsOne ==
  ASSUME NEW p \in Seq(Octet), NEW m \in Nat, Len(p) = 3 * m + 1, p[Len(p)] = 125,
         NEW e, Writes(e, p, m, 1, FALSE)
  PROVE  Spoilt(Base64_decode(PaddedToFour(Front(e))), p)
<1>. DEFINE t == Front(e)
            c == PaddedToFour(t)
            d == Base64_decode(c)
            n == 4 * m + 1
<1>1. e \in Seq(Octet) /\ Len(e) = 4 * m + 2 /\ Spells(e, 4 * m + 2, p)
  BY DEF Writes, Letters
<1>2. t \in Seq(Octet) /\ Len(t) = 4 * m + 1 /\ \A k \in 1..(4 * m + 1) : t[k] = e[k]
  <2>1. e # <<>>
    BY <1>1
  <2>2. /\ t \in Seq(Octet) /\ Len(t) = Len(e) - 1
        /\ \A k \in 1..(Len(e) - 1) : t[k] = e[k]
    BY <1>1, <2>1, FrontIs, SMTT(30)
  <2>3. Len(e) - 1 = 4 * m + 1
    BY <1>1
  <2>. HIDE DEF t
  <2>. QED
    BY <2>2, <2>3, Zenon
<1>. HIDE DEF t
<1>3. /\ c \in Seq(Octet) /\ Len(c) = 4 * m + 4
      /\ \A k \in 1..(4 * m + 1) : c[k] = t[k]
      /\ c[4 * m + 2] = Pad /\ c[4 * m + 3] = Pad /\ c[4 * m + 4] = Pad
  <2>1. 1 \in 1..4
    OBVIOUS
  <2>2. /\ c \in Seq(Octet) /\ Len(c) = 4 * m + 4
        /\ \A k \in 1..(4 * m + 1) : c[k] = t[k]
        /\ \A k \in (4 * m + 1 + 1)..(4 * m + 4) : c[k] = Pad
    BY <1>2, <2>1, PaddedIs
  <2>. HIDE DEF c
  <2>. QED
    BY <2>2
<1>. HIDE DEF c
<1>4. Spells(c, n, p) /\ n \in Nat /\ 4 * m <= n /\ 4 * m + 1 <= n
  <2>1. 4 * m + 2 \in Nat /\ n \in Nat /\ n <= 4 * m + 2
    OBVIOUS
  <2>2. n <= Len(c) /\ \A k \in 1..n : c[k] = e[k]
    BY <1>2, <1>3
  <2>3. Spells(c, n, p)
    <3>. HIDE DEF n
    <3>. QED
      BY <1>1, <2>1, <2>2, SpellsOn
  <2>. QED
    BY <2>3
<1>5. d \in Seq(Octet) /\ Len(d) = 3 * m + 1
  <2>1. d \in Seq(Octet) /\ Len(d) = 3 * m + 3 - Padding(c)
    BY <1>3, DecodedIs, Zenon
  <2>2. Padding(c) = (IF c[4 * m + 4] = Pad THEN 1 ELSE 0) + (IF c[4 * m + 3] = Pad THEN 1 ELSE 0)
    BY <1>3, PaddingIs, ZenonT(40)
  <2>. QED
    BY <1>3, <2>1, <2>2
<1>. HIDE DEF d, n
<1>6. \A j \in 1..(3 * m) : j <= Len(d) => d[j] = p[j]
  <2>1. c \in Seq(Octet) /\ Len(c) = 4 * m + 4 /\ 3 * m <= Len(p)
    BY <1>3
  <2>. QED
    BY <1>4, <2>1, WholeGroups DEF d
<1>7. d[3 * m + 1] = 124
  <2>1. Sextet(c, 4 * m + 1) = S1(ByteAt(p, m, 1))
    BY <1>3, <1>4, GroupAgrees, Zenon
  <2>2. ByteAt(p, m, 1) = 125
    BY DEF ByteAt
  <2>3. 4 * m + 2 \in 1..Len(c) /\ 4 * m + 3 \in 1..Len(c) /\ 4 * m + 4 \in 1..Len(c)
    BY <1>3
  <2>4. Sextet(c, 4 * m + 2) = 0 /\ Sextet(c, 4 * m + 3) = 0 /\ Sextet(c, 4 * m + 4) = 0
    BY <1>3, <2>3, PadIsZero, SMTT(30)
  <2>5. JoinAt(c, m) = Join(S1(125), 0, 0, 0)
    BY <2>1, <2>2, <2>4 DEF JoinAt
  <2>6. U1(JoinAt(c, m)) = 124
    <3>1. 0 \in Octet
      BY DEF Octet
    <3>. QED
      BY <2>5, <3>1, SpoiltBytes
  <2>7. 3 * m + 1 <= Len(d) => d[3 * m + 1] = U1(JoinAt(c, m))
    BY <1>3, DecodedIs, ZenonT(40) DEF d
  <2>8. 3 * m + 1 <= Len(d)
    BY <1>5
  <2>. QED
    BY <2>6, <2>7, <2>8
<1>8. Spoilt(d, p)
  BY <1>5, <1>6, <1>7 DEF Spoilt
<1>. QED
  BY <1>8 DEF d, c, t

LEMMA ShortReadsTwo ==
  ASSUME NEW p \in Seq(Octet), NEW m \in Nat, Len(p) = 3 * m + 2,
         NEW e, Writes(e, p, m, 2, FALSE)
  PROVE  Spoilt(Base64_decode(PaddedToFour(Front(e))), p)
<1>. DEFINE t == Front(e)
            c == PaddedToFour(t)
            d == Base64_decode(c)
            n == 4 * m + 2
<1>1. e \in Seq(Octet) /\ Len(e) = 4 * m + 3 /\ Spells(e, 4 * m + 3, p)
  BY DEF Writes, Letters
<1>2. t \in Seq(Octet) /\ Len(t) = 4 * m + 2 /\ \A k \in 1..(4 * m + 2) : t[k] = e[k]
  <2>1. e # <<>>
    BY <1>1
  <2>2. /\ t \in Seq(Octet) /\ Len(t) = Len(e) - 1
        /\ \A k \in 1..(Len(e) - 1) : t[k] = e[k]
    BY <1>1, <2>1, FrontIs, Zenon
  <2>. HIDE DEF t
  <2>. QED
    BY <1>1, <2>2, SMTT(30)
<1>. HIDE DEF t
<1>3. /\ c \in Seq(Octet) /\ Len(c) = 4 * m + 4
      /\ \A k \in 1..(4 * m + 2) : c[k] = t[k]
      /\ c[4 * m + 3] = Pad /\ c[4 * m + 4] = Pad
  <2>1. 2 \in 1..4
    OBVIOUS
  <2>2. /\ c \in Seq(Octet) /\ Len(c) = 4 * m + 4
        /\ \A k \in 1..(4 * m + 2) : c[k] = t[k]
        /\ \A k \in (4 * m + 2 + 1)..(4 * m + 4) : c[k] = Pad
    BY <1>2, <2>1, PaddedIs
  <2>. HIDE DEF c
  <2>. QED
    BY <2>2
<1>. HIDE DEF c
<1>4. Spells(c, n, p) /\ n \in Nat /\ 4 * m <= n /\ 4 * m + 2 <= n
  <2>1. 4 * m + 3 \in Nat /\ n \in Nat /\ n <= 4 * m + 3
    OBVIOUS
  <2>2. n <= Len(c) /\ \A k \in 1..n : c[k] = e[k]
    BY <1>2, <1>3
  <2>3. Spells(c, n, p)
    <3>. HIDE DEF n
    <3>. QED
      BY <1>1, <2>1, <2>2, SpellsOn
  <2>. QED
    BY <2>3
<1>5. d \in Seq(Octet) /\ Len(d) = 3 * m + 1
  <2>1. d \in Seq(Octet) /\ Len(d) = 3 * m + 3 - Padding(c)
    BY <1>3, DecodedIs, Zenon
  <2>2. Padding(c) = (IF c[4 * m + 4] = Pad THEN 1 ELSE 0) + (IF c[4 * m + 3] = Pad THEN 1 ELSE 0)
    BY <1>3, PaddingIs, Zenon
  <2>. QED
    BY <1>3, <2>1, <2>2
<1>. HIDE DEF d, n
<1>6. \A j \in 1..(3 * m) : j <= Len(d) => d[j] = p[j]
  <2>1. c \in Seq(Octet) /\ Len(c) = 4 * m + 4 /\ 3 * m <= Len(p)
    BY <1>3
  <2>. QED
    BY <1>4, <2>1, WholeGroups DEF d
<1>7. d[3 * m + 1] = p[3 * m + 1]
  <2>1. 4 * m + 3 \in 1..Len(c) /\ 4 * m + 4 \in 1..Len(c)
    BY <1>3
  <2>2. Sextet(c, 4 * m + 3) \in Six /\ Sextet(c, 4 * m + 4) \in Six
    BY <1>3, <2>1, PadIsZero
  <2>3. 3 * m + 1 <= Len(d) => d[3 * m + 1] = ByteAt(p, m, 1)
    BY <1>3, <1>4, <2>2, BytesAgree, Zenon DEF d
  <2>. QED
    BY <1>5, <2>3 DEF ByteAt
<1>8. Spoilt(d, p)
  BY <1>5, <1>6, <1>7 DEF Spoilt
<1>. QED
  BY <1>8 DEF d, c, t

-----------------------------------------------------------------------------
(* What time_left_seconds makes of the text *)

LEMMA PayloadsAre ==
  ASSUME NEW p \in Payloads
  PROVE  /\ p \in Seq(Octet) /\ p[Len(p)] = 125
         /\ Len(p) \in Nat /\ Len(p) >= 1
<1>1. p \in Seq(Octet) /\ p[Len(p)] = 125 /\ p # <<>>
  BY PayloadsAssumption DEF Octet
<1>2. Len(p) \in Nat /\ Len(p) >= 1
  BY <1>1, EmptySeq
<1>. QED
  BY <1>1, <1>2

LEMMA NoneBeginsAnother ==
  ASSUME NEW p \in Payloads, NEW d \in Payloads, IsPrefix(d, p)
  PROVE  d = p
BY PayloadsAssumption

LEMMA PrefixIs ==
  ASSUME NEW S, NEW s \in Seq(S), NEW t \in Seq(S)
  PROVE  IsPrefix(s, t) <=> Len(s) <= Len(t) /\ \A j \in 1..Len(s) : s[j] = t[j]
<1>. DEFINE a == SubSeq(s, 1, Len(s))
            b == SubSeq(t, 1, Len(s))
<1>. SUFFICES ASSUME Len(s) <= Len(t)
              PROVE  (a = b) <=> \A j \in 1..Len(s) : s[j] = t[j]
  BY DEF IsPrefix
<1>1. /\ Len(s) \in Int /\ 1 \in Int
      /\ \A j \in 1..Len(s) : s[j] \in S
      /\ \A j \in 1..Len(s) : t[j] \in S
  OBVIOUS
<1>2. /\ a \in Seq(S) /\ Len(a) = Len(s)
      /\ \A j \in 1..Len(s) : a[j] = s[j]
  <2>1. /\ a \in Seq(S) /\ Len(a) = IF 1 <= Len(s) THEN Len(s) - 1 + 1 ELSE 0
        /\ \A j \in 1..(Len(s) - 1 + 1) : a[j] = s[1 + j - 1]
    BY <1>1, SubSeqProperties
  <2>. HIDE DEF a
  <2>. QED
    BY <1>1, <2>1
<1>3. /\ b \in Seq(S) /\ Len(b) = Len(s)
      /\ \A j \in 1..Len(s) : b[j] = t[j]
  <2>1. /\ b \in Seq(S) /\ Len(b) = IF 1 <= Len(s) THEN Len(s) - 1 + 1 ELSE 0
        /\ \A j \in 1..(Len(s) - 1 + 1) : b[j] = t[1 + j - 1]
    BY <1>1, SubSeqProperties
  <2>. HIDE DEF b
  <2>. QED
    BY <1>1, <2>1
<1>. HIDE DEF a, b
<1>4. (\A j \in 1..Len(s) : s[j] = t[j]) => a = b
  BY <1>2, <1>3, EqualSequences
<1>. QED
  BY <1>2, <1>3, <1>4

ReadFrom(bytes) == {d \in Payloads : Parses(bytes, d)}

\* No payload begins another, so that at most one is read.
LEMMA ReadableReads ==
  ASSUME NEW p \in Payloads, NEW bytes \in Seq(Octet), Readable(bytes, p)
  PROVE  ReadFrom(bytes) \subseteq {p}
<1>. SUFFICES ASSUME NEW d \in Payloads, Parses(bytes, d)
              PROVE  d = p
  BY DEF ReadFrom
<1>1. d \in Seq(Octet) /\ p \in Seq(Octet) /\ Len(d) \in Nat /\ Len(p) \in Nat
  BY PayloadsAre
<1>2. Len(d) <= Len(bytes) /\ \A j \in 1..Len(d) : d[j] = bytes[j]
  <2>1. IsPrefix(d, bytes)
    BY DEF Parses
  <2>. QED
    BY <1>1, <2>1, PrefixIs
<1>3. Len(p) <= Len(bytes) /\ \A j \in 1..Len(p) : p[j] = bytes[j]
  BY DEF Readable
<1>4. CASE Len(d) <= Len(p)
  <2>1. \A j \in 1..Len(d) : d[j] = p[j]
    BY <1>1, <1>2, <1>3, <1>4
  <2>2. IsPrefix(d, p)
    BY <1>1, <1>4, <2>1, PrefixIs, Zenon
  <2>. QED
    BY <2>2, NoneBeginsAnother
<1>5. CASE Len(p) <= Len(d)
  <2>1. \A j \in 1..Len(p) : p[j] = d[j]
    BY <1>1, <1>2, <1>3, <1>5
  <2>2. IsPrefix(p, d)
    BY <1>1, <1>5, <2>1, PrefixIs, Zenon
  <2>. QED
    BY <2>2, NoneBeginsAnother
<1>. QED
  BY <1>1, <1>4, <1>5

\* A shorter one would begin the payload, and a longer one ends with a brace.
LEMMA SpoiltReads ==
  ASSUME NEW p \in Payloads, NEW bytes \in Seq(Octet), Spoilt(bytes, p)
  PROVE  ReadFrom(bytes) = {}
<1>. SUFFICES ASSUME NEW d \in Payloads, Parses(bytes, d)
              PROVE  FALSE
  BY DEF ReadFrom
<1>1. /\ d \in Seq(Octet) /\ p \in Seq(Octet) /\ Len(d) \in Nat /\ Len(p) \in Nat
      /\ Len(d) >= 1 /\ d[Len(d)] = 125
  BY PayloadsAre
<1>2. Len(d) <= Len(bytes) /\ \A j \in 1..Len(d) : d[j] = bytes[j]
  <2>1. IsPrefix(d, bytes)
    BY DEF Parses
  <2>. QED
    BY <1>1, <2>1, PrefixIs
<1>3. Len(bytes) \in Nat
  OBVIOUS
<1>4. CASE Len(d) < Len(p)
  <2>1. \A j \in 1..Len(d) : d[j] = p[j]
    BY <1>1, <1>2, <1>3, <1>4 DEF Spoilt
  <2>2. IsPrefix(d, p)
    <3>1. Len(d) <= Len(p)
      BY <1>1, <1>4
    <3>. QED
      BY <1>1, <2>1, <3>1, PrefixIs, Zenon
  <2>3. d = p
    BY <2>2, NoneBeginsAnother
  <2>. QED
    BY <1>1, <1>4, <2>3
<1>5. CASE Len(p) <= Len(d)
  BY <1>1, <1>2, <1>3, <1>5 DEF Spoilt
<1>. QED
  BY <1>1, <1>4, <1>5

LEMMA WholeReads ==
  ASSUME NEW p \in Payloads
  PROVE  ReadFrom(p) = {p}
<1>1. p \in Seq(Octet) /\ Len(p) \in Nat
  BY PayloadsAre
<1>2. Parses(p, p)
  <2>1. IsPrefix(p, p)
    BY <1>1, PrefixIs
  <2>2. Len(p) \in Len(p)..Len(p) /\ \A i \in (Len(p) + 1)..Len(p) : p[i] \in Blanks
    BY <1>1
  <2>. QED
    BY <2>1, <2>2 DEF Parses
<1>3. Readable(p, p)
  BY <1>1 DEF Readable
<1>4. ReadFrom(p) \subseteq {p}
  BY <1>1, <1>3, ReadableReads
<1>. QED
  BY <1>2, <1>4 DEF ReadFrom

LEMMA WrittenIs ==
  ASSUME NEW p \in Payloads, NEW url \in BOOLEAN, NEW padded \in BOOLEAN
  PROVE  \E m \in Nat, r \in 0..2 :
           Len(p) = 3 * m + r /\ Writes(Encoded(p, url, padded), p, m, r, padded)
<1>. DEFINE m == Len(p) \div 3
            r == Len(p) % 3
            e == Encoded(p, url, padded)
<1>1. p \in Seq(Octet) /\ Len(p) \in Nat
  BY PayloadsAre
<1>2. m \in Nat /\ r \in 0..2 /\ Len(p) = 3 * m + r
  BY <1>1
<1>. HIDE DEF m, r
<1>3. /\ e \in Seq(Octet)
      /\ Len(e) = IF padded /\ r # 0 THEN 4 * m + 4 ELSE Letters(m, r)
      /\ Spells(e, Letters(m, r), p)
      /\ \A k \in (Letters(m, r) + 1)..Len(e) : e[k] = Pad
  BY <1>1, <1>2, EncodedIs, ZenonT(40)
<1>4. Writes(e, p, m, r, padded)
  <2>. HIDE DEF e
  <2>. QED
    BY <1>3 DEF Writes
<1>. QED
  BY <1>2, <1>4

\* What an issuer wrote, padded or not, is read as the payload.
LEMMA WrittenReads ==
  ASSUME NEW p \in Payloads, NEW padded \in BOOLEAN, NEW m \in Nat, NEW r \in 0..2,
         Len(p) = 3 * m + r, NEW e, Writes(e, p, m, r, padded)
  PROVE  Base64_decode(PaddedToFour(e)) = p
<1>. DEFINE l == IF r = 0 THEN m - 1 ELSE m
<1>1. p \in Seq(Octet) /\ Len(p) >= 1
  BY PayloadsAre
<1>2. l \in Nat /\ m = IF r = 0 THEN l + 1 ELSE l
  BY <1>1
<1>3. /\ e \in Seq(Octet) /\ Spells(e, Letters(m, r), p)
      /\ \A k \in (Letters(m, r) + 1)..Len(e) : e[k] = Pad
      /\ Len(e) <= 4 * l + 4
  BY <1>2 DEF Writes, Letters
<1>. HIDE DEF l
<1>. QED
  BY <1>1, <1>2, <1>3, TextDecodes

LEMMA LongReads ==
  ASSUME NEW p \in Payloads, NEW padded \in BOOLEAN, NEW m \in Nat, NEW r \in 0..2,
         Len(p) = 3 * m + r, NEW e, Writes(e, p, m, r, padded), NEW ch \in Octet
  PROVE  LET d == Base64_decode(PaddedToFour(Append(e, ch)))
         IN  Readable(d, p) \/ Spoilt(d, p)
<1>1. p \in Seq(Octet) /\ p[Len(p)] = 125
  BY PayloadsAre
<1>2. CASE padded \/ r = 0
  BY <1>1, <1>2, LongReadsWhole
<1>3. CASE padded = FALSE /\ r = 1
  BY <1>1, <1>3, LongReadsOne
<1>4. CASE padded = FALSE /\ r = 2
  BY <1>1, <1>4, LongReadsTwo
<1>5. r = 0 \/ r = 1 \/ r = 2
  OBVIOUS
<1>. QED
  BY <1>2, <1>3, <1>4, <1>5, Zenon

LEMMA ShortReads ==
  ASSUME NEW p \in Payloads, NEW padded \in BOOLEAN, NEW m \in Nat, NEW r \in 0..2,
         Len(p) = 3 * m + r, NEW e, Writes(e, p, m, r, padded)
  PROVE  LET d == Base64_decode(PaddedToFour(Front(e)))
         IN  Readable(d, p) \/ Spoilt(d, p)
<1>1. p \in Seq(Octet) /\ p[Len(p)] = 125 /\ Len(p) \in Nat /\ Len(p) >= 1
  BY PayloadsAre
<1>2. CASE r = 0
  <2>. DEFINE l == m - 1
  <2>1. l \in Nat /\ m = l + 1 /\ Len(p) = 3 * l + 3
    BY <1>1, <1>2
  <2>. HIDE DEF l
  <2>2. Writes(e, p, l + 1, 0, padded)
    BY <1>2, <2>1
  <2>. QED
    BY <1>1, <2>1, <2>2, ShortReadsWhole
<1>3. CASE padded = FALSE /\ r = 1
  BY <1>1, <1>3, ShortReadsOne
<1>4. CASE padded = FALSE /\ r = 2
  BY <1>1, <1>4, ShortReadsTwo
<1>5. CASE padded = TRUE /\ r # 0
  <2>. DEFINE t == Front(e)
              n == Letters(m, r)
  <2>1. /\ e \in Seq(Octet) /\ Len(e) = 4 * m + 4 /\ Spells(e, n, p)
        /\ \A k \in (n + 1)..Len(e) : e[k] = Pad
    BY <1>5 DEF Writes
  <2>2. n \in Nat /\ n <= 4 * m + 3
    BY <1>5 DEF Letters
  <2>3. t \in Seq(Octet) /\ Len(t) = 4 * m + 3 /\ \A k \in 1..(4 * m + 3) : t[k] = e[k]
    <3>1. e # <<>>
      BY <2>1
    <3>2. /\ t \in Seq(Octet) /\ Len(t) = Len(e) - 1
          /\ \A k \in 1..(Len(e) - 1) : t[k] = e[k]
      BY <2>1, <3>1, FrontIs
    <3>. HIDE DEF t, n
    <3>. QED
      BY <2>1, <3>2
  <2>. HIDE DEF t, n
  <2>4. Spells(t, n, p)
    <3>1. n <= n /\ n <= Len(t) /\ \A k \in 1..n : t[k] = e[k]
      BY <2>2, <2>3
    <3>. QED
      BY <2>1, <2>2, <3>1, SpellsOn
  <2>5. \A k \in (n + 1)..Len(t) : t[k] = Pad
    BY <2>1, <2>2, <2>3
  <2>6. Len(t) <= 4 * m + 4 /\ m = IF r = 0 THEN m + 1 ELSE m
    BY <1>5, <2>3
  <2>7. Base64_decode(PaddedToFour(t)) = p
    BY <1>1, <2>3, <2>4, <2>5, <2>6, TextDecodes DEF n
  <2>8. Readable(p, p)
    BY <1>1 DEF Readable
  <2>. QED
    BY <2>7, <2>8 DEF t
<1>6. r = 0 \/ r = 1 \/ r = 2
  OBVIOUS
<1>7. padded = TRUE \/ padded = FALSE
  OBVIOUS
<1>. QED
  BY <1>2, <1>3, <1>4, <1>5, <1>6, <1>7, Zenon

\* The bytes of any text are bytes.
LEMMA BytesAreOctets ==
  ASSUME NEW t \in Seq(Octet), t # <<>>
  PROVE  Base64_decode(PaddedToFour(t)) \in Seq(Octet)
<1>. DEFINE l == (Len(t) - 1) \div 4
            s == Len(t) - 4 * l
<1>1. Len(t) \in Nat /\ Len(t) >= 1
  BY EmptySeq
<1>2. l \in Nat /\ s \in 1..4 /\ Len(t) = 4 * l + s
  BY <1>1
<1>. HIDE DEF l, s
<1>3. PaddedToFour(t) \in Seq(Octet) /\ Len(PaddedToFour(t)) = 4 * l + 4
  BY <1>2, PaddedIs
<1>. QED
  BY <1>2, <1>3, DecodedIs, Zenon

-----------------------------------------------------------------------------
(* The expiry of a token *)

LEMMA SomethingRead ==
  ASSUME NEW p \in Payloads, NEW token, Len(token) = 3,
         NEW bytes, bytes = Base64_decode(PaddedToFour(token[2]))
  PROVE  /\ ReadFrom(bytes) = {p} => time_left_seconds(token) = LifeLeft(p)
         /\ ReadFrom(bytes) = {} => time_left_seconds(token) = 0
         /\ ReadFrom(bytes) \subseteq {p} => time_left_seconds(token) \in {0, LifeLeft(p)}
<1>1. time_left_seconds(token) = IF ReadFrom(bytes) = {} THEN 0
                                 ELSE LifeLeft(CHOOSE d \in ReadFrom(bytes) : TRUE)
  BY DEF time_left_seconds, ReadFrom
<1>2. (CHOOSE d \in {p} : TRUE) = p
  OBVIOUS
<1>3. ReadFrom(bytes) \subseteq {p} => ReadFrom(bytes) = {} \/ ReadFrom(bytes) = {p}
  OBVIOUS
<1>4. {p} # {}
  OBVIOUS
<1>. QED
  BY <1>1, <1>2, <1>3, <1>4

Token(e) == <<<<72>>, e, <<83>>>>

LEMMA WrittenExpiry ==
  ASSUME NEW p \in Payloads, NEW url \in BOOLEAN, NEW padded \in BOOLEAN
  PROVE  time_left_seconds(Token(Encoded(p, url, padded))) = LifeLeft(p)
<1>. DEFINE e == Encoded(p, url, padded)
<1>1. Base64_decode(PaddedToFour(e)) = p
  BY WrittenIs, WrittenReads
<1>. HIDE DEF e
<1>2. Len(Token(e)) = 3 /\ Token(e)[2] = e
  BY DEF Token
<1>. QED
  BY <1>1, <1>2, WholeReads, SomethingRead DEF e

LEMMA DamagedExpiry ==
  ASSUME NEW p \in Payloads, NEW url \in BOOLEAN, NEW padded \in BOOLEAN,
         NEW t, t = Token(Encoded(p, url, padded)), NEW damaged,
         \/ \E c \in Strays : damaged = [t EXCEPT ![2] = Append(@, c)]
         \/ damaged = [t EXCEPT ![2] = Front(@)]
         \/ damaged = Front(t)
  PROVE  time_left_seconds(damaged) \in {0, LifeLeft(p)}
<1>. DEFINE e == Encoded(p, url, padded)
<1>1. PICK m \in Nat, r \in 0..2 : Len(p) = 3 * m + r /\ Writes(e, p, m, r, padded)
  BY WrittenIs
<1>2. e \in Seq(Octet) /\ e # <<>> /\ Len(e) >= 2
  <2>1. Len(p) >= 1
    BY PayloadsAre
  <2>2. e \in Seq(Octet) /\ Len(e) >= 2
    <3>. HIDE DEF e
    <3>1. e \in Seq(Octet) /\ Len(e) = IF padded /\ r # 0 THEN 4 * m + 4 ELSE Letters(m, r)
      BY <1>1 DEF Writes
    <3>2. Letters(m, r) >= 2 /\ m \in Nat
      BY <1>1, <2>1 DEF Letters
    <3>. QED
      BY <3>1, <3>2
  <2>. HIDE DEF e
  <2>. QED
    BY <2>2
<1>. HIDE DEF e
<1>3. t = Token(e) /\ Len(t) = 3 /\ t[2] = e
  BY DEF Token, e
<1>4. ASSUME NEW f, f \in Seq(Octet), f # <<>>, damaged = [t EXCEPT ![2] = f],
             LET d == Base64_decode(PaddedToFour(f)) IN Readable(d, p) \/ Spoilt(d, p)
      PROVE  time_left_seconds(damaged) \in {0, LifeLeft(p)}
  <2>. DEFINE d == Base64_decode(PaddedToFour(f))
  <2>1. Len(damaged) = 3 /\ damaged[2] = f
    BY <1>3, <1>4 DEF Token
  <2>2. d \in Seq(Octet)
    BY <1>4, BytesAreOctets
  <2>3. ReadFrom(d) \subseteq {p}
    <3>1. Readable(d, p) \/ Spoilt(d, p)
      BY <1>4
    <3>. HIDE DEF d
    <3>. QED
      BY <2>2, <3>1, ReadableReads, SpoiltReads
  <2>. QED
    BY <2>1, <2>3, SomethingRead
<1>5. ASSUME NEW c \in Strays, damaged = [t EXCEPT ![2] = Append(@, c)]
      PROVE  time_left_seconds(damaged) \in {0, LifeLeft(p)}
  <2>1. c \in Octet
    BY PayloadsAssumption DEF Octet
  <2>2. damaged = [t EXCEPT ![2] = Append(e, c)]
    BY <1>3, <1>5
  <2>3. Append(e, c) \in Seq(Octet) /\ Append(e, c) # <<>>
    BY <1>2, <2>1
  <2>. QED
    BY <1>1, <1>4, <2>1, <2>2, <2>3, LongReads
<1>6. CASE damaged = [t EXCEPT ![2] = Front(@)]
  <2>1. damaged = [t EXCEPT ![2] = Front(e)]
    BY <1>3, <1>6
  <2>2. Front(e) \in Seq(Octet) /\ Front(e) # <<>>
    BY <1>2, FrontIs, EmptySeq
  <2>. QED
    BY <1>1, <1>4, <2>1, <2>2, ShortReads
<1>7. CASE damaged = Front(t)
  <2>1. Len(damaged) = 2
    BY <1>3, <1>7 DEF Front, Token
  <2>. QED
    BY <2>1 DEF time_left_seconds
<1>. QED
  BY <1>5, <1>6, <1>7

Issues(token) == \E url, padded \in BOOLEAN : token = Token(Encoded(payload, url, padded))
Damages(token) ==
  \E url, padded \in BOOLEAN :
    LET t == Token(Encoded(payload, url, padded))
    IN  \/ \E c \in Strays : token = [t EXCEPT ![2] = Append(@, c)]
        \/ token = [t EXCEPT ![2] = Front(@)]
        \/ token = Front(t)

\* A token that is not as its issuer wrote it is one of those it may have become.
TextInv ==
  /\ intact \in BOOLEAN
  /\ text = NoToken => timeLeft = -1
  /\ text # NoToken =>
       /\ payload \in Payloads
       /\ \/ Issues(text)
          \/ ~intact /\ Damages(text)
  /\ ExpiryIsRead

LEMMA TextStarts == TextInit => TextInv
BY DEF TextInit, TextInv, ExpiryIsRead

LEMMA TextInductive ==
  ASSUME TextInv, [TextNext]_tokenTextVars
  PROVE  TextInv'
<1>. USE DEF TextInv
<1>1. CASE Issue
  <2>1. timeLeft' = -1 /\ intact' \in BOOLEAN /\ payload' \in Payloads
    BY <1>1 DEF Issue
  <2>2. Issues(text)'
    BY <1>1 DEF Issue, Issues, Token
  <2>3. ExpiryIsRead'
    BY <2>1 DEF ExpiryIsRead
  <2>. QED
    BY <2>1, <2>2, <2>3, Zenon
<1>2. CASE Damage
  <2>1. /\ intact /\ text # NoToken /\ timeLeft = -1
        /\ intact' = FALSE /\ timeLeft' = -1 /\ payload' = payload /\ payload \in Payloads
    BY <1>2 DEF Damage
  <2>2. PICK url \in BOOLEAN, padded \in BOOLEAN : text = Token(Encoded(payload, url, padded))
    BY <2>1 DEF Issues
  <2>3. \/ \E c \in Strays : text' = [text EXCEPT ![2] = Append(@, c)]
        \/ text' = [text EXCEPT ![2] = Front(@)]
        \/ text' = Front(text)
    BY <1>2 DEF Damage
  <2>4. Damages(text)'
    BY <2>1, <2>2, <2>3, ZenonT(40) DEF Damages
  <2>. QED
    BY <2>1, <2>4 DEF ExpiryIsRead
<1>3. CASE ReadExpiry
  <2>1. /\ text # NoToken /\ timeLeft' = time_left_seconds(text)
        /\ payload' = payload /\ text' = text /\ intact' = intact /\ payload \in Payloads
    BY <1>3 DEF ReadExpiry
  <2>2. Issues(text)' = Issues(text) /\ Damages(text)' = Damages(text)
    BY <2>1 DEF Issues, Damages
  <2>3. CASE Issues(text)
    <3>1. time_left_seconds(text) = LifeLeft(payload)
      BY <2>1, <2>3, WrittenExpiry, Zenon DEF Issues
    <3>2. LifeLeft(payload)' = LifeLeft(payload)
      BY <2>1 DEF LifeLeft
    <3>. QED
      BY <2>1, <2>2, <2>3, <3>1, <3>2 DEF ExpiryIsRead
  <2>4. CASE ~intact /\ Damages(text)
    <3>1. time_left_seconds(text) \in {0, LifeLeft(payload)}
      BY <2>1, <2>4, DamagedExpiry, Zenon DEF Damages
    <3>2. LifeLeft(payload)' = LifeLeft(payload)
      BY <2>1 DEF LifeLeft
    <3>. QED
      BY <2>1, <2>2, <2>4, <3>1, <3>2 DEF ExpiryIsRead
  <2>. QED
    BY <2>1, <2>3, <2>4
<1>4. CASE UNCHANGED tokenTextVars
  <2>1. payload' = payload /\ text' = text /\ intact' = intact /\ timeLeft' = timeLeft
    BY <1>4 DEF tokenTextVars
  <2>2. Issues(text)' = Issues(text) /\ Damages(text)' = Damages(text)
    BY <2>1 DEF Issues, Damages
  <2>3. LifeLeft(payload)' = LifeLeft(payload)
    BY <2>1 DEF LifeLeft
  <2>. QED
    BY <2>1, <2>2, <2>3 DEF ExpiryIsRead
<1>. QED
  BY <1>1, <1>2, <1>3, <1>4 DEF TextNext

\* The time a token has left is that of its payload, of any length, in either
\* alphabet, padded or not; of a damaged token it is the same or none.
THEOREM ReadsExpiry == TextSpec => []ExpiryIsRead
<1>1. TextInit => TextInv
  BY TextStarts
<1>2. TextInv /\ [TextNext]_tokenTextVars => TextInv'
  BY TextInductive
<1>3. TextInv => ExpiryIsRead
  BY DEF TextInv
<1>. QED
  BY <1>1, <1>2, <1>3, PTL DEF TextSpec

=============================================================================
