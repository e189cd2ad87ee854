---------------------------- MODULE DeviceModel ----------------------------
(***************************************************************************)
(* The quantum computer as an initialized session shows it                 *)
(* (src/src/iqm_device.cpp 423-798 and 2341-2467): sites and couplings     *)
(* from the static architecture, operations from the calibrated gates,     *)
(* coherence times and fidelities from the quality metrics, and the        *)
(* queries that read them back.  DeviceSession has the requests that bring *)
(* these documents and what happens when one of them fails; here is what   *)
(* is made of their contents.                                              *)
(*                                                                         *)
(* The fidelity of an observation is represented by its place in the list  *)
(* of observations, a coherence time by an integer number of half          *)
(* microseconds, the least that tells truncation from rounding.            *)
(***************************************************************************)
EXTENDS Integers, FiniteSets, SequencesExt

CONSTANTS
  Architectures,   \* static architectures: qubits, resonators, connectivity
  GateSets,        \* dynamic architectures: the calibrated gates with their loci
  Observations,    \* what the quality metrics may list
  Absent,          \* nothing
  NotFinite,       \* an infinite time, or none that is a number
  TooMany          \* the least number of microseconds no uint64_t can hold
ASSUME TooManyAssumption == TooMany \in Nat \ {0, 1}

Loci == Seq(Seq(STRING))

\* What can be read from the documents; others end the initialization with an
\* exception, which is left to DeviceSession.
ASSUME DocumentsAssumption ==
  /\ \A a \in Architectures :
       /\ a.qubits \in Seq(STRING) /\ a.resonators \in Seq(STRING)
       /\ a.connectivity \in Loci /\ \A e \in Range(a.connectivity) : Len(e) = 2
  /\ \A set \in GateSets : \A g \in DOMAIN set :
       set[g].default \in DOMAIN set[g].loci /\ set[g].loci[set[g].default] \in Loci
  /\ \A obs \in Observations :
       /\ obs \in Seq(Range(obs))
       /\ \A o \in Range(obs) : o.invalid \in BOOLEAN /\ o.value \in Int \cup {NotFinite}
  /\ Absent \notin Seq(STRING)

VARIABLES
  stage,         \* "new", "sites", "operations", "ready" or "failed"
  architecture,  \* the documents the server has sent
  gates,
  observations,
  sites,         \* sites_, in the order of their indices
  qubitsNum,     \* num_qubits_
  couplings,     \* connectivity_
  loci,          \* operations_sites_map_: for each registered operation, its loci
  coherence,     \* t1_ and t2_ of each site; 0 means unknown
  fidelity       \* the fidelity maps: for some operations, a function from loci

documents == <<architecture, gates, observations>>
modelVars == <<stage, documents, sites, qubitsNum, couplings, loci, coherence, fidelity>>

NoFunction == [x \in {} |-> 0]

ModelInit ==
  /\ stage = "new"
  /\ architecture = Absent /\ gates = Absent /\ observations = Absent
  /\ sites = <<>> /\ qubitsNum = 0 /\ couplings = <<>>
  /\ loci = NoFunction /\ coherence = NoFunction /\ fidelity = NoFunction

-----------------------------------------------------------------------------
(* Reading the documents *)

\* Qubits come first, resonators after them; every edge couples both ways.
ProcessArchitecture ==
  /\ stage = "new"
  /\ \E a \in Architectures :
       LET all == a.qubits \o a.resonators IN
       /\ architecture' = a
       /\ sites' = all /\ qubitsNum' = Len(a.qubits)
       /\ coherence' = [s \in Range(all) |-> [t1 |-> 0, t2 |-> 0]]
       /\ \/ /\ \E e \in Range(a.connectivity) : ~(Range(e) \subseteq Range(all))
             /\ stage' = "failed" /\ UNCHANGED couplings
          \/ /\ \A e \in Range(a.connectivity) : Range(e) \subseteq Range(all)
             /\ couplings' = FlattenSeq([i \in DOMAIN a.connectivity |->
                               <<a.connectivity[i], Reverse(a.connectivity[i])>>])
             /\ stage' = "sites"
  /\ UNCHANGED <<gates, observations, loci, fidelity>>

Skipped == {"cc_prx", "reset_wait", "measure_fidelity"}

\* The loci of the default implementation; only they are read.
DefaultLoci(g) == gates'[g].loci[gates'[g].default]

DescribableIfAny(l) == l # <<>> /\ l[1] # <<>>

\* Loci_are_describable: loci that callers can slice apart again.
Describable(l) == l # <<>> /\ l[1] # <<>> /\ \A i \in DOMAIN l : Len(l[i]) = Len(l[1])

\* A locus with an unknown site fails the session, before anything is said about
\* the size of the loci; a gate that cannot be described is left out.
ProcessGates ==
  /\ stage = "sites"
  /\ gates' \in GateSets
  /\ LET known == DOMAIN gates' \ Skipped
         RefersNowhere(g) ==
           \E l \in Range(DefaultLoci(g)) : ~(Range(l) \subseteq Range(sites))
     IN  \/ /\ \E g \in known : RefersNowhere(g)
            /\ stage' = "failed" /\ UNCHANGED loci
         \/ /\ \A g \in known : ~RefersNowhere(g)
            /\ loci' = [g \in {k \in known : Describable(DefaultLoci(k))} |-> DefaultLoci(g)]
            /\ stage' = "operations"
  /\ UNCHANGED <<architecture, observations, sites, qubitsNum, couplings, coherence, fidelity>>

MetricEvenInvalid(obs, field) ==
  LET found == {i \in DOMAIN obs : obs[i].field = field}
  IN  IF found = {} THEN 0 ELSE CHOOSE i \in found : \A j \in found : j <= i

\* metrics[dut_field]: the last valid observation of a field, 0 if there is none.
Metric(obs, field) ==
  LET found == {i \in DOMAIN obs : obs[i].field = field /\ ~obs[i].invalid}
  IN  IF found = {} THEN 0 ELSE CHOOSE i \in found : \A j \in found : j <= i

MicrosecondsUnbounded(halves) ==
  IF halves = NotFinite \/ halves < 2 THEN 0 ELSE halves \div 2

\* Coherence_time_in_microseconds: nothing below one microsecond, since zero
\* stands for an unknown time, and nothing a uint64_t cannot hold.  The product of
\* the code, seconds * 1e6 in a double, is taken to be exact; rounded down, a whole
\* number of microseconds would be truncated to one less.
Microseconds(halves) ==
  IF halves = NotFinite THEN 0
  ELSE IF halves < 2 \/ halves >= 2 * TooMany THEN 0 ELSE halves \div 2

Measured(obs, site, time, old) ==
  LET i == Metric(obs, <<time, site>>)
      t == IF i = 0 THEN 0 ELSE Microseconds(obs[i].value)
  IN  IF t = 0 THEN old ELSE t

ArityOf(g) == CASE g \in {"prx", "measure"} -> 1 [] g = "cz" -> 2

\* The operations that have metrics, of the right size.
Rated == {g \in DOMAIN loci : g \in {"prx", "measure", "cz"} /\ Len(loci[g][1]) = ArityOf(g)}

Field(g, locus) == <<g, gates[g].default, locus>>

ProcessMetrics ==
  /\ stage = "operations"
  /\ observations' \in Observations
  /\ LET obs == observations' IN
     /\ coherence' = [s \in Range(sites) |->
          [t1 |-> Measured(obs, s, "t1", coherence[s].t1),
           t2 |-> Measured(obs, s, "t2", coherence[s].t2)]]
     /\ fidelity' = [g \in Rated |->
          LET rated == {l \in Range(loci[g]) : Metric(obs, Field(g, l)) # 0}
          IN  [l \in rated |-> Metric(obs, Field(g, l))]]
  /\ stage' = "ready"
  /\ UNCHANGED <<architecture, gates, sites, qubitsNum, couplings, loci>>

ModelNext == ProcessArchitecture \/ ProcessGates \/ ProcessMetrics

ModelSpec == ModelInit /\ [][ModelNext]_modelVars

-----------------------------------------------------------------------------
(* The queries *)

Value(v) == [code |-> "SUCCESS", value |-> v]
Refused  == [code |-> "INVALIDARGUMENT", value |-> Absent]
Unsupported == [code |-> "NOTSUPPORTED", value |-> Absent]

\* query_site_property for a coherence time.
SiteTime(site, time) ==
  IF coherence[site][time] > 0 THEN Value(coherence[site][time]) ELSE Unsupported

\* Two sites may be named in either order, except those of a move.
EitherOrder(op) == Len(loci[op][1]) = 2 /\ op # "move"

IsLocus(op, at) ==
  at \in Range(loci[op]) \/ (EitherOrder(op) /\ Reverse(at) \in Range(loci[op]))

ParametersNum(op) == CASE op = "prx" -> 2 [] op = "prx_12" -> 1 [] OTHER -> 0

\* The fidelity at the sites as they are named, or else the other way round.
FidelityAt(op, at) ==
  IF at \in DOMAIN fidelity[op] THEN Value(fidelity[op][at])
  ELSE IF Reverse(at) \in DOMAIN fidelity[op] THEN Value(fidelity[op][Reverse(at)])
  ELSE Unsupported

\* query_operation_property: Absent for sites or parameters that are not given.
OperationProperty(op, prop, at, params) ==
  IF op \notin DOMAIN loci THEN Refused
  ELSE IF prop = "NAME" THEN Value(op)
  ELSE IF prop = "QUBITSNUM" THEN Value(Len(loci[op][1]))
  ELSE IF at # Absent /\ Len(at) # Len(loci[op][1]) THEN Refused
  ELSE IF prop = "SITES" THEN Value(FlattenSeq(loci[op]))
  ELSE IF at # Absent /\ ~IsLocus(op, at) THEN Refused
  ELSE IF prop = "PARAMETERSNUM" THEN Value(ParametersNum(op))
  ELSE IF params # Absent /\ params # ParametersNum(op) THEN Refused
  ELSE IF prop = "FIDELITY" /\ at # Absent /\ op \in DOMAIN fidelity THEN FidelityAt(op, at)
  ELSE Unsupported

Properties == {"NAME", "QUBITSNUM", "SITES", "PARAMETERSNUM", "FIDELITY", "DURATION"}

-----------------------------------------------------------------------------
(* Properties *)

\* What is kept refers to known sites, indices run through qubits and resonators,
\* and a coherence time fits its type.
ModelTypeOK ==
  /\ stage \in {"new", "sites", "operations", "ready", "failed"}
  /\ qubitsNum \in 0..Len(sites)
  /\ \A c \in Range(couplings) : Range(c) \subseteq Range(sites)
  /\ \A op \in DOMAIN loci : \A l \in Range(loci[op]) : Range(l) \subseteq Range(sites)
  /\ \A s \in DOMAIN coherence : Range(coherence[s]) \subseteq 0..(TooMany - 1)
  /\ DOMAIN fidelity \subseteq DOMAIN loci

Slices(flat, n) == {SubSeq(flat, i * n + 1, (i + 1) * n) : i \in 0..(Len(flat) \div n - 1)}

\* A caller learns an operation's size from one query, its sites as one flat list
\* from another, and asks about the slices: these are the loci the server listed,
\* no more and no fewer, and each is answered wherever the size alone is, in both
\* orders for a pair unless it is a move's.
SlicesAreLoci ==
  stage = "ready" =>
    \A op \in DOMAIN gates :
      LET listed == gates[op].loci[gates[op].default]
          flat == OperationProperty(op, "SITES", Absent, Absent)
          size == OperationProperty(op, "QUBITSNUM", Absent, Absent)
      IN  flat.code = "SUCCESS" =>
            /\ Slices(flat.value, size.value) = Range(listed)
            /\ \A l \in Range(listed) :
                 /\ OperationProperty(op, "PARAMETERSNUM", l, Absent).code = "SUCCESS"
                 /\ size.value = 2 /\ Reverse(l) \notin Range(listed) =>
                      OperationProperty(op, "PARAMETERSNUM", Reverse(l), Absent).code
                        = IF op = "move" THEN "INVALIDARGUMENT" ELSE "SUCCESS"

\* The fidelity shown for sites is that of a valid observation of this gate, in
\* the implementation whose loci are shown, at these sites; it does not depend on
\* the order in which a caller names a pair that is listed once, and none is
\* withheld for which there is such an observation.
FidelityIsOfThisGate ==
  stage = "ready" =>
    \A op \in DOMAIN loci : \A l \in Range(loci[op]) :
      LET f == OperationProperty(op, "FIDELITY", l, Absent) IN
      /\ f.code = "SUCCESS" =>
           /\ ~observations[f.value].invalid
           /\ observations[f.value].field[1] = op
           /\ observations[f.value].field[2] = gates[op].default
           /\ observations[f.value].field[3] \in {l, Reverse(l)}
      /\ op # "move" /\ Len(l) = 2 /\ Reverse(l) \notin Range(loci[op]) =>
           OperationProperty(op, "FIDELITY", Reverse(l), Absent) = f
      /\ op \in Rated /\ f.code # "SUCCESS" =>
           \A o \in Range(observations) : o.invalid \/ o.field # Field(op, l)

\* A coherence time is shown only if a valid observation has it, cut to whole
\* microseconds; one that is negative, less than a microsecond, not finite or too
\* large for a uint64_t is not shown, not even as zero.
CoherenceIsObserved ==
  stage = "ready" =>
    \A s \in Range(sites), time \in {"t1", "t2"} :
      LET t == SiteTime(s, time) IN
      t.code = "SUCCESS" =>
        /\ t.value \in 1..(TooMany - 1)
        /\ \E o \in Range(observations) :
             o.field = <<time, s>> /\ ~o.invalid /\ o.value \in {2 * t.value, 2 * t.value + 1}

-----------------------------------------------------------------------------
(* What the proofs add to the properties to make them inductive *)

\* What a document has not said yet is not known.
NotYetRead ==
  /\ stage = "new" => couplings = <<>>
  /\ stage \in {"new", "sites"} => loci = NoFunction
  /\ stage \in {"new", "sites", "operations"} => fidelity = NoFunction
  /\ stage \in {"sites", "operations"} =>
       coherence = [s \in Range(sites) |-> [t1 |-> 0, t2 |-> 0]]

\* What is registered for a gate are the loci of its default implementation.
LociInv ==
  stage \in {"operations", "ready"} =>
    /\ gates \in GateSets
    /\ \A op \in DOMAIN loci :
         /\ op \in DOMAIN gates /\ loci[op] = gates[op].loci[gates[op].default]
         /\ Describable(loci[op])

\* The fidelity of a locus is the place of the last valid observation of it.
FidelityInv ==
  stage = "ready" =>
    /\ observations \in Observations
    /\ DOMAIN fidelity = Rated
    /\ \A op \in Rated :
         /\ DOMAIN fidelity[op] =
              {l \in Range(loci[op]) : Metric(observations, Field(op, l)) # 0}
         /\ \A l \in DOMAIN fidelity[op] :
              fidelity[op][l] = Metric(observations, Field(op, l))
=============================================================================
