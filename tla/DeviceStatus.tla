---------------------------- MODULE DeviceStatus ----------------------------
(***************************************************************************)
(* QDMI_DEVICE_PROPERTY_STATUS and QDMI_DEVICE_PROPERTY_QUEUELENGTH        *)
(* (src/src/iqm_device.cpp 2111-2308).  A status is put together from two  *)
(* requests, one about the health of the quantum computer and one about    *)
(* its queue, while other users' jobs come and go and the computer's       *)
(* operators act.  Either endpoint may be unknown to an older server, and  *)
(* either request may fail.                                                *)
(***************************************************************************)
EXTENDS Integers

CONSTANTS
  MaxQueue,   \* bound: jobs in the queue
  MaxChanges, \* bound: changes of the computer during one query
  Unknown     \* a field that an answer does not have
ASSUME StatusBoundsAssumption == MaxQueue \in Nat /\ MaxChanges \in Nat

VARIABLES
  computer,   \* what the server would say: healthy, windows, length
  endpoints,  \* whether the session knows its computer's id, and what the server knows
  probe,      \* the request a query is at: "idle", "health", "queue" or "length"
  held,       \* the statuses that were right at some moment of the query
  changes,    \* how often the computer has changed during the query
  failed,     \* whether a request of the query has failed
  answer      \* what the last query returned

statusVars == <<computer, endpoints, probe, held, changes, failed, answer>>

QUEUE_BUSY_THRESHOLD == 1

Computer == [healthy : BOOLEAN, windows : BOOLEAN \cup {Unknown},
             length : (0..MaxQueue) \cup {Unknown}]

StatusInit ==
  /\ computer \in Computer
  /\ endpoints \in [id : BOOLEAN, health : BOOLEAN, queue : BOOLEAN]
  /\ probe = "idle" /\ held = {} /\ changes = 0 /\ failed = FALSE
  /\ answer = "NONE"

-----------------------------------------------------------------------------
(* What is right at a moment: docs/usage.md, QDMI_DEVICE_PROPERTY_STATUS *)

Healthy(c)   == endpoints.id /\ endpoints.health => c.healthy
HasQueue     == endpoints.id /\ endpoints.queue
Available(c) == HasQueue => c.windows # FALSE
Free(c)      == HasQueue => c.length # Unknown /\ c.length < QUEUE_BUSY_THRESHOLD

RightStatus(c) ==
  IF ~Healthy(c) \/ ~Available(c) THEN "MAINTENANCE"
  ELSE IF Free(c) THEN "IDLE" ELSE "BUSY"

-----------------------------------------------------------------------------
(* The queries *)

Start(first) ==
  /\ probe = "idle"
  /\ probe' = first
  /\ held' = {RightStatus(computer)} /\ changes' = 0 /\ failed' = FALSE
  /\ UNCHANGED <<computer, endpoints, answer>>

QueryStatus == Start("health")
QueryQueueLength == Start("length")

Returns(status) ==
  /\ probe' = "idle" /\ answer' = status
  /\ UNCHANGED <<computer, endpoints, held, changes>>

\* Probe_quantum_computer: what a request to this endpoint can come to.  Only a
\* server that does not know the endpoint answers 404.
Supported(endpoint) == endpoints.id /\ endpoints[endpoint]
Outcomes(endpoint) == IF Supported(endpoint) THEN {"ANSWERED", "UNAVAILABLE"}
                      ELSE IF endpoints.id THEN {"UNSUPPORTED", "UNAVAILABLE"}
                      ELSE {"UNSUPPORTED"}

\* No token can be had for the request; without an id none is asked for.
Denied ==
  /\ probe # "idle" /\ endpoints.id
  /\ failed' = TRUE /\ Returns("PERMISSIONDENIED")

HealthDoneOptimistic ==
  /\ probe = "health"
  /\ \E outcome \in Outcomes("health") :
       /\ failed' = (failed \/ outcome = "UNAVAILABLE")
       /\ \/ /\ outcome = "ANSWERED" /\ ~computer.healthy
             /\ Returns("MAINTENANCE")
          \/ /\ outcome # "ANSWERED" \/ computer.healthy
             /\ probe' = "queue"
             /\ UNCHANGED <<computer, endpoints, held, changes, answer>>

HealthDone ==
  /\ probe = "health"
  /\ \E outcome \in Outcomes("health") :
       /\ failed' = (failed \/ outcome = "UNAVAILABLE")
       /\ \/ /\ outcome = "ANSWERED" /\ ~computer.healthy
             /\ Returns("MAINTENANCE")
          \/ outcome = "UNAVAILABLE" /\ Returns("BUSY")
          \/ /\ outcome = "UNSUPPORTED" \/ (outcome = "ANSWERED" /\ computer.healthy)
             /\ probe' = "queue"
             /\ UNCHANGED <<computer, endpoints, held, changes, answer>>

Occupied == computer.length = Unknown \/ computer.length >= QUEUE_BUSY_THRESHOLD

QueueDone ==
  /\ probe = "queue"
  /\ \E outcome \in Outcomes("queue") :
       /\ failed' = (failed \/ outcome = "UNAVAILABLE")
       /\ \/ outcome = "UNAVAILABLE" /\ Returns("BUSY")
          \/ outcome = "UNSUPPORTED" /\ Returns("IDLE")
          \/ /\ outcome = "ANSWERED" /\ computer.windows = FALSE
             /\ Returns("MAINTENANCE")
          \/ /\ outcome = "ANSWERED" /\ computer.windows # FALSE
             /\ Returns(IF Occupied THEN "BUSY" ELSE "IDLE")

LengthDone ==
  /\ probe = "length"
  /\ \E outcome \in Outcomes("queue") :
       /\ failed' = (failed \/ outcome = "UNAVAILABLE")
       /\ \/ outcome = "ANSWERED" /\ computer.length # Unknown /\ Returns("LENGTH")
          \/ (outcome # "ANSWERED" \/ computer.length = Unknown) /\ Returns("NOTSUPPORTED")

\* Something about the computer changes: an operator acts, or a job comes or goes.
ServerChanges ==
  /\ probe # "idle" /\ changes < MaxChanges
  /\ \/ computer' = [computer EXCEPT !.healthy = ~@]
     \/ /\ computer.windows # Unknown
        /\ computer' = [computer EXCEPT !.windows = ~@]
     \/ /\ computer.length # Unknown
        /\ \E n \in {computer.length - 1, computer.length + 1} \cap 0..MaxQueue :
             computer' = [computer EXCEPT !.length = n]
  /\ changes' = changes + 1
  /\ held' = held \cup {RightStatus(computer')}
  /\ UNCHANGED <<endpoints, probe, failed, answer>>

StatusNext ==
  \/ QueryStatus \/ QueryQueueLength
  \/ HealthDone \/ QueueDone \/ LengthDone \/ Denied
  \/ ServerChanges

StatusSpec == StatusInit /\ [][StatusNext]_statusVars

-----------------------------------------------------------------------------
(* Properties *)

StatusTypeOK ==
  /\ computer \in Computer
  /\ endpoints \in [id : BOOLEAN, health : BOOLEAN, queue : BOOLEAN]
  /\ probe \in {"idle", "health", "queue", "length"}
  /\ held \subseteq {"MAINTENANCE", "IDLE", "BUSY"}
  /\ changes \in 0..MaxChanges
  /\ answer \in {"NONE", "MAINTENANCE", "IDLE", "BUSY", "LENGTH", "NOTSUPPORTED",
                 "PERMISSIONDENIED"}

\* A status is one that was right at some moment of the query, although its two
\* requests see the computer at different moments, as long as no more than one
\* thing about it changes in between; a request that failed makes it busy, never
\* idle, since a submission would be bound to fail (2236-2241).
StatusHeldDuringQuery ==
  [][/\ probe \in {"health", "queue"} /\ probe' = "idle"
     => IF failed' THEN answer' \in {"BUSY", "PERMISSIONDENIED"}
        ELSE changes <= 1 => answer' \in held
    ]_statusVars

-----------------------------------------------------------------------------
(* What the proof of StatusHeldDuringQuery adds to StatusTypeOK *)

\* The computer as it would be if it were healthy.
Cured(c) == [c EXCEPT !.healthy = TRUE]

\* No request of a query that goes on has failed, and the status that is right now
\* is among those that were.  Once the health is known, so is what the queue makes
\* of a healthy computer, unless two things have changed; and the computer is
\* healthy, unless one has.
QueryInv ==
  /\ probe \in {"health", "queue"} => ~failed
  /\ probe # "idle" => RightStatus(computer) \in held
  /\ probe = "queue" /\ changes <= 1 => RightStatus(Cured(computer)) \in held
  /\ probe = "queue" /\ changes = 0 => Healthy(computer)
=============================================================================
