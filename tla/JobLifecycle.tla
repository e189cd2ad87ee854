---------------------------- MODULE JobLifecycle ----------------------------
(***************************************************************************)
(* What the device promises its caller about a job, without requests and   *)
(* answers: the phases a handle goes through, that they only move forward, *)
(* and that the IQM Server accepts at most one job per handle, while the   *)
(* handle is being submitted.  DeviceJob implements it.                    *)
(***************************************************************************)
EXTENDS Naturals

CONSTANT Handles

VARIABLES
  phase,    \* how far the job behind a handle has come
  accepted  \* whether the IQM Server accepted a job from a handle

vars == <<phase, accepted>>

Outcomes == {"DONE", "CANCELED", "FAILED"}

Rank(s) ==
  CASE s = "SUBMITTED" -> 1 [] s = "QUEUED" -> 2 [] s = "RUNNING" -> 3
    [] s \in Outcomes  -> 4

Remote == {"SUBMITTED", "QUEUED", "RUNNING"} \cup Outcomes
Phases == {"none", "CREATED", "SUBMITTING", "freed"} \cup Remote

Init ==
  /\ phase    = [h \in Handles |-> "none"]
  /\ accepted = [h \in Handles |-> FALSE]

Become(h, s) == phase' = [phase EXCEPT ![h] = s]

Create(h) == phase[h] = "none" /\ Become(h, "CREATED") /\ UNCHANGED accepted

\* A retrieved job is one that somebody submitted before.
Retrieve(h) ==
  /\ phase[h] = "none"
  /\ \E s \in Remote : Become(h, s)
  /\ UNCHANGED accepted

Submit(h) == phase[h] = "CREATED" /\ Become(h, "SUBMITTING") /\ UNCHANGED accepted

Accept(h) ==
  /\ phase[h] = "SUBMITTING" /\ ~accepted[h]
  /\ accepted' = [accepted EXCEPT ![h] = TRUE]
  /\ UNCHANGED phase

\* The caller is told FAILED for every submission that is not known to have
\* been accepted, and SUBMITTED only for one that was.
Report(h) ==
  /\ phase[h] = "SUBMITTING"
  /\ \/ Become(h, "FAILED")
     \/ accepted[h] /\ Become(h, "SUBMITTED")
  /\ UNCHANGED accepted

\* A check, a wait or a cancellation learns how far the job has come.
Observe(h) ==
  /\ phase[h] \in Remote
  /\ \E s \in Remote : Rank(s) > Rank(phase[h]) /\ Become(h, s)
  /\ UNCHANGED accepted

\* Asking for the calibration set id of a job that is DONE.
Invalidate(h) == phase[h] = "DONE" /\ Become(h, "FAILED") /\ UNCHANGED accepted

Free(h) ==
  /\ phase[h] \in {"CREATED"} \cup Remote
  /\ Become(h, "freed")
  /\ UNCHANGED accepted

Step(h) ==
  \/ Create(h) \/ Retrieve(h) \/ Submit(h) \/ Accept(h)
  \/ Report(h) \/ Observe(h) \/ Invalidate(h) \/ Free(h)

Next == \E h \in Handles : Step(h)

Spec == Init /\ [][Next]_vars

=============================================================================
