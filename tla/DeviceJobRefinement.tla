------------------------ MODULE DeviceJobRefinement ------------------------
(***************************************************************************)
(* DeviceJob implements JobLifecycle.                                      *)
(***************************************************************************)
EXTENDS DeviceJob

PhaseOf(h) ==
  IF life[h] \in {"unborn", "retrieving"} THEN "none"
  ELSE IF life[h] = "freed" THEN "freed"
  ELSE IF call[h] \in SubmitCalls THEN "SUBMITTING"
  ELSE status[h]

phaseBar == [h \in Handles |-> PhaseOf(h)]

acceptedBar == [h \in Handles |-> \E j \in JobIds : creator[j] = h]

Lifecycle == INSTANCE JobLifecycle WITH phase <- phaseBar, accepted <- acceptedBar

\* Every behaviour of the device is one the lifecycle allows: a handle moves
\* through its phases in order, and the server accepts at most one job from it,
\* only between the start and the end of a submission.
ImplementsLifecycle == Lifecycle!Spec

-----------------------------------------------------------------------------
(* What the proof of the refinement adds to IInv *)

\* Only a job that has not ended is checked and waited for, and the answer to a
\* check is never behind the status the handle has.
ChecksAhead(h) ==
  /\ call[h] \in StatusCalls \cup AsleepCalls => status[h] \notin Terminal
  /\ call[h] \in StatusCalls /\ reply[h].body = "status"
       /\ Set_job_status(reply[h].native) # Unknown
     => Lifecycle!Rank(Set_job_status(reply[h].native)) >= Lifecycle!Rank(status[h])

ChecksInv == \A h \in Handles : ChecksAhead(h)

\* What a handle created exists.
CreatedInv == \A j \in JobIds : creator[j] # NoJob => rstate[j] # "none"

=============================================================================
