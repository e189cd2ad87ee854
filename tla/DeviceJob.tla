----------------------------- MODULE DeviceJob -----------------------------
(***************************************************************************)
(* The life of a job handle of the IQM QDMI device                         *)
(* (src/src/iqm_device.cpp): it is created or retrieved by id, configured, *)
(* submitted as a circuit or a calibration job, checked, waited for,       *)
(* cancelled, and its results are downloaded and cached.                   *)
(*                                                                         *)
(* An API call is synchronous, but it is not atomic: between sending its   *)
(* request and reading the answer the IQM Server keeps running, other      *)
(* handles act on the same remote job, and the answer may be replaced by   *)
(* an error after the server acted on the request.  A call is therefore a  *)
(* step that ends at the HTTP request, a step of the server or of the      *)
(* network, and a step that handles the answer.  Each handle has at most   *)
(* one call in progress.  All handles belong to initialized sessions.      *)
(***************************************************************************)
EXTENDS HttpResponse, FiniteSets

CONSTANTS
  Handles,              \* job handles (IQM_QDMI_Device_Job)
  JobIds,               \* ids the IQM Server gives to remote jobs
  NoJob,                \* the empty job_id_, and the creator of no job
  MaxPrograms,          \* bound on the programs of one job
  Params,               \* values of the parameters sent with the programs
  ErrorCodes,           \* HTTP status codes of failing answers
  SupportsCalibration   \* supports_calibration_jobs_ of the session

ASSUME NoJobAssumption == NoJob \notin JobIds /\ NoJob \notin Handles
ASSUME MaxProgramsAssumption == MaxPrograms \in Nat \ {0}
ASSUME ParamsAssumption == Params # {}
ASSUME ErrorCodesAssumption == ErrorCodes \subseteq (300..599)
ASSUME SupportsCalibrationAssumption == SupportsCalibration \in BOOLEAN

VARIABLES
  \* the handle
  life,        \* "unborn", "retrieving", "live" or "freed"
  status,      \* status_
  jobId,       \* job_id_
  calibration, \* calibration_
  request,     \* programs_ (how many) and the job parameters
  counts,      \* programs whose histogram is cached
  measured,    \* programs whose shots are cached
  calId,       \* whether new_calibration_set_id_ is cached
  queuePos,    \* whether queue_position_ holds a value
  \* its call in progress
  call,        \* the call and where it is
  reply,       \* the answer to its request
  ret,         \* what its last call returned
  \* the IQM Server
  rkind,       \* kind of a remote job
  rstate,      \* native status of a remote job
  rrequest,    \* the request a remote job was submitted with
  creator      \* the handle whose submission created it

cacheVars  == <<counts, measured, calId>>
handleVars == <<life, status, jobId, calibration, request, queuePos, cacheVars>>
callVars   == <<call, reply, ret>>
serverVars == <<rkind, rstate, rrequest, creator>>
vars       == <<handleVars, callVars, serverVars>>

-----------------------------------------------------------------------------
(* Statuses *)

Terminal == {"DONE", "CANCELED", "FAILED"}

QdmiStatuses == {"CREATED", "SUBMITTED", "QUEUED", "RUNNING"} \cup Terminal

Unknown == "unknown"

RunningNatives ==
  {"validation_started", "validation_ended", "fetch_calibration_started",
   "fetch_calibration_ended", "compilation_started", "compilation_ended",
   "save_sweep_metadata_started", "save_sweep_metadata_ended",
   "pending execution", "pending_execution", "execution_started",
   "execution_ended", "post_processing_pending", "post_processing_started",
   "post_processing_ended", "running", "processing", "accepted",
   "pending compilation", "compiled"}

\* The QDMI status a native status string is read as.
Set_job_status(native) ==
  CASE native = "received"                   -> "SUBMITTED"
    [] native \in {"queued", "waiting"}      -> "QUEUED"
    [] native \in RunningNatives             -> "RUNNING"
    [] native \in {"ready", "completed"}     -> "DONE"
    [] native \in {"aborted", "cancelled"}   -> "CANCELED"
    [] native = "failed"                     -> "FAILED"
    [] OTHER                                 -> Unknown

\* One native status per class is enough for the server to walk through; a
\* server newer than the device may also answer with one it does not know.
ServerActive   == {"received", "queued", "running"}
ServerTerminal == {"completed", "failed", "cancelled"}
ServerStates   == {"none"} \cup ServerActive \cup ServerTerminal
Natives        == ServerActive \cup ServerTerminal \cup {"novel"}

-----------------------------------------------------------------------------
(* Calls and answers *)

SubmitCalls  == {"submit", "submit_calibration"}
StatusCalls  == {"check", "queue_position", "wait", "wait_timed"}
AsleepCalls  == {"asleep", "asleep_timed"}
ResultCalls  == {"counts", "shots_counts", "shots", "calibration_id"}
RetrieveCalls == {"retrieve_status", "retrieve_payload"}
RemoteCalls  == SubmitCalls \cup StatusCalls \cup ResultCalls
                  \cup RetrieveCalls \cup {"cancel"}
Calls        == {"idle"} \cup AsleepCalls \cup RemoteCalls

Requests == [programs : 0..MaxPrograms, params : Params]

NoReply == [body |-> "no_reply", http |-> TransportError]
Pending == [body |-> "pending", http |-> TransportError]
Bare(code) == [body |-> "bare", http |-> code]   \* no body the device can read
Refusal == [body |-> "illegal_job_status", http |-> 403]
Ack     == [body |-> "ack", http |-> 200]
IdReply(j) == [body |-> "id", http |-> 200, id |-> j]
StatusReply(n, p, c) ==
  [body |-> "status", http |-> 200, native |-> n, position |-> p, circuit |-> c]
PayloadReply(r) == [body |-> "payload", http |-> 200, request |-> r]
CalibrationReply(s) == [body |-> "calibration", http |-> 200, success |-> s]

Failures == {Bare(c) : c \in ErrorCodes \cup {TransportError}}

Replies ==
  {NoReply, Pending, Refusal, Ack, Bare(200)} \cup Failures
    \cup {IdReply(j) : j \in JobIds}
    \cup {StatusReply(n, p, c) : n \in Natives, p \in BOOLEAN, c \in BOOLEAN}
    \cup {PayloadReply(r) : r \in Requests}
    \cup {CalibrationReply(s) : s \in BOOLEAN}

Answered(h) == reply[h] \notin {NoReply, Pending}
Code(h)     == Handle_response(reply[h].http)
Programs(h) == 1..request[h].programs
Idle(h)     == life[h] = "live" /\ call[h] = "idle"

Return(h, code) ==
  /\ call'  = [call EXCEPT ![h] = "idle"]
  /\ reply' = [reply EXCEPT ![h] = NoReply]
  /\ ret'   = [ret EXCEPT ![h] = code]

Send(h, c) ==
  /\ call'  = [call EXCEPT ![h] = c]
  /\ reply' = [reply EXCEPT ![h] = Pending]
  /\ UNCHANGED ret

\* Every request needs a bearer token first; failing to get one ends the call.
Request(h, c) == Send(h, c) \/ Return(h, "PERMISSIONDENIED")

-----------------------------------------------------------------------------
(* Creating, configuring and freeing handles *)

\* The defaults of a new handle.
DefaultParams == CHOOSE p \in Params : TRUE
FreshRequest == [programs |-> 0, params |-> DefaultParams]

\* Some remote jobs may exist already: somebody else submitted them.
Init ==
  /\ life        = [h \in Handles |-> "unborn"]
  /\ status      = [h \in Handles |-> "CREATED"]
  /\ jobId       = [h \in Handles |-> NoJob]
  /\ calibration = [h \in Handles |-> FALSE]
  /\ request     = [h \in Handles |-> FreshRequest]
  /\ counts      = [h \in Handles |-> {}]
  /\ measured    = [h \in Handles |-> {}]
  /\ calId       = [h \in Handles |-> FALSE]
  /\ queuePos    = [h \in Handles |-> FALSE]
  /\ call        = [h \in Handles |-> "idle"]
  /\ reply       = [h \in Handles |-> NoReply]
  /\ ret         = [h \in Handles |-> "SUCCESS"]
  /\ rstate      \in [JobIds -> {"none", "received"}]
  /\ rkind       \in [JobIds -> {"circuit", "calibration"}]
  /\ rrequest    \in [JobIds -> Requests]
  /\ \A j \in JobIds : IF rstate[j] = "none"
                         THEN rkind[j] = "circuit" /\ rrequest[j] = FreshRequest
                         ELSE rrequest[j].programs > 0
  /\ creator     = [j \in JobIds |-> NoJob]

CreateJob(h) ==
  /\ life[h] = "unborn"
  /\ life' = [life EXCEPT ![h] = "live"]
  /\ ret'  = [ret EXCEPT ![h] = "SUCCESS"]
  /\ UNCHANGED <<status, jobId, calibration, request, queuePos, cacheVars,
                 call, reply, serverVars>>

ConfigurableUntilTheEnd(h) == status[h] \notin Terminal

\* Whether programs and parameters may still be set.
Configurable(h) == status[h] = "CREATED"

SetParameter(h, p) ==
  /\ Idle(h)
  /\ \/ /\ Return(h, "INVALIDARGUMENT")
        /\ UNCHANGED request
     \/ /\ ~Configurable(h)
        /\ Return(h, "BADSTATE")
        /\ UNCHANGED request
     \/ \* a parameter or option it does not have, or no value
        /\ Configurable(h)
        /\ \E code \in {"NOTSUPPORTED", "SUCCESS"} : Return(h, code)
        /\ UNCHANGED request
     \/ /\ Configurable(h)
        /\ request' = [request EXCEPT ![h].params = p]
        /\ Return(h, "SUCCESS")
  /\ UNCHANGED <<life, status, jobId, calibration, queuePos, cacheVars,
                 serverVars>>

SetPrograms(h, n) ==
  /\ Idle(h)
  /\ \/ /\ Return(h, "INVALIDARGUMENT")
        /\ UNCHANGED <<request, counts, measured>>
     \/ /\ ~Configurable(h)
        /\ Return(h, "BADSTATE")
        /\ UNCHANGED <<request, counts, measured>>
     \/ \* a format it does not run, or no programs
        /\ Configurable(h)
        /\ \E code \in {"NOTSUPPORTED", "SUCCESS"} : Return(h, code)
        /\ UNCHANGED <<request, counts, measured>>
     \/ /\ Configurable(h)
        /\ request'  = [request EXCEPT ![h].programs = n]
        /\ counts'   = [counts EXCEPT ![h] = {}]
        /\ measured' = [measured EXCEPT ![h] = {}]
        /\ Return(h, "SUCCESS")
  /\ UNCHANGED <<life, status, jobId, calibration, queuePos, calId, serverVars>>

\* The handle's memory is gone; its fields are set to their initial values.
FreeJob(h) ==
  /\ Idle(h)
  /\ life'     = [life EXCEPT ![h] = "freed"]
  /\ status'   = [status EXCEPT ![h] = "CREATED"]
  /\ jobId'    = [jobId EXCEPT ![h] = NoJob]
  /\ calibration' = [calibration EXCEPT ![h] = FALSE]
  /\ request'  = [request EXCEPT ![h] = FreshRequest]
  /\ counts'   = [counts EXCEPT ![h] = {}]
  /\ measured' = [measured EXCEPT ![h] = {}]
  /\ calId'    = [calId EXCEPT ![h] = FALSE]
  /\ queuePos' = [queuePos EXCEPT ![h] = FALSE]
  /\ ret'      = [ret EXCEPT ![h] = "SUCCESS"]
  /\ UNCHANGED <<call, reply, serverVars>>

-----------------------------------------------------------------------------
(* Retrieving a handle for an existing remote job *)

RetrieveStart(h, j) ==
  /\ life[h] = "unborn"
  /\ \/ /\ Send(h, "retrieve_status")
        /\ life'  = [life EXCEPT ![h] = "retrieving"]
        /\ jobId' = [jobId EXCEPT ![h] = j]
     \/ /\ Return(h, "PERMISSIONDENIED")
        /\ UNCHANGED <<life, jobId>>
  /\ UNCHANGED <<status, calibration, request, queuePos, cacheVars, serverVars>>

\* The half-built job is destroyed and *job stays null.
Discard(h, code) ==
  /\ Return(h, code)
  /\ life'   = [life EXCEPT ![h] = "unborn"]
  /\ status' = [status EXCEPT ![h] = "CREATED"]
  /\ jobId'  = [jobId EXCEPT ![h] = NoJob]

RetrieveStatusDone(h) ==
  /\ call[h] = "retrieve_status" /\ Answered(h)
  /\ LET r == reply[h]
         read == r.body = "status" /\ Set_job_status(r.native) # Unknown
     IN \/ /\ Code(h) # "SUCCESS"
           /\ Discard(h, Code(h))
        \/ /\ Code(h) = "SUCCESS" /\ r.body = "status" /\ ~r.circuit
           /\ Discard(h, "NOTSUPPORTED")
        \/ /\ Code(h) = "SUCCESS" /\ (r.body = "status" => r.circuit) /\ ~read
           /\ Discard(h, "FATAL")
        \/ /\ read /\ r.circuit
           /\ \/ /\ Send(h, "retrieve_payload")
                 /\ status' = [status EXCEPT ![h] = Set_job_status(r.native)]
                 /\ UNCHANGED <<life, jobId>>
              \/ Discard(h, "PERMISSIONDENIED")
  /\ UNCHANGED <<calibration, request, queuePos, cacheVars, serverVars>>

RetrievePayloadDone(h) ==
  /\ call[h] = "retrieve_payload" /\ Answered(h)
  /\ \/ /\ Code(h) # "SUCCESS"
        /\ Discard(h, Code(h))
        /\ UNCHANGED request
     \/ /\ Code(h) = "SUCCESS" /\ reply[h].body # "payload"
        /\ \E code \in {"FATAL", "NOTSUPPORTED"} : Discard(h, code)
        /\ UNCHANGED request
     \/ /\ reply[h].body = "payload"
        /\ request' = [request EXCEPT ![h] = reply[h].request]
        /\ life'    = [life EXCEPT ![h] = "live"]
        /\ Return(h, "SUCCESS")
        /\ UNCHANGED <<status, jobId>>
  /\ UNCHANGED <<calibration, queuePos, cacheVars, serverVars>>

-----------------------------------------------------------------------------
(* Submitting *)

PostSubmissionStillCreated(h, c) == Request(h, c) /\ UNCHANGED status

\* The status turns FAILED before the request leaves: a failed answer can still
\* stand for an accepted remote job, so the handle must not submit again.
PostSubmission(h, c) ==
  \/ /\ Send(h, c)
     /\ status' = [status EXCEPT ![h] = "FAILED"]
  \/ /\ Return(h, "PERMISSIONDENIED")
     /\ UNCHANGED status

SubmitStart(h) ==
  /\ Idle(h)
  /\ \/ /\ status[h] # "CREATED"
        /\ Return(h, "BADSTATE") /\ UNCHANGED status
     \/ /\ status[h] = "CREATED" /\ request[h].programs = 0
        /\ Return(h, "INVALIDARGUMENT") /\ UNCHANGED status
     \/ \* a program that is not JSON, or has no readable output layout
        /\ status[h] = "CREATED" /\ request[h].programs > 0
        /\ \E code \in {"FATAL", "INVALIDARGUMENT"} : Return(h, code)
        /\ UNCHANGED status
     \/ /\ status[h] = "CREATED" /\ request[h].programs > 0
        /\ PostSubmission(h, "submit")
  /\ UNCHANGED <<life, jobId, calibration, request, queuePos, cacheVars,
                 serverVars>>

SubmitCalibrationStart(h) ==
  /\ Idle(h)
  /\ \/ /\ status[h] # "CREATED"
        /\ Return(h, "BADSTATE") /\ UNCHANGED status
     \/ /\ status[h] = "CREATED"
        /\ ~SupportsCalibration \/ request[h].programs > 1
        /\ Return(h, "NOTSUPPORTED") /\ UNCHANGED status
     \/ /\ status[h] = "CREATED" /\ SupportsCalibration
        /\ request[h].programs = 0
        /\ Return(h, "INVALIDARGUMENT") /\ UNCHANGED status
     \/ /\ status[h] = "CREATED" /\ SupportsCalibration
        /\ request[h].programs = 1
        /\ PostSubmission(h, "submit_calibration")
  /\ UNCHANGED <<life, jobId, calibration, request, queuePos, cacheVars,
                 serverVars>>

SubmissionRefusedRetryably(h) == status' = [status EXCEPT ![h] = "CREATED"]

SubmissionRefused(h) == status' = [status EXCEPT ![h] = "FAILED"]

SubmitDone(h) ==
  /\ call[h] \in SubmitCalls /\ Answered(h)
  /\ \/ /\ Code(h) # "SUCCESS"
        /\ SubmissionRefused(h)
        /\ Return(h, "FATAL")
        /\ UNCHANGED <<jobId, calibration>>
     \/ \* an answer without an id: the status stays what PostSubmission made it
        /\ Code(h) = "SUCCESS" /\ reply[h].body # "id"
        /\ Return(h, "FATAL")
        /\ UNCHANGED <<status, jobId, calibration>>
     \/ /\ reply[h].body = "id"
        /\ jobId'  = [jobId EXCEPT ![h] = reply[h].id]
        /\ status' = [status EXCEPT ![h] = "SUBMITTED"]
        /\ calibration' = [calibration EXCEPT
                             ![h] = @ \/ call[h] = "submit_calibration"]
        /\ Return(h, "SUCCESS")
  /\ UNCHANGED <<life, request, queuePos, cacheVars, serverVars>>

-----------------------------------------------------------------------------
(* Cancelling *)

CancelStart(h) ==
  /\ Idle(h)
  /\ \/ /\ status[h] = "DONE" \/ jobId[h] = NoJob
        /\ Return(h, "INVALIDARGUMENT")
     \/ /\ status[h] # "DONE" /\ jobId[h] # NoJob
        /\ Request(h, "cancel")
  /\ UNCHANGED <<handleVars, serverVars>>

CancelDoneRegardless(h) ==
  /\ call[h] = "cancel" /\ Answered(h)
  /\ status' = [status EXCEPT ![h] = "CANCELED"]
  /\ Return(h, Code(h))
  /\ UNCHANGED <<life, jobId, calibration, request, queuePos, cacheVars,
                 serverVars>>

CancelDone(h) ==
  /\ call[h] = "cancel" /\ Answered(h)
  /\ \/ /\ Code(h) # "SUCCESS" /\ reply[h].body = "illegal_job_status"
        /\ Return(h, "INVALIDARGUMENT") /\ UNCHANGED status
     \/ /\ Code(h) # "SUCCESS" /\ reply[h].body # "illegal_job_status"
        /\ Return(h, Code(h)) /\ UNCHANGED status
     \/ /\ Code(h) = "SUCCESS"
        /\ status' = [status EXCEPT ![h] = "CANCELED"]
        /\ Return(h, "SUCCESS")
  /\ UNCHANGED <<life, jobId, calibration, request, queuePos, cacheVars,
                 serverVars>>

-----------------------------------------------------------------------------
(* Checking, waiting and the queue position *)

SettledWithoutId(h) == jobId[h] = NoJob

\* When a check answers without asking the server.
Settled(h) == jobId[h] = NoJob \/ status[h] \in Terminal

CheckStart(h) ==
  /\ Idle(h)
  /\ \/ Settled(h)  /\ Return(h, "SUCCESS")
     \/ ~Settled(h) /\ Request(h, "check")
  /\ UNCHANGED <<handleVars, serverVars>>

QueuePositionStart(h) ==
  /\ Idle(h)
  /\ \/ Settled(h)  /\ Return(h, "BADSTATE")
     \/ ~Settled(h) /\ Request(h, "queue_position")
  /\ UNCHANGED <<handleVars, serverVars>>

WaitStart(h, c) ==
  /\ Idle(h)
  /\ \/ /\ jobId[h] = NoJob
        /\ Return(h, "INVALIDARGUMENT")
     \/ /\ jobId[h] # NoJob /\ status[h] \in Terminal
        /\ Return(h, "SUCCESS")
     \/ /\ ~Settled(h)
        /\ Request(h, c)
  /\ UNCHANGED <<handleVars, serverVars>>

AsleepAfter(c) == IF c = "wait" THEN "asleep" ELSE "asleep_timed"

FallAsleep(h) ==
  /\ call'  = [call EXCEPT ![h] = AsleepAfter(@)]
  /\ reply' = [reply EXCEPT ![h] = NoReply]
  /\ UNCHANGED ret

JobDoneIfDone(s) == s = "DONE"

IQM_QDMI_device_job_done(s) == s \in Terminal

\* What the call does once the check inside it has succeeded and stored the
\* status new and the queue position pos.
AfterCheck(h, new, pos) ==
  CASE call[h] = "check" -> Return(h, "SUCCESS")
    [] call[h] = "queue_position" ->
         Return(h, IF new # "QUEUED" THEN "BADSTATE"
                   ELSE IF pos THEN "SUCCESS" ELSE "NOTSUPPORTED")
    [] call[h] \in {"wait", "wait_timed"} ->
         IF IQM_QDMI_device_job_done(new)
           THEN Return(h, "SUCCESS")
           ELSE FallAsleep(h)

\* queue_position_ is cleared before a position in the answer is stored.
Reset(old, pos) == pos

CheckDone(h) ==
  /\ call[h] \in StatusCalls /\ Answered(h)
  /\ LET r == reply[h]
         read == r.body = "status" /\ Set_job_status(r.native) # Unknown
     IN \/ /\ Code(h) # "SUCCESS"
           /\ Return(h, Code(h))
           /\ UNCHANGED <<status, queuePos>>
        \/ /\ Code(h) = "SUCCESS" /\ ~read
           /\ Return(h, "FATAL")
           /\ UNCHANGED <<status, queuePos>>
        \/ /\ read
           /\ LET new == Set_job_status(r.native)
                  pos == new = "QUEUED" /\ r.position
              IN /\ status'   = [status EXCEPT ![h] = new]
                 /\ queuePos' = [queuePos EXCEPT ![h] = Reset(@, pos)]
                 /\ AfterCheck(h, new, queuePos'[h])
  /\ UNCHANGED <<life, jobId, calibration, request, cacheVars, serverVars>>

\* The backoff sleep of a wait ends and the next check goes out.
WaitAgain(h) ==
  /\ call[h] \in AsleepCalls
  /\ Request(h, IF call[h] = "asleep" THEN "wait" ELSE "wait_timed")
  /\ UNCHANGED <<handleVars, serverVars>>

WaitTimesOut(h) ==
  /\ call[h] = "asleep_timed"
  /\ Return(h, "TIMEOUT")
  /\ UNCHANGED <<handleVars, serverVars>>

-----------------------------------------------------------------------------
(* Downloading results *)

GetCountsStart(h, p) ==
  /\ Idle(h) /\ p \in Programs(h)
  /\ \/ /\ status[h] # "DONE"
        /\ Return(h, "BADSTATE")
     \/ /\ status[h] = "DONE" /\ p \in counts[h]
        /\ Return(h, "SUCCESS")
     \/ /\ status[h] = "DONE" /\ p \notin counts[h]
        /\ Request(h, "counts")
  /\ UNCHANGED <<handleVars, serverVars>>

GetShotsStart(h, p) ==
  /\ Idle(h) /\ p \in Programs(h)
  /\ \/ /\ status[h] # "DONE"
        /\ Return(h, "BADSTATE")
     \/ /\ status[h] = "DONE" /\ p \in measured[h]
        /\ Return(h, "SUCCESS")
     \/ /\ status[h] = "DONE" /\ p \notin measured[h]
        /\ Request(h, IF p \in counts[h] THEN "shots" ELSE "shots_counts")
  /\ UNCHANGED <<handleVars, serverVars>>

CommitFirst(h) == {1}
CommitOffByOne(h) == 0..(request[h].programs - 1)

\* The programs whose results a complete, validated artifact fills: all of them.
Commit(h) == Programs(h)

\* The histogram arrives: for a histogram query that ends the call, for a shots
\* query the measurements are requested next.
CountsDone(h) ==
  /\ call[h] \in {"counts", "shots_counts"} /\ Answered(h)
  /\ \/ /\ Code(h) # "SUCCESS"
        /\ Return(h, Code(h)) /\ UNCHANGED counts
     \/ /\ Code(h) = "SUCCESS" /\ reply[h].body # "ack"
        /\ Return(h, "FATAL") /\ UNCHANGED counts
     \/ /\ reply[h].body = "ack"
        /\ counts' = [counts EXCEPT ![h] = Commit(h)]
        /\ \/ call[h] = "counts" /\ Return(h, "SUCCESS")
           \/ call[h] = "shots_counts" /\ Request(h, "shots")
  /\ UNCHANGED <<life, status, jobId, calibration, request, queuePos, measured,
                 calId, serverVars>>

ShotsDone(h) ==
  /\ call[h] = "shots" /\ Answered(h)
  /\ \/ /\ Code(h) # "SUCCESS"
        /\ Return(h, Code(h)) /\ UNCHANGED measured
     \/ /\ Code(h) = "SUCCESS" /\ reply[h].body # "ack"
        /\ Return(h, "FATAL") /\ UNCHANGED measured
     \/ /\ reply[h].body = "ack"
        /\ measured' = [measured EXCEPT ![h] = Commit(h)]
        /\ Return(h, "SUCCESS")
  /\ UNCHANGED <<life, status, jobId, calibration, request, queuePos, counts,
                 calId, serverVars>>

\* QDMI_JOB_RESULT_CUSTOM1: nothing here asks whether this is a calibration job.
GetCalibrationIdStart(h) ==
  /\ Idle(h) /\ request[h].programs > 0
  /\ \/ /\ status[h] # "DONE"
        /\ Return(h, "BADSTATE")
     \/ /\ status[h] = "DONE" /\ calId[h]
        /\ Return(h, "SUCCESS")
     \/ /\ status[h] = "DONE" /\ ~calId[h]
        /\ Request(h, "calibration_id")
  /\ UNCHANGED <<handleVars, serverVars>>

CalibrationIdDone(h) ==
  /\ call[h] = "calibration_id" /\ Answered(h)
  /\ LET r == reply[h]
     IN \/ /\ Code(h) = "FATAL"
           /\ status' = [status EXCEPT ![h] = "FAILED"]
           /\ Return(h, "FATAL") /\ UNCHANGED calId
        \/ /\ Code(h) \notin {"FATAL", "SUCCESS"}
           /\ Return(h, Code(h)) /\ UNCHANGED <<status, calId>>
        \/ /\ Code(h) = "SUCCESS" /\ r.body # "calibration"
           /\ Return(h, "FATAL") /\ UNCHANGED <<status, calId>>
        \/ /\ r.body = "calibration" /\ ~r.success
           /\ status' = [status EXCEPT ![h] = "FAILED"]
           /\ Return(h, "FATAL") /\ UNCHANGED calId
        \/ /\ r.body = "calibration" /\ r.success
           /\ calId' = [calId EXCEPT ![h] = TRUE]
           /\ Return(h, "SUCCESS") /\ UNCHANGED status
  /\ UNCHANGED <<life, jobId, calibration, request, queuePos, counts, measured,
                 serverVars>>

-----------------------------------------------------------------------------
(* The IQM Server and the network *)

Asked(h, c) == call[h] \in c /\ reply[h] = Pending

\* The answer of the server, or what is left of it when it is damaged or lost
\* on the way back.  A 2xx status always means that the server acted.
Deliver(h, r) ==
  /\ \E seen \in {r} \cup Failures \cup (IF Is2xx(r.http) THEN {Bare(200)} ELSE {}) :
       reply' = [reply EXCEPT ![h] = seen]
  /\ UNCHANGED <<handleVars, call, ret>>

\* The request is answered with an error and has no effect.
ServeNothing(h) ==
  /\ reply[h] = Pending
  /\ \E r \in Failures : reply' = [reply EXCEPT ![h] = r]
  /\ UNCHANGED <<handleVars, call, ret, serverVars>>

ServeSubmit(h) ==
  /\ Asked(h, SubmitCalls)
  /\ \E j \in JobIds :
       /\ rstate[j] = "none"
       /\ rstate'   = [rstate EXCEPT ![j] = "received"]
       /\ rkind'    = [rkind EXCEPT ![j] =
                         IF call[h] = "submit" THEN "circuit" ELSE "calibration"]
       /\ rrequest' = [rrequest EXCEPT ![j] = request[h]]
       /\ creator'  = [creator EXCEPT ![j] = h]
       /\ Deliver(h, IdReply(j))

ServeCancel(h) ==
  /\ Asked(h, {"cancel"})
  /\ \/ /\ rstate[jobId[h]] \in ServerActive
        /\ rstate' = [rstate EXCEPT ![jobId[h]] = "cancelled"]
        /\ Deliver(h, Ack)
     \/ /\ rstate[jobId[h]] \in ServerTerminal
        /\ Deliver(h, Refusal)
        /\ UNCHANGED rstate
  /\ UNCHANGED <<rkind, rrequest, creator>>

ServeStatus(h) ==
  /\ Asked(h, StatusCalls \cup {"retrieve_status"})
  /\ rstate[jobId[h]] # "none"
  /\ \E n \in {rstate[jobId[h]], "novel"}, p \in BOOLEAN :
       Deliver(h, StatusReply(n, p, rkind[jobId[h]] = "circuit"))
  /\ UNCHANGED serverVars

ServePayload(h) ==
  /\ Asked(h, {"retrieve_payload"})
  /\ Deliver(h, PayloadReply(rrequest[jobId[h]]))
  /\ UNCHANGED serverVars

\* Artifacts exist for completed circuit jobs only.
ServeArtifact(h) ==
  /\ Asked(h, {"counts", "shots_counts", "shots"})
  /\ rkind[jobId[h]] = "circuit" /\ rstate[jobId[h]] = "completed"
  /\ Deliver(h, Ack)
  /\ UNCHANGED serverVars

\* The calibration endpoint does not know circuit jobs (ServeNothing, 404).
ServeCalibration(h) ==
  /\ Asked(h, {"calibration_id"})
  /\ rkind[jobId[h]] = "calibration" /\ rstate[jobId[h]] = "completed"
  /\ \E s \in BOOLEAN : Deliver(h, CalibrationReply(s))
  /\ UNCHANGED serverVars

Serve(h) ==
  \/ ServeNothing(h)
  \/ ServeSubmit(h)
  \/ ServeCancel(h)
  \/ ServeStatus(h)
  \/ ServePayload(h)
  \/ ServeArtifact(h)
  \/ ServeCalibration(h)

\* A remote job moves on by itself, or somebody else cancels it.
ServerProgress(j) ==
  /\ \/ rstate[j] = "received"
        /\ \E s \in {"queued", "failed", "cancelled"} :
             rstate' = [rstate EXCEPT ![j] = s]
     \/ rstate[j] = "queued"
        /\ \E s \in {"running", "failed", "cancelled"} :
             rstate' = [rstate EXCEPT ![j] = s]
     \/ rstate[j] = "running"
        /\ \E s \in ServerTerminal : rstate' = [rstate EXCEPT ![j] = s]
  /\ UNCHANGED <<handleVars, callVars, rkind, rrequest, creator>>

-----------------------------------------------------------------------------
Starts(h) ==
  \/ CreateJob(h)
  \/ \E p \in Params : SetParameter(h, p)
  \/ \E n \in 1..MaxPrograms : SetPrograms(h, n)
  \/ FreeJob(h)
  \/ \E j \in JobIds : rstate[j] # "none" /\ RetrieveStart(h, j)
  \/ SubmitStart(h)
  \/ SubmitCalibrationStart(h)
  \/ CancelStart(h)
  \/ CheckStart(h)
  \/ QueuePositionStart(h)
  \/ \E c \in {"wait", "wait_timed"} : WaitStart(h, c)
  \/ \E p \in 1..MaxPrograms : GetCountsStart(h, p) \/ GetShotsStart(h, p)
  \/ GetCalibrationIdStart(h)

Continues(h) ==
  \/ RetrieveStatusDone(h)
  \/ RetrievePayloadDone(h)
  \/ SubmitDone(h)
  \/ CancelDone(h)
  \/ CheckDone(h)
  \/ WaitAgain(h)
  \/ WaitTimesOut(h)
  \/ CountsDone(h)
  \/ ShotsDone(h)
  \/ CalibrationIdDone(h)

Next ==
  \/ \E h \in Handles : Starts(h) \/ Continues(h) \/ Serve(h)
  \/ \E j \in JobIds : ServerProgress(j)

Spec == Init /\ [][Next]_vars

\* Every request is answered, if only by the timeout each session puts on it;
\* a thread inside a call keeps running.  Nothing obliges a caller to start one.
Fairness == \A h \in Handles : WF_vars(Serve(h)) /\ WF_vars(Continues(h))

FairSpec == Spec /\ Fairness

\* Remote jobs do not run forever. Only waiting needs this.
RemoteJobsEnd == \A j \in JobIds : WF_vars(ServerProgress(j))

-----------------------------------------------------------------------------
(* Properties *)

HandleTypeOK ==
  /\ life \in [Handles -> {"unborn", "retrieving", "live", "freed"}]
  /\ status \in [Handles -> QdmiStatuses]
  /\ jobId \in [Handles -> JobIds \cup {NoJob}]
  /\ calibration \in [Handles -> BOOLEAN]
  /\ request \in [Handles -> Requests]
  /\ counts \in [Handles -> SUBSET (1..MaxPrograms)]
  /\ measured \in [Handles -> SUBSET (1..MaxPrograms)]
  /\ calId \in [Handles -> BOOLEAN]
  /\ queuePos \in [Handles -> BOOLEAN]

CallTypeOK ==
  /\ call \in [Handles -> Calls]
  /\ reply \in [Handles -> Replies]
  /\ ret \in [Handles -> QdmiCodes]

ServerTypeOK ==
  /\ rkind \in [JobIds -> {"circuit", "calibration"}]
  /\ rstate \in [JobIds -> ServerStates]
  /\ rrequest \in [JobIds -> Requests]
  /\ creator \in [JobIds -> Handles \cup {NoJob}]

\* Every variable keeps to its type.
TypeOK == HandleTypeOK /\ CallTypeOK /\ ServerTypeOK

\* The calls that name a remote job, whatever state they are in.
AboutJob == (RemoteCalls \ SubmitCalls) \cup AsleepCalls

\* A handle that asks about a remote job, or whose status comes from one, has
\* its id.
JobKnown ==
  \A h \in Handles :
    call[h] \in AboutJob \/ status[h] \notin {"CREATED", "FAILED"} => jobId[h] # NoJob

\* However often submit is called and whatever answers are lost, the
\* submissions of one handle create at most one job on the IQM Server.
AtMostOneRemoteJob ==
  \A j, k \in JobIds : creator[j] # NoJob /\ creator[j] = creator[k] => j = k

\* A remote job never disappears silently: once the submission that created it
\* has returned, the handle holds its id or is FAILED.
LostSubmissionReported ==
  \A h \in Handles, j \in JobIds :
    creator[j] = h /\ Idle(h) => jobId[h] = j \/ status[h] = "FAILED"

\* The native statuses a remote job can have when the device reports s for it.
\* The status endpoint lags behind, so the job may be further than s. A
\* completed job is also reported FAILED when its calibration was not a success.
Explains(s, native) ==
  CASE s = "SUBMITTED" -> native # "none"
    [] s = "QUEUED"    -> native \in {"queued", "running"} \cup ServerTerminal
    [] s = "RUNNING"   -> native \in {"running"} \cup ServerTerminal
    [] s = "DONE"      -> native = "completed"
    [] s = "CANCELED"  -> native = "cancelled"
    [] s = "FAILED"    -> native \in {"failed", "completed"}
    [] OTHER           -> FALSE

StatusJustified(h) ==
  life[h] = "live" /\ jobId[h] # NoJob => Explains(status[h], rstate[jobId[h]])

\* Whatever races between cancelling, checking and the remote job itself, the
\* status of a handle with a job id is one its remote job has justified: a job
\* is never CANCELED that completed, nor DONE that was aborted.
StatusFollowsServer == \A h \in Handles : StatusJustified(h)

\* The programs and parameters a handle holds are those its remote job was
\* submitted with, so that its results are read against the right programs.
ResultsMatchRequest ==
  \A h \in Handles :
    life[h] = "live" /\ jobId[h] # NoJob => request[h] = rrequest[jobId[h]]

\* The cached results of a handle suit its programs and its remote job.
CacheSuits(h) ==
  /\ call[h] = "shots" => counts[h] = Programs(h)
  /\ counts[h] \in {{}, Programs(h)} /\ measured[h] \in {{}, Programs(h)}
  /\ measured[h] # {} => counts[h] # {}
  /\ counts[h] # {} => /\ jobId[h] # NoJob
                       /\ rstate[jobId[h]] = "completed"
                       /\ rkind[jobId[h]] = "circuit"
  /\ calId[h] => jobId[h] # NoJob /\ rkind[jobId[h]] = "calibration"

\* Results are cached for all programs of a job or for none, and only while the
\* remote job is completed: a handle never serves results that it downloaded
\* under another request or for another job.  While the measurements are on their
\* way, every program has its histogram: the handler dereferences the measurement
\* keys of all of them.
CacheMatchesJob == \A h \in Handles : CacheSuits(h)

\* The calls whose requests may fail without consequences for the handle.
Repeatable == RemoteCalls \ (SubmitCalls \cup RetrieveCalls \cup {"calibration_id"})

FailureKeepsHandle(h) ==
  call[h] \in Repeatable /\ Answered(h) /\ Code(h) # "SUCCESS" =>
    /\ status'[h] = status[h] /\ jobId'[h] = jobId[h]
    /\ counts'[h] = counts[h] /\ measured'[h] = measured[h]

\* A request of a check, a wait, a cancellation or a download that fails leaves
\* the handle as it was: the job stays observable and the call can be retried.
FailedRequestKeepsHandle == [][\A h \in Handles : FailureKeepsHandle(h)]_vars

\* Every call but a wait returns, whatever the server answers.  A wait, with or
\* without a timeout, does if remote jobs end, whatever is answered meanwhile.
CallsReturn ==
  /\ \A h \in Handles :
       call[h] \in RemoteCalls \ {"wait", "wait_timed"} ~> call[h] = "idle"
  /\ RemoteJobsEnd =>
       \A h \in Handles : call[h] \in {"wait", "wait_timed"} ~> call[h] = "idle"

\* The comment on downloads (iqm_device.cpp, results_hist) says: "Download
\* failures leave the execution outcome unchanged and can be retried without
\* resubmitting."  The download of the calibration set id does not keep to it.
DownloadFailureKeepsOutcome ==
  [][\A h \in Handles :
       call[h] \in ResultCalls /\ Code(h) # "SUCCESS" /\ life'[h] = "live" =>
         status'[h] = status[h]]_vars

-----------------------------------------------------------------------------
(* What the proofs add to the invariants above to make them inductive *)

\* Which calls a handle can be in at each stage of its life.
LifeInv ==
  \A h \in Handles :
    /\ life[h] \in {"unborn", "freed"} =>
         call[h] = "idle" /\ status[h] = "CREATED" /\ jobId[h] = NoJob
    /\ life[h] = "retrieving" <=> call[h] \in RetrieveCalls
    /\ call[h] = "retrieve_payload" => status[h] # "CREATED"

\* A submission in progress has spent the handle's only chance to submit, and
\* what was created on the server leads back to the handle or left it FAILED.
SubmissionInv ==
  \A h \in Handles :
    /\ status[h] = "CREATED" /\ life[h] # "retrieving" => jobId[h] = NoJob
    /\ call[h] \in SubmitCalls =>
         /\ status[h] = "FAILED" /\ jobId[h] = NoJob
         /\ reply[h].body = "id" => /\ creator[reply[h].id] = h
                                    /\ rstate[reply[h].id] # "none"
    /\ \A j \in JobIds : creator[j] = h =>
         /\ life[h] \in {"live", "freed"}
         /\ life[h] = "live" => jobId[h] = j \/ (jobId[h] = NoJob /\ status[h] = "FAILED")
         /\ call[h] \in SubmitCalls => reply[h] # Pending

AnswerJustified(h) ==
  LET r == reply[h]
  IN /\ call[h] = "retrieve_payload" => Explains(status[h], rstate[jobId[h]])
     /\ call[h] \in StatusCalls \cup {"retrieve_status"} /\ r.body = "status"
           /\ Set_job_status(r.native) # Unknown
        => Explains(Set_job_status(r.native), rstate[jobId[h]])
     /\ call[h] = "cancel" /\ Is2xx(r.http) => rstate[jobId[h]] = "cancelled"
     /\ call[h] = "calibration_id" => status[h] = "DONE"

\* What is on its way to a handle is justified by its remote job, too.
AnswersInv == \A h \in Handles : AnswerJustified(h)

\* A request on its way into a remote job, or back from one to a handle that is
\* retrieved, is the one that handle and job will share.
RequestMatches(h) ==
  /\ life[h] = "live" /\ jobId[h] # NoJob => request[h] = rrequest[jobId[h]]
  /\ call[h] \in SubmitCalls /\ reply[h].body = "id" =>
       rrequest[reply[h].id] = request[h]
  /\ call[h] = "retrieve_payload" /\ reply[h].body = "payload" =>
       reply[h].request = rrequest[jobId[h]]

RequestInv == \A h \in Handles : RequestMatches(h)

Downloads == {"counts", "shots_counts", "shots"}

\* What is on its way into the caches suits them too: a download runs only for a
\* job that is DONE, artifacts come from circuit jobs and calibration set ids from
\* calibration jobs, and a handle that is not live has no results.
DownloadSuits(h) ==
  /\ life[h] # "live" => counts[h] = {} /\ measured[h] = {} /\ ~calId[h]
  /\ call[h] \in Downloads => status[h] = "DONE"
  /\ call[h] \in Downloads /\ reply[h].body = "ack" => rkind[jobId[h]] = "circuit"
  /\ call[h] = "calibration_id" /\ reply[h].body = "calibration" =>
       rkind[jobId[h]] = "calibration"

CacheInv == \A h \in Handles : CacheSuits(h) /\ DownloadSuits(h)

IInv == /\ TypeOK /\ JobKnown /\ LifeInv
        /\ SubmissionInv /\ AtMostOneRemoteJob
        /\ AnswersInv /\ StatusFollowsServer

=============================================================================
