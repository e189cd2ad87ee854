--------------------------- MODULE DeviceJobProofs ---------------------------
(***************************************************************************)
(* Proofs about DeviceJob, for any number of handles, remote jobs,         *)
(* programs and parameter values: its types, what the calls of one handle  *)
(* may do to each other, and what a job is told about its remote job.      *)
(***************************************************************************)
EXTENDS DeviceJob, TLAPS

-----------------------------------------------------------------------------
(* Facts about statuses and answers *)

\* A native status that is read is read as a QDMI status.
LEMMA StatusRead ==
  ASSUME NEW n, Set_job_status(n) # Unknown
  PROVE  Set_job_status(n) \in QdmiStatuses \ {"CREATED"}
BY DEF Set_job_status, Unknown, QdmiStatuses, Terminal, RunningNatives

\* An HTTP answer is reported as a QDMI status code.
LEMMA CodeRead ==
  ASSUME NEW code \in Nat
  PROVE  Handle_response(code) \in QdmiCodes
BY DEF Handle_response, QdmiCodes, QdmiErrors, Is2xx, TransportError

\* Every reply has an HTTP code, and the fields its body promises.
LEMMA ReplyFields ==
  ASSUME NEW r \in Replies
  PROVE  /\ r.http \in Nat
         /\ r.body = "status" => r.position \in BOOLEAN
         /\ r.body = "id" => r.id \in JobIds
         /\ r.body = "payload" => r.request \in Requests
BY ErrorCodesAssumption
   DEF Replies, NoReply, Pending, Refusal, Ack, Bare, Failures, IdReply,
       StatusReply, PayloadReply, CalibrationReply, TransportError

LEMMA FreshIsRequest == FreshRequest \in Requests
BY ParamsAssumption, MaxProgramsAssumption DEF FreshRequest, DefaultParams, Requests

\* What the server or the network makes of a reply is a reply.
LEMMA DeliverType ==
  ASSUME TypeOK, NEW h \in Handles, NEW r \in Replies, Deliver(h, r)
  PROVE  reply' \in [Handles -> Replies]
BY DEF TypeOK, CallTypeOK, Deliver, Replies

LEMMA InitType == Init => TypeOK
<1>. SUFFICES ASSUME Init PROVE TypeOK
  OBVIOUS
<1>1. NoReply \in Replies
  BY DEF Replies
<1>. QED
  BY <1>1, FreshIsRequest
  DEF Init, TypeOK, HandleTypeOK, CallTypeOK, ServerTypeOK, QdmiStatuses, Calls, QdmiCodes, ServerStates, ServerActive

\* The answers the server gives are replies.
LEMMA ServedReplies ==
  /\ Ack \in Replies /\ Refusal \in Replies
  /\ \A j \in JobIds : IdReply(j) \in Replies
  /\ \A n \in Natives, p \in BOOLEAN, c \in BOOLEAN : StatusReply(n, p, c) \in Replies
  /\ \A r \in Requests : PayloadReply(r) \in Replies
  /\ \A s \in BOOLEAN : CalibrationReply(s) \in Replies
<1>1. Ack \in Replies /\ Refusal \in Replies
  BY DEF Replies
<1>2. \A j \in JobIds : IdReply(j) \in Replies
  BY DEF Replies
<1>3. \A n \in Natives, p \in BOOLEAN, c \in BOOLEAN : StatusReply(n, p, c) \in Replies
  BY DEF Replies
<1>4. \A r \in Requests : PayloadReply(r) \in Replies
  BY DEF Replies
<1>5. \A s \in BOOLEAN : CalibrationReply(s) \in Replies
  BY DEF Replies
<1>. QED
  BY <1>1, <1>2, <1>3, <1>4, <1>5

\* Both states of an unanswered call, and what an answer is reported as.
LEMMA NoReplyIsReply == NoReply \in Replies /\ Pending \in Replies
BY DEF Replies

LEMMA ReplyRead ==
  ASSUME TypeOK, NEW h \in Handles
  PROVE  /\ Handle_response(reply[h].http) \in QdmiCodes
         /\ reply[h].body = "status" => reply[h].position \in BOOLEAN
         /\ reply[h].body = "id" => reply[h].id \in JobIds
         /\ reply[h].body = "payload" => reply[h].request \in Requests
BY ReplyFields, CodeRead DEF TypeOK, CallTypeOK

LEMMA ReturnType ==
  ASSUME TypeOK, NEW h \in Handles, NEW code \in QdmiCodes, Return(h, code)
  PROVE  CallTypeOK'
BY NoReplyIsReply DEF TypeOK, CallTypeOK, Return, Calls

LEMMA SendType ==
  ASSUME TypeOK, NEW h \in Handles, NEW c \in RemoteCalls, Send(h, c)
  PROVE  CallTypeOK'
BY NoReplyIsReply DEF TypeOK, CallTypeOK, Send, Calls

LEMMA SleepType ==
  ASSUME TypeOK, NEW h \in Handles, FallAsleep(h)
  PROVE  CallTypeOK'
BY NoReplyIsReply
   DEF TypeOK, CallTypeOK, FallAsleep, AsleepAfter, Calls, AsleepCalls

\* What a step of a handle does to its call: it returns, sends a request, or
\* sleeps.
CallStep(h) == \/ \E code \in QdmiCodes : Return(h, code)
               \/ \E c \in RemoteCalls : Send(h, c)
               \/ FallAsleep(h)

LEMMA CallStepType ==
  ASSUME TypeOK, NEW h \in Handles, CallStep(h)
  PROVE  CallTypeOK'
BY ReturnType, SendType, SleepType DEF CallStep

LEMMA KnownCodes ==
  {"SUCCESS", "BADSTATE", "FATAL", "INVALIDARGUMENT", "NOTSUPPORTED", "NOTFOUND",
   "PERMISSIONDENIED", "TIMEOUT"} \subseteq QdmiCodes
BY DEF QdmiCodes, QdmiErrors

LEMMA KnownCalls ==
  {"submit", "submit_calibration", "check", "queue_position", "wait",
   "wait_timed", "counts", "shots_counts", "shots", "calibration_id",
   "retrieve_status", "retrieve_payload", "cancel"} \subseteq RemoteCalls
BY DEF RemoteCalls, SubmitCalls, StatusCalls, ResultCalls, RetrieveCalls

-----------------------------------------------------------------------------
(* Every step keeps every variable to its type *)

\* The calls that only look at the handle and return or ask the server.
QuietStart(h) ==
  \/ CancelStart(h)
  \/ CheckStart(h)
  \/ QueuePositionStart(h)
  \/ \E c \in {"wait", "wait_timed"} : WaitStart(h, c)
  \/ WaitAgain(h)
  \/ WaitTimesOut(h)
  \/ \E p \in 1..MaxPrograms : GetCountsStart(h, p) \/ GetShotsStart(h, p)
  \/ GetCalibrationIdStart(h)

LEMMA QuietStartStep ==
  ASSUME NEW h \in Handles, QuietStart(h)
  PROVE  CallStep(h) /\ UNCHANGED <<handleVars, serverVars>>
<1>1. \A c \in RemoteCalls : Request(h, c) => CallStep(h)
  BY KnownCodes DEF Request, CallStep
<1>2. \A code \in QdmiCodes : Return(h, code) => CallStep(h)
  BY DEF CallStep
<1>3. CASE CancelStart(h)
  BY <1>1, <1>2, <1>3, KnownCalls, KnownCodes DEF CancelStart
<1>4. CASE CheckStart(h) \/ QueuePositionStart(h)
  BY <1>1, <1>2, <1>4, KnownCalls, KnownCodes DEF CheckStart, QueuePositionStart
<1>5. CASE \E c \in {"wait", "wait_timed"} : WaitStart(h, c)
  BY <1>1, <1>2, <1>5, KnownCalls, KnownCodes DEF WaitStart
<1>6. CASE WaitAgain(h) \/ WaitTimesOut(h)
  BY <1>1, <1>2, <1>6, KnownCalls, KnownCodes DEF WaitAgain, WaitTimesOut
<1>7. CASE \E p \in 1..MaxPrograms : GetCountsStart(h, p) \/ GetShotsStart(h, p)
  BY <1>1, <1>2, <1>7, KnownCalls, KnownCodes DEF GetCountsStart, GetShotsStart
<1>8. CASE GetCalibrationIdStart(h)
  BY <1>1, <1>2, <1>8, KnownCalls, KnownCodes DEF GetCalibrationIdStart
<1>. QED
  BY <1>3, <1>4, <1>5, <1>6, <1>7, <1>8 DEF QuietStart

LEMMA QuietStartType ==
  ASSUME TypeOK, NEW h \in Handles, QuietStart(h)
  PROVE  TypeOK'
BY QuietStartStep, CallStepType
   DEF TypeOK, HandleTypeOK, ServerTypeOK, handleVars, cacheVars, serverVars

LEMMA ConfigureType ==
  ASSUME TypeOK, NEW h \in Handles,
         \/ CreateJob(h)
         \/ \E p \in Params : SetParameter(h, p)
         \/ \E n \in 1..MaxPrograms : SetPrograms(h, n)
         \/ FreeJob(h)
  PROVE  TypeOK'
<1>. USE DEF TypeOK, HandleTypeOK, ServerTypeOK, cacheVars, serverVars
<1>1. CASE CreateJob(h)
  BY <1>1, KnownCodes DEF CreateJob, CallTypeOK
<1>2. ASSUME NEW p \in Params, SetParameter(h, p) PROVE TypeOK'
  <2>1. CallTypeOK'
    <3>1. CallStep(h)
      BY <1>2, KnownCodes DEF SetParameter, CallStep
    <3>. QED  BY <3>1, CallStepType
  <2>2. request' \in [Handles -> Requests]
    BY <1>2 DEF SetParameter, Requests
  <2>. QED
    BY <1>2, <2>1, <2>2 DEF SetParameter
<1>3. ASSUME NEW n \in 1..MaxPrograms, SetPrograms(h, n) PROVE TypeOK'
  <2>1. CallTypeOK'
    <3>1. CallStep(h)
      BY <1>3, KnownCodes DEF SetPrograms, CallStep
    <3>. QED  BY <3>1, CallStepType
  <2>2. request' \in [Handles -> Requests]
    BY <1>3, MaxProgramsAssumption DEF SetPrograms, Requests
  <2>3. /\ counts' \in [Handles -> SUBSET (1..MaxPrograms)]
        /\ measured' \in [Handles -> SUBSET (1..MaxPrograms)]
    BY <1>3 DEF SetPrograms
  <2>. QED
    BY <1>3, <2>1, <2>2, <2>3 DEF SetPrograms
<1>4. CASE FreeJob(h)
  BY <1>4, FreshIsRequest, KnownCodes DEF FreeJob, CallTypeOK, QdmiStatuses
<1>. QED
  BY <1>1, <1>2, <1>3, <1>4

LEMMA RetrieveType ==
  ASSUME TypeOK, NEW h \in Handles,
         \/ \E j \in JobIds : RetrieveStart(h, j)
         \/ RetrieveStatusDone(h)
         \/ RetrievePayloadDone(h)
  PROVE  TypeOK'
<1>. USE DEF TypeOK, HandleTypeOK, ServerTypeOK, cacheVars, serverVars
<1>1. ASSUME NEW j \in JobIds, RetrieveStart(h, j) PROVE TypeOK'
  <2>1. CallTypeOK'
    <3>1. CallStep(h)
      BY <1>1, KnownCodes, KnownCalls DEF RetrieveStart, CallStep
    <3>. QED  BY <3>1, CallStepType
  <2>. QED
    BY <1>1, <2>1 DEF RetrieveStart
<1>2. CASE RetrieveStatusDone(h)
  <2>1. CallTypeOK'
    <3>1. CallStep(h)
      BY <1>2, KnownCodes, KnownCalls, ReplyRead DEF RetrieveStatusDone, Discard, CallStep, Code
    <3>. QED  BY <3>1, CallStepType
  <2>2. /\ life' \in [Handles -> {"unborn", "retrieving", "live", "freed"}]
        /\ jobId' \in [Handles -> JobIds \cup {NoJob}]
    BY <1>2 DEF RetrieveStatusDone, Discard
  <2>3. status' \in [Handles -> QdmiStatuses]
    BY <1>2, StatusRead DEF RetrieveStatusDone, Discard, QdmiStatuses
  <2>. QED
    BY <1>2, <2>1, <2>2, <2>3 DEF RetrieveStatusDone
<1>3. CASE RetrievePayloadDone(h)
  <2>1. CallTypeOK'
    <3>1. CallStep(h)
      BY <1>3, KnownCodes, ReplyRead DEF RetrievePayloadDone, Discard, CallStep, Code
    <3>. QED  BY <3>1, CallStepType
  <2>2. /\ life' \in [Handles -> {"unborn", "retrieving", "live", "freed"}]
        /\ jobId' \in [Handles -> JobIds \cup {NoJob}]
        /\ status' \in [Handles -> QdmiStatuses]
    BY <1>3 DEF RetrievePayloadDone, Discard, QdmiStatuses
  <2>3. request' \in [Handles -> Requests]
    BY <1>3, ReplyRead DEF RetrievePayloadDone
  <2>. QED
    BY <1>3, <2>1, <2>2, <2>3 DEF RetrievePayloadDone
<1>. QED
  BY <1>1, <1>2, <1>3

LEMMA SubmitType ==
  ASSUME TypeOK, NEW h \in Handles,
         SubmitStart(h) \/ SubmitCalibrationStart(h) \/ SubmitDone(h)
  PROVE  TypeOK'
<1>. USE DEF TypeOK, HandleTypeOK, ServerTypeOK, cacheVars, serverVars
<1>1. CASE SubmitStart(h)
  <2>1. CallTypeOK'
    <3>1. CallStep(h)
      BY <1>1, KnownCodes, KnownCalls DEF SubmitStart, PostSubmission, CallStep
    <3>. QED  BY <3>1, CallStepType
  <2>2. status' \in [Handles -> QdmiStatuses]
    BY <1>1 DEF SubmitStart, PostSubmission, QdmiStatuses, Terminal
  <2>. QED
    BY <1>1, <2>1, <2>2 DEF SubmitStart
<1>2. CASE SubmitCalibrationStart(h)
  <2>1. CallTypeOK'
    <3>1. CallStep(h)
      BY <1>2, KnownCodes, KnownCalls DEF SubmitCalibrationStart, PostSubmission, CallStep
    <3>. QED  BY <3>1, CallStepType
  <2>2. status' \in [Handles -> QdmiStatuses]
    BY <1>2 DEF SubmitCalibrationStart, PostSubmission, QdmiStatuses, Terminal
  <2>. QED
    BY <1>2, <2>1, <2>2 DEF SubmitCalibrationStart
<1>3. CASE SubmitDone(h)
  <2>1. CallTypeOK'
    <3>1. CallStep(h)
      BY <1>3, KnownCodes DEF SubmitDone, CallStep
    <3>. QED  BY <3>1, CallStepType
  <2>2. status' \in [Handles -> QdmiStatuses]
    BY <1>3 DEF SubmitDone, SubmissionRefused, QdmiStatuses, Terminal
  <2>3. /\ jobId' \in [Handles -> JobIds \cup {NoJob}]
        /\ calibration' \in [Handles -> BOOLEAN]
    BY <1>3, ReplyRead DEF SubmitDone
  <2>. QED
    BY <1>3, <2>1, <2>2, <2>3 DEF SubmitDone
<1>. QED
  BY <1>1, <1>2, <1>3

LEMMA StatusType ==
  ASSUME TypeOK, NEW h \in Handles, CancelDone(h) \/ CheckDone(h)
  PROVE  TypeOK'
<1>. USE DEF TypeOK, HandleTypeOK, ServerTypeOK, cacheVars, serverVars
<1>1. CASE CancelDone(h)
  <2>1. CallTypeOK'
    <3>1. CallStep(h)
      BY <1>1, KnownCodes, ReplyRead DEF CancelDone, CallStep, Code
    <3>. QED  BY <3>1, CallStepType
  <2>2. status' \in [Handles -> QdmiStatuses]
    BY <1>1 DEF CancelDone, QdmiStatuses, Terminal
  <2>. QED
    BY <1>1, <2>1, <2>2 DEF CancelDone
<1>2. CASE CheckDone(h)
  <2>1. CallTypeOK'
    <3>1. CallStep(h)
      BY <1>2, KnownCodes, ReplyRead
         DEF CheckDone, AfterCheck, FallAsleep, StatusCalls, CallStep, Code
    <3>. QED  BY <3>1, CallStepType
  <2>2. status' \in [Handles -> QdmiStatuses]
    BY <1>2, StatusRead DEF CheckDone
  <2>3. queuePos' \in [Handles -> BOOLEAN]
    BY <1>2, ReplyRead DEF CheckDone, Reset, Answered
  <2>. QED
    BY <1>2, <2>1, <2>2, <2>3 DEF CheckDone
<1>. QED
  BY <1>1, <1>2

LEMMA DownloadType ==
  ASSUME TypeOK, NEW h \in Handles,
         CountsDone(h) \/ ShotsDone(h) \/ CalibrationIdDone(h)
  PROVE  TypeOK'
<1>. USE DEF TypeOK, HandleTypeOK, ServerTypeOK, cacheVars, serverVars
<1>1. Programs(h) \subseteq 1..MaxPrograms
  BY MaxProgramsAssumption DEF Programs, Requests
<1>2. CASE CountsDone(h)
  <2>1. CallTypeOK'
    <3>1. CallStep(h)
      BY <1>2, KnownCodes, KnownCalls, ReplyRead DEF CountsDone, Request, CallStep, Code
    <3>. QED  BY <3>1, CallStepType
  <2>. QED
    BY <1>1, <1>2, <2>1 DEF CountsDone, Commit
<1>3. CASE ShotsDone(h)
  <2>1. CallTypeOK'
    <3>1. CallStep(h)
      BY <1>3, KnownCodes, ReplyRead DEF ShotsDone, CallStep, Code
    <3>. QED  BY <3>1, CallStepType
  <2>. QED
    BY <1>1, <1>3, <2>1 DEF ShotsDone, Commit
<1>4. CASE CalibrationIdDone(h)
  <2>1. CallTypeOK'
    <3>1. CallStep(h)
      BY <1>4, KnownCodes, ReplyRead DEF CalibrationIdDone, CallStep, Code
    <3>. QED  BY <3>1, CallStepType
  <2>2. status' \in [Handles -> QdmiStatuses]
    BY <1>4 DEF CalibrationIdDone, QdmiStatuses, Terminal
  <2>. QED
    BY <1>4, <2>1, <2>2 DEF CalibrationIdDone
<1>. QED
  BY <1>2, <1>3, <1>4

\* The answers of the server are replies.
LEMMA CancelReplies == Ack \in Replies /\ Refusal \in Replies
BY DEF Replies

LEMMA IdReplies == ASSUME NEW j \in JobIds PROVE IdReply(j) \in Replies
BY DEF Replies

LEMMA StatusReplies ==
  ASSUME NEW n \in Natives, NEW p \in BOOLEAN, NEW c \in BOOLEAN
  PROVE  StatusReply(n, p, c) \in Replies
BY DEF Replies

LEMMA PayloadReplies == ASSUME NEW r \in Requests PROVE PayloadReply(r) \in Replies
BY DEF Replies

LEMMA CalibrationReplies ==
  ASSUME NEW s \in BOOLEAN PROVE CalibrationReply(s) \in Replies
BY DEF Replies

LEMMA ServeType ==
  ASSUME TypeOK, JobKnown, NEW h \in Handles, Serve(h)
  PROVE  TypeOK'
<1>. USE DEF TypeOK, HandleTypeOK, ServerTypeOK, handleVars, cacheVars, serverVars
<1>1. CASE ServeNothing(h)
  BY <1>1 DEF ServeNothing, CallTypeOK, Replies
<1>2. CASE ServeSubmit(h)
  <2>1. PICK j \in JobIds : /\ rstate' = [rstate EXCEPT ![j] = "received"]
                            /\ Deliver(h, IdReply(j))
    BY <1>2 DEF ServeSubmit
  <2>2. reply' \in [Handles -> Replies]
    BY <2>1, DeliverType, IdReplies
  <2>3. rstate' \in [JobIds -> ServerStates]
    BY <2>1 DEF ServerStates, ServerActive
  <2>. QED
    BY <1>2, <2>2, <2>3 DEF ServeSubmit, Deliver, CallTypeOK
<1>3. CASE ServeCancel(h)
  <2>1. reply' \in [Handles -> Replies]
    BY <1>3, DeliverType, CancelReplies DEF ServeCancel
  <2>2. rstate' \in [JobIds -> ServerStates]
    BY <1>3 DEF ServeCancel, ServerStates, ServerTerminal
  <2>. QED
    BY <1>3, <2>1, <2>2 DEF ServeCancel, Deliver, CallTypeOK
<1>4. CASE ServeStatus(h)
  <2>1. PICK n \in {rstate[jobId[h]], "novel"}, p \in BOOLEAN :
          Deliver(h, StatusReply(n, p, rkind[jobId[h]] = "circuit"))
    BY <1>4 DEF ServeStatus
  <2>2. n \in Natives
    <3>1. jobId[h] \in JobIds
      BY <1>4 DEF ServeStatus, Asked, JobKnown, AboutJob, RemoteCalls, StatusCalls,
                  SubmitCalls, RetrieveCalls
    <3>. QED
      BY <1>4, <2>1, <3>1 DEF ServeStatus, Natives, ServerStates
  <2>3. reply' \in [Handles -> Replies]
    BY <2>1, <2>2, DeliverType, StatusReplies
  <2>. QED
    BY <1>4, <2>3 DEF ServeStatus, Deliver, CallTypeOK
<1>5. CASE ServePayload(h)
  <2>1. rrequest[jobId[h]] \in Requests
    BY <1>5 DEF ServePayload, Asked, JobKnown, AboutJob, RemoteCalls,
                SubmitCalls, RetrieveCalls
  <2>2. reply' \in [Handles -> Replies]
    BY <1>5, <2>1, DeliverType, PayloadReplies DEF ServePayload
  <2>. QED
    BY <1>5, <2>2 DEF ServePayload, Deliver, CallTypeOK
<1>6. CASE ServeArtifact(h) \/ ServeCalibration(h)
  <2>1. reply' \in [Handles -> Replies]
    BY <1>6, DeliverType, CancelReplies, CalibrationReplies DEF ServeArtifact, ServeCalibration
  <2>. QED
    BY <1>6, <2>1 DEF ServeArtifact, ServeCalibration, Deliver, CallTypeOK
<1>. QED
  BY <1>1, <1>2, <1>3, <1>4, <1>5, <1>6 DEF Serve

LEMMA ProgressType ==
  ASSUME TypeOK, NEW j \in JobIds, ServerProgress(j)
  PROVE  TypeOK'
BY DEF TypeOK, HandleTypeOK, CallTypeOK, ServerTypeOK, handleVars, cacheVars,
       callVars, ServerProgress, ServerStates, ServerActive, ServerTerminal

LEMMA NextType ==
  ASSUME TypeOK, JobKnown, [Next]_vars
  PROVE  TypeOK'
<1>1. CASE UNCHANGED vars
  BY <1>1 DEF TypeOK, HandleTypeOK, CallTypeOK, ServerTypeOK, vars, handleVars,
              cacheVars, callVars, serverVars
<1>2. ASSUME NEW h \in Handles, Starts(h) PROVE TypeOK'
  BY <1>2, QuietStartType, ConfigureType, RetrieveType, SubmitType
     DEF Starts, QuietStart
<1>3. ASSUME NEW h \in Handles, Continues(h) PROVE TypeOK'
  BY <1>3, QuietStartType, RetrieveType, SubmitType, StatusType, DownloadType
     DEF Continues, QuietStart
<1>. QED
  BY <1>1, <1>2, <1>3, ServeType, ProgressType DEF Next

-----------------------------------------------------------------------------
(* A handle that asks about a remote job has its id *)

LEMMA InitJobKnown == Init => JobKnown
BY DEF Init, JobKnown, AboutJob, RemoteCalls, SubmitCalls, StatusCalls,
       ResultCalls, RetrieveCalls, AsleepCalls

LEMMA NextJobKnown ==
  ASSUME TypeOK, JobKnown, [Next]_vars
  PROVE  JobKnown'
<1>. USE DEF TypeOK, HandleTypeOK, CallTypeOK, JobKnown, AboutJob, RemoteCalls,
             SubmitCalls, StatusCalls, ResultCalls, RetrieveCalls, AsleepCalls,
             handleVars, cacheVars, callVars, serverVars, Return, Send, Request,
             Idle
<1>1. CASE UNCHANGED vars
  BY <1>1 DEF vars
<1>2. ASSUME NEW h \in Handles, CreateJob(h) PROVE JobKnown'
  BY <1>2 DEF CreateJob
<1>3. ASSUME NEW h \in Handles, NEW p \in Params, SetParameter(h, p) PROVE JobKnown'
  BY <1>3 DEF SetParameter
<1>4. ASSUME NEW h \in Handles, NEW n \in 1..MaxPrograms, SetPrograms(h, n) PROVE JobKnown'
  BY <1>4 DEF SetPrograms
<1>5. ASSUME NEW h \in Handles, FreeJob(h) PROVE JobKnown'
  BY <1>5 DEF FreeJob
<1>6. ASSUME NEW h \in Handles, NEW j \in JobIds, RetrieveStart(h, j) PROVE JobKnown'
  BY <1>6, NoJobAssumption DEF RetrieveStart
<1>7. ASSUME NEW h \in Handles, RetrieveStatusDone(h) PROVE JobKnown'
  BY <1>7 DEF RetrieveStatusDone, Discard
<1>8. ASSUME NEW h \in Handles, RetrievePayloadDone(h) PROVE JobKnown'
  BY <1>8 DEF RetrievePayloadDone, Discard
<1>9. ASSUME NEW h \in Handles, SubmitStart(h) PROVE JobKnown'
  BY <1>9 DEF SubmitStart, PostSubmission
<1>10. ASSUME NEW h \in Handles, SubmitCalibrationStart(h) PROVE JobKnown'
  BY <1>10 DEF SubmitCalibrationStart, PostSubmission
<1>11. ASSUME NEW h \in Handles, SubmitDone(h) PROVE JobKnown'
  BY <1>11, ReplyRead, NoJobAssumption DEF SubmitDone, SubmissionRefused
<1>12. ASSUME NEW h \in Handles, CancelStart(h) PROVE JobKnown'
  BY <1>12 DEF CancelStart
<1>13. ASSUME NEW h \in Handles, CancelDone(h) PROVE JobKnown'
  BY <1>13 DEF CancelDone
<1>14. ASSUME NEW h \in Handles, CheckStart(h) \/ QueuePositionStart(h) PROVE JobKnown'
  BY <1>14 DEF CheckStart, QueuePositionStart, Settled
<1>15. ASSUME NEW h \in Handles, NEW c \in {"wait", "wait_timed"}, WaitStart(h, c)
       PROVE  JobKnown'
  BY <1>15 DEF WaitStart, Settled
<1>16. ASSUME NEW h \in Handles, CheckDone(h) PROVE JobKnown'
  <2>1. jobId' = jobId /\ jobId[h] # NoJob
    BY <1>16 DEF CheckDone
  <2>2. \A k \in Handles \ {h} : call'[k] = call[k] /\ status'[k] = status[k]
    BY <1>16 DEF CheckDone, AfterCheck, FallAsleep
  <2>. QED
    BY <2>1, <2>2
<1>17. ASSUME NEW h \in Handles, WaitAgain(h) \/ WaitTimesOut(h) PROVE JobKnown'
  BY <1>17 DEF WaitAgain, WaitTimesOut
<1>18. ASSUME NEW h \in Handles, NEW p \in 1..MaxPrograms,
              GetCountsStart(h, p) \/ GetShotsStart(h, p)
       PROVE  JobKnown'
  BY <1>18 DEF GetCountsStart, GetShotsStart
<1>19. ASSUME NEW h \in Handles, CountsDone(h) \/ ShotsDone(h) PROVE JobKnown'
  BY <1>19 DEF CountsDone, ShotsDone
<1>20. ASSUME NEW h \in Handles, GetCalibrationIdStart(h) \/ CalibrationIdDone(h)
       PROVE  JobKnown'
  BY <1>20 DEF GetCalibrationIdStart, CalibrationIdDone
<1>21. ASSUME NEW h \in Handles, Serve(h) PROVE JobKnown'
  BY <1>21 DEF Serve, ServeNothing, ServeSubmit, ServeCancel, ServeStatus,
               ServePayload, ServeArtifact, ServeCalibration, Deliver
<1>22. ASSUME NEW j \in JobIds, ServerProgress(j) PROVE JobKnown'
  BY <1>22 DEF ServerProgress
<1>. QED
  BY <1>1, <1>2, <1>3, <1>4, <1>5, <1>6, <1>7, <1>8, <1>9, <1>10, <1>11, <1>12,
     <1>13, <1>14, <1>15, <1>16, <1>17, <1>18, <1>19, <1>20, <1>21, <1>22
     DEF Next, Starts, Continues

\* Every variable keeps to its type, in every behaviour of the device.
THEOREM TypeCorrect == Spec => []TypeOK
<1>1. Init => TypeOK /\ JobKnown
  BY InitType, InitJobKnown
<1>2. TypeOK /\ JobKnown /\ [Next]_vars => (TypeOK /\ JobKnown)'
  BY NextType, NextJobKnown
<1>. QED
  BY <1>1, <1>2, PTL DEF Spec

-----------------------------------------------------------------------------
(* What a check of the status does *)

\* A check inside any call ends that call or puts the wait to sleep.
LEMMA CheckDoneCall ==
  ASSUME TypeOK, NEW h \in Handles, CheckDone(h)
  PROVE  /\ call' = [call EXCEPT ![h] = call'[h]]
         /\ call'[h] \in {"idle", "asleep", "asleep_timed"}
         /\ reply' = [reply EXCEPT ![h] = NoReply]
BY DEF CheckDone, AfterCheck, FallAsleep, AsleepAfter, Return, StatusCalls,
       TypeOK, CallTypeOK

LEMMA ExplainsExists ==
  ASSUME NEW s, NEW a, Explains(s, a)
  PROVE  a # "none" /\ s # "CREATED"
BY DEF Explains, ServerTerminal

LEMMA ReceivedExplained == ASSUME NEW a, a # "none" PROVE Explains("SUBMITTED", a)
BY DEF Explains

-----------------------------------------------------------------------------
(* Which calls a handle can be in *)

LEMMA NextLifeInv ==
  ASSUME TypeOK, LifeInv, [Next]_vars
  PROVE  LifeInv'
<1>. USE DEF TypeOK, HandleTypeOK, CallTypeOK, ServerTypeOK, LifeInv, handleVars, cacheVars,
             callVars, serverVars, Return, Send, Request, Idle, SubmitCalls,
             StatusCalls, AsleepCalls, ResultCalls, RetrieveCalls
<1>1. CASE UNCHANGED vars
  BY <1>1 DEF vars
<1>2. ASSUME NEW h \in Handles, CreateJob(h)
      PROVE  LifeInv'
  BY <1>2 DEF CreateJob
<1>3. ASSUME NEW h \in Handles, NEW p \in Params, SetParameter(h, p)
      PROVE  LifeInv'
  BY <1>3 DEF SetParameter
<1>4. ASSUME NEW h \in Handles, NEW n \in 1..MaxPrograms, SetPrograms(h, n)
      PROVE  LifeInv'
  BY <1>4 DEF SetPrograms
<1>5. ASSUME NEW h \in Handles, FreeJob(h)
      PROVE  LifeInv'
  BY <1>5 DEF FreeJob
<1>6. ASSUME NEW h \in Handles, NEW j \in JobIds, RetrieveStart(h, j)
      PROVE  LifeInv'
  BY <1>6 DEF RetrieveStart
<1>7. ASSUME NEW h \in Handles, RetrieveStatusDone(h)
      PROVE  LifeInv'
  BY <1>7, StatusRead DEF RetrieveStatusDone, Discard
<1>8. ASSUME NEW h \in Handles, RetrievePayloadDone(h)
      PROVE  LifeInv'
  BY <1>8 DEF RetrievePayloadDone, Discard
<1>9. ASSUME NEW h \in Handles, SubmitStart(h)
      PROVE  LifeInv'
  BY <1>9 DEF SubmitStart, PostSubmission
<1>10. ASSUME NEW h \in Handles, SubmitCalibrationStart(h)
      PROVE  LifeInv'
  BY <1>10 DEF SubmitCalibrationStart, PostSubmission
<1>11. ASSUME NEW h \in Handles, SubmitDone(h)
      PROVE  LifeInv'
  BY <1>11 DEF SubmitDone, SubmissionRefused
<1>12. ASSUME NEW h \in Handles, CancelStart(h)
      PROVE  LifeInv'
  BY <1>12 DEF CancelStart
<1>13. ASSUME NEW h \in Handles, CancelDone(h)
      PROVE  LifeInv'
  BY <1>13 DEF CancelDone
<1>14. ASSUME NEW h \in Handles, CheckStart(h) \/ QueuePositionStart(h)
      PROVE  LifeInv'
  BY <1>14 DEF CheckStart, QueuePositionStart, Settled
<1>15. ASSUME NEW h \in Handles, NEW c \in {"wait", "wait_timed"}, WaitStart(h, c)
      PROVE  LifeInv'
  BY <1>15 DEF WaitStart, Settled
<1>16. ASSUME NEW h \in Handles, CheckDone(h)
      PROVE  LifeInv'
  BY <1>16, CheckDoneCall DEF CheckDone
<1>17. ASSUME NEW h \in Handles, WaitAgain(h) \/ WaitTimesOut(h)
      PROVE  LifeInv'
  BY <1>17 DEF WaitAgain, WaitTimesOut
<1>18. ASSUME NEW h \in Handles, NEW p \in 1..MaxPrograms, GetCountsStart(h, p) \/ GetShotsStart(h, p)
      PROVE  LifeInv'
  BY <1>18 DEF GetCountsStart, GetShotsStart
<1>19. ASSUME NEW h \in Handles, CountsDone(h)
      PROVE  LifeInv'
  BY <1>19 DEF CountsDone
<1>20. ASSUME NEW h \in Handles, ShotsDone(h)
      PROVE  LifeInv'
  BY <1>20 DEF ShotsDone
<1>21. ASSUME NEW h \in Handles, GetCalibrationIdStart(h)
      PROVE  LifeInv'
  BY <1>21 DEF GetCalibrationIdStart
<1>22. ASSUME NEW h \in Handles, CalibrationIdDone(h)
      PROVE  LifeInv'
  BY <1>22 DEF CalibrationIdDone
<1>23. ASSUME NEW h \in Handles, ServeNothing(h)
      PROVE  LifeInv'
  BY <1>23 DEF ServeNothing
<1>24. ASSUME NEW h \in Handles, ServeSubmit(h)
      PROVE  LifeInv'
  BY <1>24 DEF ServeSubmit, Deliver, Asked
<1>25. ASSUME NEW h \in Handles, ServeCancel(h)
      PROVE  LifeInv'
  BY <1>25 DEF ServeCancel, Deliver, Asked
<1>26. ASSUME NEW h \in Handles, ServeStatus(h)
      PROVE  LifeInv'
  BY <1>26 DEF ServeStatus, Deliver, Asked
<1>27. ASSUME NEW h \in Handles, ServePayload(h)
      PROVE  LifeInv'
  BY <1>27 DEF ServePayload, Deliver, Asked
<1>28. ASSUME NEW h \in Handles, ServeArtifact(h) \/ ServeCalibration(h)
      PROVE  LifeInv'
  BY <1>28 DEF ServeArtifact, ServeCalibration, Deliver, Asked
<1>29. ASSUME NEW j \in JobIds, ServerProgress(j) PROVE LifeInv'
  BY <1>29 DEF ServerProgress
<1>. QED
  BY <1>1, <1>2, <1>3, <1>4, <1>5, <1>6, <1>7, <1>8, <1>9, <1>10, <1>11,
     <1>12, <1>13, <1>14, <1>15, <1>16, <1>17, <1>18, <1>19, <1>20, <1>21,
     <1>22, <1>23, <1>24, <1>25, <1>26, <1>27, <1>28, <1>29
     DEF Next, Starts, Continues, Serve

-----------------------------------------------------------------------------
(* At most one remote job per handle, and none that is lost silently *)

LEMMA NextSubmissionInv ==
  ASSUME TypeOK, JobKnown, LifeInv, SubmissionInv, AtMostOneRemoteJob, [Next]_vars
  PROVE  SubmissionInv'
<1>. USE DEF TypeOK, HandleTypeOK, CallTypeOK, ServerTypeOK, JobKnown, AboutJob, LifeInv,
             SubmissionInv, handleVars, cacheVars, callVars, serverVars, Return,
             Send, Request, Idle, RemoteCalls, SubmitCalls, StatusCalls,
             AsleepCalls, ResultCalls, RetrieveCalls
<1>1. CASE UNCHANGED vars
  BY <1>1 DEF vars
<1>2. ASSUME NEW h \in Handles, CreateJob(h)
      PROVE  SubmissionInv'
  BY <1>2 DEF CreateJob
<1>3. ASSUME NEW h \in Handles, NEW p \in Params, SetParameter(h, p)
      PROVE  SubmissionInv'
  BY <1>3 DEF SetParameter
<1>4. ASSUME NEW h \in Handles, NEW n \in 1..MaxPrograms, SetPrograms(h, n)
      PROVE  SubmissionInv'
  BY <1>4 DEF SetPrograms
<1>5. ASSUME NEW h \in Handles, FreeJob(h)
      PROVE  SubmissionInv'
  BY <1>5 DEF FreeJob
<1>6. ASSUME NEW h \in Handles, NEW j \in JobIds, RetrieveStart(h, j)
      PROVE  SubmissionInv'
  BY <1>6, NoJobAssumption DEF RetrieveStart
<1>7. ASSUME NEW h \in Handles, RetrieveStatusDone(h)
      PROVE  SubmissionInv'
  BY <1>7 DEF RetrieveStatusDone, Discard
<1>8. ASSUME NEW h \in Handles, RetrievePayloadDone(h)
      PROVE  SubmissionInv'
  BY <1>8 DEF RetrievePayloadDone, Discard
<1>9. ASSUME NEW h \in Handles, SubmitStart(h)
      PROVE  SubmissionInv'
  BY <1>9, NoJobAssumption DEF SubmitStart, PostSubmission, Pending
<1>10. ASSUME NEW h \in Handles, SubmitCalibrationStart(h)
      PROVE  SubmissionInv'
  BY <1>10, NoJobAssumption DEF SubmitCalibrationStart, PostSubmission, Pending
<1>11. ASSUME NEW h \in Handles, SubmitDone(h)
      PROVE  SubmissionInv'
  BY <1>11, ReplyRead, NoJobAssumption DEF SubmitDone, SubmissionRefused, AtMostOneRemoteJob, NoReply
<1>12. ASSUME NEW h \in Handles, CancelStart(h)
      PROVE  SubmissionInv'
  BY <1>12 DEF CancelStart
<1>13. ASSUME NEW h \in Handles, CancelDone(h)
      PROVE  SubmissionInv'
  BY <1>13 DEF CancelDone
<1>14. ASSUME NEW h \in Handles, CheckStart(h) \/ QueuePositionStart(h)
      PROVE  SubmissionInv'
  <2>1. /\ UNCHANGED <<handleVars, serverVars>>
        /\ call' = [call EXCEPT ![h] = call'[h]]
        /\ call'[h] \in {"idle", "check", "queue_position"}
        /\ reply' = [reply EXCEPT ![h] = reply'[h]]
        /\ Idle(h)
        /\ call'[h] # "idle" => jobId[h] # NoJob
    BY <1>14 DEF CheckStart, QueuePositionStart, Settled
  <2>. QED
    BY <2>1
<1>15. ASSUME NEW h \in Handles, NEW c \in {"wait", "wait_timed"}, WaitStart(h, c)
      PROVE  SubmissionInv'
  BY <1>15 DEF WaitStart, Settled
<1>16. ASSUME NEW h \in Handles, CheckDone(h)
      PROVE  SubmissionInv'
  <2>1. call[h] \in StatusCalls /\ jobId[h] # NoJob /\ life[h] = "live"
    BY <1>16 DEF CheckDone
  <2>2. /\ status' = [status EXCEPT ![h] = status'[h]]
        /\ status'[h] = status[h] \/ status'[h] # "CREATED"
        /\ UNCHANGED <<life, jobId, creator, rstate>>
    BY <1>16, StatusRead DEF CheckDone
  <2>. QED
    BY <1>16, <2>1, <2>2, CheckDoneCall
<1>17. ASSUME NEW h \in Handles, WaitAgain(h) \/ WaitTimesOut(h)
      PROVE  SubmissionInv'
  BY <1>17 DEF WaitAgain, WaitTimesOut
<1>18. ASSUME NEW h \in Handles, NEW p \in 1..MaxPrograms, GetCountsStart(h, p) \/ GetShotsStart(h, p)
      PROVE  SubmissionInv'
  BY <1>18 DEF GetCountsStart, GetShotsStart
<1>19. ASSUME NEW h \in Handles, CountsDone(h)
      PROVE  SubmissionInv'
  BY <1>19 DEF CountsDone
<1>20. ASSUME NEW h \in Handles, ShotsDone(h)
      PROVE  SubmissionInv'
  BY <1>20 DEF ShotsDone
<1>21. ASSUME NEW h \in Handles, GetCalibrationIdStart(h)
      PROVE  SubmissionInv'
  BY <1>21 DEF GetCalibrationIdStart
<1>22. ASSUME NEW h \in Handles, CalibrationIdDone(h)
      PROVE  SubmissionInv'
  BY <1>22 DEF CalibrationIdDone
<1>23. ASSUME NEW h \in Handles, ServeNothing(h)
      PROVE  SubmissionInv'
  BY <1>23 DEF ServeNothing, Bare, Failures, Pending
<1>24. ASSUME NEW h \in Handles, ServeSubmit(h)
      PROVE  SubmissionInv'
  <2>1. PICK j \in JobIds :
          /\ rstate[j] = "none"
          /\ rstate' = [rstate EXCEPT ![j] = "received"]
          /\ creator' = [creator EXCEPT ![j] = h]
          /\ Deliver(h, IdReply(j))
    BY <1>24 DEF ServeSubmit
  <2>2. /\ reply' = [reply EXCEPT ![h] = reply'[h]]
        /\ reply'[h] # Pending
        /\ reply'[h].body = "id" => reply'[h].id = j
    BY <2>1 DEF Deliver, IdReply, Bare, Failures, Pending
  <2>3. /\ call[h] \in SubmitCalls /\ reply[h] = Pending
        /\ UNCHANGED <<life, status, jobId, call>>
    BY <1>24, <2>1 DEF ServeSubmit, Asked, Deliver
  <2>4. \A k \in JobIds : creator[k] # h
    BY <2>3
  <2>5. j # NoJob /\ h # NoJob
    BY NoJobAssumption
  <2>6. life[h] = "live"
    BY <2>3
  <2>8. \A k \in Handles \ {h} : reply'[k] = reply[k]
    BY <2>2
  <2>9. \A i \in JobIds : rstate'[i] # "none" <=> rstate[i] # "none" \/ i = j
    BY <2>1
  <2>11. \A k \in Handles \ {h} : call[k] \in SubmitCalls /\ reply[k].body = "id" =>
            reply[k].id # j /\ reply[k].id \in JobIds
    BY <2>1, ReplyRead
  <2>. QED
    BY <2>2, <2>3, <2>4, <2>5, <2>6, <2>1, <2>8, <2>9, <2>11
<1>25. ASSUME NEW h \in Handles, ServeCancel(h)
      PROVE  SubmissionInv'
  <2>1. \A i \in JobIds : rstate[i] # "none" => rstate'[i] # "none"
    BY <1>25 DEF ServeCancel
  <2>2. /\ call[h] = "cancel"
        /\ UNCHANGED <<handleVars, call, creator>>
        /\ reply' = [reply EXCEPT ![h] = reply'[h]]
    BY <1>25 DEF ServeCancel, Asked, Deliver
  <2>. QED
    BY <2>1, <2>2, ReplyRead
<1>26. ASSUME NEW h \in Handles, ServeStatus(h)
      PROVE  SubmissionInv'
  BY <1>26 DEF ServeStatus, Deliver, Asked
<1>27. ASSUME NEW h \in Handles, ServePayload(h)
      PROVE  SubmissionInv'
  BY <1>27 DEF ServePayload, Deliver, Asked
<1>28. ASSUME NEW h \in Handles, ServeArtifact(h) \/ ServeCalibration(h)
      PROVE  SubmissionInv'
  BY <1>28 DEF ServeArtifact, ServeCalibration, Deliver, Asked
<1>29. ASSUME NEW j \in JobIds, ServerProgress(j) PROVE SubmissionInv'
  <2>1. \A i \in JobIds : rstate[i] # "none" => rstate'[i] # "none"
    BY <1>29 DEF ServerProgress, ServerTerminal
  <2>. QED
    BY <1>29, <2>1, ReplyRead DEF ServerProgress
<1>. QED
  BY <1>1, <1>2, <1>3, <1>4, <1>5, <1>6, <1>7, <1>8, <1>9, <1>10, <1>11,
     <1>12, <1>13, <1>14, <1>15, <1>16, <1>17, <1>18, <1>19, <1>20, <1>21,
     <1>22, <1>23, <1>24, <1>25, <1>26, <1>27, <1>28, <1>29
     DEF Next, Starts, Continues, Serve

LEMMA NextAtMostOne ==
  ASSUME TypeOK, LifeInv, SubmissionInv, AtMostOneRemoteJob, [Next]_vars
  PROVE  AtMostOneRemoteJob'
<1>1. CASE \E h \in Handles : ServeSubmit(h)
  <2>1. PICK h \in Handles : ServeSubmit(h)
    BY <1>1
  <2>2. PICK j \in JobIds : creator' = [creator EXCEPT ![j] = h]
    BY <2>1 DEF ServeSubmit
  <2>3. \A k \in JobIds : creator[k] # h
    BY <2>1 DEF ServeSubmit, Asked, SubmissionInv
  <2>. QED
    BY <2>2, <2>3 DEF AtMostOneRemoteJob, TypeOK, ServerTypeOK
<1>2. CASE ~ \E h \in Handles : ServeSubmit(h)
  <2>1. creator' = creator
    BY <1>2 DEF Next, Starts, Continues, Serve, vars, serverVars, CreateJob,
       SetParameter, SetPrograms, FreeJob, RetrieveStart, RetrieveStatusDone,
       RetrievePayloadDone, SubmitStart, SubmitCalibrationStart, SubmitDone,
       CancelStart, CancelDone, CheckStart, QueuePositionStart, WaitStart,
       CheckDone, WaitAgain, WaitTimesOut, GetCountsStart, GetShotsStart,
       CountsDone, ShotsDone, GetCalibrationIdStart, CalibrationIdDone,
       ServeNothing, ServeCancel, ServeStatus, ServePayload, ServeArtifact,
       ServeCalibration, ServerProgress
  <2>. QED
    BY <2>1 DEF AtMostOneRemoteJob
<1>. QED
  BY <1>1, <1>2

-----------------------------------------------------------------------------
(* The status of a handle is justified by its remote job *)

Justified(h) == StatusJustified(h) /\ AnswerJustified(h)

StatusInv == \A h \in Handles : Justified(h)

\* A step that leaves a handle alone.
Unmoved(h) ==
  /\ life'[h] = life[h] /\ status'[h] = status[h] /\ jobId'[h] = jobId[h]
  /\ call'[h] = call[h] /\ reply'[h] = reply[h]

\* The moves of a remote job.
Advances(a, b) ==
  \/ a = "none"     /\ b = "received"
  \/ a = "received" /\ b \in {"queued", "failed", "cancelled"}
  \/ a = "queued"   /\ b \in {"running", "failed", "cancelled"}
  \/ a = "running"  /\ b \in ServerTerminal

ServerForward ==
  \A j \in JobIds : rstate'[j] = rstate[j] \/ Advances(rstate[j], rstate'[j])

\* A remote job only moves on: what its status explains, it explains later.
LEMMA ExplainsForward ==
  ASSUME NEW s, NEW a, NEW b, Explains(s, a), Advances(a, b)
  PROVE  Explains(s, b)
BY DEF Explains, Advances, ServerTerminal

LEMMA ForwardExplains ==
  ASSUME ServerForward, NEW s, NEW j \in JobIds, Explains(s, rstate[j])
  PROVE  Explains(s, rstate'[j])
BY ExplainsForward DEF ServerForward

LEMMA UnmovedJustified ==
  ASSUME TypeOK, JobKnown, NEW h \in Handles, Justified(h), Unmoved(h), ServerForward
  PROVE  Justified(h)'
<1>1. jobId[h] # NoJob => jobId[h] \in JobIds
  BY DEF TypeOK, HandleTypeOK
<1>2. StatusJustified(h)'
  BY <1>1, ForwardExplains DEF Justified, StatusJustified, Unmoved
<1>3. call[h] \in StatusCalls \cup RetrieveCalls \cup {"cancel"} => jobId[h] \in JobIds
  BY <1>1 DEF JobKnown, AboutJob, RemoteCalls, StatusCalls, RetrieveCalls, SubmitCalls
<1>4. AnswerJustified(h)'
  <2>1. call[h] = "cancel" /\ Is2xx(reply[h].http) => rstate'[jobId[h]] = "cancelled"
    BY <1>3 DEF Justified, AnswerJustified, ServerForward, Advances
  <2>. QED
    BY <1>3, <2>1, ForwardExplains
       DEF Justified, AnswerJustified, Unmoved, RetrieveCalls
<1>. QED
  BY <1>2, <1>4 DEF Justified

\* So a step is about the handle that takes it.
LEMMA StepJustified ==
  ASSUME TypeOK, JobKnown, StatusInv, NEW h \in Handles, ServerForward,
         \A k \in Handles \ {h} : Unmoved(k),
         Justified(h)'
  PROVE  StatusInv'
BY UnmovedJustified DEF StatusInv

\* A handle that keeps its status and job has to justify no answer yet.
LEMMA QuietJustified ==
  ASSUME TypeOK, StatusInv, NEW h \in Handles,
         life'[h] = life[h], status'[h] = status[h], jobId'[h] = jobId[h],
         rstate' = rstate, reply'[h] \in {NoReply, Pending},
         call'[h] # "retrieve_payload",
         call'[h] = "calibration_id" => status[h] = "DONE"
  PROVE  Justified(h)'
BY DEF StatusInv, Justified, StatusJustified, AnswerJustified, NoReply, Pending,
       Is2xx, TransportError

\* A step of a handle's call moves no other handle.
LEMMA CallStepFrame ==
  ASSUME TypeOK, NEW h \in Handles, CallStep(h)
  PROVE  /\ \A k \in Handles \ {h} : call'[k] = call[k] /\ reply'[k] = reply[k]
         /\ reply'[h] \in {NoReply, Pending}
BY DEF CallStep, Return, Send, FallAsleep, TypeOK, CallTypeOK

LEMMA QuietStatus ==
  ASSUME TypeOK, JobKnown, StatusInv, NEW h \in Handles,
         \/ QuietStart(h)
         \/ \E p \in Params : SetParameter(h, p)
         \/ \E n \in 1..MaxPrograms : SetPrograms(h, n)
         \/ CountsDone(h)
         \/ ShotsDone(h)
  PROVE  StatusInv'
<1>1. UNCHANGED <<life, status, jobId, rstate>>
  <2>1. CASE QuietStart(h)
    BY <2>1, QuietStartStep DEF handleVars, serverVars
  <2>. QED
    BY <2>1 DEF SetParameter, SetPrograms, CountsDone, ShotsDone, serverVars
<1>2. CallStep(h)
  <2>1. CASE QuietStart(h)
    BY <2>1, QuietStartStep
  <2>2. CASE \/ \E p \in Params : SetParameter(h, p)
             \/ \E n \in 1..MaxPrograms : SetPrograms(h, n)
    BY <2>2, KnownCodes DEF SetParameter, SetPrograms, CallStep
  <2>3. CASE CountsDone(h) \/ ShotsDone(h)
    BY <2>3, KnownCodes, KnownCalls, ReplyRead
       DEF CountsDone, ShotsDone, Request, CallStep, Code
  <2>. QED
    BY <2>1, <2>2, <2>3
<1>3. /\ call'[h] # "retrieve_payload"
      /\ call'[h] = "calibration_id" => status[h] = "DONE"
  BY DEF QuietStart, CancelStart, CheckStart, QueuePositionStart, WaitStart,
         WaitAgain, WaitTimesOut, GetCountsStart, GetShotsStart,
         GetCalibrationIdStart, SetParameter, SetPrograms, CountsDone, ShotsDone,
         Request, Send, Return, TypeOK, CallTypeOK
<1>4. Justified(h)'
  BY <1>1, <1>2, <1>3, CallStepFrame, QuietJustified
<1>. QED
  BY <1>1, <1>2, <1>4, CallStepFrame, StepJustified DEF Unmoved, ServerForward

LEMMA LifeStatus ==
  ASSUME TypeOK, JobKnown, LifeInv, StatusInv, NEW h \in Handles,
         CreateJob(h) \/ FreeJob(h) \/ \E j \in JobIds : RetrieveStart(h, j)
  PROVE  StatusInv'
<1>1. /\ \A k \in Handles \ {h} : Unmoved(k)
      /\ ServerForward
  BY DEF CreateJob, FreeJob, RetrieveStart, Send, Return, Unmoved, ServerForward,
         serverVars, TypeOK, HandleTypeOK, CallTypeOK
<1>2. CASE CreateJob(h)
  <2>1. jobId'[h] = NoJob /\ call'[h] = "idle"
    BY <1>2 DEF CreateJob, LifeInv
  <2>. QED
    BY <1>1, <2>1, StepJustified
       DEF Justified, StatusJustified, AnswerJustified, StatusCalls
<1>3. CASE FreeJob(h)
  <2>1. life'[h] = "freed" /\ call'[h] = "idle"
    BY <1>3 DEF FreeJob, Idle, TypeOK, HandleTypeOK
  <2>. QED
    BY <1>1, <2>1, StepJustified
       DEF Justified, StatusJustified, AnswerJustified, StatusCalls
<1>4. ASSUME NEW j \in JobIds, RetrieveStart(h, j)
      PROVE  Justified(h)'
  <2>1. /\ life'[h] \in {"unborn", "retrieving"}
        /\ call'[h] \in {"idle", "retrieve_status"}
        /\ reply'[h] \in {NoReply, Pending}
    BY <1>4 DEF RetrieveStart, Send, Return, TypeOK, HandleTypeOK, CallTypeOK
  <2>. QED
    BY <2>1 DEF Justified, StatusJustified, AnswerJustified, NoReply, Pending
<1>. QED
  BY <1>1, <1>2, <1>3, <1>4, StepJustified

LEMMA RetrieveStatus ==
  ASSUME TypeOK, JobKnown, LifeInv, StatusInv, NEW h \in Handles,
         RetrieveStatusDone(h) \/ RetrievePayloadDone(h)
  PROVE  StatusInv'
<1>1. /\ \A k \in Handles \ {h} : Unmoved(k)
      /\ ServerForward
  BY DEF RetrieveStatusDone, RetrievePayloadDone, Discard, Send, Return, Unmoved,
         ServerForward, serverVars, TypeOK, HandleTypeOK, CallTypeOK
<1>2. ASSUME NEW code, Discard(h, code)
      PROVE  Justified(h)'
  BY <1>2 DEF Discard, Return, Justified, StatusJustified, AnswerJustified,
              StatusCalls, TypeOK, HandleTypeOK, CallTypeOK
<1>3. CASE RetrieveStatusDone(h) /\ \A code : ~Discard(h, code)
  <2>1. /\ reply[h].body = "status" /\ Set_job_status(reply[h].native) # Unknown
        /\ status' = [status EXCEPT ![h] = Set_job_status(reply[h].native)]
        /\ UNCHANGED <<life, jobId, rstate>>
        /\ call[h] = "retrieve_status"
        /\ call'[h] = "retrieve_payload" /\ reply'[h] = Pending
    BY <1>3 DEF RetrieveStatusDone, Send, serverVars, TypeOK, CallTypeOK
  <2>2. life'[h] # "live"
    BY <2>1 DEF LifeInv, RetrieveCalls
  <2>3. Explains(status'[h], rstate'[jobId'[h]])
    BY <2>1 DEF StatusInv, Justified, AnswerJustified, TypeOK, HandleTypeOK
  <2>. QED
    BY <1>1, <2>1, <2>2, <2>3, StepJustified
       DEF Justified, StatusJustified, AnswerJustified, Pending, StatusCalls
<1>4. CASE RetrievePayloadDone(h) /\ \A code : ~Discard(h, code)
  <2>1. /\ UNCHANGED <<status, jobId, rstate>>
        /\ call[h] = "retrieve_payload" /\ call'[h] = "idle"
    BY <1>4 DEF RetrievePayloadDone, Return, serverVars, TypeOK, CallTypeOK
  <2>2. Explains(status'[h], rstate'[jobId'[h]])
    BY <2>1 DEF StatusInv, Justified, AnswerJustified
  <2>. QED
    BY <1>1, <2>1, <2>2, StepJustified
       DEF Justified, StatusJustified, AnswerJustified, StatusCalls
<1>. QED
  BY <1>1, <1>2, <1>3, <1>4, StepJustified

\* Every answer with an id is a 2xx answer.
LEMMA IdSucceeds ==
  ASSUME NEW r \in Replies
  PROVE  /\ r.body \in {"id", "ack", "status", "payload", "calibration"} =>
              Handle_response(r.http) = "SUCCESS"
         /\ Handle_response(r.http) = "SUCCESS" => Is2xx(r.http)
BY ErrorCodesAssumption
   DEF Replies, NoReply, Pending, Refusal, Ack, Bare, Failures, IdReply,
       StatusReply, PayloadReply, CalibrationReply, TransportError,
       Handle_response, Is2xx

LEMMA SubmitStatus ==
  ASSUME TypeOK, JobKnown, LifeInv, SubmissionInv, StatusInv, NEW h \in Handles,
         SubmitStart(h) \/ SubmitCalibrationStart(h) \/ SubmitDone(h)
  PROVE  StatusInv'
<1>1. /\ \A k \in Handles \ {h} : Unmoved(k)
      /\ ServerForward
  BY DEF SubmitStart, SubmitCalibrationStart, SubmitDone, PostSubmission,
         SubmissionRefused, Send, Return, Unmoved, ServerForward, serverVars,
         TypeOK, HandleTypeOK, CallTypeOK
<1>2. CASE SubmitStart(h) \/ SubmitCalibrationStart(h)
  <2>1. /\ UNCHANGED <<life, jobId, rstate>>
        /\ life[h] = "live"
        /\ call'[h] \in SubmitCalls \cup {"idle"}
        /\ status'[h] = status[h] \/ status[h] = "CREATED"
    BY <1>2 DEF SubmitStart, SubmitCalibrationStart, PostSubmission, Send, Return,
                SubmitCalls, Idle, serverVars, TypeOK, HandleTypeOK, CallTypeOK
  <2>2. status[h] = "CREATED" => jobId[h] = NoJob
    BY <2>1 DEF SubmissionInv
  <2>3. StatusJustified(h)'
    BY <2>1, <2>2 DEF StatusInv, Justified, StatusJustified
  <2>. QED
    BY <1>1, <2>1, <2>3, StepJustified
       DEF Justified, AnswerJustified, StatusCalls, SubmitCalls
<1>3. CASE SubmitDone(h)
  <2>1. call[h] \in SubmitCalls /\ jobId[h] = NoJob /\ call'[h] = "idle"
    BY <1>3 DEF SubmitDone, Return, SubmissionInv, TypeOK, CallTypeOK
  <2>2. StatusJustified(h)'
    <3>1. CASE reply[h].body # "id" \/ Code(h) # "SUCCESS"
      <4>1. reply[h].body # "id"
        BY <3>1, IdSucceeds DEF Code, TypeOK, CallTypeOK
      <4>2. jobId'[h] = NoJob
        BY <1>3, <2>1, <4>1 DEF SubmitDone
      <4>. QED
        BY <4>2 DEF StatusJustified
    <3>2. CASE reply[h].body = "id" /\ Code(h) = "SUCCESS"
      <4>1. /\ jobId'[h] = reply[h].id /\ status'[h] = "SUBMITTED"
            /\ rstate' = rstate
        BY <1>3, <3>2 DEF SubmitDone, serverVars, TypeOK, HandleTypeOK
      <4>2. rstate[reply[h].id] # "none"
        BY <2>1, <3>2 DEF SubmissionInv
      <4>. QED
        BY <4>1, <4>2, ReceivedExplained DEF StatusJustified
    <3>. QED
      BY <3>1, <3>2
  <2>. QED
    BY <1>1, <2>1, <2>2, StepJustified DEF Justified, AnswerJustified, StatusCalls
<1>. QED
  BY <1>2, <1>3

LEMMA AnswerStatus ==
  ASSUME TypeOK, JobKnown, LifeInv, StatusInv, NEW h \in Handles,
         CancelDone(h) \/ CheckDone(h) \/ CalibrationIdDone(h)
  PROVE  StatusInv'
<1>1. /\ \A k \in Handles \ {h} : Unmoved(k)
      /\ ServerForward
  <2>1. CASE CheckDone(h)
    BY <2>1, CheckDoneCall
       DEF CheckDone, Unmoved, ServerForward, serverVars, TypeOK, HandleTypeOK, CallTypeOK
  <2>. QED
    BY <2>1 DEF CancelDone, CalibrationIdDone, Return, Unmoved, ServerForward,
                serverVars, TypeOK, HandleTypeOK, CallTypeOK
<1>2. UNCHANGED <<life, jobId, rstate>>
  BY DEF CancelDone, CheckDone, CalibrationIdDone, serverVars
<1>3. AnswerJustified(h)'
  <2>1. call'[h] \in {"idle", "asleep", "asleep_timed"}
    <3>1. CASE CheckDone(h)
      BY <3>1, CheckDoneCall
    <3>. QED
      BY <3>1 DEF CancelDone, CalibrationIdDone, Return, TypeOK, CallTypeOK
  <2>. QED
    BY <2>1 DEF AnswerJustified, StatusCalls
<1>4. CASE CancelDone(h)
  <2>1. CASE Code(h) # "SUCCESS"
    BY <1>1, <1>2, <1>3, <1>4, <2>1, StepJustified
       DEF CancelDone, StatusInv, Justified, StatusJustified
  <2>2. CASE Code(h) = "SUCCESS"
    <3>1. Is2xx(reply[h].http)
      BY <2>2, IdSucceeds DEF Code, TypeOK, CallTypeOK
    <3>2. rstate'[jobId'[h]] = "cancelled" /\ status'[h] = "CANCELED"
      BY <1>2, <1>4, <2>2, <3>1
         DEF CancelDone, StatusInv, Justified, AnswerJustified, TypeOK, HandleTypeOK
    <3>. QED
      BY <1>1, <1>3, <3>2, StepJustified DEF Justified, StatusJustified, Explains
  <2>. QED
    BY <2>1, <2>2
<1>5. CASE CheckDone(h)
  <2>1. CASE status' = status
    BY <1>1, <1>2, <1>3, <2>1, StepJustified DEF StatusInv, Justified, StatusJustified
  <2>2. CASE status' # status
    <3>1. /\ call[h] \in StatusCalls /\ reply[h].body = "status"
          /\ Set_job_status(reply[h].native) # Unknown
          /\ status'[h] = Set_job_status(reply[h].native)
      BY <1>5, <2>2 DEF CheckDone, TypeOK, HandleTypeOK
    <3>2. Explains(status'[h], rstate'[jobId'[h]])
      BY <1>2, <3>1 DEF StatusInv, Justified, AnswerJustified
    <3>. QED
      BY <1>1, <1>3, <3>2, StepJustified DEF Justified, StatusJustified
  <2>. QED
    BY <2>1, <2>2
<1>6. CASE CalibrationIdDone(h)
  <2>1. status'[h] = status[h] \/ (status[h] = "DONE" /\ status'[h] = "FAILED")
    BY <1>6 DEF CalibrationIdDone, StatusInv, Justified, AnswerJustified, TypeOK, HandleTypeOK
  <2>2. StatusJustified(h)'
    BY <1>2, <2>1 DEF StatusInv, Justified, StatusJustified, Explains
  <2>. QED
    BY <1>1, <1>3, <2>2, StepJustified DEF Justified
<1>. QED
  BY <1>4, <1>5, <1>6

\* A check of a native status that the server is in reads a status it explains.
LEMMA ServerStatusExplained ==
  ASSUME NEW a \in ServerStates \ {"none"}
  PROVE  Explains(Set_job_status(a), a)
BY DEF ServerStates, ServerActive, ServerTerminal, Explains, Set_job_status,
       RunningNatives

LEMMA NovelIsUnknown == Set_job_status("novel") = Unknown
BY DEF Set_job_status, RunningNatives, Unknown

\* What the network makes of an answer is the answer, or says less.
LEMMA DeliverFrame ==
  ASSUME TypeOK, NEW h \in Handles, NEW r, Deliver(h, r)
  PROVE  /\ \A k \in Handles \ {h} : reply'[k] = reply[k]
         /\ reply'[h] = r \/ reply'[h].body = "bare"
         /\ Is2xx(reply'[h].http) => Is2xx(r.http)
BY ErrorCodesAssumption
   DEF Deliver, Failures, Bare, Is2xx, TransportError, TypeOK, CallTypeOK

LEMMA ServeStatusInv ==
  ASSUME TypeOK, JobKnown, StatusInv, NEW h \in Handles, Serve(h)
  PROVE  StatusInv'
<1>. USE DEF TypeOK, HandleTypeOK, CallTypeOK, ServerTypeOK, handleVars,
             serverVars, Unmoved
<1>1. CASE ServeNothing(h)
  <2>1. /\ \A k \in Handles \ {h} : Unmoved(k)
        /\ ServerForward
        /\ UNCHANGED <<life, status, jobId, call, rstate>>
        /\ reply'[h].body = "bare" /\ ~Is2xx(reply'[h].http)
    BY <1>1, ErrorCodesAssumption
       DEF ServeNothing, ServerForward, Failures, Bare, Is2xx, TransportError
  <2>. QED
    BY <2>1, StepJustified DEF StatusInv, Justified, StatusJustified, AnswerJustified
<1>2. CASE ServeSubmit(h)
  <2>1. PICK j \in JobIds : /\ rstate[j] = "none"
                            /\ rstate' = [rstate EXCEPT ![j] = "received"]
                            /\ Deliver(h, IdReply(j))
    BY <1>2 DEF ServeSubmit
  <2>2. call[h] \in SubmitCalls
    BY <1>2 DEF ServeSubmit, Asked
  <2>3. UNCHANGED <<life, status, jobId, call>>
    BY <2>1 DEF Deliver
  <2>4. /\ \A k \in Handles \ {h} : Unmoved(k)
        /\ ServerForward
    BY <2>1, <2>3, DeliverFrame DEF ServerForward, Advances
  <2>5. StatusJustified(h)'
    BY <2>3, <2>4, ForwardExplains DEF StatusInv, Justified, StatusJustified
  <2>. QED
    BY <2>2, <2>3, <2>4, <2>5, StepJustified
       DEF Justified, AnswerJustified, SubmitCalls, StatusCalls
<1>3. CASE ServeCancel(h)
  <2>1. /\ call[h] = "cancel"
        /\ UNCHANGED <<life, status, jobId, call>>
        /\ \A k \in Handles \ {h} : reply'[k] = reply[k]
    BY <1>3, DeliverFrame DEF ServeCancel, Asked, Deliver
  <2>2. jobId[h] \in JobIds
    BY <2>1 DEF JobKnown, AboutJob, RemoteCalls, SubmitCalls
  <2>3. ServerForward
    BY <1>3, <2>2 DEF ServeCancel, ServerForward, Advances, ServerActive, ServerTerminal
  <2>4. Is2xx(reply'[h].http) => rstate'[jobId[h]] = "cancelled"
    <3>1. CASE rstate' = [rstate EXCEPT ![jobId[h]] = "cancelled"]
      BY <2>2, <3>1
    <3>2. CASE Deliver(h, Refusal)
      <4>1. ~Is2xx(Refusal.http)
        BY DEF Refusal, Is2xx
      <4>. QED
        BY <3>2, <4>1, DeliverFrame DEF Failures, Bare
    <3>. QED
      BY <1>3, <3>1, <3>2 DEF ServeCancel
  <2>5. StatusJustified(h)'
    BY <2>1, <2>2, <2>3, ForwardExplains DEF StatusInv, Justified, StatusJustified
  <2>. QED
    BY <2>1, <2>3, <2>4, <2>5, StepJustified DEF Justified, AnswerJustified, StatusCalls
<1>4. CASE ServeStatus(h)
  <2>1. PICK n \in {rstate[jobId[h]], "novel"}, p \in BOOLEAN :
          Deliver(h, StatusReply(n, p, rkind[jobId[h]] = "circuit"))
    BY <1>4 DEF ServeStatus
  <2>2. /\ call[h] \in StatusCalls \cup {"retrieve_status"}
        /\ UNCHANGED <<life, status, jobId, call, rstate>>
        /\ rstate[jobId[h]] # "none"
    BY <1>4, <2>1 DEF ServeStatus, Asked, Deliver
  <2>3. jobId[h] \in JobIds
    BY <2>2 DEF JobKnown, AboutJob, RemoteCalls, SubmitCalls, StatusCalls, RetrieveCalls
  <2>4. /\ \A k \in Handles \ {h} : Unmoved(k)
        /\ ServerForward
    BY <2>1, <2>2, DeliverFrame DEF ServerForward
  <2>5. reply'[h].body = "status" => reply'[h].native = n
    BY <2>1, DeliverFrame DEF StatusReply
  <2>6. AnswerJustified(h)'
    BY <2>2, <2>3, <2>5, ServerStatusExplained, NovelIsUnknown
       DEF AnswerJustified, StatusCalls
  <2>. QED
    BY <2>2, <2>4, <2>6, StepJustified DEF StatusInv, Justified, StatusJustified
<1>5. CASE ServePayload(h) \/ ServeArtifact(h) \/ ServeCalibration(h)
  <2>1. /\ call[h] \in ResultCalls \cup {"retrieve_payload"}
        /\ UNCHANGED <<life, status, jobId, call, rstate>>
        /\ \A k \in Handles \ {h} : reply'[k] = reply[k]
    BY <1>5, DeliverFrame
       DEF ServePayload, ServeArtifact, ServeCalibration, Asked, Deliver, ResultCalls
  <2>2. /\ \A k \in Handles \ {h} : Unmoved(k)
        /\ ServerForward
    BY <2>1 DEF ServerForward
  <2>. QED
    BY <2>1, <2>2, StepJustified
       DEF StatusInv, Justified, StatusJustified, AnswerJustified, ResultCalls, StatusCalls
<1>. QED
  BY <1>1, <1>2, <1>3, <1>4, <1>5 DEF Serve

LEMMA ProgressStatus ==
  ASSUME TypeOK, JobKnown, StatusInv, NEW j \in JobIds, ServerProgress(j)
  PROVE  StatusInv'
<1>1. ServerForward
  BY DEF ServerProgress, ServerForward, Advances, TypeOK, ServerTypeOK
<1>2. \A h \in Handles : Unmoved(h)
  BY DEF ServerProgress, Unmoved, handleVars, callVars
<1>. QED
  BY <1>1, <1>2, UnmovedJustified DEF StatusInv

LEMMA NextStatusInv ==
  ASSUME TypeOK, JobKnown, LifeInv, SubmissionInv, StatusInv, [Next]_vars
  PROVE  StatusInv'
<1>1. CASE UNCHANGED vars
  BY <1>1, UnmovedJustified
     DEF vars, handleVars, callVars, serverVars, Unmoved, ServerForward, StatusInv
<1>2. ASSUME NEW h \in Handles, Starts(h) PROVE StatusInv'
  BY <1>2, QuietStatus, LifeStatus, SubmitStatus DEF Starts, QuietStart
<1>3. ASSUME NEW h \in Handles, Continues(h) PROVE StatusInv'
  BY <1>3, QuietStatus, RetrieveStatus, SubmitStatus, AnswerStatus
     DEF Continues, QuietStart
<1>. QED
  BY <1>1, <1>2, <1>3, ServeStatusInv, ProgressStatus DEF Next

-----------------------------------------------------------------------------
(* The theorems *)

LEMMA InitIInv == Init => IInv
<1>1. Init => LifeInv /\ SubmissionInv /\ AtMostOneRemoteJob
  BY NoJobAssumption
     DEF Init, LifeInv, SubmissionInv, AtMostOneRemoteJob, SubmitCalls, RetrieveCalls
<1>2. Init => AnswersInv /\ StatusFollowsServer
  BY DEF Init, AnswersInv, AnswerJustified, StatusFollowsServer, StatusJustified,
         StatusCalls
<1>. QED
  BY <1>1, <1>2, InitType, InitJobKnown DEF IInv

LEMMA NextIInv == IInv /\ [Next]_vars => IInv'
<1>. SUFFICES ASSUME IInv, [Next]_vars PROVE IInv'
  OBVIOUS
<1>. USE DEF IInv
<1>1. StatusInv
  BY DEF StatusInv, Justified, AnswersInv, StatusFollowsServer
<1>2. StatusInv'
  BY <1>1, NextStatusInv
<1>3. AnswersInv' /\ StatusFollowsServer'
  BY <1>2 DEF StatusInv, Justified, AnswersInv, StatusFollowsServer
<1>. QED
  BY <1>3, NextType, NextJobKnown, NextLifeInv, NextSubmissionInv, NextAtMostOne

\* The invariant behind the theorems below is inductive.
THEOREM Invariance == Spec => []IInv
BY InitIInv, NextIInv, PTL DEF Spec

\* However often submit is called and whatever answers are lost, a handle
\* creates at most one job on the IQM Server (submit_circuit and
\* submit_calibration mark the handle FAILED before they send anything).
THEOREM SubmitsAtMostOnce == Spec => []AtMostOneRemoteJob
<1>1. IInv => AtMostOneRemoteJob
  BY DEF IInv
<1>. QED
  BY <1>1, Invariance, PTL

\* A remote job never disappears silently: its handle has its id, or is FAILED.
THEOREM ReportsLostSubmissions == Spec => []LostSubmissionReported
<1>1. IInv => LostSubmissionReported
  BY DEF IInv, SubmissionInv, LostSubmissionReported, Idle
<1>. QED
  BY <1>1, Invariance, PTL

\* The status a handle with a job id reports is one its remote job justifies,
\* whatever other handles, the job itself and the network do meanwhile.
THEOREM StatusIsJustified == Spec => []StatusFollowsServer
<1>1. IInv => StatusFollowsServer
  BY DEF IInv
<1>. QED
  BY <1>1, Invariance, PTL

=============================================================================
