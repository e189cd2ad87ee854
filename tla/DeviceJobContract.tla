------------------------- MODULE DeviceJobContract -------------------------
(***************************************************************************)
(* What a caller may rely on, proved for any number of handles and remote  *)
(* jobs: that the results of a handle are those of its programs and of its *)
(* remote job, that a failed request leaves the handle as it was, and that *)
(* the device implements JobLifecycle.                                     *)
(***************************************************************************)
EXTENDS DeviceJobRefinement, DeviceJobProofs

-----------------------------------------------------------------------------
(* What a step leaves alone *)

\* A remote job that exists keeps its kind and its request, and stays completed.
ServerKeeps ==
  \A j \in JobIds : rstate[j] # "none" =>
    /\ rstate'[j] # "none"
    /\ rstate[j] = "completed" => rstate'[j] = "completed"
    /\ rkind'[j] = rkind[j]
    /\ rrequest'[j] = rrequest[j]

\* A step that leaves a handle alone, its request and its results included.
Still(h) ==
  /\ Unmoved(h)
  /\ request'[h] = request[h]
  /\ counts'[h] = counts[h] /\ measured'[h] = measured[h] /\ calId'[h] = calId[h]

HandleStep(h) == Starts(h) \/ Continues(h)

\* Handles do not touch remote jobs but through the server.
LEMMA HandleStepServer ==
  ASSUME NEW h \in Handles, HandleStep(h)
  PROVE  UNCHANGED serverVars
<1>1. CASE QuietStart(h)
  BY <1>1, QuietStartStep
<1>. QED
  BY <1>1 DEF HandleStep, Starts, Continues, QuietStart, CreateJob, SetParameter,
       SetPrograms, FreeJob, RetrieveStart, RetrieveStatusDone, RetrievePayloadDone,
       SubmitStart, SubmitCalibrationStart, SubmitDone, CancelDone, CheckDone,
       CountsDone, ShotsDone, CalibrationIdDone

LEMMA NextServerKeeps ==
  ASSUME TypeOK, JobKnown, [Next]_vars
  PROVE  ServerKeeps
<1>. USE DEF TypeOK, ServerTypeOK
<1>1. CASE UNCHANGED serverVars
  BY <1>1 DEF ServerKeeps, serverVars
<1>2. ASSUME NEW h \in Handles, Serve(h) PROVE ServerKeeps
  <2>1. CASE ServeSubmit(h)
    BY <2>1 DEF ServeSubmit, ServerKeeps
  <2>2. CASE ServeCancel(h)
    <3>1. jobId[h] \in JobIds
      BY <2>2 DEF ServeCancel, Asked, JobKnown, AboutJob, RemoteCalls, SubmitCalls,
                  HandleTypeOK
    <3>. QED
      BY <2>2, <3>1 DEF ServeCancel, ServerKeeps, ServerActive
  <2>. QED
    BY <1>1, <1>2, <2>1, <2>2
       DEF Serve, ServeNothing, ServeStatus, ServePayload, ServeArtifact,
           ServeCalibration
<1>3. ASSUME NEW j \in JobIds, ServerProgress(j) PROVE ServerKeeps
  BY <1>3 DEF ServerProgress, ServerKeeps, ServerTerminal
<1>. QED
  BY <1>1, <1>2, <1>3, HandleStepServer DEF Next, HandleStep, vars

LEMMA QuietStartStill ==
  ASSUME TypeOK, NEW h \in Handles, QuietStart(h)
  PROVE  \A k \in Handles \ {h} : Still(k)
BY QuietStartStep, CallStepFrame DEF Still, Unmoved, handleVars, cacheVars

\* A step of one handle leaves all others alone.
LEMMA OthersStill ==
  ASSUME TypeOK, NEW h \in Handles, HandleStep(h) \/ Serve(h)
  PROVE  \A k \in Handles \ {h} : Still(k)
<1>. USE DEF TypeOK, HandleTypeOK, CallTypeOK, Still, Unmoved, cacheVars, handleVars
<1>1. CASE QuietStart(h)
  BY <1>1, QuietStartStill
<1>2. CASE CreateJob(h) \/ FreeJob(h)
  BY <1>2 DEF CreateJob, FreeJob
<1>3. ASSUME NEW p \in Params, SetParameter(h, p) PROVE \A k \in Handles \ {h} : Still(k)
  BY <1>3 DEF SetParameter, Return
<1>4. ASSUME NEW n \in 1..MaxPrograms, SetPrograms(h, n)
      PROVE  \A k \in Handles \ {h} : Still(k)
  BY <1>4 DEF SetPrograms, Return
<1>5. ASSUME NEW j \in JobIds, RetrieveStart(h, j)
      PROVE  \A k \in Handles \ {h} : Still(k)
  BY <1>5 DEF RetrieveStart, Send, Return
<1>6. CASE RetrieveStatusDone(h)
  BY <1>6 DEF RetrieveStatusDone, Discard, Send, Return
<1>7. CASE RetrievePayloadDone(h)
  BY <1>7 DEF RetrievePayloadDone, Discard, Return
<1>8. CASE SubmitStart(h) \/ SubmitCalibrationStart(h)
  BY <1>8 DEF SubmitStart, SubmitCalibrationStart, PostSubmission, Send, Return
<1>9. CASE SubmitDone(h)
  BY <1>9 DEF SubmitDone, SubmissionRefused, Return
<1>10. CASE CancelDone(h)
  BY <1>10 DEF CancelDone, Return
<1>11. CASE CheckDone(h)
  BY <1>11, CheckDoneCall DEF CheckDone
<1>12. CASE CountsDone(h)
  BY <1>12 DEF CountsDone, Request, Send, Return
<1>13. CASE ShotsDone(h)
  BY <1>13 DEF ShotsDone, Return
<1>14. CASE CalibrationIdDone(h)
  BY <1>14 DEF CalibrationIdDone, Return
<1>15. CASE Serve(h)
  <2>1. CASE ServeNothing(h)
    BY <2>1 DEF ServeNothing, Deliver
  <2>2. CASE ServeSubmit(h) \/ ServeCancel(h)
    BY <2>2 DEF ServeSubmit, ServeCancel, Deliver
  <2>3. CASE ServeStatus(h) \/ ServePayload(h)
    BY <2>3 DEF ServeStatus, ServePayload, Deliver
  <2>4. CASE ServeArtifact(h) \/ ServeCalibration(h)
    BY <2>4 DEF ServeArtifact, ServeCalibration, Deliver
  <2>. QED
    BY <1>15, <2>1, <2>2, <2>3, <2>4, Zenon DEF Serve
<1>. QED
  BY <1>1, <1>2, <1>3, <1>4, <1>5, <1>6, <1>7, <1>8, <1>9, <1>10, <1>11, <1>12,
     <1>13, <1>14, <1>15 DEF HandleStep, Starts, Continues, QuietStart

-----------------------------------------------------------------------------
(* Results match requests *)

\* The job a handle has is one that exists.
LEMMA JobExists ==
  ASSUME IInv, NEW h \in Handles, life[h] = "live", jobId[h] # NoJob
  PROVE  jobId[h] \in JobIds /\ rstate[jobId[h]] # "none"
BY ExplainsExists
   DEF IInv, TypeOK, HandleTypeOK, StatusFollowsServer, StatusJustified

LEMMA RetrievedJobExists ==
  ASSUME IInv, NEW h \in Handles, call[h] = "retrieve_payload"
  PROVE  jobId[h] \in JobIds /\ rstate[jobId[h]] # "none"
BY ExplainsExists
   DEF IInv, TypeOK, HandleTypeOK, AnswersInv, AnswerJustified, JobKnown, AboutJob,
       RemoteCalls, SubmitCalls, RetrieveCalls

LEMMA CreatedJobExists ==
  ASSUME IInv, NEW h \in Handles, call[h] \in SubmitCalls, reply[h].body = "id"
  PROVE  reply[h].id \in JobIds /\ rstate[reply[h].id] # "none"
BY ReplyRead DEF IInv, SubmissionInv

LEMMA StillMatches ==
  ASSUME IInv, ServerKeeps, NEW h \in Handles, RequestMatches(h), Still(h)
  PROVE  RequestMatches(h)'
BY JobExists, RetrievedJobExists, CreatedJobExists
   DEF RequestMatches, Still, Unmoved, ServerKeeps

LEMMA StepMatches ==
  ASSUME IInv, RequestInv, [Next]_vars, NEW h \in Handles,
         HandleStep(h) \/ Serve(h), RequestMatches(h)'
  PROVE  RequestInv'
<1>1. ServerKeeps
  BY NextServerKeeps DEF IInv
<1>. QED
  BY <1>1, OthersStill, StillMatches DEF IInv, RequestInv

\* A step that keeps the handle's job and request, while no answer is at hand.
LEMMA QuietMatches ==
  ASSUME RequestInv, NEW h \in Handles,
         life'[h] = life[h], jobId'[h] = jobId[h], request'[h] = request[h],
         rrequest' = rrequest, reply'[h] \in {NoReply, Pending}
  PROVE  RequestMatches(h)'
BY DEF RequestInv, RequestMatches, NoReply, Pending

LEMMA HandleStepMatches ==
  ASSUME IInv, RequestInv, NEW h \in Handles, HandleStep(h)
  PROVE  RequestMatches(h)'
<1>. USE DEF IInv, TypeOK, HandleTypeOK, CallTypeOK
<1>1. UNCHANGED serverVars
  BY HandleStepServer
<1>. USE <1>1 DEF serverVars
<1>2. CASE QuietStart(h)
  BY <1>2, QuietStartStep, CallStepFrame, QuietMatches DEF handleVars
<1>3. CASE CreateJob(h) \/ FreeJob(h)
  BY <1>3 DEF CreateJob, FreeJob, Idle, RequestMatches, LifeInv, SubmitCalls
<1>4. CASE \/ \E p \in Params : SetParameter(h, p)
           \/ \E n \in 1..MaxPrograms : SetPrograms(h, n)
  <2>1. /\ UNCHANGED <<life, jobId>> /\ life[h] = "live" /\ call'[h] = "idle"
        /\ request'[h] = request[h] \/ jobId[h] = NoJob
    BY <1>4 DEF SetParameter, SetPrograms, Return, Idle, Configurable, SubmissionInv
  <2>. QED
    BY <2>1 DEF RequestInv, RequestMatches, SubmitCalls
<1>5. ASSUME NEW j \in JobIds, RetrieveStart(h, j) PROVE RequestMatches(h)'
  BY <1>5 DEF RetrieveStart, Send, Return, RequestMatches, SubmitCalls
<1>6. CASE RetrieveStatusDone(h)
  <2>1. life'[h] # "live" /\ call'[h] \in {"idle", "retrieve_payload"}
        /\ reply'[h] \in {NoReply, Pending}
    BY <1>6 DEF RetrieveStatusDone, Discard, Send, Return, LifeInv, RetrieveCalls
  <2>. QED
    BY <2>1 DEF RequestMatches, SubmitCalls, NoReply, Pending
<1>7. CASE RetrievePayloadDone(h)
  BY <1>7 DEF RetrievePayloadDone, Discard, Return, RequestInv, RequestMatches, SubmitCalls
<1>8. CASE SubmitStart(h) \/ SubmitCalibrationStart(h)
  <2>1. UNCHANGED <<life, jobId, request>> /\ reply'[h] \in {NoReply, Pending}
    BY <1>8 DEF SubmitStart, SubmitCalibrationStart, PostSubmission, Send, Return
  <2>. QED
    BY <2>1, QuietMatches
<1>9. CASE SubmitDone(h)
  BY <1>9 DEF SubmitDone, Return, RequestInv, RequestMatches, SubmitCalls
<1>10. CASE CheckDone(h)
  BY <1>10, CheckDoneCall, QuietMatches DEF CheckDone
<1>11. CASE CancelDone(h) \/ ShotsDone(h) \/ CalibrationIdDone(h)
  BY <1>11, QuietMatches DEF CancelDone, ShotsDone, CalibrationIdDone, Return
<1>12. CASE CountsDone(h)
  BY <1>12, QuietMatches DEF CountsDone, Request, Send, Return
<1>. QED
  BY <1>2, <1>3, <1>4, <1>5, <1>6, <1>7, <1>8, <1>9, <1>10, <1>11, <1>12
     DEF HandleStep, Starts, Continues, QuietStart

LEMMA ServeMatches ==
  ASSUME IInv, RequestInv, NEW h \in Handles, Serve(h)
  PROVE  RequestMatches(h)'
<1>. USE DEF IInv, TypeOK, HandleTypeOK, CallTypeOK, ServerTypeOK, serverVars, handleVars
<1>1. CASE ServeNothing(h)
  <2>1. UNCHANGED <<life, jobId, request, rrequest>> /\ reply'[h].body = "bare"
    BY <1>1 DEF ServeNothing, Failures, Bare
  <2>. QED
    BY <2>1 DEF RequestInv, RequestMatches
<1>2. CASE ServeSubmit(h)
  <2>1. PICK j \in JobIds : /\ rrequest' = [rrequest EXCEPT ![j] = request[h]]
                            /\ Deliver(h, IdReply(j))
    BY <1>2 DEF ServeSubmit
  <2>2. /\ UNCHANGED <<life, jobId, request, call>> /\ call[h] \in SubmitCalls
        /\ reply'[h].body = "id" => reply'[h].id = j
    <3>1. UNCHANGED <<life, jobId, request, call>>
      BY <2>1 DEF Deliver
    <3>2. reply'[h].body = "id" => reply'[h] = IdReply(j)
      BY <2>1, DeliverFrame
    <3>. QED
      BY <1>2, <3>1, <3>2 DEF ServeSubmit, Asked, IdReply
  <2>3. jobId[h] = NoJob
    BY <2>2 DEF SubmissionInv
  <2>. QED
    BY <2>1, <2>2, <2>3 DEF RequestMatches, SubmitCalls
<1>3. CASE ServePayload(h)
  <2>1. /\ UNCHANGED <<life, jobId, request, call, rrequest>>
        /\ call[h] = "retrieve_payload"
        /\ reply'[h].body = "payload" => reply'[h].request = rrequest[jobId[h]]
    <3>1. Deliver(h, PayloadReply(rrequest[jobId[h]]))
      BY <1>3 DEF ServePayload
    <3>2. UNCHANGED <<life, jobId, request, call>>
      BY <3>1 DEF Deliver
    <3>3. reply'[h].body = "payload" => reply'[h] = PayloadReply(rrequest[jobId[h]])
      BY <3>1, DeliverFrame
    <3>. QED
      BY <1>3, <3>2, <3>3 DEF ServePayload, Asked, PayloadReply
  <2>. QED
    BY <2>1 DEF RequestInv, RequestMatches, SubmitCalls
<1>4. CASE ServeCancel(h) \/ ServeStatus(h) \/ ServeArtifact(h) \/ ServeCalibration(h)
  <2>1. /\ UNCHANGED <<life, jobId, request, call, rrequest>>
        /\ call[h] \notin SubmitCalls \cup {"retrieve_payload"}
    BY <1>4 DEF ServeCancel, ServeStatus, ServeArtifact, ServeCalibration, Asked,
                Deliver, SubmitCalls, StatusCalls
  <2>. QED
    BY <2>1 DEF RequestInv, RequestMatches
<1>. QED
  BY <1>1, <1>2, <1>3, <1>4 DEF Serve

LEMMA NextRequestInv ==
  ASSUME IInv, RequestInv, [Next]_vars
  PROVE  RequestInv'
<1>1. ASSUME NEW j \in JobIds, ServerProgress(j) PROVE RequestInv'
  BY <1>1 DEF ServerProgress, handleVars, callVars, RequestInv, RequestMatches
<1>2. CASE UNCHANGED vars
  BY <1>2 DEF vars, handleVars, callVars, serverVars, RequestInv, RequestMatches
<1>. QED
  BY <1>1, <1>2, HandleStepMatches, ServeMatches, StepMatches DEF Next, HandleStep

\* The programs and parameters of a handle are those of its remote job, whether the
\* handle submitted the job or retrieved it (submit_circuit, submit_calibration,
\* retrieve_job_by_id), so that results are read against the right programs.
THEOREM MatchesRequest == Spec => []ResultsMatchRequest
<1>1. Init => RequestInv
  BY DEF Init, RequestInv, RequestMatches, SubmitCalls
<1>2. IInv /\ RequestInv /\ [Next]_vars => RequestInv'
  BY NextRequestInv
<1>3. RequestInv => ResultsMatchRequest
  BY DEF RequestInv, RequestMatches, ResultsMatchRequest
<1>. QED
  BY <1>1, <1>2, <1>3, Invariance, PTL DEF Spec

-----------------------------------------------------------------------------
(* Caches match jobs *)

Suits(h) == CacheSuits(h) /\ DownloadSuits(h)

\* A handle downloads only from a job that is completed, and asks for a calibration
\* set id only when its job is.
LEMMA DownloadsFromCompleted ==
  ASSUME IInv, CacheInv, NEW h \in Handles, call[h] \in Downloads \cup {"calibration_id"}
  PROVE  /\ life[h] = "live"
         /\ jobId[h] \in JobIds /\ jobId[h] # NoJob
         /\ rstate[jobId[h]] = "completed"
<1>1. life[h] = "live"
  BY DEF IInv, TypeOK, HandleTypeOK, LifeInv, Downloads, RetrieveCalls
<1>2. jobId[h] # NoJob
  BY DEF IInv, JobKnown, AboutJob, RemoteCalls, ResultCalls, SubmitCalls, Downloads
<1>3. status[h] = "DONE"
  BY DEF IInv, AnswersInv, AnswerJustified, CacheInv, DownloadSuits
<1>. QED
  BY <1>1, <1>2, <1>3 DEF IInv, TypeOK, HandleTypeOK, StatusFollowsServer,
     StatusJustified, Explains

LEMMA StillSuits ==
  ASSUME IInv, CacheInv, ServerKeeps, NEW h \in Handles, Still(h)
  PROVE  Suits(h)'
<1>. USE DEF CacheInv, Still, Unmoved
<1>1. jobId[h] # NoJob => jobId[h] \in JobIds
  BY DEF IInv, TypeOK, HandleTypeOK
<1>2. calId[h] => jobId[h] \in JobIds /\ rstate[jobId[h]] # "none"
  BY JobExists DEF CacheSuits, DownloadSuits
<1>3. CacheSuits(h)'
  BY <1>1, <1>2 DEF CacheSuits, ServerKeeps, Programs
<1>4. DownloadSuits(h)'
  BY DownloadsFromCompleted DEF DownloadSuits, ServerKeeps
<1>. QED
  BY <1>3, <1>4 DEF Suits

LEMMA StepSuits ==
  ASSUME IInv, CacheInv, [Next]_vars, NEW h \in Handles,
         HandleStep(h) \/ Serve(h), Suits(h)'
  PROVE  CacheInv'
<1>1. ServerKeeps
  BY NextServerKeeps DEF IInv
<1>2. \A k \in Handles \ {h} : Suits(k)'
  BY <1>1, OthersStill, StillSuits DEF IInv
<1>. QED
  BY <1>2 DEF CacheInv, Suits

\* A step that keeps the handle, its caches and its job, while no answer is at hand.
LEMMA QuietSuits ==
  ASSUME CacheInv, NEW h \in Handles,
         life'[h] = life[h], jobId'[h] = jobId[h], Programs(h)' = Programs(h),
         counts'[h] = counts[h], measured'[h] = measured[h], calId'[h] = calId[h],
         UNCHANGED <<rstate, rkind>>, reply'[h] \in {NoReply, Pending},
         call'[h] \in Downloads => status'[h] = "DONE",
         call'[h] = "shots" => counts[h] = Programs(h)
  PROVE  Suits(h)'
BY DEF CacheInv, CacheSuits, DownloadSuits, Suits, NoReply, Pending

\* A handle that has no caches and downloads nothing.
LEMMA EmptySuits ==
  ASSUME NEW h \in Handles, counts'[h] = {}, measured'[h] = {}, ~calId'[h],
         call'[h] \notin Downloads \cup {"calibration_id"}
  PROVE  Suits(h)'
BY DEF CacheSuits, DownloadSuits, Suits, Downloads

LEMMA QuietStartSuits ==
  ASSUME IInv, CacheInv, NEW h \in Handles, QuietStart(h)
  PROVE  Suits(h)'
<1>. USE DEF IInv, TypeOK, HandleTypeOK, CallTypeOK
<1>1. UNCHANGED <<handleVars, serverVars>> /\ reply'[h] \in {NoReply, Pending}
  BY QuietStartStep, CallStepFrame
<1>2. /\ call'[h] \in Downloads => status[h] = "DONE"
      /\ call'[h] = "shots" => counts[h] = Programs(h)
  <2>1. ASSUME NEW p \in 1..MaxPrograms, GetCountsStart(h, p) \/ GetShotsStart(h, p)
        PROVE  /\ call'[h] # "idle" => status[h] = "DONE"
               /\ call'[h] = "shots" => p \in counts[h]
    BY <2>1 DEF GetCountsStart, GetShotsStart, Request, Send, Return
  <2>2. counts[h] # {} => counts[h] = Programs(h)
    BY DEF CacheInv, CacheSuits
  <2>3. CASE ~ \E p \in 1..MaxPrograms : GetCountsStart(h, p) \/ GetShotsStart(h, p)
    BY <2>3 DEF QuietStart, CancelStart, CheckStart, QueuePositionStart, WaitStart,
                WaitAgain, WaitTimesOut, GetCalibrationIdStart, Request, Send, Return,
                Downloads
  <2>. QED
    BY <2>1, <2>2, <2>3 DEF Downloads
<1>. QED
  BY <1>1, <1>2, QuietSuits DEF handleVars, cacheVars, serverVars, Programs

LEMMA DownloadDoneSuits ==
  ASSUME IInv, CacheInv, NEW h \in Handles,
         CountsDone(h) \/ ShotsDone(h) \/ CalibrationIdDone(h)
  PROVE  Suits(h)'
<1>. USE DEF IInv, TypeOK, HandleTypeOK, CallTypeOK
<1>1. /\ life[h] = "live" /\ jobId[h] # NoJob /\ rstate[jobId[h]] = "completed"
  BY DownloadsFromCompleted DEF CountsDone, ShotsDone, CalibrationIdDone, Downloads
<1>2. UNCHANGED <<life, jobId, rstate, rkind>> /\ Programs(h)' = Programs(h)
  BY DEF CountsDone, ShotsDone, CalibrationIdDone, serverVars, Programs
<1>3. CASE CountsDone(h)
  <2>1. /\ UNCHANGED <<status, measured, calId>>
        /\ call[h] \in Downloads /\ call'[h] \in {"idle", "shots"}
        /\ reply'[h] \in {NoReply, Pending}
    BY <1>3 DEF CountsDone, Request, Send, Return, Downloads
  <2>2. \/ counts'[h] = counts[h] /\ call'[h] = "idle"
        \/ counts'[h] = Programs(h) /\ reply[h].body = "ack"
    BY <1>3 DEF CountsDone, Return, Commit
  <2>3. CacheSuits(h)'
    BY <1>1, <1>2, <2>1, <2>2 DEF CacheInv, CacheSuits, DownloadSuits
  <2>4. DownloadSuits(h)'
    BY <1>1, <1>2, <2>1 DEF CacheInv, DownloadSuits, NoReply, Pending
  <2>. QED
    BY <2>3, <2>4 DEF Suits
<1>4. CASE ShotsDone(h)
  <2>1. /\ UNCHANGED <<counts, calId>> /\ call[h] = "shots" /\ call'[h] = "idle"
        /\ measured'[h] \in {measured[h], Programs(h)}
    BY <1>4 DEF ShotsDone, Return, Commit
  <2>2. CacheSuits(h)'
    BY <1>2, <2>1 DEF CacheInv, CacheSuits
  <2>3. DownloadSuits(h)'
    BY <1>1, <1>2, <2>1 DEF DownloadSuits, Downloads
  <2>. QED
    BY <2>2, <2>3 DEF Suits
<1>5. CASE CalibrationIdDone(h)
  <2>1. /\ UNCHANGED <<counts, measured>>
        /\ call[h] = "calibration_id" /\ call'[h] = "idle"
        /\ calId'[h] = calId[h] \/ reply[h].body = "calibration"
    BY <1>5 DEF CalibrationIdDone, Return
  <2>2. CacheSuits(h)'
    BY <1>1, <1>2, <2>1 DEF CacheInv, CacheSuits, DownloadSuits
  <2>3. DownloadSuits(h)'
    BY <1>1, <1>2, <2>1 DEF DownloadSuits, Downloads
  <2>. QED
    BY <2>2, <2>3 DEF Suits
<1>. QED
  BY <1>3, <1>4, <1>5

LEMMA HandleStepSuits ==
  ASSUME IInv, CacheInv, NEW h \in Handles, HandleStep(h)
  PROVE  Suits(h)'
<1>. USE DEF IInv, TypeOK, HandleTypeOK, CallTypeOK
<1>1. UNCHANGED serverVars
  BY HandleStepServer
<1>2. jobId[h] = NoJob => counts[h] = {} /\ measured[h] = {} /\ ~calId[h]
  BY DEF CacheInv, CacheSuits
<1>3. CASE CreateJob(h) \/ FreeJob(h)
  <2>1. counts'[h] = {} /\ measured'[h] = {} /\ ~calId'[h] /\ call'[h] = "idle"
    BY <1>2, <1>3 DEF CreateJob, FreeJob, Idle, LifeInv, cacheVars
  <2>. QED
    BY <2>1, EmptySuits DEF Downloads
<1>4. ASSUME NEW p \in Params, SetParameter(h, p) PROVE Suits(h)'
  <2>1. Programs(h)' = Programs(h)
    BY <1>4 DEF SetParameter, Programs, Requests
  <2>. QED
    BY <1>1, <1>4, <2>1, QuietSuits
       DEF SetParameter, Return, cacheVars, serverVars, Downloads
<1>5. ASSUME NEW n \in 1..MaxPrograms, SetPrograms(h, n) PROVE Suits(h)'
  <2>1. call'[h] = "idle" /\ life[h] = "live" /\ UNCHANGED <<life, status, jobId, calId>>
    BY <1>5 DEF SetPrograms, Return, Idle
  <2>2. CASE UNCHANGED <<request, counts, measured>>
    BY <1>1, <1>5, <2>1, <2>2, QuietSuits
       DEF SetPrograms, Return, serverVars, Downloads, Programs
  <2>3. CASE ~ UNCHANGED <<request, counts, measured>>
    <3>1. counts'[h] = {} /\ measured'[h] = {} /\ status[h] = "CREATED"
      BY <1>5, <2>3 DEF SetPrograms, Configurable
    <3>2. ~calId[h]
      BY <1>2, <2>1, <3>1 DEF SubmissionInv
    <3>. QED
      BY <2>1, <3>1, <3>2, EmptySuits DEF Downloads
  <2>. QED
    BY <2>2, <2>3
<1>6. CASE \/ \E j \in JobIds : RetrieveStart(h, j)
           \/ RetrieveStatusDone(h) \/ RetrievePayloadDone(h)
  <2>1. /\ life[h] # "live" /\ UNCHANGED cacheVars
        /\ call'[h] \in {"idle", "retrieve_status", "retrieve_payload"}
    BY <1>6 DEF RetrieveStart, RetrieveStatusDone, RetrievePayloadDone, Discard, Send,
                Return, LifeInv, RetrieveCalls
  <2>. QED
    BY <2>1, EmptySuits DEF CacheInv, DownloadSuits, cacheVars, Downloads
<1>7. CASE SubmitStart(h) \/ SubmitCalibrationStart(h)
  <2>1. /\ UNCHANGED <<life, jobId, request, cacheVars>>
        /\ call'[h] \in {"idle", "submit", "submit_calibration"}
        /\ reply'[h] \in {NoReply, Pending}
    BY <1>7 DEF SubmitStart, SubmitCalibrationStart, PostSubmission, Send, Return
  <2>. QED
    BY <1>1, <2>1, QuietSuits DEF cacheVars, serverVars, Programs, Downloads
<1>8. CASE SubmitDone(h)
  <2>1. UNCHANGED cacheVars /\ call'[h] = "idle" /\ jobId[h] = NoJob
    BY <1>8 DEF SubmitDone, Return, SubmissionInv
  <2>. QED
    BY <1>2, <2>1, EmptySuits DEF cacheVars, Downloads
<1>9. CASE CancelDone(h)
  BY <1>1, <1>9, QuietSuits DEF CancelDone, Return, cacheVars, serverVars, Programs, Downloads
<1>10. CASE CheckDone(h)
  BY <1>1, <1>10, CheckDoneCall, QuietSuits
     DEF CheckDone, cacheVars, serverVars, Programs, Downloads
<1>. QED
  BY <1>3, <1>4, <1>5, <1>6, <1>7, <1>8, <1>9, <1>10, QuietStartSuits, DownloadDoneSuits
     DEF HandleStep, Starts, Continues, QuietStart

LEMMA ServeSuits ==
  ASSUME IInv, CacheInv, ServerKeeps, NEW h \in Handles, Serve(h)
  PROVE  Suits(h)'
<1>. USE DEF IInv, TypeOK, HandleTypeOK, CallTypeOK, handleVars, cacheVars
<1>1. UNCHANGED <<handleVars, call>>
  BY DEF Serve, ServeNothing, ServeSubmit, ServeCancel, ServeStatus, ServePayload,
         ServeArtifact, ServeCalibration, Deliver
<1>2. CacheSuits(h)'
  <2>1. jobId[h] # NoJob => jobId[h] \in JobIds
    OBVIOUS
  <2>2. calId[h] => jobId[h] \in JobIds /\ rstate[jobId[h]] # "none"
    BY JobExists DEF CacheInv, CacheSuits, DownloadSuits
  <2>. QED
    BY <1>1, <2>1, <2>2 DEF CacheInv, CacheSuits, ServerKeeps, Programs
<1>3. /\ life'[h] # "live" => counts'[h] = {} /\ measured'[h] = {} /\ ~calId'[h]
      /\ call'[h] \in Downloads => status'[h] = "DONE"
  BY <1>1 DEF CacheInv, DownloadSuits
<1>4. /\ call[h] \in Downloads /\ reply'[h].body = "ack" => rkind[jobId[h]] = "circuit"
      /\ call[h] = "calibration_id" /\ reply'[h].body = "calibration" =>
           rkind[jobId[h]] = "calibration"
  <2>1. CASE ServeNothing(h)
    BY <2>1 DEF ServeNothing, Failures, Bare
  <2>2. CASE ServeSubmit(h) \/ ServeCancel(h) \/ ServeStatus(h) \/ ServePayload(h)
    BY <2>2 DEF ServeSubmit, ServeCancel, ServeStatus, ServePayload, Asked, SubmitCalls,
                StatusCalls, Downloads
  <2>3. CASE ServeArtifact(h)
    BY <2>3 DEF ServeArtifact, Asked, Downloads
  <2>4. CASE ServeCalibration(h)
    BY <2>4 DEF ServeCalibration, Asked, Downloads
  <2>. QED
    BY <2>1, <2>2, <2>3, <2>4 DEF Serve
<1>5. call[h] \in Downloads \cup {"calibration_id"} => rkind'[jobId[h]] = rkind[jobId[h]]
  BY DownloadsFromCompleted DEF ServerKeeps
<1>. QED
  BY <1>1, <1>2, <1>3, <1>4, <1>5 DEF Suits, DownloadSuits

LEMMA NextCacheInv ==
  ASSUME IInv, CacheInv, [Next]_vars
  PROVE  CacheInv'
<1>1. ServerKeeps
  BY NextServerKeeps DEF IInv
<1>2. CASE \/ \E j \in JobIds : ServerProgress(j)
           \/ UNCHANGED vars
  <2>1. \A h \in Handles : Still(h)
    BY <1>2 DEF ServerProgress, vars, handleVars, cacheVars, callVars, Still, Unmoved
  <2>. QED
    BY <1>1, <2>1, StillSuits DEF CacheInv, Suits
<1>. QED
  BY <1>1, <1>2, HandleStepSuits, ServeSuits, StepSuits DEF Next, HandleStep

\* Cached results are complete, of the handle's own job, and from a job that is
\* completed (results_hist, results_shots and the calibration set id), and a shots
\* download finds the histograms of all programs.
THEOREM CachesMatchJob == Spec => []CacheMatchesJob
<1>1. Init => CacheInv
  BY DEF Init, CacheInv, CacheSuits, DownloadSuits, Downloads
<1>2. IInv /\ CacheInv /\ [Next]_vars => CacheInv'
  BY NextCacheInv
<1>3. CacheInv => CacheMatchesJob
  BY DEF CacheInv, CacheMatchesJob
<1>. QED
  BY <1>1, <1>2, <1>3, Invariance, PTL DEF Spec

-----------------------------------------------------------------------------
(* Failed requests *)

\* A handle whose call has failed does nothing but return.
LEMMA FailedCallReturns ==
  ASSUME IInv, NEW h \in Handles, HandleStep(h)
  PROVE  FailureKeepsHandle(h)
<1>. SUFFICES ASSUME call[h] \in Repeatable, Code(h) # "SUCCESS"
              PROVE  /\ status'[h] = status[h] /\ jobId'[h] = jobId[h]
                     /\ counts'[h] = counts[h] /\ measured'[h] = measured[h]
  BY DEF FailureKeepsHandle
<1>. USE DEF Repeatable, RemoteCalls, SubmitCalls, StatusCalls, ResultCalls,
             RetrieveCalls, AsleepCalls
<1>1. call[h] # "idle" /\ life[h] # "unborn" /\ ~Idle(h)
  BY DEF IInv, LifeInv, Idle
<1>2. reply[h].body \notin {"ack", "status"}
  BY IdSucceeds DEF IInv, TypeOK, CallTypeOK, Code
<1>3. CancelDone(h) \/ CheckDone(h) \/ CountsDone(h) \/ ShotsDone(h)
  BY <1>1 DEF HandleStep, Starts, Continues, CreateJob, SetParameter, SetPrograms, FreeJob,
       RetrieveStart, RetrieveStatusDone, RetrievePayloadDone, SubmitStart,
       SubmitCalibrationStart, SubmitDone, CancelStart, CheckStart, QueuePositionStart,
       WaitStart, WaitAgain, WaitTimesOut, GetCountsStart, GetShotsStart,
       GetCalibrationIdStart, CalibrationIdDone
<1>. QED
  BY <1>2, <1>3 DEF CancelDone, CheckDone, CountsDone, ShotsDone, cacheVars

LEMMA NextKeepsHandle ==
  ASSUME IInv, [Next]_vars, NEW h \in Handles
  PROVE  FailureKeepsHandle(h)
<1>1. CASE \/ \E j \in JobIds : ServerProgress(j)
           \/ \E k \in Handles : Serve(k)
           \/ UNCHANGED vars
  BY <1>1 DEF ServerProgress, Serve, ServeNothing, ServeSubmit, ServeCancel, ServeStatus,
              ServePayload, ServeArtifact, ServeCalibration, Deliver, vars, handleVars,
              cacheVars, FailureKeepsHandle
<1>2. ASSUME NEW k \in Handles \ {h}, HandleStep(k)
      PROVE  FailureKeepsHandle(h)
  BY <1>2, OthersStill DEF IInv, Still, Unmoved, FailureKeepsHandle
<1>. QED
  BY <1>1, <1>2, FailedCallReturns DEF Next, HandleStep

\* A check, wait, cancellation or download of results whose request fails leaves
\* status, job and caches of the handle as they were, so that it can be repeated.
THEOREM FailedRequestsKeepHandles == Spec => FailedRequestKeepsHandle
<1>1. IInv /\ [Next]_vars => [\A h \in Handles : FailureKeepsHandle(h)]_vars
  BY NextKeepsHandle
<1>. QED
  BY <1>1, Invariance, PTL DEF Spec, FailedRequestKeepsHandle

-----------------------------------------------------------------------------
(* Checks only move a handle forward *)

LEMMA Ranks ==
  /\ Lifecycle!Rank("SUBMITTED") = 1 /\ Lifecycle!Rank("QUEUED") = 2
  /\ Lifecycle!Rank("RUNNING") = 3
  /\ \A s \in Terminal : Lifecycle!Rank(s) = 4
BY DEF Lifecycle!Rank, Lifecycle!Outcomes, Terminal

\* How the statuses of the server are read.
LEMMA ServerStatusRead ==
  /\ Set_job_status("received") = "SUBMITTED" /\ Set_job_status("queued") = "QUEUED"
  /\ Set_job_status("running") = "RUNNING"
  /\ \A a \in ServerTerminal : Set_job_status(a) \in Terminal
BY DEF Set_job_status, RunningNatives, ServerTerminal, Terminal

\* A job that has come further than a status is read as one that ranks no lower.
LEMMA ExplainedRank ==
  ASSUME NEW a \in ServerStates \ {"none"}, NEW s \in QdmiStatuses \ Terminal,
         Explains(s, a)
  PROVE  Lifecycle!Rank(Set_job_status(a)) >= Lifecycle!Rank(s)
<1>1. s \in {"SUBMITTED", "QUEUED", "RUNNING"}
  BY DEF QdmiStatuses, Explains, Terminal
<1>2. CASE a \in ServerTerminal
  BY <1>1, <1>2, Ranks, ServerStatusRead
<1>3. CASE a \in ServerActive
  BY <1>1, <1>3, Ranks, ServerStatusRead DEF ServerActive, Explains, ServerTerminal
<1>. QED
  BY <1>2, <1>3 DEF ServerStates

LEMMA StepChecks ==
  ASSUME IInv, ChecksInv, NEW h \in Handles, HandleStep(h) \/ Serve(h), ChecksAhead(h)'
  PROVE  ChecksInv'
BY OthersStill DEF IInv, ChecksInv, ChecksAhead, Still, Unmoved

LEMMA QuietStartChecks ==
  ASSUME IInv, ChecksInv, NEW h \in Handles, QuietStart(h)
  PROVE  ChecksAhead(h)'
<1>. USE DEF IInv, TypeOK, HandleTypeOK, CallTypeOK
<1>1. status' = status /\ reply'[h] \in {NoReply, Pending}
  BY QuietStartStep, CallStepFrame DEF handleVars
<1>2. CASE CheckStart(h) \/ QueuePositionStart(h)
  <2>1. call'[h] # "idle" => ~Settled(h)
    BY <1>2 DEF CheckStart, QueuePositionStart, Return
  <2>. QED
    BY <1>1, <2>1 DEF ChecksAhead, Settled, NoReply, Pending, StatusCalls, AsleepCalls
<1>3. ASSUME NEW c \in {"wait", "wait_timed"}, WaitStart(h, c)
      PROVE  ChecksAhead(h)'
  <2>1. call'[h] # "idle" => ~Settled(h)
    BY <1>3 DEF WaitStart, Return
  <2>. QED
    BY <1>1, <2>1 DEF ChecksAhead, Settled, NoReply, Pending, StatusCalls, AsleepCalls
<1>4. CASE WaitAgain(h) \/ WaitTimesOut(h)
  <2>1. status[h] \notin Terminal
    BY <1>4 DEF WaitAgain, WaitTimesOut, ChecksInv, ChecksAhead, AsleepCalls
  <2>. QED
    BY <1>1, <2>1 DEF ChecksAhead, NoReply, Pending
<1>5. CASE \/ CancelStart(h) \/ GetCalibrationIdStart(h)
           \/ \E p \in 1..MaxPrograms : GetCountsStart(h, p) \/ GetShotsStart(h, p)
  <2>1. call'[h] \in {"idle", "cancel", "calibration_id", "counts", "shots_counts", "shots"}
    BY <1>5 DEF CancelStart, GetCalibrationIdStart, GetCountsStart, GetShotsStart, Request,
                Send, Return
  <2>. QED
    BY <2>1 DEF ChecksAhead, StatusCalls, AsleepCalls
<1>. QED
  BY <1>2, <1>3, <1>4, <1>5, Zenon DEF QuietStart

LEMMA HandleStepChecks ==
  ASSUME IInv, ChecksInv, NEW h \in Handles, HandleStep(h)
  PROVE  ChecksAhead(h)'
<1>. USE DEF IInv, TypeOK, HandleTypeOK, CallTypeOK
<1>1. CASE CheckDone(h)
  <2>1. call'[h] \in AsleepCalls => status'[h] \notin Terminal
    BY <1>1 DEF CheckDone, AfterCheck, Return, StatusCalls, AsleepCalls,
                IQM_QDMI_device_job_done
  <2>. QED
    BY <1>1, <2>1, CheckDoneCall DEF ChecksAhead, StatusCalls, AsleepCalls
<1>2. CASE ~QuietStart(h) /\ ~CheckDone(h)
  <2>1. call'[h] \in {"idle", "retrieve_status", "retrieve_payload", "submit",
                      "submit_calibration", "shots"}
    BY <1>2 DEF HandleStep, Starts, Continues, QuietStart, CreateJob, SetParameter,
       SetPrograms, FreeJob, RetrieveStart, RetrieveStatusDone, RetrievePayloadDone, Discard,
       SubmitStart, SubmitCalibrationStart, PostSubmission, SubmitDone, CancelDone,
       CountsDone, ShotsDone, CalibrationIdDone, Request, Send, Return, Idle, LifeInv
  <2>. QED
    BY <2>1 DEF ChecksAhead, StatusCalls, AsleepCalls
<1>. QED
  BY <1>1, <1>2, QuietStartChecks

LEMMA ServeChecks ==
  ASSUME IInv, ChecksInv, NEW h \in Handles, Serve(h)
  PROVE  ChecksAhead(h)'
<1>. USE DEF IInv, TypeOK, HandleTypeOK, CallTypeOK, ServerTypeOK, handleVars
<1>1. UNCHANGED <<call, status>>
  BY DEF Serve, ServeNothing, ServeSubmit, ServeCancel, ServeStatus, ServePayload,
         ServeArtifact, ServeCalibration, Deliver
<1>2. CASE ServeNothing(h)
  BY <1>1, <1>2 DEF ServeNothing, Failures, Bare, ChecksInv, ChecksAhead
<1>3. CASE ServeStatus(h)
  <2>1. PICK n \in {rstate[jobId[h]], "novel"}, p \in BOOLEAN :
          Deliver(h, StatusReply(n, p, rkind[jobId[h]] = "circuit"))
    BY <1>3 DEF ServeStatus
  <2>2. reply'[h].body = "status" => reply'[h].native = n
    BY <2>1, DeliverFrame DEF StatusReply
  <2>3. CASE call[h] \in StatusCalls
    <3>1. life[h] = "live"
      BY <2>3 DEF LifeInv, StatusCalls, RetrieveCalls
    <3>2. jobId[h] # NoJob /\ status[h] \notin Terminal
      BY <2>3 DEF JobKnown, AboutJob, RemoteCalls, StatusCalls, SubmitCalls, ChecksInv, ChecksAhead
    <3>3. rstate[jobId[h]] \in ServerStates \ {"none"}
      BY <3>1, <3>2, JobExists
    <3>4. Explains(status[h], rstate[jobId[h]])
      BY <3>1, <3>2 DEF StatusFollowsServer, StatusJustified
    <3>5. Lifecycle!Rank(Set_job_status(rstate[jobId[h]])) >= Lifecycle!Rank(status[h])
      BY <3>2, <3>3, <3>4, ExplainedRank
    <3>. QED
      BY <1>1, <2>2, <3>2, <3>5, NovelIsUnknown DEF ChecksAhead
  <2>4. CASE call[h] \notin StatusCalls
    BY <1>1, <2>4 DEF ChecksInv, ChecksAhead
  <2>. QED
    BY <2>3, <2>4
<1>4. CASE ServeSubmit(h) \/ ServeCancel(h) \/ ServePayload(h) \/ ServeArtifact(h)
           \/ ServeCalibration(h)
  <2>1. call[h] \notin StatusCalls
    BY <1>4 DEF ServeSubmit, ServeCancel, ServePayload, ServeArtifact, ServeCalibration,
                Asked, SubmitCalls, StatusCalls
  <2>. QED
    BY <1>1, <2>1 DEF ChecksInv, ChecksAhead
<1>. QED
  BY <1>2, <1>3, <1>4 DEF Serve

LEMMA NextChecksInv ==
  ASSUME IInv, ChecksInv, [Next]_vars
  PROVE  ChecksInv'
<1>1. CASE \/ \E j \in JobIds : ServerProgress(j)
           \/ UNCHANGED vars
  BY <1>1 DEF ServerProgress, vars, handleVars, callVars, ChecksInv, ChecksAhead
<1>. QED
  BY <1>1, HandleStepChecks, ServeChecks, StepChecks DEF Next, HandleStep

-----------------------------------------------------------------------------
(* The device implements JobLifecycle *)

\* The phase a handle is in, before a step and after it.
LEMMA PhaseBefore ==
  ASSUME NEW h \in Handles
  PROVE  /\ life[h] \in {"unborn", "retrieving"} => phaseBar[h] = "none"
         /\ life[h] = "freed" => phaseBar[h] = "freed"
         /\ life[h] = "live" /\ call[h] \in SubmitCalls => phaseBar[h] = "SUBMITTING"
         /\ life[h] = "live" /\ call[h] \notin SubmitCalls => phaseBar[h] = status[h]
<1>1. phaseBar[h] = PhaseOf(h)
  BY DEF phaseBar
<1>. QED
  BY <1>1 DEF PhaseOf

LEMMA PhaseAfter ==
  ASSUME NEW h \in Handles
  PROVE  /\ life'[h] \in {"unborn", "retrieving"} => phaseBar'[h] = "none"
         /\ life'[h] = "freed" => phaseBar'[h] = "freed"
         /\ life'[h] = "live" /\ call'[h] \in SubmitCalls => phaseBar'[h] = "SUBMITTING"
         /\ life'[h] = "live" /\ call'[h] \notin SubmitCalls => phaseBar'[h] = status'[h]
<1>1. phaseBar'[h] = PhaseOf(h)'
  BY DEF phaseBar
<1>. QED
  BY <1>1 DEF PhaseOf

LEMMA PhaseOfOthers ==
  ASSUME NEW h \in Handles, \A k \in Handles \ {h} : Still(k)
  PROVE  Lifecycle!Become(h, phaseBar'[h])
<1>1. \A k \in Handles \ {h} : phaseBar'[k] = phaseBar[k]
  BY DEF Still, Unmoved, phaseBar, PhaseOf
<1>2. phaseBar = [k \in Handles |-> phaseBar[k]] /\ phaseBar' = [k \in Handles |-> phaseBar'[k]]
  BY DEF phaseBar
<1>. QED
  BY <1>1, <1>2 DEF Lifecycle!Become

\* A step of a handle that the lifecycle does not see.
LEMMA Invisible ==
  ASSUME NEW h \in Handles, Lifecycle!Become(h, phaseBar[h]), UNCHANGED acceptedBar
  PROVE  UNCHANGED Lifecycle!vars
<1>1. phaseBar = [k \in Handles |-> phaseBar[k]]
  BY DEF phaseBar
<1>. QED
  BY <1>1 DEF Lifecycle!Become, Lifecycle!vars

LifecycleStep == [Lifecycle!Next]_(Lifecycle!vars)

LEMMA HandleStepImplements ==
  ASSUME IInv, ChecksInv, NEW h \in Handles, HandleStep(h)
  PROVE  LifecycleStep
<1>. USE DEF IInv, TypeOK, HandleTypeOK, CallTypeOK
<1>1. Lifecycle!Become(h, phaseBar'[h])
  BY OthersStill, PhaseOfOthers
<1>2. UNCHANGED acceptedBar
  BY HandleStepServer DEF serverVars, acceptedBar
<1>3. phaseBar'[h] = phaseBar[h] => LifecycleStep
  BY <1>1, <1>2, Invisible DEF LifecycleStep
<1>4. Lifecycle!Step(h) => LifecycleStep
  BY DEF LifecycleStep, Lifecycle!Next
<1>5. \A s \in Lifecycle!Remote :
        /\ phaseBar[h] \in Lifecycle!Remote /\ phaseBar'[h] = s
        /\ Lifecycle!Rank(s) > Lifecycle!Rank(phaseBar[h])
        => LifecycleStep
  BY <1>1, <1>2, <1>4 DEF Lifecycle!Step, Lifecycle!Observe
<1>6. Lifecycle!Remote = QdmiStatuses \ {"CREATED"}
  BY DEF Lifecycle!Remote, Lifecycle!Outcomes, QdmiStatuses, Terminal
<1>7. CASE \/ QuietStart(h) \/ CountsDone(h) \/ ShotsDone(h)
           \/ \E p \in Params : SetParameter(h, p)
           \/ \E n \in 1..MaxPrograms : SetPrograms(h, n)
  <2>1. UNCHANGED <<life, status>>
    BY <1>7, QuietStartStep DEF CountsDone, ShotsDone, SetParameter, SetPrograms, handleVars
  <2>2. call[h] \notin SubmitCalls /\ call'[h] \notin SubmitCalls
    BY <1>7 DEF QuietStart, CancelStart, CheckStart, QueuePositionStart, WaitStart, WaitAgain,
       WaitTimesOut, GetCountsStart, GetShotsStart, GetCalibrationIdStart, CountsDone,
       ShotsDone, SetParameter, SetPrograms, Request, Send, Return, Idle, AsleepCalls,
       SubmitCalls
  <2>3. phaseBar'[h] = phaseBar[h]
    BY <2>1, <2>2, PhaseBefore, PhaseAfter
  <2>. QED
    BY <1>3, <2>3
<1>8. CASE CreateJob(h)
  <2>1. phaseBar[h] = "none" /\ phaseBar'[h] = "CREATED"
    BY <1>8, PhaseBefore, PhaseAfter DEF CreateJob, LifeInv, SubmitCalls
  <2>. QED
    BY <1>1, <1>2, <1>4, <2>1 DEF Lifecycle!Step, Lifecycle!Create
<1>9. CASE FreeJob(h)
  <2>1. phaseBar[h] = status[h] /\ phaseBar'[h] = "freed"
    BY <1>9, PhaseBefore, PhaseAfter DEF FreeJob, Idle, SubmitCalls
  <2>. QED
    BY <1>1, <1>2, <1>4, <1>6, <2>1 DEF Lifecycle!Step, Lifecycle!Free
<1>10. CASE (\E j \in JobIds : RetrieveStart(h, j)) \/ RetrieveStatusDone(h)
  <2>1. life[h] \in {"unborn", "retrieving"} /\ life'[h] \in {"unborn", "retrieving"}
    BY <1>10 DEF RetrieveStart, RetrieveStatusDone, Discard, LifeInv, RetrieveCalls
  <2>. QED
    BY <1>3, <2>1, PhaseBefore, PhaseAfter
<1>11. CASE RetrievePayloadDone(h)
  <2>1. life[h] = "retrieving" /\ status[h] # "CREATED"
    BY <1>11 DEF RetrievePayloadDone, LifeInv, RetrieveCalls
  <2>2. CASE life'[h] = "unborn"
    BY <1>3, <2>1, <2>2, PhaseBefore, PhaseAfter
  <2>3. CASE life'[h] # "unborn"
    <3>1. life'[h] = "live" /\ call'[h] = "idle" /\ status'[h] = status[h]
      BY <1>11, <2>3 DEF RetrievePayloadDone, Discard, Return
    <3>2. phaseBar[h] = "none" /\ phaseBar'[h] \in Lifecycle!Remote
      BY <1>6, <2>1, <3>1, PhaseBefore, PhaseAfter DEF SubmitCalls
    <3>. QED
      BY <1>1, <1>2, <1>4, <3>2 DEF Lifecycle!Step, Lifecycle!Retrieve
  <2>. QED
    BY <2>2, <2>3
<1>12. CASE SubmitStart(h) \/ SubmitCalibrationStart(h)
  <2>1. life[h] = "live" /\ life'[h] = "live" /\ call[h] = "idle"
    BY <1>12 DEF SubmitStart, SubmitCalibrationStart, Idle
  <2>2. \/ call'[h] = "idle" /\ status'[h] = status[h]
        \/ call'[h] \in SubmitCalls /\ status[h] = "CREATED"
    BY <1>12 DEF SubmitStart, SubmitCalibrationStart, PostSubmission, Send, Return, SubmitCalls
  <2>3. \/ phaseBar'[h] = phaseBar[h]
        \/ phaseBar[h] = "CREATED" /\ phaseBar'[h] = "SUBMITTING"
    BY <2>1, <2>2, PhaseBefore, PhaseAfter DEF SubmitCalls
  <2>. QED
    BY <1>1, <1>2, <1>3, <1>4, <2>3 DEF Lifecycle!Step, Lifecycle!Submit
<1>13. CASE SubmitDone(h)
  <2>1. /\ life[h] = "live" /\ life'[h] = "live"
        /\ call[h] \in SubmitCalls /\ call'[h] = "idle" /\ status[h] = "FAILED"
    BY <1>13 DEF SubmitDone, Return, LifeInv, SubmissionInv, RetrieveCalls, SubmitCalls
  <2>2. \/ status'[h] = "FAILED"
        \/ status'[h] = "SUBMITTED" /\ reply[h].body = "id"
    BY <1>13, <2>1 DEF SubmitDone, SubmissionRefused
  <2>3. reply[h].body = "id" => acceptedBar[h]
    BY <2>1, ReplyRead DEF SubmissionInv, acceptedBar
  <2>4. phaseBar[h] = "SUBMITTING" /\ phaseBar'[h] = status'[h]
    BY <2>1, PhaseBefore, PhaseAfter DEF SubmitCalls
  <2>. QED
    BY <1>1, <1>2, <1>4, <2>2, <2>3, <2>4 DEF Lifecycle!Step, Lifecycle!Report
<1>14. CASE CancelDone(h) \/ CheckDone(h) \/ CalibrationIdDone(h)
  <2>1. /\ life[h] = "live" /\ life'[h] = "live" /\ jobId[h] # NoJob
        /\ call[h] \notin SubmitCalls
    BY <1>14 DEF CancelDone, CheckDone, CalibrationIdDone, StatusCalls, LifeInv, RetrieveCalls,
                 JobKnown, AboutJob, RemoteCalls, ResultCalls, SubmitCalls
  <2>2. call'[h] \notin SubmitCalls
    <3>1. CASE CheckDone(h)
      BY <3>1, CheckDoneCall DEF SubmitCalls
    <3>. QED
      BY <1>14, <3>1 DEF CancelDone, CalibrationIdDone, Return, SubmitCalls
  <2>3. phaseBar[h] = status[h] /\ phaseBar'[h] = status'[h]
    BY <2>1, <2>2, PhaseBefore, PhaseAfter
  <2>4. Explains(status[h], rstate[jobId[h]])
    BY <2>1 DEF StatusFollowsServer, StatusJustified
  <2>5. status[h] \in Lifecycle!Remote
    BY <1>6, <2>4, ExplainsExists
  <2>6. CASE status'[h] = status[h]
    BY <1>3, <2>3, <2>6
  <2>7. CASE CancelDone(h) /\ status'[h] # status[h]
    <3>1. Is2xx(reply[h].http) /\ status'[h] = "CANCELED"
      BY <2>7, IdSucceeds DEF CancelDone, Code
    <3>2. rstate[jobId[h]] = "cancelled"
      BY <2>7, <3>1 DEF CancelDone, AnswersInv, AnswerJustified
    <3>3. status[h] \in {"SUBMITTED", "QUEUED", "RUNNING"}
      BY <2>4, <2>5, <2>7, <3>1, <3>2, <1>6 DEF Explains, QdmiStatuses, Terminal
    <3>. QED
      BY <1>5, <1>6, <2>3, <2>5, <3>1, <3>3, Ranks DEF QdmiStatuses, Terminal
  <2>8. CASE CheckDone(h) /\ status'[h] # status[h]
    <3>1. /\ call[h] \in StatusCalls /\ reply[h].body = "status"
          /\ Set_job_status(reply[h].native) # Unknown
          /\ status'[h] = Set_job_status(reply[h].native)
      BY <2>8 DEF CheckDone
    <3>2. status[h] \notin Terminal /\ Lifecycle!Rank(status'[h]) >= Lifecycle!Rank(status[h])
      BY <3>1 DEF ChecksInv, ChecksAhead
    <3>3. status'[h] \in Lifecycle!Remote
      BY <1>6, <3>1, StatusRead
    <3>4. Lifecycle!Rank(status'[h]) > Lifecycle!Rank(status[h])
      BY <1>6, <2>5, <2>8, <3>2, <3>3, Ranks DEF QdmiStatuses, Terminal
    <3>. QED
      BY <1>5, <2>3, <2>5, <3>3, <3>4
  <2>9. CASE CalibrationIdDone(h) /\ status'[h] # status[h]
    <3>1. status[h] = "DONE" /\ status'[h] = "FAILED"
      BY <2>9 DEF CalibrationIdDone, AnswersInv, AnswerJustified
    <3>. QED
      BY <1>1, <1>2, <1>4, <2>3, <3>1 DEF Lifecycle!Step, Lifecycle!Invalidate
  <2>. QED
    BY <1>14, <2>6, <2>7, <2>8, <2>9
<1>. QED
  BY <1>7, <1>8, <1>9, <1>10, <1>11, <1>12, <1>13, <1>14
     DEF HandleStep, Starts, Continues, QuietStart

LEMMA ServeImplements ==
  ASSUME IInv, CreatedInv, NEW h \in Handles, Serve(h)
  PROVE  LifecycleStep
<1>. USE DEF IInv, TypeOK, HandleTypeOK, CallTypeOK, ServerTypeOK, handleVars
<1>1. UNCHANGED <<life, status, call>>
  BY DEF Serve, ServeNothing, ServeSubmit, ServeCancel, ServeStatus, ServePayload,
         ServeArtifact, ServeCalibration, Deliver
<1>2. UNCHANGED phaseBar
  BY <1>1 DEF phaseBar, PhaseOf
<1>3. CASE ServeSubmit(h)
  <2>1. PICK j \in JobIds : rstate[j] = "none" /\ creator' = [creator EXCEPT ![j] = h]
    BY <1>3 DEF ServeSubmit
  <2>2. call[h] \in SubmitCalls /\ reply[h] = Pending
    BY <1>3 DEF ServeSubmit, Asked
  <2>3. phaseBar[h] = "SUBMITTING"
    BY <2>2, PhaseBefore DEF LifeInv, RetrieveCalls, SubmitCalls
  <2>4. ~acceptedBar[h]
    BY <2>2 DEF SubmissionInv, acceptedBar
  <2>5. acceptedBar' = [acceptedBar EXCEPT ![h] = TRUE]
    <3>1. creator[j] \notin Handles
      BY <2>1, NoJobAssumption DEF CreatedInv
    <3>2. \A k \in Handles :
            (\E i \in JobIds : creator'[i] = k) <=> k = h \/ \E i \in JobIds : creator[i] = k
      BY <2>1, <3>1
    <3>. QED
      BY <3>2 DEF acceptedBar
  <2>. QED
    BY <1>2, <2>3, <2>4, <2>5
       DEF LifecycleStep, Lifecycle!Next, Lifecycle!Step, Lifecycle!Accept
<1>4. CASE ~ServeSubmit(h)
  <2>1. UNCHANGED acceptedBar
    BY <1>4 DEF Serve, ServeNothing, ServeCancel, ServeStatus, ServePayload, ServeArtifact,
                ServeCalibration, serverVars, acceptedBar
  <2>. QED
    BY <1>2, <2>1 DEF LifecycleStep, Lifecycle!vars
<1>. QED
  BY <1>3, <1>4

LEMMA NextCreatedInv ==
  ASSUME TypeOK, JobKnown, CreatedInv, [Next]_vars
  PROVE  CreatedInv'
<1>1. ServerKeeps
  BY NextServerKeeps
<1>2. ASSUME NEW h \in Handles, ServeSubmit(h)
      PROVE  CreatedInv'
  BY <1>2 DEF ServeSubmit, CreatedInv, TypeOK, ServerTypeOK
<1>3. CASE ~ \E h \in Handles : ServeSubmit(h)
  <2>1. creator' = creator
    BY <1>3, HandleStepServer DEF Next, HandleStep, Serve, vars, serverVars, ServeNothing,
       ServeCancel, ServeStatus, ServePayload, ServeArtifact, ServeCalibration, ServerProgress
  <2>. QED
    BY <1>1, <2>1 DEF CreatedInv, ServerKeeps
<1>. QED
  BY <1>2, <1>3

LEMMA NextImplements ==
  ASSUME IInv, ChecksInv, CreatedInv, [Next]_vars
  PROVE  LifecycleStep
<1>1. CASE \/ \E j \in JobIds : ServerProgress(j)
           \/ UNCHANGED vars
  BY <1>1 DEF ServerProgress, vars, handleVars, callVars, serverVars, phaseBar, PhaseOf,
              acceptedBar, LifecycleStep, Lifecycle!vars
<1>. QED
  BY <1>1, HandleStepImplements, ServeImplements DEF Next, HandleStep

\* The device implements JobLifecycle: a handle goes through its phases in order,
\* terminal outcomes are final but for a calibration that turns out to have failed,
\* and the server accepts at most one job from it, only while it is submitting.
THEOREM KeepsLifecycle == Spec => ImplementsLifecycle
<1>1. Init => Lifecycle!Init
  <2>. SUFFICES ASSUME Init
                PROVE  Lifecycle!Init
    OBVIOUS
  <2>1. phaseBar = [h \in Handles |-> "none"]
    BY DEF Init, phaseBar, PhaseOf
  <2>2. acceptedBar = [h \in Handles |-> FALSE]
    BY NoJobAssumption DEF Init, acceptedBar
  <2>. QED
    BY <2>1, <2>2 DEF Lifecycle!Init
<1>2. Init => ChecksInv /\ CreatedInv
  BY DEF Init, ChecksInv, ChecksAhead, CreatedInv, StatusCalls, AsleepCalls
<1>3. IInv /\ ChecksInv /\ [Next]_vars => ChecksInv'
  BY NextChecksInv
<1>4. IInv /\ CreatedInv /\ [Next]_vars => CreatedInv'
  BY NextCreatedInv DEF IInv
<1>5. IInv /\ ChecksInv /\ CreatedInv /\ [Next]_vars => [Lifecycle!Next]_(Lifecycle!vars)
  BY NextImplements DEF LifecycleStep
<1>. QED
  BY <1>1, <1>2, <1>3, <1>4, <1>5, Invariance, PTL DEF Spec, ImplementsLifecycle, Lifecycle!Spec

=============================================================================
