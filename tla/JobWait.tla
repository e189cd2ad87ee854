------------------------------ MODULE JobWait -------------------------------
(***************************************************************************)
(* Waiting for a job in time (src/src/iqm_device.cpp,                      *)
(* IQM_QDMI_device_job_wait): status requests with growing pauses between  *)
(* them, each with a token from the session's TokenManager and each        *)
(* subject to the rate limits HttpClient deals with.  DeviceJob says what  *)
(* a wait does to a job handle; this module says when.                     *)
(*                                                                         *)
(* A tick is a second.  The steps of the program take no time and its      *)
(* sleeps are exact; only sleeps, and a server that has not answered yet,  *)
(* let time pass.  A timeout in whole seconds is reached by the elapsed    *)
(* time exactly when it is reached by its whole seconds.                   *)
(***************************************************************************)
EXTENDS TokenManager, HttpResponse

CONSTANTS
  Timeouts,        \* timeouts of waits; zero is none
  MaxSleep,        \* max_sleep_duration
  RequestTimeout,  \* request_timeout_ of the session
  HoldBack,        \* RATE_LIMIT_WINDOW_SECONDS
  RetryAfters,     \* pauses an HTTP 429 asks for
  Errors           \* answers that are no status and no refusal

ASSUME WaitAssumption ==
  /\ Timeouts \subseteq Nat
  /\ MaxSleep \in Nat \ {0}
  /\ RequestTimeout \in Nat \ {0}
  /\ HoldBack \in Nat /\ HoldBack < Margin
  /\ RetryAfters \subseteq Nat \ {0}
  /\ TransportError \in Errors
  /\ \A code \in Errors : Handle_response(code) \notin {"SUCCESS", "PERMISSIONDENIED"}

VARIABLES
  job,             \* the remote job: "running" or "ended"
  seen,            \* what it was when the attempt in flight was sent
  status,          \* status_ of the handle, likewise
  phase,           \* where the wait is
  timeout,
  elapsed,         \* seconds since the wait started; not kept without a timeout
  sleep_duration,
  left,            \* seconds left of the sleep the wait is in
  spent,           \* seconds since the request started
  endedFor,        \* seconds of this wait since the remote job ended
  result,          \* what the last wait returned
  refusedAt        \* history: seconds a request had taken when its token was refused

jobVars == <<job, endedFor>>
waitVars == <<seen, status, phase, timeout, elapsed, sleep_duration, left, spent, result,
              refusedAt>>
vars == <<tokenVars, jobVars, waitVars>>

Least(m, n) == IF m < n THEN m ELSE n

\* A job that has ended is noticed within an answer that was right when it was
\* given, one sleep and one more request.
NoticeBound == 2 * RequestTimeout + MaxSleep

\* A wait outlasts its timeout by one request and one sleep.  No sleep is longer
\* than the timeout: the sleeps before it sum up to a second less than it.
WaitBound == timeout + RequestTimeout + Least(MaxSleep, timeout) - 1

-----------------------------------------------------------------------------
(* The wait *)

Init ==
  /\ TokenInit
  /\ job = "running" /\ seen = "running" /\ status = "running"
  /\ phase = "idle"
  /\ timeout = 0 /\ elapsed = 0 /\ sleep_duration = 1
  /\ left = 0 /\ spent = 0 /\ endedFor = 0
  /\ result = "none" /\ refusedAt = 0

\* IQM_QDMI_device_job_wait is called, for the same job again or for another.
Wait ==
  /\ phase = "idle"
  /\ phase' = "loop"
  /\ timeout' \in Timeouts
  /\ elapsed' = 0 /\ sleep_duration' = 1
  /\ result' = "none" /\ refusedAt' = 0
  /\ endedFor' = 0
  /\ \/ UNCHANGED <<job, status>>
     \/ job' = "running" /\ status' = "running"
  /\ UNCHANGED <<tokenVars, seen, left, spent>>

Return(code) ==
  /\ phase' = "idle"
  /\ result' = code
  /\ seen' = "running"
  /\ timeout' = 0 /\ elapsed' = 0 /\ sleep_duration' = 1 /\ left' = 0 /\ spent' = 0
  /\ DropBearer

NeverOutOfTime == FALSE
OutOfTimeLate == timeout > 0 /\ elapsed > timeout

OutOfTime == timeout > 0 /\ elapsed >= timeout

\* The condition of the loop, and the early return of check.
Loop ==
  /\ phase = "loop"
  /\ \/ /\ OutOfTime
        /\ Return("TIMEOUT")
        /\ UNCHANGED status
     \/ /\ ~OutOfTime /\ status = "ended"
        /\ Return("SUCCESS")
        /\ UNCHANGED status
     \/ /\ ~OutOfTime /\ status = "running"
        /\ phase' = "token"
        /\ UNCHANGED <<tokenVars, seen, status, timeout, elapsed, sleep_duration,
                       left, spent, result>>
  /\ UNCHANGED <<jobVars, refusedAt>>

\* check asks for a token.
Authorize ==
  /\ phase = "token"
  /\ get_bearer_token \/ Read_access_token_from_file
  /\ UNCHANGED <<jobVars, waitVars>>

AuthenticationFails ==
  /\ phase = "token" /\ getting = "failed"
  /\ Return("PERMISSIONDENIED")
  /\ UNCHANGED <<jobVars, status, refusedAt>>

\* An attempt leaves.
Send ==
  /\ phase' = "in_flight"
  /\ seen' = job

\* The status request starts; it may hold back for a low quota if its timeout
\* can spare that.
Request ==
  /\ phase = "token" /\ getting = "ready"
  /\ \/ Send /\ UNCHANGED left
     \/ /\ left' \in {wait \in 1..HoldBack : wait < RequestTimeout}
        /\ phase' = "holding"
        /\ UNCHANGED seen
  /\ UNCHANGED <<tokenVars, jobVars, status, timeout, elapsed, sleep_duration,
                 spent, result, refusedAt>>

\* A request wakes from its hold-back or from a pause and sends the token it
\* was given when it started.
Resume ==
  /\ phase \in {"holding", "pausing"} /\ left = 0
  /\ Send
  /\ UNCHANGED <<tokenVars, jobVars, status, timeout, elapsed, sleep_duration,
                 left, spent, result, refusedAt>>

WakeUncapped ==
  /\ phase = "sleeping" /\ left = 0
  /\ phase' = "loop"
  /\ sleep_duration' = sleep_duration * 2
  /\ UNCHANGED <<tokenVars, jobVars, seen, status, timeout, elapsed, left, spent,
                 result, refusedAt>>

\* Exponential backoff: double the sleep duration, but cap it.
Wake ==
  /\ phase = "sleeping" /\ left = 0
  /\ phase' = "loop"
  /\ sleep_duration' = Least(sleep_duration * 2, MaxSleep)
  /\ UNCHANGED <<tokenVars, jobVars, seen, status, timeout, elapsed, left, spent,
                 result, refusedAt>>

\* The status of the job, as it was at some moment since the attempt was sent.
Answered ==
  /\ phase = "in_flight"
  /\ status' \in {seen, job}
  /\ \/ status' = "ended" /\ Return("SUCCESS")
     \/ /\ status' = "running"
        /\ phase' = "sleeping"
        /\ left' = sleep_duration
        /\ spent' = 0 /\ seen' = "running"
        /\ DropBearer
        /\ UNCHANGED <<timeout, elapsed, sleep_duration, result>>
  /\ UNCHANGED <<jobVars, refusedAt>>

\* The server refuses the token of an attempt.  It takes one from a tokens file
\* until it expires; what it makes of any other is open.
Refused ==
  /\ phase = "in_flight"
  /\ token_source = "TOKENS_FILE" => bearer = 0
  /\ Return(Handle_response(401))
  /\ refusedAt' = spent
  /\ UNCHANGED <<jobVars, status>>

\* Any other answer, or none in time, ends the wait as well.
Failed ==
  /\ phase = "in_flight"
  /\ \E code \in Errors : Return(Handle_response(code))
  /\ UNCHANGED <<jobVars, status, refusedAt>>

PauseFitsTimeout(pause) == pause < RequestTimeout

PauseFits(pause) == pause < RequestTimeout - spent

\* HTTP 429: the request pauses for a repetition, if it has the time.
RateLimited ==
  /\ phase = "in_flight"
  /\ left' \in {pause \in RetryAfters : PauseFits(pause)}
  /\ phase' = "pausing"
  /\ seen' = "running"
  /\ UNCHANGED <<tokenVars, jobVars, status, timeout, elapsed, sleep_duration,
                 spent, result, refusedAt>>

\* The remote job ends, whatever the way.
JobEnds ==
  /\ job = "running"
  /\ job' = "ended"
  /\ UNCHANGED <<tokenVars, endedFor, waitVars>>

\* Nobody but the owner of the file touches it.
FileRewritten == RewriteTokensFile /\ UNCHANGED <<jobVars, waitVars>>

\* A second passes: the wait sleeps, or a server or the caller takes its time.
Tick ==
  /\ \/ phase = "idle"
     \/ phase \in {"holding", "pausing", "sleeping"} /\ left > 0
     \/ phase = "in_flight" /\ spent < RequestTimeout
  /\ AgeTokens
  /\ elapsed' = IF timeout > 0 THEN Least(elapsed + 1, WaitBound + 1) ELSE 0
  /\ left' = IF left > 0 THEN left - 1 ELSE 0
  /\ spent' = IF phase \in {"holding", "pausing", "in_flight"} THEN spent + 1 ELSE 0
  /\ endedFor' = IF job = "ended" /\ phase # "idle"
                 THEN Least(endedFor + 1, NoticeBound + 1) ELSE endedFor
  /\ UNCHANGED <<job, seen, status, phase, timeout, sleep_duration, result,
                 refusedAt>>

Progress ==
  \/ Loop \/ Authorize \/ AuthenticationFails \/ Request \/ Resume \/ Wake
  \/ Answered \/ Refused \/ Failed \/ RateLimited

Next == Wait \/ Progress \/ JobEnds \/ FileRewritten \/ Tick

Spec == Init /\ [][Next]_vars

\* The thread that waits is scheduled, an attempt is answered at the latest when
\* the transport gives up, and the clock runs.
FairSpec == Spec /\ WF_vars(Progress) /\ WF_vars(Tick)

-----------------------------------------------------------------------------
(* Properties *)

\* Every variable keeps to its type.
TypeOK ==
  /\ TokenTypeOK
  /\ {job, seen, status} \subseteq {"running", "ended"}
  /\ phase \in {"idle", "loop", "token", "holding", "in_flight", "pausing", "sleeping"}
  /\ timeout \in Timeouts \cup {0}
  /\ elapsed \in Nat
  /\ sleep_duration \in 1..MaxSleep
  /\ left \in 0..(MaxSleep + RequestTimeout)
  /\ spent \in 0..RequestTimeout
  /\ endedFor \in Nat
  /\ result \in {"none"} \cup QdmiCodes
  /\ refusedAt \in 0..RequestTimeout

\* The comparison with the timeout precedes the request and the sleep, so a wait
\* outlasts its timeout; but by one request and one sleep at most, and by no sleep
\* longer than the timeout itself.
OvershootBounded == timeout > 0 => elapsed <= WaitBound

\* However long a wait has been going on, a job that ended is noticed: a wait for
\* it is over within two requests and one sleep of MaxSleep.  A wait that times
\* out has not overlooked the end of its job for longer than that either.
EndIsNoticed == phase # "idle" => endedFor <= NoticeBound

\* A kept token is reused only with more time left than a request may hold back,
\* so the first attempt of a request does not carry a token that expired while
\* the session kept it.
KeptTokenSurvivesHoldBack ==
  [][(phase \in {"token", "holding"} /\ phase' = "in_flight" /\ reused) => bearer > 0]_vars

\* How much of a request a token surely covers: what get_bearer_token asks of a kept
\* token, or all of a request that is shorter.
Covered == Least(Margin, RequestTimeout)

\* The owner of the tokens file never lets the token in it come that close to its
\* end, and never lets a call find the file unreadable twice.
RenewedInTime ==
  /\ token_source = "TOKENS_FILE"
  /\ held = Unreadable => ~(getting = "reading" /\ retries < Retries)
  /\ held # Unreadable => held > Covered

\* A wait outlives the tokens it uses: if the file is renewed in time, no wait is
\* denied because of what it reads there, not even while the file is being
\* rewritten, nor on account of the token it has kept.  It can only be denied in a
\* request that has itself gone on for longer than Margin, held back, paused by 429
\* or waiting for an answer, since a request asks for its token once; and so never
\* if the request timeout is within the margin.
TimelyRenewalAvoidsDenial ==
  []RenewedInTime => [](result = "PERMISSIONDENIED" => refusedAt > Covered)

\* A wait returns if it has a timeout or the job ends.
WaitReturns ==
  (phase # "idle" /\ (timeout > 0 \/ job = "ended")) ~> (phase = "idle")

-----------------------------------------------------------------------------
(* What the proofs add to the invariants above to make them inductive *)

Requesting == phase \in {"holding", "in_flight", "pausing"}

\* A sleep within a request ends before the request has to.
ClockInv ==
  /\ phase = "idle" => timeout = 0
  /\ phase \notin {"holding", "pausing", "sleeping"} => left = 0
  /\ ~Requesting => spent = 0
  /\ phase \in {"holding", "pausing"} => spent + left <= RequestTimeout
  /\ phase = "sleeping" => left <= sleep_duration

\* How far a wait with a timeout can have got, and at least how far: its sleeps
\* double, so that each is at most a second longer than all before it together.
PaceInv ==
  timeout > 0 =>
    /\ phase = "loop" => elapsed <= WaitBound /\ sleep_duration <= elapsed + 1
    /\ phase = "token" => elapsed < timeout /\ sleep_duration <= elapsed + 1
    /\ Requesting =>
         /\ elapsed < timeout + spent
         /\ sleep_duration <= elapsed + 1 /\ sleep_duration <= timeout
    /\ phase = "sleeping" =>
         /\ elapsed < timeout + RequestTimeout + sleep_duration - left
         /\ 2 * sleep_duration <= elapsed + 1 + left
         /\ sleep_duration <= timeout

\* An attempt that was sent when the job had ended brings its end.
NoticeInv ==
  /\ job = "running" => endedFor = 0 /\ seen = "running" /\ status = "running"
  /\ phase # "in_flight" => seen = "running"
  /\ phase \in {"loop", "token"} => endedFor <= RequestTimeout + MaxSleep
  /\ Requesting => endedFor <= RequestTimeout + MaxSleep + spent
  /\ phase = "in_flight" /\ seen = "running" => endedFor <= spent
  /\ phase = "sleeping" => endedFor <= RequestTimeout + sleep_duration - left

\* Where the token of a request is, and how long a kept one lasts.
BearerInv ==
  /\ phase \in {"idle", "loop", "sleeping"} => getting = "idle"
  /\ Requesting => getting = "ready"
  /\ reused => getting = "ready" /\ bearer \in Nat
  /\ reused /\ phase = "token" => bearer > Margin
  /\ reused /\ phase = "holding" => bearer > left

IInv == TypeOK /\ ClockInv /\ PaceInv /\ NoticeInv /\ BearerInv

\* What holds besides if the tokens file is renewed in time.
RenewalInv ==
  /\ getting # "failed"
  /\ phase = "token" /\ getting = "ready" => bearer \in Nat /\ bearer > Covered
  /\ Requesting => bearer \in Nat /\ bearer + spent > Covered
  /\ result = "PERMISSIONDENIED" => refusedAt > Covered

=============================================================================
