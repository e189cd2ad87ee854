---------------------------- MODULE HttpClient -----------------------------
(***************************************************************************)
(* The requests of one device session (src/src/internal/http_client.cpp,   *)
(* Perform_with_retries): a request holds back while the account's quota   *)
(* is low, an attempt answered with HTTP 429 is repeated after the pause   *)
(* the server asks for, and everything happens within one deadline.        *)
(*                                                                         *)
(* Clock readings are kept as the time since they were taken: elapsed for  *)
(* the start of the request, age for the last quota reading.  Both stop    *)
(* where the code no longer tells later times apart.  Time passes in       *)
(* ticks, several to a second, because deadlines are in milliseconds and   *)
(* sleeps in seconds.  A sleep may take longer than asked.                 *)
(***************************************************************************)
EXTENDS Integers

CONSTANTS
  TicksPerSecond,
  Timeouts,           \* request timeouts of a session, in ticks
  Window,             \* RATE_LIMIT_WINDOW_SECONDS
  RetryCount,         \* RATE_LIMIT_RETRY_COUNT
  DefaultRetryAfter,  \* DEFAULT_RATE_LIMIT_RETRY_AFTER_SECONDS
  RetryAfters,        \* numbers a Retry-After header can hold
  NoHeader,           \* a missing or unreadable Retry-After header
  IntModulus,         \* the number of values of an int
  ThresholdVariable,  \* IQM_RATE_LIMIT_THRESHOLD_PERCENT, or Unset
  Unset,
  Readings            \* RateLimit-Limit and RateLimit-Remaining of an answer

ASSUME ClockAssumption ==
  /\ TicksPerSecond \in Nat \ {0}
  /\ Timeouts \subseteq Nat
  /\ Window \in Nat /\ DefaultRetryAfter \in Nat
ASSUME RetryAssumption ==
  /\ RetryCount \in Nat
  /\ RetryAfters \subseteq Nat /\ NoHeader \notin Int
  /\ IntModulus \in Nat \ {0} /\ IntModulus % 2 = 0
ASSUME QuotaAssumption ==
  /\ ThresholdVariable \in Int \cup {Unset}
  /\ Readings \subseteq [limit : Int, remaining : Int]

VARIABLES
  timeout,  \* request_timeout_ of the session
  budget,   \* rate_limit_ of the session: remaining and limit
  age,      \* ticks since budget was observed, up to the window
  phase,    \* where the request is
  elapsed,  \* ticks since the request started, up to timeout
  attempt,  \* the attempts made before this one
  sleep,    \* ticks left of the sleep the request is in
  sentAt,   \* elapsed when the last attempt was sent
  pause,    \* ticks left of the pause the last HTTP 429 asked for
  acting,   \* whether the server carries out the attempt in flight
  effects,  \* how often the server has carried out this request
  result    \* what the last request returned

sessionVars == <<timeout, budget, age>>
requestVars == <<phase, elapsed, attempt, sleep, sentAt, pause>>
vars == <<sessionVars, requestVars, acting, effects, result>>

-----------------------------------------------------------------------------
(* Reading headers and clocks *)

AtMost(n, bound) == IF n < bound THEN n ELSE bound
Positive(n) == IF n > 0 THEN n ELSE 0

\* static_cast<int>
AsInt(n) == ((n + IntModulus \div 2) % IntModulus) - IntModulus \div 2

Retry_after_seconds(header) ==
  IF header = NoHeader THEN DefaultRetryAfter ELSE AsInt(header)

\* Any percentage that is out of range counts as the default.
Threshold_percent ==
  IF ThresholdVariable \in 0..100 THEN ThresholdVariable ELSE 10

\* The quota an answer teaches; an answer without a usable one teaches nothing.
Usable(reading) == reading.limit > 0

RecordSigned(reading) == IF Usable(reading) THEN reading ELSE budget

Record_rate_limit(reading) ==
  IF Usable(reading)
    THEN [limit |-> reading.limit, remaining |-> Positive(reading.remaining)]
    ELSE budget

FloorSeconds(ticks) == ticks \div TicksPerSecond
CeilSeconds(ticks) == (ticks + TicksPerSecond - 1) \div TicksPerSecond

ReplenishingFloor == FloorSeconds(Window * TicksPerSecond - age)

\* The seconds until the window of the last reading has passed.
Replenishing == CeilSeconds(Window * TicksPerSecond - age)

Rate_limit_wait_seconds ==
  LET threshold == (budget.limit \div 100) * Threshold_percent
  IN IF budget.remaining >= threshold THEN 0 ELSE Replenishing

-----------------------------------------------------------------------------
(* The request *)

Init ==
  /\ timeout \in Timeouts
  /\ budget = [limit |-> 0, remaining |-> 0]
  /\ age = 0
  /\ phase = "idle"
  /\ elapsed = 0 /\ attempt = 0 /\ sleep = 0 /\ sentAt = 0 /\ pause = 0
  /\ acting = FALSE /\ effects = 0
  /\ result = "none"

HoldBackFits(wait) == wait * TicksPerSecond < timeout

\* The request starts, and holds back if the quota runs low and its timeout
\* can spare the wait.
Start ==
  /\ phase = "idle"
  /\ LET wait == Rate_limit_wait_seconds
     IN \/ /\ wait > 0 /\ HoldBackFits(wait)
           /\ phase' = "holding"
           /\ sleep' = wait * TicksPerSecond
        \/ /\ ~(wait > 0 /\ HoldBackFits(wait))
           /\ phase' = "ready"
           /\ sleep' = 0
  /\ elapsed' = 0 /\ attempt' = 0 /\ effects' = 0
  /\ result' = "none"
  /\ UNCHANGED <<sessionVars, sentAt, pause, acting>>

\* Get or Post returns to its caller.
Return(r) ==
  /\ phase' = "idle"
  /\ result' = r
  /\ sleep' = 0 /\ pause' = 0 /\ sentAt' = 0
  /\ acting' = FALSE
  /\ UNCHANGED <<timeout, elapsed, attempt, effects>>

WokenEarly == phase \in {"ready", "holding", "backing_off"}

\* Nothing keeps the request from making its next attempt.
Awake == phase \in {"ready", "holding", "backing_off"} /\ sleep = 0

Attempt ==
  /\ Awake
  /\ \/ /\ elapsed >= timeout
        /\ Return("failure")
     \/ /\ elapsed < timeout
        /\ phase' = "in_flight"
        /\ sentAt' = elapsed
        /\ UNCHANGED <<timeout, elapsed, attempt, sleep, pause, acting, effects,
                       result>>
  /\ UNCHANGED <<budget, age>>

\* The IQM Server carries out the attempt.
ServerActs ==
  /\ phase = "in_flight" /\ ~acting
  /\ acting' = TRUE
  /\ effects' = effects + 1
  /\ UNCHANGED <<sessionVars, requestVars, result>>

AnswerLostRetried ==
  /\ phase = "in_flight" /\ attempt < RetryCount
  /\ phase' = "ready" /\ attempt' = attempt + 1 /\ acting' = FALSE
  /\ UNCHANGED <<sessionVars, elapsed, sleep, sentAt, pause, effects, result>>

\* A transport error: the answer, if any, is lost.
AnswerLost ==
  /\ phase = "in_flight"
  /\ Return("failure")
  /\ UNCHANGED <<budget, age>>

AnswerSuccess ==
  /\ phase = "in_flight" /\ acting
  /\ \E reading \in Readings :
       /\ budget' = Record_rate_limit(reading)
       /\ age' = IF Usable(reading) THEN 0 ELSE age
  /\ Return("success")

\* An answer that is neither 2xx nor 429.
AnswerError ==
  /\ phase = "in_flight"
  /\ Return("failure")
  /\ UNCHANGED <<budget, age>>

RetryFitsTimeout(delay) == delay * TicksPerSecond < timeout

RetryFits(delay) == delay * TicksPerSecond < timeout - elapsed

RateLimitedStartsOver(header) ==
  /\ phase = "in_flight" /\ ~acting
  /\ phase' = "backing_off"
  /\ sleep' = Positive(Retry_after_seconds(header)) * TicksPerSecond
  /\ elapsed' = 0
  /\ UNCHANGED <<sessionVars, attempt, sentAt, pause, acting, effects, result>>

\* HTTP 429: the rate limiter turned the attempt away.
AnswerRateLimited(header) ==
  /\ phase = "in_flight" /\ ~acting
  /\ LET delay == Retry_after_seconds(header)
     IN \/ /\ attempt = RetryCount \/ ~RetryFits(delay)
           /\ Return("failure")
        \/ /\ attempt < RetryCount /\ RetryFits(delay)
           /\ phase' = "backing_off"
           /\ sleep' = Positive(delay) * TicksPerSecond
           /\ pause' = IF header = NoHeader THEN 0 ELSE header * TicksPerSecond
           /\ attempt' = attempt + 1
           /\ UNCHANGED <<timeout, elapsed, sentAt, acting, effects, result>>
  /\ UNCHANGED <<budget, age>>

Answer ==
  \/ AnswerLost
  \/ AnswerSuccess
  \/ AnswerError
  \/ \E header \in RetryAfters \cup {NoHeader} : AnswerRateLimited(header)

\* The transport gives up at the timeout of the attempt, which is what is left
\* of the request's.
Tick ==
  /\ phase = "in_flight" => elapsed < timeout
  /\ elapsed' = AtMost(elapsed + 1, timeout)
  /\ age' = AtMost(age + 1, Window * TicksPerSecond)
  /\ sleep' = Positive(sleep - 1)
  /\ pause' = Positive(pause - 1)
  /\ UNCHANGED <<timeout, budget, phase, attempt, sentAt, acting, effects, result>>

Next == Start \/ Attempt \/ ServerActs \/ Answer \/ Tick

Spec == Init /\ [][Next]_vars

\* The clock runs, the calling thread is scheduled, and an attempt is answered
\* at the latest when the transport gives up.
Fairness == WF_vars(Tick) /\ WF_vars(Attempt) /\ WF_vars(Answer)

FairSpec == Spec /\ Fairness

-----------------------------------------------------------------------------
(* Properties *)

\* Every variable keeps to its type; a quota reading is never negative.
TypeOK ==
  /\ timeout \in Timeouts
  /\ budget \in [limit : Nat, remaining : Nat]
  /\ age \in 0..(Window * TicksPerSecond)
  /\ phase \in {"idle", "holding", "ready", "in_flight", "backing_off"}
  /\ elapsed \in 0..timeout
  /\ attempt \in 0..RetryCount
  /\ sleep \in Nat /\ sentAt \in Nat /\ pause \in Nat
  /\ acting \in BOOLEAN
  /\ effects \in Nat
  /\ result \in {"none", "success", "failure"}

\* However often a request is repeated, the server carries it out at most once:
\* a POST that submits a job may be retried only when it was turned away.
AtMostOneEffect == effects \in {0, 1}

\* One deadline covers the hold-back, all attempts and all pauses: nothing is
\* sent after it, and no sleep is started that would end after it.
WithinDeadline ==
  /\ phase = "in_flight" => sentAt < timeout
  /\ sleep > 0 => elapsed + sleep < timeout

\* A retry never leaves before the pause the server asked for has passed
\* (http_client.cpp: "Each retry waits for the server-provided Retry-After
\* duration").
HonoursRetryAfter == phase = "in_flight" => pause = 0

LowQuota == budget.remaining * 100 < budget.limit * Threshold_percent

\* A request holds back only for a quota that is low, and exactly until the
\* window of the reading has passed, to the second.
HoldBackReplenishes ==
  phase = "holding" =>
    /\ LowQuota
    /\ age + sleep >= Window * TicksPerSecond
    /\ sleep > 0 => age + sleep < (Window + 1) * TicksPerSecond

\* Every request returns.
RequestsReturn == phase # "idle" ~> phase = "idle"

Contract == INSTANCE HttpRequest WITH outstanding <- phase # "idle"

\* The client keeps the contract the device relies on: one answer per request,
\* at most one effect, and no success without it.
ImplementsRequest == Contract!Spec

-----------------------------------------------------------------------------
(* What the proofs add to the invariants above to make them inductive *)

\* The server acts on an attempt in flight only, and every earlier attempt of the
\* request was turned away.
EffectInv ==
  /\ acting => phase = "in_flight"
  /\ phase # "idle" => effects = IF acting THEN 1 ELSE 0

\* Only a sleeping request has ticks left to sleep, and only a request pauses.
SleepInv ==
  /\ phase \notin {"holding", "backing_off"} => sleep = 0
  /\ phase = "idle" => pause = 0

\* The client's sleep covers the pause the server asked for.
PauseInv == pause <= sleep

IInv == TypeOK /\ EffectInv /\ AtMostOneEffect /\ SleepInv /\ WithinDeadline

=============================================================================
