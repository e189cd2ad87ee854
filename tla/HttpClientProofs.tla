-------------------------- MODULE HttpClientProofs --------------------------
(***************************************************************************)
(* Proofs about HttpClient: its type invariant, that a request has at most *)
(* one effect and stays within its deadline, that retries wait as long as  *)
(* the server asks, that a request is held back only until the quota is    *)
(* replenished, and that the client keeps the contract of HttpRequest.     *)
(***************************************************************************)
EXTENDS HttpClient, TLAPS

-----------------------------------------------------------------------------
(* Arithmetic of seconds and ticks *)

\* A wait in whole seconds is a number of ticks.
LEMMA WaitIsTicks ==
  ASSUME NEW wait \in Int, wait >= 0
  PROVE  wait * TicksPerSecond \in Nat
BY ClockAssumption

LEMMA WindowIsTicks == Window * TicksPerSecond \in Nat
BY ClockAssumption

LEMMA ReplenishingIsInt ==
  ASSUME age \in Nat
  PROVE  Replenishing \in Int
<1>1. Window * TicksPerSecond - age + TicksPerSecond - 1 \in Int
  BY WindowIsTicks, ClockAssumption
<1>. QED
  BY <1>1, ClockAssumption DEF Replenishing, CeilSeconds

LEMMA WaitIsInt ==
  ASSUME TypeOK
  PROVE  Rate_limit_wait_seconds \in Int
<1>1. age \in Nat
  BY WindowIsTicks DEF TypeOK
<1>. QED
  BY <1>1, ReplenishingIsInt DEF Rate_limit_wait_seconds

LEMMA RetryAfterIsInt ==
  ASSUME NEW header \in RetryAfters \cup {NoHeader}
  PROVE  Retry_after_seconds(header) \in Int
<1>1. CASE header = NoHeader
  BY <1>1, ClockAssumption DEF Retry_after_seconds
<1>2. CASE header # NoHeader
  <2>1. header \in Nat /\ IntModulus \div 2 \in Int /\ IntModulus \in Nat \ {0}
    BY <1>2, RetryAssumption
  <2>2. (header + IntModulus \div 2) % IntModulus \in Int
    BY <2>1
  <2>. QED
    BY <1>2, <2>1, <2>2 DEF Retry_after_seconds, AsInt
<1>. QED
  BY <1>1, <1>2

-----------------------------------------------------------------------------
(* The invariant is inductive *)

LEMMA InitIInv == Init => IInv
<1>1. Init => TypeOK
  <2>. SUFFICES ASSUME Init PROVE TypeOK
    OBVIOUS
  <2>1. /\ age \in 0..(Window * TicksPerSecond)
        /\ elapsed \in 0..timeout /\ attempt \in 0..RetryCount
    BY WindowIsTicks, ClockAssumption, RetryAssumption DEF Init
  <2>2. acting \in BOOLEAN
    BY DEF Init
  <2>. QED
    BY <2>1, <2>2 DEF Init, TypeOK
<1>2. Init => EffectInv /\ AtMostOneEffect /\ SleepInv /\ WithinDeadline
  BY DEF Init, EffectInv, AtMostOneEffect, SleepInv, WithinDeadline
<1>. QED
  BY <1>1, <1>2 DEF IInv

LEMMA ReturnKeeps ==
  ASSUME IInv, NEW r \in {"success", "failure"}, Return(r),
         budget' \in [limit : Nat, remaining : Nat],
         age' \in 0..(Window * TicksPerSecond)
  PROVE  IInv'
<1>1. TypeOK'
  BY ClockAssumption DEF IInv, Return, TypeOK
<1>2. EffectInv' /\ AtMostOneEffect' /\ SleepInv' /\ WithinDeadline'
  BY DEF IInv, Return, EffectInv, AtMostOneEffect, SleepInv, WithinDeadline
<1>. QED
  BY <1>1, <1>2 DEF IInv

LEMMA StartKeeps ==
  ASSUME IInv, Start
  PROVE  IInv'
<1>1. /\ phase' \in {"holding", "ready"} /\ (phase' = "ready" => sleep' = 0)
      /\ sleep' \in Nat /\ (sleep' > 0 => sleep' < timeout)
  <2>. DEFINE wait == Rate_limit_wait_seconds
  <2>1. CASE wait > 0 /\ HoldBackFits(wait)
    <3>1. wait * TicksPerSecond \in Nat
      BY <2>1, WaitIsInt, WaitIsTicks DEF IInv
    <3>. QED
      BY <2>1, <3>1 DEF Start, HoldBackFits
  <2>2. CASE ~(wait > 0 /\ HoldBackFits(wait))
    BY <2>2 DEF Start
  <2>. QED
    BY <2>1, <2>2
<1>2. /\ phase = "idle" /\ timeout' = timeout
      /\ UNCHANGED <<budget, age, sentAt, pause, acting>>
      /\ elapsed' = 0 /\ attempt' = 0 /\ effects' = 0 /\ result' = "none"
  BY DEF Start, sessionVars
<1>3. TypeOK'
  BY <1>1, <1>2, ClockAssumption, RetryAssumption DEF IInv, TypeOK
<1>4. EffectInv' /\ AtMostOneEffect'
  <2>1. ~acting
    BY <1>2 DEF IInv, EffectInv
  <2>2. ~acting'
    BY <2>1, <1>2
  <2>. QED
    BY <2>2, <1>2 DEF EffectInv, AtMostOneEffect
<1>5. SleepInv'
  BY <1>1, <1>2 DEF IInv, SleepInv
<1>6. WithinDeadline'
  <2>1. elapsed' = 0 /\ timeout' = timeout
    BY <1>2
  <2>. QED
    BY <1>1, <2>1 DEF WithinDeadline
<1>. QED
  BY <1>3, <1>4, <1>5, <1>6 DEF IInv

LEMMA AttemptKeeps ==
  ASSUME IInv, Attempt
  PROVE  IInv'
<1>1. CASE elapsed >= timeout
  BY <1>1, ReturnKeeps, ClockAssumption DEF Attempt, IInv, TypeOK
<1>2. CASE elapsed < timeout
  BY <1>2, ClockAssumption
     DEF IInv, Attempt, Awake, TypeOK, EffectInv, AtMostOneEffect, SleepInv,
         WithinDeadline
<1>. QED
  BY <1>1, <1>2, ClockAssumption DEF IInv, TypeOK

LEMMA ServerActsKeeps ==
  ASSUME IInv, ServerActs
  PROVE  IInv'
BY DEF IInv, ServerActs, sessionVars, requestVars, TypeOK, EffectInv,
       AtMostOneEffect, SleepInv, WithinDeadline

LEMMA RateLimitedKeeps ==
  ASSUME IInv, NEW header \in RetryAfters \cup {NoHeader}, AnswerRateLimited(header)
  PROVE  IInv'
<1>. DEFINE delay == Retry_after_seconds(header)
<1>1. delay \in Int
  BY RetryAfterIsInt
<1>2. CASE attempt = RetryCount \/ ~RetryFits(delay)
  <2>1. Return("failure") /\ UNCHANGED <<budget, age>>
    BY <1>2, RetryAssumption DEF AnswerRateLimited, IInv, TypeOK
  <2>. QED
    BY <2>1, ReturnKeeps DEF IInv, TypeOK
<1>3. CASE attempt < RetryCount /\ RetryFits(delay)
  <2>1. /\ phase = "in_flight" /\ ~acting
        /\ phase' = "backing_off"
        /\ sleep' = Positive(delay) * TicksPerSecond
        /\ pause' = IF header = NoHeader THEN 0 ELSE header * TicksPerSecond
        /\ attempt' = attempt + 1
        /\ UNCHANGED <<timeout, elapsed, sentAt, acting, effects, result, budget, age>>
    BY <1>3, RetryAssumption DEF AnswerRateLimited, IInv, TypeOK
  <2>2. sleep' \in Nat /\ pause' \in Nat
    BY <1>1, <2>1, WaitIsTicks, RetryAssumption DEF Positive
  <2>3. sleep' > 0 => elapsed + sleep' < timeout
    <3>1. CASE delay > 0
      BY <1>1, <1>3, <2>1, <2>2, <3>1, ClockAssumption
         DEF RetryFits, Positive, IInv, TypeOK
    <3>2. CASE ~(delay > 0)
      BY <1>1, <2>1, <3>2, ClockAssumption DEF Positive
    <3>. QED
      BY <3>1, <3>2
  <2>. QED
    BY <1>3, <2>1, <2>2, <2>3, RetryAssumption
       DEF IInv, TypeOK, EffectInv, AtMostOneEffect, SleepInv, WithinDeadline
<1>. QED
  BY <1>2, <1>3, RetryAssumption DEF AnswerRateLimited

LEMMA AnswerKeeps ==
  ASSUME IInv, Answer
  PROVE  IInv'
<1>1. CASE AnswerLost
  BY <1>1, ReturnKeeps DEF AnswerLost, IInv, TypeOK
<1>2. CASE AnswerSuccess
  <2>1. PICK reading \in Readings :
          /\ budget' = Record_rate_limit(reading)
          /\ age' = IF Usable(reading) THEN 0 ELSE age
    BY <1>2 DEF AnswerSuccess
  <2>2. budget' \in [limit : Nat, remaining : Nat]
    BY <2>1, QuotaAssumption DEF Record_rate_limit, Usable, Positive, IInv, TypeOK
  <2>3. age' \in 0..(Window * TicksPerSecond)
    BY <2>1, WindowIsTicks DEF IInv, TypeOK
  <2>. QED
    BY <1>2, <2>2, <2>3, ReturnKeeps DEF AnswerSuccess
<1>3. CASE AnswerError
  BY <1>3, ReturnKeeps DEF AnswerError, IInv, TypeOK
<1>. QED
  BY <1>1, <1>2, <1>3, RateLimitedKeeps DEF Answer

LEMMA TickKeeps ==
  ASSUME IInv, Tick
  PROVE  IInv'
BY WindowIsTicks, ClockAssumption
   DEF IInv, Tick, AtMost, Positive, TypeOK, EffectInv, AtMostOneEffect, SleepInv,
       WithinDeadline

LEMMA NextIInv == IInv /\ [Next]_vars => IInv'
<1>. SUFFICES ASSUME IInv, [Next]_vars PROVE IInv'
  OBVIOUS
<1>1. CASE UNCHANGED vars
  BY <1>1 DEF vars, sessionVars, requestVars, IInv, TypeOK, EffectInv,
              AtMostOneEffect, SleepInv, WithinDeadline
<1>. QED
  BY <1>1, StartKeeps, AttemptKeeps, ServerActsKeeps, AnswerKeeps, TickKeeps DEF Next

\* The invariant behind the theorems below is inductive.
THEOREM Invariance == Spec => []IInv
BY InitIInv, NextIInv, PTL DEF Spec

-----------------------------------------------------------------------------
(* What a session can rely on *)

\* Every variable keeps to its type, and no attempt is made beyond the last one.
THEOREM TypeCorrect == Spec => []TypeOK
<1>1. IInv => TypeOK
  BY DEF IInv
<1>. QED
  BY <1>1, Invariance, PTL

\* However often Perform_with_retries repeats a request, the IQM Server carries
\* it out at most once.
THEOREM ActsAtMostOnce == Spec => []AtMostOneEffect
<1>1. IInv => AtMostOneEffect
  BY DEF IInv
<1>. QED
  BY <1>1, Invariance, PTL

\* Nothing is sent after the deadline of a request, and no sleep outlasts it.
THEOREM KeepsDeadline == Spec => []WithinDeadline
<1>1. IInv => WithinDeadline
  BY DEF IInv
<1>. QED
  BY <1>1, Invariance, PTL

-----------------------------------------------------------------------------
(* The pause of a retry *)

LEMMA PauseKept ==
  ASSUME \A n \in RetryAfters : AsInt(n) = n,
         IInv, PauseInv, [Next]_vars
  PROVE  PauseInv'
<1>1. CASE Start
  <2>1. pause' = 0
    BY <1>1 DEF Start, IInv, TypeOK, SleepInv, PauseInv
  <2>2. sleep' \in Nat
    BY <1>1, StartKeeps DEF IInv, TypeOK
  <2>. QED
    BY <2>1, <2>2 DEF PauseInv
<1>2. CASE Attempt
  BY <1>2 DEF Attempt, Return, PauseInv
<1>3. CASE ServerActs
  BY <1>3 DEF ServerActs, requestVars, PauseInv
<1>4. CASE AnswerLost \/ AnswerSuccess \/ AnswerError
  BY <1>4 DEF AnswerLost, AnswerSuccess, AnswerError, Return, PauseInv
<1>5. ASSUME NEW header \in RetryAfters \cup {NoHeader}, AnswerRateLimited(header)
      PROVE  PauseInv'
  <2>1. CASE phase' = "idle"
    BY <1>5, <2>1 DEF AnswerRateLimited, Return, PauseInv
  <2>2. CASE header = NoHeader
    <3>1. sleep' \in Nat
      BY <1>5, RateLimitedKeeps DEF IInv, TypeOK
    <3>. QED
      BY <1>5, <2>2, <3>1 DEF AnswerRateLimited, Return, PauseInv
  <2>3. CASE header # NoHeader
    <3>1. header \in Nat /\ Retry_after_seconds(header) = header
      BY <2>3, RetryAssumption DEF Retry_after_seconds
    <3>2. header * TicksPerSecond \in Nat
      BY <3>1, WaitIsTicks
    <3>3. Positive(header) = header
      BY <3>1 DEF Positive
    <3>. QED
      BY <1>5, <2>3, <3>1, <3>2, <3>3 DEF AnswerRateLimited, Return, PauseInv
  <2>. QED
    BY <2>2, <2>3
<1>6. CASE Tick
  BY <1>6 DEF Tick, Positive, PauseInv, IInv, TypeOK
<1>7. CASE UNCHANGED vars
  BY <1>7 DEF vars, requestVars, PauseInv
<1>. QED
  BY <1>1, <1>2, <1>3, <1>4, <1>5, <1>6, <1>7 DEF Next, Answer

\* A retry waits as long as the server asked for, if the Retry-After headers of
\* the server fit an int.
THEOREM WaitsOutRetryAfter ==
  ASSUME \A n \in RetryAfters : AsInt(n) = n
  PROVE  Spec => []HonoursRetryAfter
<1>1. Init => PauseInv
  BY DEF Init, PauseInv
<1>2. IInv /\ PauseInv /\ [Next]_vars => PauseInv'
  BY PauseKept
<1>3. IInv /\ PauseInv => HonoursRetryAfter
  BY DEF IInv, TypeOK, SleepInv, PauseInv, HonoursRetryAfter
<1>. QED
  BY <1>1, <1>2, <1>3, Invariance, PTL DEF Spec

-----------------------------------------------------------------------------
(* Holding back *)

\* Rounding up is by less than a second.
LEMMA CeilFacts ==
  ASSUME NEW ticks \in Nat
  PROVE  /\ CeilSeconds(ticks) \in Int
         /\ CeilSeconds(ticks) * TicksPerSecond >= ticks
         /\ CeilSeconds(ticks) * TicksPerSecond < ticks + TicksPerSecond
<1>. DEFINE n == ticks + TicksPerSecond - 1
            q == n \div TicksPerSecond
<1>1. n \in Int /\ TicksPerSecond \in Nat \ {0}
  BY ClockAssumption
<1>2. q \in Int /\ q * TicksPerSecond <= n /\ n < q * TicksPerSecond + TicksPerSecond
  BY <1>1
<1>. HIDE DEF q
<1>3. q * TicksPerSecond \in Int
  BY <1>1, <1>2
<1>. DEFINE p == q * TicksPerSecond
<1>. HIDE DEF p
<1>4. p \in Int /\ p <= n /\ n < p + TicksPerSecond
  BY <1>2, <1>3 DEF p
<1>5. p >= ticks /\ p < ticks + TicksPerSecond
  BY <1>1, <1>4
<1>6. CeilSeconds(ticks) = q
  BY DEF CeilSeconds, q
<1>. QED
  BY <1>2, <1>5, <1>6 DEF p

\* The threshold in integers is no higher than the percentage.
LEMMA ThresholdFacts ==
  ASSUME NEW limit \in Nat, NEW remaining \in Nat,
         remaining < (limit \div 100) * Threshold_percent
  PROVE  remaining * 100 < limit * Threshold_percent
<1>1. Threshold_percent \in 0..100
  BY DEF Threshold_percent
<1>2. ASSUME NEW percent \in 0..100, NEW hundreds \in Nat, hundreds * 100 <= limit,
             remaining < hundreds * percent
      PROVE  remaining * 100 < limit * percent
  <2>1. (hundreds * percent) * 100 = (hundreds * 100) * percent
    BY <1>2
  <2>2. (hundreds * 100) * percent <= limit * percent
    BY <1>2
  <2>3. hundreds * percent \in Nat /\ limit * percent \in Nat
    BY <1>2
  <2>4. remaining * 100 < (hundreds * percent) * 100
    BY <1>2, <2>3
  <2>. QED
    BY <2>1, <2>2, <2>3, <2>4
<1>3. limit \div 100 \in Nat /\ (limit \div 100) * 100 <= limit
  OBVIOUS
<1>. QED
  BY <1>1, <1>2, <1>3

\* Time spent holding back and the age of the quota add up.
LEMMA HoldBackKept ==
  ASSUME IInv, HoldBackReplenishes, [Next]_vars
  PROVE  HoldBackReplenishes'
<1>. SUFFICES ASSUME phase' = "holding" PROVE HoldBackReplenishes'
  BY DEF HoldBackReplenishes
<1>1. CASE Start
  <2>1. PICK wait \in Int : /\ wait = Rate_limit_wait_seconds /\ wait > 0
                            /\ sleep' = wait * TicksPerSecond
    BY <1>1, WaitIsInt DEF Start, IInv
  <2>2. /\ wait = Replenishing
        /\ budget.remaining < (budget.limit \div 100) * Threshold_percent
    BY <2>1, WaitIsInt DEF Rate_limit_wait_seconds, IInv, TypeOK, Threshold_percent
  <2>3. LowQuota'
    BY <1>1, <2>2, ThresholdFacts DEF Start, sessionVars, LowQuota, IInv, TypeOK
  <2>4. Window * TicksPerSecond - age \in Nat /\ age \in Nat
    BY WindowIsTicks DEF IInv, TypeOK
  <2>5. /\ wait * TicksPerSecond >= Window * TicksPerSecond - age
        /\ wait * TicksPerSecond < Window * TicksPerSecond - age + TicksPerSecond
    BY <2>2, <2>4, CeilFacts DEF Replenishing
  <2>. QED
    <3>1. ASSUME NEW w \in Nat, NEW s \in Int, NEW a \in Nat, NEW t \in Nat,
                 s >= w - a, s < w - a + t
          PROVE  a + s >= w /\ a + s < w + t
      BY <3>1
    <3>2. wait * TicksPerSecond \in Int
      BY ClockAssumption
    <3>3. (Window + 1) * TicksPerSecond = Window * TicksPerSecond + TicksPerSecond
      BY ClockAssumption
    <3>4. /\ age + wait * TicksPerSecond >= Window * TicksPerSecond
          /\ age + wait * TicksPerSecond < Window * TicksPerSecond + TicksPerSecond
      BY <2>4, <2>5, <3>1, <3>2, WindowIsTicks, ClockAssumption
    <3>5. age' = age
      BY <1>1 DEF Start, sessionVars
    <3>. QED
      BY <2>1, <2>3, <3>3, <3>4, <3>5 DEF HoldBackReplenishes
<1>2. CASE Attempt \/ Answer
  BY <1>2 DEF Attempt, Return, Answer, AnswerLost, AnswerSuccess, AnswerError,
              AnswerRateLimited
<1>3. CASE ServerActs
  BY <1>3 DEF ServerActs, sessionVars, requestVars, HoldBackReplenishes, LowQuota
<1>4. CASE Tick
  <2>1. phase = "holding" /\ LowQuota'
    BY <1>4 DEF Tick, HoldBackReplenishes, LowQuota
  <2>2. (Window + 1) * TicksPerSecond = Window * TicksPerSecond + TicksPerSecond
    BY ClockAssumption
  <2>. QED
    BY <1>4, <2>1, <2>2, WindowIsTicks, ClockAssumption
       DEF Tick, AtMost, Positive, HoldBackReplenishes, IInv, TypeOK
<1>5. CASE UNCHANGED vars
  BY <1>5 DEF vars, sessionVars, requestVars, HoldBackReplenishes, LowQuota
<1>. QED
  BY <1>1, <1>2, <1>3, <1>4, <1>5 DEF Next

\* A request is held back only when less than the threshold of a known quota is
\* left, until the window has passed and for less than a second longer.
THEOREM HoldsBackUntilReplenished == Spec => []HoldBackReplenishes
<1>1. Init => HoldBackReplenishes
  BY DEF Init, HoldBackReplenishes
<1>2. IInv /\ HoldBackReplenishes /\ [Next]_vars => HoldBackReplenishes'
  BY HoldBackKept
<1>. QED
  BY <1>1, <1>2, Invariance, PTL DEF Spec

-----------------------------------------------------------------------------
(* The contract *)

\* The client implements HttpRequest: one answer to every request, at most one
\* effect, and no success without it.
THEOREM KeepsContract == Spec => ImplementsRequest
<1>1. Init => Contract!Init
  BY DEF Init, Contract!Init
<1>2. IInv /\ [Next]_vars => [Contract!Next]_(Contract!vars)
  <2>. SUFFICES ASSUME IInv, [Next]_vars PROVE [Contract!Next]_(Contract!vars)
    OBVIOUS
  <2>. USE DEF IInv, EffectInv, AtMostOneEffect
  <2>1. CASE Start
    BY <2>1 DEF Start, Contract!Next, Contract!Send
  <2>2. CASE Attempt
    BY <2>2 DEF Attempt, Awake, Return, Contract!Next, Contract!Fail, Contract!vars
  <2>3. CASE ServerActs
    BY <2>3 DEF ServerActs, requestVars, Contract!Next, Contract!Act
  <2>4. CASE AnswerSuccess
    BY <2>4 DEF AnswerSuccess, Return, Contract!Next, Contract!Succeed
  <2>5. CASE AnswerLost \/ AnswerError
    BY <2>5 DEF AnswerLost, AnswerError, Return, Contract!Next, Contract!Fail
  <2>6. ASSUME NEW header \in RetryAfters \cup {NoHeader}, AnswerRateLimited(header)
        PROVE  [Contract!Next]_(Contract!vars)
    BY <2>6 DEF AnswerRateLimited, Return, Contract!Next, Contract!Fail, Contract!vars
  <2>7. CASE Tick \/ UNCHANGED vars
    BY <2>7 DEF Tick, vars, requestVars, Contract!vars
  <2>. QED
    BY <2>1, <2>2, <2>3, <2>4, <2>5, <2>6, <2>7 DEF Next, Answer
<1>. QED
  BY <1>1, <1>2, Invariance, PTL DEF Spec, ImplementsRequest, Contract!Spec

=============================================================================
