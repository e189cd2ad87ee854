--------------------------- MODULE JobWaitProofs ----------------------------
(***************************************************************************)
(* Proofs about JobWait: for any timeouts, back-off, rate limits and       *)
(* refresh margin, by how much a wait can outlast its timeout, how soon it *)
(* notices the end of its job, and what becomes of the tokens it uses.     *)
(***************************************************************************)
EXTENDS JobWait, TLAPS

-----------------------------------------------------------------------------
(* Lemmas *)

LEMMA HandleType ==
  ASSUME NEW code
  PROVE  Handle_response(code) \in QdmiCodes
BY DEF Handle_response, QdmiCodes, QdmiErrors

LEMMA LeastFacts ==
  ASSUME NEW m \in Nat, NEW n \in Nat
  PROVE  Least(m, n) \in Nat /\ Least(m, n) <= m /\ Least(m, n) <= n
         /\ (Least(m, n) = m \/ Least(m, n) = n)
BY DEF Least

LEMMA BoundTypes ==
  ASSUME TypeOK
  PROVE  /\ NoticeBound \in Nat
         /\ timeout \in Nat
         /\ timeout > 0 => WaitBound \in Nat /\ WaitBound >= timeout + RequestTimeout
BY WaitAssumption DEF TypeOK, NoticeBound, WaitBound, Least

LEMMA CoveredFacts ==
  Covered \in Nat /\ Covered <= Margin /\ Covered <= RequestTimeout /\ Covered' = Covered
BY TokenAssumption, WaitAssumption DEF Covered, Least

LEMMA OlderType ==
  /\ \A t \in Nat : Older(t) \in Nat /\ Older(t) + 1 >= t
  /\ Older(NoToken) = NoToken /\ Older(Unreadable) = Unreadable
BY TokenAssumption DEF Older

-----------------------------------------------------------------------------
(* Types *)

LEMMA AgeTokensTypes ==
  ASSUME TokenTypeOK, AgeTokens
  PROVE  TokenTypeOK'
BY OlderType DEF TokenTypeOK, Token, AgeTokens

LEMMA DropBearerTypes ==
  ASSUME TokenTypeOK, DropBearer
  PROVE  TokenTypeOK'
BY DEF TokenTypeOK, Token, DropBearer

LEMMA ReturnTypes ==
  ASSUME TypeOK, NEW code \in QdmiCodes, Return(code), UNCHANGED jobVars, status' = status,
         refusedAt' \in {refusedAt, spent}
  PROVE  TypeOK'
BY WaitAssumption, DropBearerTypes DEF TypeOK, Return, jobVars

LEMMA AuthorizeTypes ==
  ASSUME TokenTypeOK, get_bearer_token \/ Read_access_token_from_file
  PROVE  TokenTypeOK'
<1>1. reused' \in BOOLEAN
  BY DEF TokenTypeOK, get_bearer_token, Read_access_token_from_file, Hand
<1>2. getting' \in {"idle", "reading", "ready", "failed"}
  BY DEF TokenTypeOK, get_bearer_token, Read_access_token_from_file, Hand
<1>3. retries' \in 0..Retries
  BY TokenAssumption
     DEF TokenTypeOK, get_bearer_token, Read_access_token_from_file, Hand, GivesUp
<1>4. /\ token_source' \in Sources
      /\ held' \in Nat \/ (held' = Unreadable /\ token_source' = "TOKENS_FILE")
  BY DEF TokenTypeOK, get_bearer_token, Read_access_token_from_file
<1>5. access_token' \in Token /\ bearer' \in Token
  <2>1. time_left_seconds(held) > 0 => held \in Token
    BY DEF time_left_seconds, Token
  <2>2. token_source = "EXTERNAL_TOKEN" => held \in Token
    BY DEF TokenTypeOK, Token
  <2>. QED
    BY <2>1, <2>2
       DEF TokenTypeOK, Token, get_bearer_token, Read_access_token_from_file, Hand
<1>. QED
  BY <1>1, <1>2, <1>3, <1>4, <1>5 DEF TokenTypeOK

LEMMA TypeNext ==
  ASSUME TypeOK, ClockInv, [Next]_vars
  PROVE  TypeOK'
<1>1. CASE Wait
  BY <1>1, WaitAssumption DEF TypeOK, Wait, tokenVars, TokenTypeOK
<1>2. CASE Loop
  <2>1. ASSUME NEW code \in {"TIMEOUT", "SUCCESS"}, Return(code), UNCHANGED status
        PROVE  TypeOK'
    BY <1>2, <2>1, ReturnTypes DEF QdmiCodes, QdmiErrors, Loop
  <2>2. CASE phase' = "token" /\ UNCHANGED <<tokenVars, seen, status, timeout, elapsed,
                                            sleep_duration, left, spent, result>>
    BY <1>2, <2>2 DEF TypeOK, Loop, tokenVars, jobVars, TokenTypeOK
  <2>. QED
    BY <1>2, <2>1, <2>2 DEF Loop
<1>3. CASE Authorize
  BY <1>3, AuthorizeTypes DEF TypeOK, Authorize, jobVars, waitVars
<1>4. CASE AuthenticationFails
  BY <1>4, ReturnTypes DEF AuthenticationFails, QdmiCodes, QdmiErrors
<1>5. CASE Request
  BY <1>5, WaitAssumption DEF TypeOK, Request, Send, tokenVars, jobVars, TokenTypeOK
<1>6. CASE Resume
  BY <1>6 DEF TypeOK, Resume, Send, tokenVars, jobVars, TokenTypeOK
<1>7. CASE Wake
  BY <1>7, WaitAssumption DEF TypeOK, Wake, Least, tokenVars, jobVars, TokenTypeOK
<1>8. CASE Answered
  <2>1. CASE Return("SUCCESS")
    BY <1>8, <2>1, DropBearerTypes, WaitAssumption
       DEF Answered, TypeOK, Return, jobVars, QdmiCodes
  <2>2. CASE phase' = "sleeping"
    <3>1. TokenTypeOK'
      BY <1>8, <2>2, DropBearerTypes DEF Answered, Return, TypeOK
    <3>. QED
      BY <1>8, <2>2, <3>1, WaitAssumption DEF Answered, TypeOK, Return, jobVars
  <2>. QED
    BY <1>8, <2>1, <2>2 DEF Answered
<1>9. CASE Refused
  BY <1>9, HandleType, ReturnTypes DEF Refused
<1>10. CASE Failed
  BY <1>10, HandleType, ReturnTypes DEF Failed
<1>11. CASE RateLimited
  BY <1>11, WaitAssumption DEF TypeOK, RateLimited, PauseFits, tokenVars, jobVars, TokenTypeOK
<1>12. CASE JobEnds
  BY <1>12 DEF TypeOK, JobEnds, tokenVars, waitVars, TokenTypeOK
<1>13. CASE FileRewritten
  BY <1>13, TokenAssumption DEF TypeOK, FileRewritten, RewriteTokensFile, jobVars, waitVars,
     TokenTypeOK
<1>14. CASE Tick
  <2>1. TokenTypeOK'
    BY <1>14, AgeTokensTypes DEF Tick, TypeOK
  <2>2. elapsed' \in Nat /\ endedFor' \in Nat
    BY <1>14, BoundTypes DEF Tick, TypeOK, Least
  <2>3. left' \in 0..(MaxSleep + RequestTimeout) /\ spent' \in 0..RequestTimeout
    BY <1>14, WaitAssumption DEF Tick, TypeOK, ClockInv, Requesting
  <2>. QED
    BY <1>14, <2>1, <2>2, <2>3 DEF Tick, TypeOK
<1>15. CASE UNCHANGED vars
  BY <1>15 DEF vars, TypeOK, tokenVars, jobVars, waitVars, TokenTypeOK
<1>. QED
  BY <1>1, <1>2, <1>3, <1>4, <1>5, <1>6, <1>7, <1>8, <1>9, <1>10, <1>11, <1>12, <1>13,
     <1>14, <1>15 DEF Next, Progress

-----------------------------------------------------------------------------
(* The clocks of a wait and its requests *)

LEMMA ClockNext ==
  ASSUME TypeOK, ClockInv, [Next]_vars
  PROVE  ClockInv'
<1>. USE DEF Requesting
<1>1. CASE Wait
  BY <1>1 DEF ClockInv, Wait
<1>2. ASSUME NEW code, Return(code) PROVE ClockInv'
  BY <1>2 DEF ClockInv, Return
<1>3. CASE Loop
  BY <1>2, <1>3 DEF ClockInv, Loop
<1>4. CASE Authorize
  BY <1>4 DEF ClockInv, Authorize, waitVars
<1>5. CASE AuthenticationFails \/ Refused \/ Failed
  BY <1>2, <1>5 DEF AuthenticationFails, Refused, Failed
<1>6. CASE Request
  BY <1>6, WaitAssumption DEF TypeOK, ClockInv, Request, Send
<1>7. CASE Resume
  BY <1>7 DEF ClockInv, Resume, Send
<1>8. CASE Wake
  BY <1>8 DEF ClockInv, Wake
<1>9. CASE Answered
  BY <1>2, <1>9 DEF TypeOK, ClockInv, Answered
<1>10. CASE RateLimited
  <2>1. PICK pause \in RetryAfters : left' = pause /\ pause < RequestTimeout - spent
    BY <1>10 DEF RateLimited, PauseFits
  <2>2. phase' = "pausing" /\ spent' = spent
    BY <1>10 DEF RateLimited
  <2>3. spent + pause <= RequestTimeout
    BY <2>1, WaitAssumption DEF TypeOK
  <2>. QED
    BY <2>1, <2>2, <2>3 DEF ClockInv
<1>11. CASE Tick
  BY <1>11, WaitAssumption DEF TypeOK, ClockInv, Tick
<1>12. CASE JobEnds \/ FileRewritten \/ UNCHANGED vars
  BY <1>12 DEF ClockInv, JobEnds, FileRewritten, waitVars, vars
<1>. QED
  BY <1>1, <1>3, <1>4, <1>5, <1>6, <1>7, <1>8, <1>9, <1>10, <1>11, <1>12 DEF Next, Progress

LEMMA PaceImpliesBound ==
  ASSUME TypeOK, ClockInv, PaceInv
  PROVE  OvershootBounded
<1>. SUFFICES ASSUME timeout > 0 PROVE elapsed <= WaitBound
  BY DEF OvershootBounded
<1>. USE DEF Requesting
<1>1. phase # "idle"
  BY DEF ClockInv
<1>2. CASE phase = "loop"
  BY <1>2 DEF PaceInv
<1>3. CASE phase = "token"
  BY <1>3, WaitAssumption DEF TypeOK, PaceInv, WaitBound, Least
<1>4. CASE Requesting
  BY <1>4, WaitAssumption DEF TypeOK, PaceInv, WaitBound, Least
<1>5. CASE phase = "sleeping"
  BY <1>5, WaitAssumption DEF TypeOK, PaceInv, WaitBound, Least
<1>. QED
  BY <1>1, <1>2, <1>3, <1>4, <1>5 DEF TypeOK

LEMMA PaceNext ==
  ASSUME TypeOK, ClockInv, PaceInv, [Next]_vars
  PROVE  PaceInv'
<1>. USE DEF Requesting
<1>1. CASE Wait
  <2>1. phase' = "loop" /\ elapsed' = 0 /\ sleep_duration' = 1 /\ timeout' \in Nat
    BY <1>1, WaitAssumption DEF Wait
  <2>2. timeout' > 0 => 0 <= WaitBound'
    <3>. SUFFICES ASSUME timeout' > 0
                  PROVE  0 <= timeout' + RequestTimeout + Least(MaxSleep, timeout') - 1
      BY DEF WaitBound
    <3>1. Least(MaxSleep, timeout') \in Nat
      BY <2>1, WaitAssumption DEF Least
    <3>. QED
      BY <2>1, <3>1, WaitAssumption
  <2>. QED
    BY <2>1, <2>2 DEF PaceInv
<1>2. ASSUME NEW code, Return(code) PROVE PaceInv'
  BY <1>2 DEF PaceInv, Return
<1>3. CASE Loop
  <2>1. ASSUME ~OutOfTime, phase' = "token", UNCHANGED <<timeout, elapsed, sleep_duration>>
        PROVE  PaceInv'
    <3>1. timeout > 0 => elapsed < timeout
      BY <2>1, WaitAssumption DEF TypeOK, OutOfTime
    <3>. QED
      BY <1>3, <2>1, <3>1 DEF PaceInv, Loop
  <2>. QED
    BY <1>2, <1>3, <2>1 DEF Loop
<1>4. CASE Authorize
  BY <1>4 DEF PaceInv, Authorize, waitVars
<1>5. CASE AuthenticationFails \/ Refused \/ Failed
  BY <1>2, <1>5 DEF AuthenticationFails, Refused, Failed
<1>6. CASE Request
  BY <1>6, WaitAssumption DEF TypeOK, ClockInv, PaceInv, Request, Send
<1>7. CASE Resume
  BY <1>7 DEF PaceInv, Resume, Send
<1>8. CASE Wake
  BY <1>8, WaitAssumption DEF TypeOK, ClockInv, PaceInv, Wake, WaitBound, Least
<1>9. CASE Answered
  BY <1>2, <1>9, WaitAssumption DEF TypeOK, PaceInv, Answered
<1>10. CASE RateLimited
  BY <1>10 DEF PaceInv, RateLimited
<1>11. CASE Tick
  <2>1. timeout > 0 => elapsed' = elapsed + 1
    BY <1>11, PaceImpliesBound, BoundTypes DEF TypeOK, Tick, Least, OvershootBounded
  <2>. QED
    BY <1>11, <2>1, WaitAssumption DEF TypeOK, ClockInv, PaceInv, Tick
<1>12. CASE JobEnds \/ FileRewritten \/ UNCHANGED vars
  BY <1>12 DEF PaceInv, WaitBound, JobEnds, FileRewritten, waitVars, vars
<1>. QED
  BY <1>1, <1>3, <1>4, <1>5, <1>6, <1>7, <1>8, <1>9, <1>10, <1>11, <1>12 DEF Next, Progress

-----------------------------------------------------------------------------
(* The end of the job *)

LEMMA NoticeNext ==
  ASSUME TypeOK, ClockInv, NoticeInv, [Next]_vars
  PROVE  NoticeInv'
<1>. USE DEF Requesting
<1>1. CASE Wait
  BY <1>1, WaitAssumption DEF TypeOK, NoticeInv, Wait
<1>2. ASSUME NEW code, Return(code), UNCHANGED jobVars,
             status' \in {status, seen, job}
      PROVE  NoticeInv'
  BY <1>2 DEF NoticeInv, Return, jobVars
<1>3. CASE Loop
  BY <1>2, <1>3 DEF NoticeInv, Loop, jobVars
<1>4. CASE Authorize
  BY <1>4 DEF NoticeInv, Authorize, waitVars, jobVars
<1>5. CASE AuthenticationFails \/ Refused \/ Failed
  BY <1>2, <1>5 DEF AuthenticationFails, Refused, Failed
<1>6. CASE Request
  BY <1>6, WaitAssumption DEF TypeOK, ClockInv, NoticeInv, Request, Send, jobVars
<1>7. CASE Resume
  BY <1>7 DEF TypeOK, NoticeInv, Resume, Send, jobVars
<1>8. CASE Wake
  BY <1>8, WaitAssumption DEF TypeOK, ClockInv, NoticeInv, Wake, jobVars
<1>9. CASE Answered
  BY <1>2, <1>9, WaitAssumption DEF TypeOK, ClockInv, NoticeInv, Answered, jobVars
<1>10. CASE RateLimited
  BY <1>10 DEF NoticeInv, RateLimited, jobVars
<1>11. CASE JobEnds
  BY <1>11 DEF TypeOK, ClockInv, NoticeInv, JobEnds, waitVars
<1>12. CASE Tick
  <2>1. endedFor' \in Nat /\ endedFor' <= endedFor + 1
    BY <1>12, BoundTypes DEF TypeOK, Tick, Least
  <2>2. job = "running" => endedFor' = endedFor
    BY <1>12 DEF Tick
  <2>. QED
    BY <1>12, <2>1, <2>2, WaitAssumption DEF TypeOK, ClockInv, NoticeInv, Tick
<1>13. CASE FileRewritten \/ UNCHANGED vars
  BY <1>13 DEF NoticeInv, FileRewritten, waitVars, jobVars, vars
<1>. QED
  BY <1>1, <1>3, <1>4, <1>5, <1>6, <1>7, <1>8, <1>9, <1>10, <1>11, <1>12, <1>13
     DEF Next, Progress

-----------------------------------------------------------------------------
(* Tokens *)

LEMMA BearerNext ==
  ASSUME TypeOK, ClockInv, BearerInv, [Next]_vars
  PROVE  BearerInv'
<1>. USE DEF Requesting
<1>1. CASE Wait
  BY <1>1 DEF BearerInv, Wait, tokenVars
<1>2. ASSUME NEW code, Return(code) PROVE BearerInv'
  BY <1>2 DEF BearerInv, Return, DropBearer
<1>3. CASE Loop
  BY <1>2, <1>3 DEF BearerInv, Loop, tokenVars
<1>4. CASE Authorize
  BY <1>4, TokenAssumption
     DEF TypeOK, TokenTypeOK, Token, BearerInv, Authorize, get_bearer_token, CacheServes,
         Read_access_token_from_file, Hand, time_left_seconds, waitVars
<1>5. CASE AuthenticationFails \/ Refused \/ Failed
  BY <1>2, <1>5 DEF AuthenticationFails, Refused, Failed
<1>6. CASE Request
  BY <1>6, WaitAssumption, TokenAssumption DEF TypeOK, BearerInv, Request, Send, tokenVars
<1>7. CASE Resume
  BY <1>7 DEF BearerInv, Resume, Send, tokenVars
<1>8. CASE Wake
  BY <1>8 DEF BearerInv, Wake, tokenVars
<1>9. CASE Answered
  BY <1>2, <1>9 DEF BearerInv, Answered, DropBearer
<1>10. CASE RateLimited
  BY <1>10 DEF BearerInv, RateLimited, tokenVars
<1>11. CASE Tick
  BY <1>11, TokenAssumption DEF TypeOK, ClockInv, BearerInv, Tick, AgeTokens, Older
<1>12. CASE JobEnds \/ FileRewritten \/ UNCHANGED vars
  BY <1>12 DEF BearerInv, JobEnds, FileRewritten, RewriteTokensFile, waitVars, tokenVars, vars
<1>. QED
  BY <1>1, <1>3, <1>4, <1>5, <1>6, <1>7, <1>8, <1>9, <1>10, <1>11, <1>12 DEF Next, Progress

\* If the tokens file is renewed in time, no step of a wait is denied but at the end
\* of a request that has gone on for longer than a token surely covers.
LEMMA RenewalNext ==
  ASSUME Retries > 0,
         TypeOK, ClockInv, BearerInv, RenewalInv, RenewedInTime, [Next]_vars
  PROVE  RenewalInv'
<1>. USE DEF Requesting
<1>1. CASE Wait
  BY <1>1 DEF RenewalInv, Wait, tokenVars
<1>. USE CoveredFacts
<1>2. ASSUME NEW code, code = "PERMISSIONDENIED" => refusedAt' > Covered, Return(code)
      PROVE  RenewalInv'
  BY <1>2 DEF RenewalInv, Return, DropBearer
<1>3. CASE Loop
  BY <1>2, <1>3 DEF BearerInv, RenewalInv, Loop, tokenVars
<1>4. CASE Authorize
  <2>1. getting' # "failed"
    BY <1>4, WaitAssumption, TokenAssumption
       DEF RenewalInv, RenewedInTime, Authorize, get_bearer_token,
           Read_access_token_from_file, Hand, GivesUp, TypeOK, TokenTypeOK, time_left_seconds
  <2>2. getting' = "ready" => bearer' \in Nat /\ bearer' > Covered
    BY <1>4, WaitAssumption, TokenAssumption
       DEF TypeOK, TokenTypeOK, Token, RenewedInTime, Authorize, get_bearer_token,
           CacheServes, Read_access_token_from_file, Hand, time_left_seconds
  <2>. QED
    BY <1>4, <2>1, <2>2 DEF RenewalInv, Authorize, waitVars
<1>5. ~AuthenticationFails
  BY DEF RenewalInv, AuthenticationFails
<1>6. CASE Refused
  <2>1. refusedAt' = spent /\ spent > Covered
    BY <1>6 DEF TypeOK, RenewalInv, RenewedInTime, Refused
  <2>. QED
    BY <1>2, <1>6, <2>1 DEF Refused
<1>7. CASE Failed
  BY <1>2, <1>7, WaitAssumption DEF Failed
<1>8. CASE Request
  BY <1>8, WaitAssumption DEF TypeOK, ClockInv, RenewalInv, Request, Send, tokenVars
<1>9. CASE Resume
  BY <1>9 DEF RenewalInv, Resume, Send, tokenVars
<1>10. CASE Wake
  BY <1>10 DEF RenewalInv, Wake, tokenVars
<1>11. CASE Answered
  BY <1>2, <1>11 DEF RenewalInv, Answered, DropBearer
<1>12. CASE RateLimited
  BY <1>12 DEF RenewalInv, RateLimited, tokenVars
<1>13. CASE Tick
  BY <1>13, WaitAssumption DEF TypeOK, ClockInv, RenewalInv, Tick, AgeTokens, Older
<1>14. CASE JobEnds \/ FileRewritten \/ UNCHANGED vars
  BY <1>14 DEF RenewalInv, JobEnds, FileRewritten, RewriteTokensFile, waitVars, tokenVars, vars
<1>. QED
  BY <1>1, <1>3, <1>4, <1>5, <1>6, <1>7, <1>8, <1>9, <1>10, <1>11, <1>12, <1>13, <1>14
     DEF Next, Progress

-----------------------------------------------------------------------------
(* The theorems *)

LEMMA Invariance == Spec => []IInv
<1>1. Init => IInv
  <2>. SUFFICES ASSUME Init PROVE IInv
    OBVIOUS
  <2>. USE DEF Init, TokenInit, Requesting
  <2>1. TokenTypeOK
    <3>1. retries \in 0..Retries
      BY TokenAssumption
    <3>2. held \in Nat /\ access_token \in Token /\ bearer \in Token
      BY TokenAssumption DEF Token
    <3>3. reused \in BOOLEAN
      OBVIOUS
    <3>. QED
      BY <3>1, <3>2, <3>3 DEF TokenTypeOK
  <2>2. TypeOK
    BY <2>1, WaitAssumption DEF TypeOK
  <2>3. ClockInv /\ PaceInv
    BY DEF ClockInv, PaceInv
  <2>4. NoticeInv
    BY DEF NoticeInv
  <2>5. BearerInv
    BY DEF BearerInv
  <2>. QED
    BY <2>2, <2>3, <2>4, <2>5 DEF IInv
<1>2. IInv /\ [Next]_vars => IInv'
  BY TypeNext, ClockNext, PaceNext, NoticeNext, BearerNext DEF IInv
<1>. QED
  BY <1>1, <1>2, PTL DEF Spec

\* Every variable of the model of wait and of the token manager keeps to its type.
THEOREM TypeCorrect == Spec => []TypeOK
<1>1. IInv => TypeOK
  BY DEF IInv
<1>. QED
  BY <1>1, Invariance, PTL

\* IQM_QDMI_device_job_wait outlasts its timeout by one request and one sleep at
\* most, whatever the timeout, the cap of the back-off and the server's rate limits,
\* and by no sleep longer than the timeout.
THEOREM BoundsOvershoot == Spec => []OvershootBounded
<1>1. IInv => OvershootBounded
  BY PaceImpliesBound DEF IInv
<1>. QED
  BY <1>1, Invariance, PTL

\* IQM_QDMI_device_job_wait is over within two requests and one longest sleep of
\* the end of its job, however many pauses those requests consist of.
THEOREM NoticesEnd == Spec => []EndIsNoticed
<1>1. IInv => EndIsNoticed
  <2>. SUFFICES ASSUME TypeOK, ClockInv, NoticeInv, phase # "idle"
                PROVE  endedFor <= 2 * RequestTimeout + MaxSleep
    BY DEF IInv, EndIsNoticed, NoticeBound
  <2>1. CASE phase \in {"loop", "token"}
    BY <2>1, WaitAssumption DEF TypeOK, NoticeInv
  <2>2. CASE Requesting
    BY <2>2, WaitAssumption DEF TypeOK, NoticeInv
  <2>3. CASE phase = "sleeping"
    BY <2>3, WaitAssumption DEF TypeOK, NoticeInv
  <2>. QED
    BY <2>1, <2>2, <2>3 DEF TypeOK, Requesting
<1>. QED
  BY <1>1, Invariance, PTL

\* A token that get_bearer_token has kept from an earlier call is alive when the
\* request it is for leaves, for any margin greater than the longest hold-back.
THEOREM KeepsTokensAlive == Spec => KeptTokenSurvivesHoldBack
<1>1. IInv /\ [Next]_vars =>
        [(phase \in {"token", "holding"} /\ phase' = "in_flight" /\ reused) => bearer > 0]_vars
  <2>. SUFFICES ASSUME IInv, Next, phase \in {"token", "holding"}, reused
                PROVE  bearer > 0
    OBVIOUS
  <2>1. CASE phase = "token"
    BY <2>1, TokenAssumption DEF IInv, BearerInv
  <2>2. CASE phase = "holding"
    BY <2>2, WaitAssumption DEF IInv, TypeOK, BearerInv
  <2>. QED
    BY <2>1, <2>2
<1>. QED
  BY <1>1, Invariance, PTL DEF Spec, KeptTokenSurvivesHoldBack

\* If the owner of the tokens file renews it in time, whenever and however often it
\* rewrites it, a wait is denied at most in a request that has gone on for longer
\* than the refresh margin, or never if a request cannot (get_bearer_token and
\* IQM_QDMI_device_job_wait): for any margin and any request timeout, the defaults
\* among them, and any number of retries greater than zero (the default is one).
THEOREM RenewalAvoidsDenial ==
  ASSUME Retries > 0
  PROVE  Spec => TimelyRenewalAvoidsDenial
<1>1. IInv /\ Init => RenewalInv
  BY DEF Init, TokenInit, RenewalInv, Requesting
<1>2. IInv /\ RenewalInv /\ RenewedInTime /\ [Next]_vars => RenewalInv'
  BY RenewalNext DEF IInv
<1>3. RenewalInv => (result = "PERMISSIONDENIED" => refusedAt > Covered)
  BY DEF RenewalInv
<1>. QED
  BY <1>1, <1>2, <1>3, Invariance, PTL DEF Spec, TimelyRenewalAvoidsDenial

\* And never if the request timeout is within the refresh margin: no wait is denied.
COROLLARY ShortRequestsAreNotDenied ==
  ASSUME Retries > 0, RequestTimeout <= Margin
  PROVE  Spec => ([]RenewedInTime => [](result # "PERMISSIONDENIED"))
<1>1. TypeOK /\ (result = "PERMISSIONDENIED" => refusedAt > Covered)
        => result # "PERMISSIONDENIED"
  BY TokenAssumption, WaitAssumption DEF TypeOK, Covered, Least
<1>. QED
  BY <1>1, TypeCorrect, RenewalAvoidsDenial, PTL DEF TimelyRenewalAvoidsDenial

=============================================================================
