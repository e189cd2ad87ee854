# Verification of QDMI on IQM

TLA+ specifications of the IQM device implementation of QDMI (`src/src`,
`src/include`, `src/python/iqm/qdmi`), the TLC configurations that model-check
them on small instances, and TLAPS proofs that hold for instances of any size.

1. [The system](#the-system): its parts, their state, how they interact
2. [The modules](#the-modules): which models what, and how it maps to the code
3. [What is checked](#what-is-checked): runs, bounds, fairness
4. [What is proved](#what-is-proved)
5. [Where the documentation and the code differ](#where-the-documentation-and-the-code-differ)
6. [What is not modelled](#what-is-not-modelled) and [the plan](#the-plan)

`PROJECT.json` lists every run, the source lines of every definition, the
hazards each property guards against, and for every checked property a mutation
of the model that it catches.

## The system

A *driver* (MQT Core, or any QDMI client) allocates a **session**, sets its
parameters and initializes it; an initialized session answers queries about the
quantum computer and creates or retrieves **jobs**. Everything the device learns
or does goes through HTTP requests to the *IQM Server*. All calls are synchronous
and the library starts no threads: what happens concurrently is the server, other
handles and other processes using the same remote jobs, and the caller's threads,
one call per handle.

| Part | Code | State | Operations |
|---|---|---|---|
| Device session | `iqm_device.cpp` 79-176, 312-973 | status, parameters, the picture of the computer | set_parameter, init, free |
| Device job | `iqm_device.cpp` 181-221, 975-2109 | status, job id, programs and parameters, cached results, queue position | create, retrieve by id, set_parameter, set_programs, submit (circuit, calibration), cancel, check, wait, query, get_results, free |
| HTTP client | `http_client.cpp` | the session's last quota reading | Get, Post: retries, hold-back, deadline; answer to QDMI status |
| Authentication | `iqm_auth.cpp` | the cached access token | get_bearer_token |
| Device status and queries | `iqm_device.cpp` 2111-2467 | none of its own (reads the session, probes the server) | query_device/site/operation_property |
| API configuration, logging | `iqm_api_config.cpp`, `logging.cpp` | a constant table; the log level | url, log |
| Python settings, adapters | `_session.py`, `qiskit.py`, `_backends.py`, `pennylane.py` | none | session_parameters, constructors |
| Slurm offloader | `offloader.py`, `sampler.py`, `estimator.py` | files of one job directory per call | sample, estimate |
| Packaging | `__main__.py`, `_paths.py`, manifest | installed files | lookups |

How the parts interact: a session owns a `TokenManager`, a connection pool and a
quota reading; a job keeps a pointer to its session and uses all three. Session
initialization makes five requests in a row (computers, architecture, calibrated
gates, quality metrics, health). Each job call makes no request or one, except
retrieval (status, then payload), a shots query without a histogram (counts, then
measurements), and `wait`, which repeats checks. The offloader hands files to a
worker process that runs a whole session of its own.

What is hard about it:

- *Partial failure.* The server may carry out a request whose answer is lost.
  Submitting twice costs money and quota; hiding a submitted job loses it.
- *Races with the server.* Between sending a request and reading its answer a job
  ends, is cancelled by someone else, or the default calibration set changes.
- *Caching.* Statuses, results, queue positions and quota readings are kept and
  trusted later.
- *Time.* One deadline spans hold-back, attempts and pauses; tokens and quota
  windows run out; `wait` sleeps between checks.
- *Protocol order.* The API is a set of C functions that may be called in any
  order, on handles in any state.

What makes each part correct:

- *session*: the picture of the computer is coherent (one computer, one
  calibration set), it is what the caller asked for, and initialization happens
  at once or not at all;
- *job*: at most one remote job per handle, none lost silently; a status the
  remote job justifies and an outcome that stays; results that belong to the
  programs the handle shows; calls that return;
- *HTTP client*: a request is carried out at most once, no later than its
  deadline, pausing as long as the server asks;
- *authentication*: no request is sent with a token known to be about to expire;
- *offloader*: a call reads and removes only its own files, and the inputs of a
  failed call stay.

## The modules

| Module | What it is |
|---|---|
| `HttpResponse` | `Handle_response`: how the status code of an answer becomes a QDMI status |
| `HttpRequest` | abstract: what a caller of `Get`/`Post` may rely on |
| `HttpClient` | `Perform_with_retries`; implements `HttpRequest` |
| `DeviceJob` | the life of job handles against the IQM Server |
| `JobLifecycle` | abstract: the phases of a job, at most one accepted submission |
| `DeviceJobRefinement` | `DeviceJob` implements `JobLifecycle` |
| `DeviceSession` | parameters, selection and initialization of a session |
| `SessionSnapshot` | abstract: initialization at once or not at all |
| `TokenManager` | the session's access token, its expiry and its source |
| `TokenText` | the expiry read from the text of a token |
| `JobWait` | `wait` in time: back-off, rate limits, tokens; extends `TokenManager` |
| `JobResults` | from downloaded artifacts to histogram and shots in the caller's buffers |
| `DeviceModel` | from the server's documents to sites, operations and metrics, and their queries |
| `DeviceStatus` | the probes behind device status and queue length |
| `SessionSettings` | Python arguments, environment and manifest; instantiates `DeviceSession` |
| `Offloader` | `sample` and `estimate` through Slurm |
| `DeviceData` | composes the five modules of contents: `JobResults`, `DeviceModel`, `DeviceStatus`, `SessionSettings`, `TokenText` |
| `MCHttpClient`, `MCDeviceJob`, `MCDeviceSession`, `MCJobWait`, `MCOffloader`, `MCDeviceData`, `MCSessionSettings` | instances for TLC |
| `HttpClientProofs`, `DeviceJobProofs`, `DeviceJobContract`, `DeviceSessionProofs`, `JobWaitProofs`, `OffloaderProofs`, `DeviceDataProofs`, `JobResultsProofs` | proofs |

### DeviceJob

A call that makes a request is three kinds of steps: *Start* (all the code up to
the request, with its guards and early returns), a step of the server or the
network (`Serve`), and *Done* (all the code from reading the answer to the
return). A call without a request is one step. `call[h]` says where the call of
handle `h` is, `reply[h]` holds its answer. Between the steps other handles, the
server and other clients act.

| Variables | In the code |
|---|---|
| `life`, `status`, `jobId`, `calibration`, `queuePos` | the handle's existence, `status_`, `job_id_`, `calibration_`, `queue_position_` |
| `request` | how many `programs_` there are, and one value for all job parameters |
| `counts`, `measured`, `calId` | the programs whose `counts_` / `measurements_` are cached, `new_calibration_set_id_` |
| `ret` | the QDMI status the last call returned |
| `rkind`, `rstate`, `rrequest`, `creator` | remote jobs: kind, native status, what they were submitted with, by which handle |

The server is external. It accepts, refuses or loses any request; `ServeNothing`
fails a request without effect, and `Deliver` may replace the answer to a request
that *did* have its effect by any error, or by a 2xx whose body cannot be read.
Assumptions about it: job ids are unique; a status never goes backwards
(`ServerProgress`) though the device may read it late; a cancellation answered
2xx has cancelled the job; one status string per class of `Set_job_status` is
enough, plus one the device does not know. Each handle has one call in progress:
the library documents no concurrent use of a handle.

The texts of programs, names and results are left out: results are "cached for
program p" or not, and what a handle was configured with is compared as a whole.
A 2xx answer whose id is the empty string, after which the code has a handle that
is submitted but counts as having no id, is taken not to occur.
The sleep of `wait` is a state of its own, which ends with another check or, if
there is a timeout, with the timeout.

### HttpClient

One session making one request after another. `elapsed` is the time since the
request began and `age` the time since the last quota reading; both stop growing
where the code no longer tells later times apart, so that the state space is finite
without a bound on time. `Tick` advances everything by one tick, `TicksPerSecond`
to the second, because deadlines are in milliseconds and sleeps in seconds; a
sleep of `n` seconds may take longer than `n`. `effects` counts how often the
server carried out the current request; `pause` is the pause the last 429 asked
for, as the header says it, next to `sleep`, the pause the client takes.

Assumptions: a 429 comes from a rate limiter in front of the server, so that the
attempt was not carried out (this is what makes repeating a POST sound, and the
code relies on it); the transport gives up when the time it was given is over.

`DeviceJob` and `DeviceSession` treat a request as `HttpRequest` promises: one
answer, at most one effect, a success only with the effect, a failure with or
without it.

### DeviceSession

`InitStart` is everything up to the first request: defaults from the environment,
the URL, the authentication source. Each later action takes the answer of one
request and goes on to the next. A GET changes nothing on the server, so that a
request and its answer are one step, with the server free to act between two of
them: `Recalibrate` gives a computer another default calibration set, `Withdraw`
takes a computer off the list. `draft` is the local session that
`IQM_QDMI_device_session_init` fills and moves into place in the end; `picture` is
what the caller's session shows. A picture keeps only whose data it is: the
computer, whose architecture, and the calibration sets of the session, its gates
and its metrics. `Proceed` is the token each request needs, where the code gets a
new one: failing to get it ends the initialization with PERMISSIONDENIED.

`Resolves` takes nothing for granted about which set the server answers with when
the request names one; the code checks it (`Accepts`). Running out of memory is
not modelled here or elsewhere.

### TokenManager and JobWait

A token is the number of seconds it has left; `AgeTokens` is a second that passes.
A call of `get_bearer_token` is a step, plus one step per reading of the tokens
file, because the process that owns the file (`RewriteTokensFile`) may replace,
truncate or remove it between two readings.

`JobWait` gives `wait` its clock. Only sleeps, and a server that has not answered
yet, let time pass; a tick is a second. A check is a token, an optional hold-back
for a low quota, an attempt, and pauses after 429 while the request's timeout
lasts; `spent` is the time the request has taken. The answer is the status of the
job at some moment since the attempt was sent. `elapsed` and `endedFor` stop one
above the bounds that the properties compare them with, which makes the state
space finite. What a check does to the handle is `DeviceJob`'s subject.

The server is assumed to take a token from the tokens file until it expires.
`TimelyRenewalAvoidsDenial` says when a wait can be denied all the same. A request
asks for its token once, and the code's defaults allow it an hour, while a token is
only sure to last for the refresh margin of 60 seconds: a request that is held back,
paused by 429 or left unanswered for longer than that may be carried out, or
repeated, with a token that has expired since it was fetched. The property says that
this is the only way, whatever becomes of the file between two readings, and that
with a request timeout within the margin there is none. `refusedAt` is a history
variable that records for it how long the refused request had taken.

`TokenText` is where the number of seconds comes from: `time_left_seconds` and
`Base64_decode`, character by character as in the code. `Encoded`, with which
`ExpiryIsRead` compares it, is RFC 4648's definition: three bytes are 24 bits and
make four sextets. What `nlohmann::json` does with the decoded bytes is external: a
payload is a byte string that parses, with its `exp`; blanks, or anything after a
NUL, may follow. `PayloadsAssumption` says that payloads are JSON objects: each ends
with a brace, and none is the beginning of another.

### JobResults, DeviceModel, DeviceStatus

`DeviceJob` and `DeviceSession` say when a document is fetched and what a failure
does; these modules say what is made of its contents.

`JobResults`: a bitstring is a sequence of bits and a program's measurements are
its *fields*, keys with widths. The server lists the keys of its counts in any
order; `Normalized` and `AssembledShots` are the code's offsets, concatenation and
reversal, and `Shows`, with which the properties speak, says position by position
which qubit a character stands for. Answers may be damaged: an unknown, repeated
or missing key, a string that is too short, a digit that is no bit, a shot too
few (where that can be told from heralding, `LossShows`), an entry too few. For a program whose layout the session does not know,
nothing can be checked and the server is taken to be sound. The two halves of the
size protocol (a call without a buffer, a call with one) are separate steps, with
any others in between. A `Content` is written the way the code writes it and
`RequiredSize` is computed the way the code computes it, without looking at the
other.

`DeviceModel`: the three documents are read by one action each, and the queries
are operators, since they change nothing. The value of a fidelity is the place of
its observation in the document, so that a mix-up of gates, sites,
implementations or observations shows; coherence times are in half microseconds,
so that truncation and rounding differ, with `TooMany` in the place of 2^64. The
product with 1e6, a `double` in the code, is taken to be exact: where it is rounded
down, the code shows a microsecond less.

`DeviceStatus`: one action per request, with `ServerChanges` between them.
`RightStatus` is what `docs/usage.md` says of a status, at one moment.

### SessionSettings

`Open` is an adapter's construction: `SessionParameters` is `session_parameters`,
`Merged` the driver of MQT Core (external), which fills in the manifest's URL and
alias. `Initialize` hands the result to the operators `Selected` and `AuthConflict`
of `DeviceSession`, which look at the environment a second time.

### Offloader

One call of `sample` or `estimate` per element of `Calls`, one step per file
operation; a step may raise, the process may be killed, and the file system is
shared. `worker[c]`, on another node, outlives its call. `uuid4` may return any
name of `Dirs`, so that a name may collide while it is in use (`mkdir` raises) and
be used again afterwards. Any file operation may fail: one whose error the code
raises ends the call, and `rmdir`, whose errors it suppresses, leaves the directory
where it is (`RemoveDir`). `SuccessLeavesNoInputs` therefore speaks of files, and of
what is in a directory that stayed. Whether a result decodes is left to `output`.

## What is checked

Eight runs pass, and between them every action fires; four demonstrate where
documentation and code differ.

| Run | Instance | Shows |
|---|---|---|
| `job_one_handle` | 1 handle, 2 remote jobs, 2 programs, 2 parameter values, two error codes and transport errors | `TypeOK`, `AtMostOneRemoteJob`, `LostSubmissionReported`, `ResultsMatchRequest`, `CacheMatchesJob`, `FailedRequestKeepsHandle` |
| `job_two_handles` | 2 handles on 1 remote job, transport errors only, no histogram downloads | `StatusFollowsServer`, `ImplementsLifecycle` |
| `job_calls_return` | 1 handle, 1 job, with fairness | `CallsReturn` |
| `http_request` | 3 timeouts, window 3 s, 2 retries, pauses 0-2 s or the default 4 s | `TypeOK`, `WithinDeadline`, `HonoursRetryAfter`, `HoldBackReplenishes`, `ImplementsRequest`, `RequestsReturn` |
| `session_init` | 2 computers, 2 calibration sets, 5 environments | `TypeOK`, `CalibrationIsPinned`, `SelectionRespected`, `ImplementsSnapshot` |
| `wait_in_time` | timeouts 0, 3 and 9 s, sleeps up to 4 s, requests of 4 s, margin 3 s | `TypeOK`, `OvershootBounded`, `EndIsNoticed`, `KeptTokenSurvivesHoldBack`, `TimelyRenewalAvoidsDenial`, `WaitReturns` |
| `offloaded_calls` | 2 calls of either kind, one with a timeout, 2 directory names | `TypeOK`, `WorkersReadOwnInputs`, `OnlySuccessRemovesInputs`, `SuccessLeavesNoInputs`, `CallsEnd` |
| `device_data` | the five modules of contents, each on its own (see below) | `TypeOK`, `LayoutOrdersBits`, `CountsAgreeWithShots`, `AnnouncedSizeSuffices`, `SlicesAreLoci`, `FidelityIsOfThisGate`, `CoherenceIsObserved`, `StatusHeldDuringQuery`, `RoutingRespected`, `ExpiryIsRead` |
| `job_download_failure`, `http_long_pause`, `session_url`, `python_authentication` | | see [below](#where-the-documentation-and-the-code-differ) |

Why the bounds are enough:

- *Jobs.* Handles share nothing but remote jobs, so that two handles on one remote
  job give all the races there are; a second remote job matters to one handle only
  as the job a second submission would create or that was there before. Two
  programs tell "all" from "some" and "the first". `FewErrors` are a code that
  `Handle_response` maps to an error of its own (404) and one it maps to FATAL
  (500), which the download of a calibration set id treats differently; 403 comes
  with the server's refusal of a cancellation. The two-handle run leaves downloads
  out (`NoDownloads`) since they do not touch the remote job; the calibration set
  id, which may change a status, stays in. `WithoutRet` identifies states that
  differ only in the last returned code, which no action reads.
- *HTTP.* Two ticks to a second separate rounding up from rounding down. Timeouts
  of 3, 9 and 13 ticks are too short for the window, long enough for the window but
  not for window and pauses, and long enough for a full set of short pauses. The quota readings are
  overdrawn, just low, just not low, and unusable. Two retries stand for ten: the
  attempt counter is only compared with its bound. In `http_long_pause` an `int`
  has 16 values, so that a pause beyond it is expressible.
- *Session.* Two computers and two calibration sets are what it takes to mix them
  up. The environments select nothing, one computer, or an id and an alias of
  different computers; leave the URL out; and conflict in authentication.
- *Wait.* Sleeps of 1, 2 and 4 s show growth and cap; a timeout of 3 s is below the
  longest sleep and one of 9 s above the sum of all different ones, so that both
  cases of the overshoot occur. Both bounds are tight: with one second less, TLC
  finds a wait that takes longer. Tokens have no time left, less than the margin,
  or more. As in the code, a request may take longer than the margin, so that a wait
  can be denied although the file is renewed in time: TLC finds one if
  `TimelyRenewalAvoidsDenial` is put without its exception.
- *Offloader.* Calls share nothing but the jobs directory, so that two give all
  the interference there is; two names allow a collision and a reuse.
- *Contents.* `DeviceData` puts `JobResults`, `DeviceModel`, `DeviceStatus`,
  `SessionSettings` and `TokenText` side by side: they share no state, and a behaviour takes the
  steps of one of them. Jobs have one or two programs with fields of equal and
  unequal widths, known and unknown layouts, shots lost to heralding, or nothing
  measured. Computers have two qubits, with or without a resonator; loci of a gate
  are absent, sound, of differing sizes, empty, or listed in both orders. Two
  changes of the computer are allowed during one status query, and the property
  speaks of those with one: with two, a status may combine a health and a queue
  that never held together. Adapters are opened with every combination of
  arguments, as the default device or a named one. Tokens have payloads of two to
  six bytes, so that the last group of characters is of every length, in both
  alphabets, with padding and without, and lose or gain a character or a part.

`CHECK_DEADLOCK FALSE` is set where the system may stop: all handles freed and all
remote jobs ended, the session freed and no computer left, all offloaded calls
ended, or a document read. The HTTP client never
stops, since its clock does not.

Fairness. `WF(Serve(h))` and `WF(Continues(h))`: every request is answered, if only
by the timeout `cpr` is given for it, and the calling thread runs. `WF(Tick)`,
`WF(Attempt)`, `WF(Answer)`: the same for the HTTP client with its clock.
`WF(Progress)` and `WF(Tick)` of
`JobWait`: the waiting thread runs, an attempt is answered at the latest when the
transport gives up, the clock goes on. `WF(Proceed(c))` and `WF(SrunTimesOut(c))`
of `Offloader`: a call that can go on does, and its timeout passes; nothing is
assumed of Slurm, where a job may queue for ever. Nothing makes a caller call or
the server recalibrate. `CallsReturn` has the assumption that remote jobs end in
the property itself (`RemoteJobsEnd`), since no code guarantees it; an answer with a status the
device cannot read ends the wait with an error.

The abstract specifications are checked as properties: `ImplementsRequest`,
`ImplementsLifecycle` (the phase of a handle is `SUBMITTING` while a submission is
in flight, whatever `status_` says) and `ImplementsSnapshot` (the state, parameters
and picture of the session, the draft being invisible). They say more than single
properties that follow from them and have no run of their own: that a terminal
outcome is final (`ImplementsLifecycle`), `AtMostOneEffect` (`ImplementsRequest`)
and `PictureIsCoherent` (`ImplementsSnapshot`).

## What is proved

For every value of the constants that satisfies their assumptions:

| Module | Theorem | |
|---|---|---|
| `DeviceJobProofs` | `TypeCorrect` | types, any number of handles, jobs and programs |
| | `SubmitsAtMostOnce` | `AtMostOneRemoteJob` |
| | `ReportsLostSubmissions` | `LostSubmissionReported` |
| | `StatusIsJustified` | `StatusFollowsServer` |
| `DeviceJobContract` | `MatchesRequest`, `CachesMatchJob` | `ResultsMatchRequest`, `CacheMatchesJob` |
| | `FailedRequestsKeepHandles` | `FailedRequestKeepsHandle` |
| | `KeepsLifecycle` | `ImplementsLifecycle` |
| `HttpClientProofs` | `TypeCorrect`, `ActsAtMostOnce`, `KeepsDeadline` | `TypeOK`, `AtMostOneEffect`, `WithinDeadline` |
| | `WaitsOutRetryAfter` | `HonoursRetryAfter`, if every `Retry-After` fits an `int` |
| | `HoldsBackUntilReplenished` | `HoldBackReplenishes` |
| | `KeepsContract` | `ImplementsRequest` |
| `DeviceSessionProofs` | `TypeCorrect`, `IsCoherent`, `PinsCalibration`, `RespectsSelection` | `TypeOK`, `PictureIsCoherent`, `CalibrationIsPinned`, `SelectionRespected` |
| | `KeepsSnapshot` | `ImplementsSnapshot` |
| `JobWaitProofs` | `TypeCorrect`, `BoundsOvershoot`, `NoticesEnd` | `TypeOK`, `OvershootBounded`, `EndIsNoticed` |
| | `KeepsTokensAlive` | `KeptTokenSurvivesHoldBack` |
| | `RenewalAvoidsDenial` | `TimelyRenewalAvoidsDenial`, if `get_bearer_token` has a retry |
| | `ShortRequestsAreNotDenied` | no denial at all, if the request timeout is also within the margin |
| `OffloaderProofs` | `TypeCorrect`, `ReadOwnInputs`, `KeepsInputs`, `LeavesNoInputs` | `TypeOK`, `WorkersReadOwnInputs`, `OnlySuccessRemovesInputs`, `SuccessLeavesNoInputs` |
| `JobResultsProofs` | `OrdersBits`, `CountsAgree` | `LayoutOrdersBits`, `CountsAgreeWithShots` |
| | `SizesSuffice` | `AnnouncedSizeSuffices` |
| | `KeepsTypes` | `TypeOK` of `DeviceData`, all parts |
| `DeviceDataProofs` | `KeepsModelTypes` | `ModelTypeOK` (the part of `TypeOK` about `DeviceModel`) |
| | `SlicesLoci`, `ShowsFidelityOfGate`, `ShowsObservedCoherence` | `SlicesAreLoci`, `FidelityIsOfThisGate`, `CoherenceIsObserved` |
| | `HoldsStatus` | `StatusHeldDuringQuery` |
| | `RespectsRouting` | `RoutingRespected` |
| | `ReadsExpiry` | `ExpiryIsRead` |

*Jobs.* `AtMostOneRemoteJob` is not inductive: that a handle cannot submit again
has to be known while its submission is in flight and after it has failed.
`SubmissionInv` says so: a handle that is CREATED has no remote job; one that is
submitting is already FAILED (the code writes that status *before* the request
leaves, line 1412) and its answer, if it holds an id, is the id of a job this handle created.
`StatusFollowsServer` needs the answers on their way to be justified as well
(`AnswersInv`): the status in an answer explained the remote job when it was
written, and since remote statuses only move forward (`Explains` is closed under
`ServerProgress`) it still does when it is read. `LifeInv` ties calls to the life
of the handle. `IInv` is their conjunction; the proof takes one lemma per part
and in it one step per action.

*What a caller may rely on.* `RequestInv` strengthens `ResultsMatchRequest` to
answers on their way: the remote job whose id a submission brings runs what the
handle shows (nothing can be set while it is in flight), and the
payload a retrieval brings is that of the job it was asked for. `CacheInv` does the
same for `CacheMatchesJob`: downloads run only for handles that are DONE, an
artifact on its way is from a circuit job and a calibration set id from a
calibration job, and kinds and completed jobs stay what they are (`ServerKeeps`).
For `ImplementsLifecycle` every step of a handle or of the server is mapped to a
step of `JobLifecycle` or to a stutter, action by action; it needs `ChecksInv`,
that the status in an answer ranks no lower than the one of its handle, and
`CreatedInv`, that a remote job with a creator exists.
`FailedRequestKeepsHandle` is an action property and follows from `IInv`.

*HTTP.* `EffectInv`: an earlier attempt of the same request was turned away, so
that the effects of a request are those of the attempt in flight. `SleepInv` and
`PauseInv`: the client's own sleep covers the pause asked for; this is the step
that needs the header to fit an `int`, stated as a hypothesis of the theorem, and
`http_long_pause` shows that it cannot be dropped. `HoldBackReplenishes` is inductive
together with `IInv`: rounding up adds less than a second (`CeilFacts`), the integer
threshold is never above the percentage (`ThresholdFacts`), and every tick of the
sleep is a tick of the age of the quota.

*Session.* `DraftInv` says how much of the draft is filled at each step and with
what: the selection until the computer is known, that computer's data afterwards,
and from the answer about the gates on the id the server resolved the calibration
set to. The last point is what makes the metrics agree with the gates although the
default may have changed in between.

*Wait.* `PaceInv` says how far the elapsed time can have got at each point of a
wait, and at least how far: because the sleeps double, each is at most a second
longer than all before it together, which is why no sleep exceeds the timeout.
`NoticeInv`: an attempt sent when the job had ended brings its end, so that a sleep
can begin only within one attempt of the end. `BearerInv`: a kept token has more
than the margin left when its request starts and more than the rest of the hold-back
while it sleeps (`HoldBack < Margin` in `WaitAssumption`; the code has 10 and 60
seconds). `RenewalInv` is inductive only as long as the file is renewed in time,
and is carried along `[]RenewedInTime`: the token of a request, fresh or kept, had
more than `Covered` left when the request started, so that what it has left and
what the request has taken add up to more than that. No relation between the
request timeout and the margin is assumed. TLC has checked the conjunction `IInv` too.

*Offloader.* `OwnerInv`: while a call or its worker may come back to a directory,
no other such call has it, and every file lies in the directory of the call that
wrote it. This is where `mkdir(exist_ok=False)` counts. `FilesInv` says which
inputs a directory holds: the first ones while they are written, all of them until
success is reported, the last ones while they are removed. The worker can then open
only whole inputs of its own call (`ReadInv`), and a call that has got as far as
decoding has no file left (`LeftInv`); what may still be in its directory is then
another's, since files lie in the directories of those who wrote them. The run `offloaded_calls` has been checked
with the whole `IInv` as an invariant as well.

*Results.* `ResultsInv`: the histograms of all programs arrive together, each that
of the program's shots (`HistogramInv`); so do the shots, in the order of keys the
histograms settled, and a program that measured nothing has none (`ShotsInv`). That the artifacts are turned into this is shown
for any number of keys, widths and shots: the offset of a key is a running sum of
widths (`OffsetOfKey`), so that the substring there is the bits of that key
(`WindowIs`), and normalizing a string gives the layout's order whatever the
server's was (`NormalizedBits`). Two shots whose strings show the same bits have the same
string in every order (`ShowsOnce`), so that normalizing merges no two outcomes.
No damaged answer is taken for one of this program (`DamagedCountsRefused`,
`DamagedShotsRefused`); the length of a sound string does not depend on the order of
the keys, which is shown by counting its characters as pairs of a key and a position
(`CellsCounted`). One damage cannot be told from heralding: a shot
too few of the only key of a job that was retrieved by its id. `LossShows` leaves
it out, and TLC shows that it has to. `JobsAssumption` says that keys of a program
are distinct, a measured key has at least one qubit, every shot has a bit for each
of them, no job has more shots than were asked for, and that `NoValue` (an empty
`std::optional`) is no list of keys or strings.

That an announced size stays good is a property of two steps, one in which the
caller is told and a later one in which something is copied. `AnnouncedInv` carries
the size over: what it was announced of is there and has that size. It can stay so
because histograms are replaced only while none is there, and shots only while there
are none at all, even in an answer without programs (`DownloadKeeps`, `NoShots`).
That the copied text has the announced length and its only NUL at the end is a
running sum again, with one more character for each string (`TextIs`). The outcomes
of a histogram can be listed in lexicographic order at all (`SortedExists`):
the place of each is the number of those before it.

`KeepsTypes` is about the composition: a behaviour of `DeviceData` is one of each
part, so that the parts' own invariants hold together. For the caches of results
`ResultsInv`, `AnnouncedInv` and `ReplyInv` give the types; whether a program's
histogram is there is told by its keys, since a list of keys cannot be `NoValue`.

*Contents.* `QueryInv` of `DeviceStatus`: once the health is known, the status that
the queue will give a healthy computer is among those that were right during the
query, unless two things have changed; and the computer is healthy, unless one
has. `OpenedInv` of `SessionSettings`: the session has what `session_parameters`
and the driver make of the arguments. In `DeviceModel`, `LociInv` says that the loci
of an operation are those of the default implementation and can be described (not
empty, all of one size), and `FidelityInv` that the fidelities are those of the
observations as `Metric` reads them; `MetricIsValid` shows that what it reads is
a valid observation.

*Tokens.* `TextInv`: the token is as its issuer wrote it or one of the damaged ones
that can come of it, and what was read agrees with `ExpiryIsRead`. That the intact
token is read is shown group by group for payloads of any length: four sextets give
back the three bytes they were made of (`WholeGroups`), and a last group of two or
three letters gives one or two bytes, whether padding was written or is supplied
(`WrittenReads`). A damaged token decodes to one of two things. Either it is
*readable*, the payload with something behind it (`LongReads`, and `ShortReads` when only
padding was lost): what parses can then only be the payload, since no
payload is the beginning of another (`ReadableReads`). Or it is *spoilt*: its bytes
are those of the payload up to the brace, and the brace is missing, which every
payload ends with (`SpoiltReads`). A character outside of the alphabet is -1 in the
table, and the sum of the shifted sextets borrows from the byte before it; this is
why the last byte can be one less, 124, and the proof has to say where it may be.
TLC has checked `TextInv` on the run `device_data` as well.

Where an argument needs induction, over sums, concatenations and searches, it is
written out as a descent to a least counterexample (`LeastNatural`), since the
library's induction theorems take an operator as a parameter. The lemmas about
`FlattenSeq` and `FoldLeft` unfold the community modules' own definitions.

Model-checked only: the four liveness properties `RequestsReturn`, `WaitReturns`,
`CallsEnd` and `CallsReturn`, since fairness is beyond the prover, and the
runs that expect a violation. Every invariant and every other action property of a
passing run is a theorem.

## Where the documentation and the code differ

- `job_download_failure`: a transport error or 5xx while the calibration set id
  is downloaded (`QDMI_JOB_RESULT_CUSTOM1`) turns a DONE job FAILED, for good and
  for circuit jobs too; the comment on downloads (`iqm_device.cpp:1811`) promises
  that they leave the outcome unchanged and can be retried. The comment at the place
  itself (1888) wants only "truly fatal errors" to fail the job, but the code it
  tests for, `QDMI_ERROR_FATAL`, stands for errors that pass as well.
- `http_long_pause`: a `Retry-After` beyond `int` is cut to its low bits, and the
  retry leaves early, or at once.
- `session_url`: `docs/usage.md` promises a standard endpoint when no URL is
  given; initialization fails.
- `python_authentication`: `docs/qiskit.md` and `docs/usage.md` let an explicit
  authentication argument override the environment. `session_parameters` resolves
  token and tokens file one by one, so that an explicit token meets the
  environment's tokens file, both become explicit, and the session refuses them.

Other observations, without a run. A unit test (`test_iqm_auth.cpp:199`) says of a
payload with one character too many, which no bytes encode, that padding it "must
not yield a token that looks valid". The character becomes a byte of its own, and
where that is a blank (`I`) or a NUL (`A`) the JSON in front of it is read all the
same; `ExpiryIsRead` shows that the expiry is then still the right one. `docs/usage.md` has initialization retrieve
quality metrics "if available"; single metrics are optional in the code, but a 404
on the document fails the initialization. A batch with one program that measured
nothing has no shots for any of its programs, if the server lists an empty entry
for it (`iqm_device.cpp` 1967). The comment at `Pair_hash` says that the map of
two-qubit fidelities holds both orders of a pair; it holds the listed one, and
the query tries both, which `FidelityIsOfThisGate` shows to be enough.

The ten percent of the documentation's hold-back are exact only for limits that a
hundred divides (the threshold of a limit below 100 is zero); a comment in the code
calls that immaterial, and no property speaks of it.

## What is not modelled

- *Texts*: circuits, the parsing of their measurements, JSON itself, and names of
  sites and gates beyond their identity. Fidelities are not interpreted.
- *Constant device properties* (name, version, formats, duration unit).
- *API configuration, logging, adapters, packaging*: constants, output and text.
- *Out of memory*, and undefined behaviour of a caller that uses a freed handle.

## The plan

Built so far: jobs, HTTP client, session; then tokens and the clock of wait, the
offloader, and the contents of results, device queries, status and settings. Next:

1. `DeviceStatus` over a computer of any number of changes: which pairs of moments
   a status can combine.
2. The composition of `JobWait` with two waits in one session, which share a quota
   reading and a token.
