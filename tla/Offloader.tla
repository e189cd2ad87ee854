----------------------------- MODULE Offloader ------------------------------
(***************************************************************************)
(* Circuits handed to Slurm (src/python/iqm/qdmi/offloader.py: sample and  *)
(* estimate; sampler.py and estimator.py: the workers).  Each call writes  *)
(* its inputs into a directory of its own on a file system all nodes       *)
(* share, blocks on srun while a worker on another node reads them, runs   *)
(* them and prints the result, and then removes its inputs and decodes the *)
(* output.  Calls run concurrently, in threads and in processes, with one  *)
(* jobs directory between them; a process may be killed at any moment, and *)
(* a call that gives up on srun leaves a worker behind.                    *)
(***************************************************************************)
EXTENDS Naturals, Sequences

CONSTANTS
  Calls,       \* calls of sample and estimate, each made once
  TimedCalls,  \* those that were given a timeout
  Dirs,        \* names uuid4 can return
  NoDir        \* no job directory

ASSUME CallAssumption ==
  /\ TimedCalls \subseteq Calls
  /\ NoDir \notin Dirs

VARIABLES
  dirs,    \* the job directories that exist
  files,   \* the files in each of them
  kind,    \* which function a call is of
  step,    \* where it is
  dir,     \* its job_dir
  at,      \* which of its inputs is written, or removed, next
  worker,  \* the Slurm job of a call
  got,     \* the inputs the worker has read
  output   \* how the Slurm job ended and what it printed

vars == <<dirs, files, kind, step, dir, at, worker, got, output>>

Kinds == {"sample", "estimate"}

\* The inputs of a call, in the order they are written, read and removed.
Names(k) ==
  IF k = "sample" THEN <<"qc.qpy">> ELSE <<"ansatz.qpy", "operator.pkl">>

\* A file says whose input it is and whether it was written to the end.
File(c, i, whole) == [name |-> Names(kind[c])[i], of |-> c, whole |-> whole]

Files == [name : {"qc.qpy", "ansatz.qpy", "operator.pkl"}, of : Calls, whole : BOOLEAN]

Inputs(c) == {File(c, i, TRUE) : i \in 1..Len(Names(kind[c]))}

AllHandled(c) == at[c] > Len(Names(kind[c]))

Named(d, name) == {f \in files[d] : f.name = name}

-----------------------------------------------------------------------------
(* The call *)

Init ==
  /\ dirs = {}
  /\ files = [d \in Dirs |-> {}]
  /\ kind \in [Calls -> Kinds]
  /\ step = [c \in Calls |-> "called"]
  /\ dir = [c \in Calls |-> NoDir]
  /\ at = [c \in Calls |-> 1]
  /\ worker = [c \in Calls |-> "none"]
  /\ got = [c \in Calls |-> {}]
  /\ output = [c \in Calls |-> "none"]

Goes(c, s) == step' = [step EXCEPT ![c] = s]

\* local=True, or a package is missing: nothing is offloaded.
RunLocally(c) ==
  /\ step[c] = "called"
  /\ \E s \in {"returned", "raised"} : Goes(c, s)
  /\ UNCHANGED <<dirs, files, kind, dir, at, worker, got, output>>

NewJobDirForgotten(c) ==
  /\ step[c] = "called"
  /\ \E d \in Dirs \ dirs : dir' = [dir EXCEPT ![c] = d]
  /\ Goes(c, "writing")
  /\ UNCHANGED <<dirs, files, kind, at, worker, got, output>>

NewJobDirExistOk(c) ==
  /\ step[c] = "called"
  /\ \E d \in Dirs :
       /\ dir' = [dir EXCEPT ![c] = d]
       /\ dirs' = dirs \cup {d}
  /\ Goes(c, "writing")
  /\ UNCHANGED <<files, kind, at, worker, got, output>>

\* _new_job_dir raises if the name is taken, or the directory cannot be made.
NewJobDir(c) ==
  /\ step[c] = "called"
  /\ \/ \E d \in Dirs \ dirs :
          /\ dirs' = dirs \cup {d}
          /\ dir' = [dir EXCEPT ![c] = d]
          /\ Goes(c, "writing")
     \/ /\ Goes(c, "raised")
        /\ UNCHANGED <<dirs, dir>>
  /\ UNCHANGED <<files, kind, at, worker, got, output>>

\* A file opened for writing replaces the one of that name.
Puts(c, whole) ==
  LET old == Named(dir[c], Names(kind[c])[at[c]])
  IN  files' = [files EXCEPT ![dir[c]] = (@ \ old) \cup {File(c, at[c], whole)}]

\* An input is written.  Opening it may fail, or writing it halfway.
WriteInput(c) ==
  /\ step[c] = "writing" /\ ~AllHandled(c)
  /\ \/ /\ Puts(c, TRUE)
        /\ at' = [at EXCEPT ![c] = @ + 1]
        /\ UNCHANGED step
     \/ /\ Puts(c, FALSE) \/ UNCHANGED files
        /\ Goes(c, "raised")
        /\ UNCHANGED at
  /\ UNCHANGED <<dirs, kind, dir, worker, got, output>>

\* subprocess.run starts srun, or raises because it cannot.
Submit(c) ==
  /\ step[c] = "writing" /\ AllHandled(c)
  /\ \/ /\ Goes(c, "waiting")
        /\ worker' = [worker EXCEPT ![c] = "reading"]
     \/ /\ Goes(c, "raised")
        /\ UNCHANGED worker
  /\ at' = [at EXCEPT ![c] = 1]
  /\ UNCHANGED <<dirs, files, kind, dir, got, output>>

SrunTimesOutAndCleans(c) ==
  /\ step[c] = "waiting" /\ c \in TimedCalls
  /\ Goes(c, "cleaning")
  /\ UNCHANGED <<dirs, files, kind, dir, at, worker, got, output>>

\* TimeoutExpired: srun is killed, the inputs stay.
SrunTimesOut(c) ==
  /\ step[c] = "waiting" /\ c \in TimedCalls
  /\ Goes(c, "raised")
  /\ UNCHANGED <<dirs, files, kind, dir, at, worker, got, output>>

SrunReturnsUnheard(c) ==
  /\ step[c] = "waiting" /\ worker[c] = "exited" /\ output[c] # "failure"
  /\ Goes(c, "cleaning")
  /\ UNCHANGED <<dirs, files, kind, dir, at, worker, got, output>>

\* srun returns with the exit code of the worker.  The inputs of a failed job
\* stay as well.
SrunReturns(c) ==
  /\ step[c] = "waiting" /\ worker[c] = "exited"
  /\ Goes(c, IF output[c] = "failure" THEN "raised" ELSE "cleaning")
  /\ UNCHANGED <<dirs, files, kind, dir, at, worker, got, output>>

\* The first input only, as in a copy of sample.
RemoveFirstInput(c) ==
  /\ step[c] = "cleaning" /\ at[c] = 1
  /\ files' = [files EXCEPT ![dir[c]] = @ \ Named(dir[c], Names(kind[c])[1])]
  /\ at' = [at EXCEPT ![c] = Len(Names(kind[c])) + 1]
  /\ UNCHANGED <<dirs, kind, step, dir, worker, got, output>>

\* unlink(missing_ok=True) of one input.  Any other error is raised.
RemoveInput(c) ==
  /\ step[c] = "cleaning" /\ ~AllHandled(c)
  /\ \/ /\ files' = [files EXCEPT ![dir[c]] = @ \ Named(dir[c], Names(kind[c])[at[c]])]
        /\ at' = [at EXCEPT ![c] = @ + 1]
        /\ UNCHANGED step
     \/ /\ Goes(c, "raised")
        /\ UNCHANGED <<files, at>>
  /\ UNCHANGED <<dirs, kind, dir, worker, got, output>>

\* rmdir, any error suppressed: a directory that is not empty stays, and so does
\* an empty one that cannot be removed.
RemoveDir(c) ==
  /\ step[c] = "cleaning" /\ AllHandled(c)
  /\ \/ /\ files[dir[c]] = {}
        /\ dirs' = dirs \ {dir[c]}
     \/ UNCHANGED dirs
  /\ Goes(c, "decoding")
  /\ UNCHANGED <<files, kind, dir, at, worker, got, output>>

\* _load_pickled_result and extract_counts.
Decode(c) ==
  /\ step[c] = "decoding"
  /\ Goes(c, IF output[c] = "result" THEN "returned" ELSE "raised")
  /\ UNCHANGED <<dirs, files, kind, dir, at, worker, got, output>>

\* The process of the call is killed.
Killed(c) ==
  /\ step[c] \in {"writing", "waiting", "cleaning", "decoding"}
  /\ Goes(c, "killed")
  /\ UNCHANGED <<dirs, files, kind, dir, at, worker, got, output>>

-----------------------------------------------------------------------------
(* The worker, on another node *)

\* The inputs a worker has yet to read.
Unread(c) == {i \in 1..Len(Names(kind[c])) : ~\E f \in got[c] : f.name = Names(kind[c])[i]}

\* The worker opens its next input, in the order of the command line.  One that
\* is missing or cut short ends it.
WorkerReads(c) ==
  /\ worker[c] = "reading"
  /\ \E i \in Unread(c) :
       /\ \A j \in Unread(c) : i <= j
       /\ LET found == Named(dir[c], Names(kind[c])[i]) IN
          \/ /\ \E f \in found : f.whole
             /\ got' = [got EXCEPT ![c] = @ \cup found]
             /\ worker' = [worker EXCEPT ![c] =
                             IF Unread(c) = {i} THEN "running" ELSE "reading"]
             /\ UNCHANGED output
          \/ /\ ~\E f \in found : f.whole
             /\ worker' = [worker EXCEPT ![c] = "exited"]
             /\ output' = [output EXCEPT ![c] = "failure"]
             /\ UNCHANGED got
  /\ UNCHANGED <<dirs, files, kind, step, dir, at>>

\* The worker prints its result, among other things or not.
WorkerPrints(c) ==
  /\ worker[c] = "running"
  /\ worker' = [worker EXCEPT ![c] = "exited"]
  /\ \E o \in {"result", "unusable"} : output' = [output EXCEPT ![c] = o]
  /\ UNCHANGED <<dirs, files, kind, step, dir, at, got>>

\* The worker fails, or Slurm cancels it, waiting in the queue or later.
WorkerFails(c) ==
  /\ worker[c] \in {"reading", "running"}
  /\ worker' = [worker EXCEPT ![c] = "exited"]
  /\ output' = [output EXCEPT ![c] = "failure"]
  /\ UNCHANGED <<dirs, files, kind, step, dir, at, got>>

-----------------------------------------------------------------------------

Proceed(c) ==
  \/ RunLocally(c) \/ NewJobDir(c) \/ WriteInput(c) \/ Submit(c)
  \/ SrunReturns(c) \/ RemoveInput(c) \/ RemoveDir(c) \/ Decode(c)

Slurm(c) == WorkerReads(c) \/ WorkerPrints(c) \/ WorkerFails(c)

Next == \E c \in Calls : Proceed(c) \/ SrunTimesOut(c) \/ Killed(c) \/ Slurm(c)

Spec == Init /\ [][Next]_vars

\* A call that can go on does, and a timeout passes.  Nothing is assumed of
\* Slurm: a job may wait in its queue for ever.
FairSpec ==
  /\ Spec
  /\ \A c \in Calls : WF_vars(Proceed(c)) /\ WF_vars(SrunTimesOut(c))

-----------------------------------------------------------------------------
(* Properties *)

Ended == {"returned", "raised", "killed"}

Submitted(c) == worker[c] # "none"

ExitedWell(c) == output[c] \in {"result", "unusable"}

\* Every variable keeps to its type, and files are in directories that exist.
TypeOK ==
  /\ dirs \subseteq Dirs
  /\ files \in [Dirs -> SUBSET Files]
  /\ \A d \in Dirs \ dirs : files[d] = {}
  /\ kind \in [Calls -> Kinds]
  /\ step \in [Calls -> {"called", "writing", "waiting", "cleaning", "decoding"} \cup Ended]
  /\ dir \in [Calls -> Dirs \cup {NoDir}]
  /\ at \in [Calls -> 1..3]
  /\ worker \in [Calls -> {"none", "reading", "running", "exited"}]
  /\ got \in [Calls -> SUBSET Files]
  /\ output \in [Calls -> {"none", "failure", "result", "unusable"}]

\* Whatever the calls that share the jobs directory do, a worker reads the inputs
\* of its own call, and what a call returns is the result of all it handed in.
WorkersReadOwnInputs ==
  \A c \in Calls :
    /\ got[c] \subseteq Inputs(c)
    /\ step[c] = "returned" /\ Submitted(c) => got[c] = Inputs(c)

\* The inputs of a submitted job are there, complete, until srun has reported its
\* success: for a worker that waits in the queue longer than its call, and for the
\* reader of "job inputs kept at ... for debugging" (offloader.py:167 and 171).
OnlySuccessRemovesInputs ==
  \A c \in Calls :
    Submitted(c) => ExitedWell(c) \/ Inputs(c) \subseteq files[dir[c]]

\* A call whose success was reported has removed all it wrote before it looks at
\* the output, whether that can be decoded or not: a file on the shared file system
\* is always that of a call that is under way, has failed or was killed.  The
\* directory may stay, since errors of rmdir are ignored (offloader.py:293 and 408),
\* but there is nothing of the call in it: it is empty, or another's by now.
SuccessLeavesNoInputs ==
  \A c \in Calls : step[c] \in {"decoding", "returned"} =>
    /\ \A d \in Dirs : \A f \in files[d] : f.of # c
    /\ dir[c] \in dirs =>
         files[dir[c]] = {} \/ \E other \in Calls \ {c} : dir[other] = dir[c]

\* A call ends if it has a timeout or its Slurm job ends.
CallsEnd ==
  \A c \in Calls :
    (c \in TimedCalls \/ worker[c] = "exited") ~> (step[c] \in Ended)

-----------------------------------------------------------------------------
(* What the proofs add to the invariants above to make them inductive *)

\* How far a call, its worker and its output have come together.
StageInv ==
  \A c \in Calls :
    /\ dir[c] = NoDir => step[c] \in {"called", "returned", "raised"}
    /\ step[c] = "called" => dir[c] = NoDir /\ at[c] = 1
    /\ dir[c] = NoDir \/ step[c] = "writing" => ~Submitted(c)
    /\ step[c] \in {"waiting", "cleaning", "decoding"} => Submitted(c)
    /\ step[c] \in {"cleaning", "decoding"} => ExitedWell(c)
    /\ step[c] = "returned" /\ Submitted(c) => ExitedWell(c)
    /\ step[c] = "waiting" => at[c] = 1
    /\ step[c] \in {"writing", "cleaning"} => at[c] <= Len(Names(kind[c])) + 1
    /\ output[c] # "none" <=> worker[c] = "exited"

\* A directory belongs to the call that made it while the call or its worker may
\* still come back to it.
Owns(c) ==
  \/ step[c] \in {"writing", "waiting", "cleaning"}
  \/ Submitted(c) /\ ~ExitedWell(c)

OwnerInv ==
  /\ \A c \in Calls : Owns(c) =>
       /\ dir[c] \in dirs
       /\ \A other \in Calls \ {c} : Owns(other) => dir[other] # dir[c]
  /\ \A d \in Dirs : \A f \in files[d] : dir[f.of] = d

\* The whole inputs of a call from its m-th to its n-th.
Between(c, m, n) == {File(c, i, TRUE) : i \in m..n}

\* What is in the directory of a call.
FilesInv ==
  \A c \in Calls :
    /\ step[c] = "writing" => files[dir[c]] = Between(c, 1, at[c] - 1)
    /\ step[c] = "waiting" \/ (Submitted(c) /\ ~ExitedWell(c)) => files[dir[c]] = Inputs(c)
    /\ step[c] = "cleaning" => files[dir[c]] = Between(c, at[c], Len(Names(kind[c])))

\* What a worker has read when it runs and when it prints.
ReadInv ==
  \A c \in Calls :
    /\ got[c] \subseteq Inputs(c)
    /\ worker[c] = "running" \/ ExitedWell(c) => got[c] = Inputs(c)

\* A call that has got to decoding has no file left.
LeftInv ==
  \A c \in Calls : step[c] \in {"decoding", "returned"} =>
    \A d \in Dirs : \A f \in files[d] : f.of # c

IInv == TypeOK /\ StageInv /\ OwnerInv /\ FilesInv /\ ReadInv /\ LeftInv

=============================================================================
