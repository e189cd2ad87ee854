-------------------------- MODULE OffloaderProofs --------------------------
(***************************************************************************)
(* Proofs about Offloader: for any number of calls that share a jobs       *)
(* directory, with or without timeouts, whatever fails and whoever is      *)
(* killed, workers read the inputs of their own calls, only success        *)
(* removes inputs, and success leaves no input behind.                     *)
(***************************************************************************)
EXTENDS Offloader, TLAPS

-----------------------------------------------------------------------------
(* Inputs and their names *)

LEMMA NamesFacts ==
  ASSUME NEW k \in Kinds
  PROVE  /\ Len(Names(k)) \in {1, 2}
         /\ \A i \in 1..Len(Names(k)) :
              Names(k)[i] \in {"qc.qpy", "ansatz.qpy", "operator.pkl"}
         /\ \A i, j \in 1..Len(Names(k)) : Names(k)[i] = Names(k)[j] => i = j
BY DEF Kinds, Names

LEMMA BetweenType ==
  ASSUME TypeOK, NEW c \in Calls, NEW m \in Nat \ {0}, NEW n \in Nat,
         n <= Len(Names(kind[c]))
  PROVE  Between(c, m, n) \subseteq Files
<1>. SUFFICES ASSUME NEW i \in m..n PROVE File(c, i, TRUE) \in Files
  BY DEF Between
<1>1. kind[c] \in Kinds
  BY DEF TypeOK
<1>2. i \in 1..Len(Names(kind[c]))
  BY <1>1, NamesFacts
<1>3. Names(kind[c])[i] \in {"qc.qpy", "ansatz.qpy", "operator.pkl"}
  BY <1>1, <1>2, NamesFacts
<1>. QED
  BY <1>3 DEF File, Files

\* Writing the n-th input on top of those before it.
LEMMA WriteGrows ==
  ASSUME TypeOK, NEW c \in Calls, NEW n \in 1..Len(Names(kind[c]))
  PROVE  LET before == Between(c, 1, n - 1)
         IN  (before \ {f \in before : f.name = Names(kind[c])[n]}) \cup {File(c, n, TRUE)}
               = Between(c, 1, n)
<1>1. kind[c] \in Kinds
  BY DEF TypeOK
<1>2. Len(Names(kind[c])) \in {1, 2}
  BY <1>1, NamesFacts
<1>3. \A i, j \in 1..Len(Names(kind[c])) :
         Names(kind[c])[i] = Names(kind[c])[j] => i = j
  BY <1>1, NamesFacts
<1>4. \A f \in Between(c, 1, n - 1) : f.name # Names(kind[c])[n]
  BY <1>2, <1>3 DEF Between, File
<1>5. Between(c, 1, n) = Between(c, 1, n - 1) \cup {File(c, n, TRUE)}
  <2>1. 1..n = 1..(n - 1) \cup {n}
    BY <1>2
  <2>. QED
    BY <2>1 DEF Between
<1>. QED
  BY <1>4, <1>5

\* Removing the n-th input from those that are left.
LEMMA RemoveShrinks ==
  ASSUME TypeOK, NEW c \in Calls, NEW n \in 1..Len(Names(kind[c]))
  PROVE  LET left == Between(c, n, Len(Names(kind[c])))
         IN  left \ {f \in left : f.name = Names(kind[c])[n]}
               = Between(c, n + 1, Len(Names(kind[c])))
<1>1. kind[c] \in Kinds
  BY DEF TypeOK
<1>2. Len(Names(kind[c])) \in {1, 2}
  BY <1>1, NamesFacts
<1>3. \A i, j \in 1..Len(Names(kind[c])) :
         Names(kind[c])[i] = Names(kind[c])[j] => i = j
  BY <1>1, NamesFacts
<1>. DEFINE left == Between(c, n, Len(Names(kind[c])))
            rest == Between(c, n + 1, Len(Names(kind[c])))
<1>4. left = rest \cup {File(c, n, TRUE)}
  <2>1. n..Len(Names(kind[c])) = (n + 1)..Len(Names(kind[c])) \cup {n}
    BY <1>2
  <2>. QED
    BY <2>1 DEF Between
<1>5. File(c, n, TRUE).name = Names(kind[c])[n]
  BY DEF File
<1>6. \A f \in rest : f.name # Names(kind[c])[n]
  BY <1>2, <1>3 DEF Between, File
<1>. QED
  BY <1>4, <1>5, <1>6

LEMMA InputsAreAll ==
  ASSUME NEW c \in Calls
  PROVE  Inputs(c) = Between(c, 1, Len(Names(kind[c])))
BY DEF Inputs, Between

\* Only kind says what the inputs of a call are.
LEMMA SameInputs ==
  ASSUME UNCHANGED kind
  PROVE  /\ \A c : Inputs(c)' = Inputs(c)
         /\ \A c, m, n : Between(c, m, n)' = Between(c, m, n)
BY DEF Inputs, Between, File

-----------------------------------------------------------------------------
(* The invariant is inductive *)

LEMMA InitIInv == Init => IInv
<1>. SUFFICES ASSUME Init PROVE IInv
  OBVIOUS
<1>1. TypeOK
  BY DEF Init, TypeOK
<1>2. StageInv
  BY NamesFacts DEF Init, StageInv, Submitted, ExitedWell
<1>3. OwnerInv /\ FilesInv
  BY DEF Init, OwnerInv, FilesInv, Owns, Submitted, ExitedWell
<1>4. ReadInv /\ LeftInv
  BY DEF Init, ReadInv, LeftInv, ExitedWell
<1>. QED
  BY <1>1, <1>2, <1>3, <1>4 DEF IInv

\* Nothing is offloaded.
LEMMA RunLocallyKeeps ==
  ASSUME IInv, NEW c \in Calls, RunLocally(c)
  PROVE  IInv'
<1>. USE DEF RunLocally, Goes, Submitted, ExitedWell
<1>1. TypeOK'
  BY DEF IInv, TypeOK, Ended, StageInv
<1>2. StageInv'
  BY <1>1 DEF IInv, TypeOK, StageInv
<1>3. OwnerInv'
  BY DEF IInv, TypeOK, StageInv, OwnerInv, Owns
<1>4. FilesInv'
  BY SameInputs, InputsAreAll DEF IInv, TypeOK, StageInv, FilesInv
<1>5. ReadInv'
  BY SameInputs DEF IInv, TypeOK, ReadInv
<1>6. LeftInv'
  <2>1. dir[c] = NoDir
    BY DEF IInv, StageInv
  <2>2. \A d \in Dirs : \A f \in files[d] : f.of # c
    BY <2>1, CallAssumption DEF IInv, OwnerInv
  <2>. QED
    BY <2>2 DEF IInv, TypeOK, LeftInv
<1>. QED
  BY <1>1, <1>2, <1>3, <1>4, <1>5, <1>6 DEF IInv

\* A call that gives up leaves directory and inputs to its worker.
LEMMA SrunTimesOutKeeps ==
  ASSUME IInv, NEW c \in Calls, SrunTimesOut(c)
  PROVE  IInv'
<1>. USE DEF SrunTimesOut, Goes, Submitted, ExitedWell
<1>1. TypeOK'
  BY DEF IInv, TypeOK, Ended, StageInv
<1>2. StageInv'
  BY <1>1 DEF IInv, TypeOK, StageInv
<1>3. OwnerInv'
  BY DEF IInv, TypeOK, StageInv, OwnerInv, Owns
<1>4. FilesInv'
  BY SameInputs, InputsAreAll DEF IInv, TypeOK, StageInv, FilesInv
<1>5. ReadInv'
  BY SameInputs DEF IInv, TypeOK, ReadInv
<1>6. LeftInv'
  BY DEF IInv, TypeOK, StageInv, LeftInv
<1>. QED
  BY <1>1, <1>2, <1>3, <1>4, <1>5, <1>6 DEF IInv

\* A success turns the inputs over to the call.
LEMMA SrunReturnsKeeps ==
  ASSUME IInv, NEW c \in Calls, SrunReturns(c)
  PROVE  IInv'
<1>. USE DEF SrunReturns, Goes, Submitted, ExitedWell
<1>1. TypeOK'
  BY DEF IInv, TypeOK, Ended, StageInv
<1>2. StageInv'
  BY <1>1 DEF IInv, TypeOK, StageInv
<1>3. OwnerInv'
  BY DEF IInv, TypeOK, StageInv, OwnerInv, Owns
<1>4. FilesInv'
  BY SameInputs, InputsAreAll DEF IInv, TypeOK, StageInv, FilesInv
<1>5. ReadInv'
  BY SameInputs DEF IInv, TypeOK, ReadInv
<1>6. LeftInv'
  BY DEF IInv, TypeOK, StageInv, LeftInv
<1>. QED
  BY <1>1, <1>2, <1>3, <1>4, <1>5, <1>6 DEF IInv

\* The output is all a call has left.
LEMMA DecodeKeeps ==
  ASSUME IInv, NEW c \in Calls, Decode(c)
  PROVE  IInv'
<1>. USE DEF Decode, Goes, Submitted, ExitedWell
<1>1. TypeOK'
  BY DEF IInv, TypeOK, Ended, StageInv
<1>2. StageInv'
  BY <1>1 DEF IInv, TypeOK, StageInv
<1>3. OwnerInv'
  BY DEF IInv, TypeOK, StageInv, OwnerInv, Owns
<1>4. FilesInv'
  BY SameInputs, InputsAreAll DEF IInv, TypeOK, StageInv, FilesInv
<1>5. ReadInv'
  BY SameInputs DEF IInv, TypeOK, ReadInv
<1>6. LeftInv'
  BY DEF IInv, TypeOK, StageInv, LeftInv
<1>. QED
  BY <1>1, <1>2, <1>3, <1>4, <1>5, <1>6 DEF IInv

\* A call that is killed leaves everything as it is.
LEMMA KilledKeeps ==
  ASSUME IInv, NEW c \in Calls, Killed(c)
  PROVE  IInv'
<1>. USE DEF Killed, Goes, Submitted, ExitedWell
<1>1. TypeOK'
  BY DEF IInv, TypeOK, Ended, StageInv
<1>2. StageInv'
  BY <1>1 DEF IInv, TypeOK, StageInv
<1>3. OwnerInv'
  BY DEF IInv, TypeOK, StageInv, OwnerInv, Owns
<1>4. FilesInv'
  BY SameInputs, InputsAreAll DEF IInv, TypeOK, StageInv, FilesInv
<1>5. ReadInv'
  BY SameInputs DEF IInv, TypeOK, ReadInv
<1>6. LeftInv'
  BY DEF IInv, TypeOK, StageInv, LeftInv
<1>. QED
  BY <1>1, <1>2, <1>3, <1>4, <1>5, <1>6 DEF IInv

\* The inputs are complete when the worker starts.
LEMMA SubmitKeeps ==
  ASSUME IInv, NEW c \in Calls, Submit(c)
  PROVE  IInv'
<1>. USE DEF Submit, Goes, Submitted, ExitedWell
<1>1. TypeOK'
  BY DEF IInv, TypeOK, Ended, StageInv
<1>2. StageInv'
  BY <1>1 DEF IInv, TypeOK, StageInv
<1>3. OwnerInv'
  BY DEF IInv, TypeOK, StageInv, OwnerInv, Owns
<1>4. FilesInv'
  <2>1. Len(Names(kind[c])) \in {1, 2}
    BY NamesFacts DEF IInv, TypeOK
  <2>2. at[c] - 1 = Len(Names(kind[c]))
    BY <2>1 DEF IInv, TypeOK, StageInv, AllHandled
  <2>3. files[dir[c]] = Inputs(c)
    BY <2>2, InputsAreAll DEF IInv, FilesInv
  <2>. QED
    BY <2>3, SameInputs DEF IInv, TypeOK, StageInv, FilesInv
<1>5. ReadInv'
  BY SameInputs DEF IInv, TypeOK, ReadInv
<1>6. LeftInv'
  BY DEF IInv, TypeOK, StageInv, LeftInv
<1>. QED
  BY <1>1, <1>2, <1>3, <1>4, <1>5, <1>6 DEF IInv

\* A worker has read all inputs when it prints.
LEMMA WorkerPrintsKeeps ==
  ASSUME IInv, NEW c \in Calls, WorkerPrints(c)
  PROVE  IInv'
<1>. USE DEF WorkerPrints, Goes, Submitted, ExitedWell
<1>1. TypeOK'
  BY DEF IInv, TypeOK, Ended, StageInv
<1>2. StageInv'
  BY <1>1 DEF IInv, TypeOK, StageInv
<1>3. OwnerInv'
  BY DEF IInv, TypeOK, StageInv, OwnerInv, Owns
<1>4. FilesInv'
  BY SameInputs, InputsAreAll DEF IInv, TypeOK, StageInv, FilesInv
<1>5. ReadInv'
  BY SameInputs DEF IInv, TypeOK, ReadInv
<1>6. LeftInv'
  BY DEF IInv, TypeOK, StageInv, LeftInv
<1>. QED
  BY <1>1, <1>2, <1>3, <1>4, <1>5, <1>6 DEF IInv

\* A failure leaves the directory as it is.
LEMMA WorkerFailsKeeps ==
  ASSUME IInv, NEW c \in Calls, WorkerFails(c)
  PROVE  IInv'
<1>. USE DEF WorkerFails, Goes, Submitted, ExitedWell
<1>1. TypeOK'
  BY DEF IInv, TypeOK, Ended, StageInv
<1>2. StageInv'
  BY <1>1 DEF IInv, TypeOK, StageInv
<1>3. OwnerInv'
  BY DEF IInv, TypeOK, StageInv, OwnerInv, Owns
<1>4. FilesInv'
  BY SameInputs, InputsAreAll DEF IInv, TypeOK, StageInv, FilesInv
<1>5. ReadInv'
  BY SameInputs DEF IInv, TypeOK, ReadInv
<1>6. LeftInv'
  BY DEF IInv, TypeOK, StageInv, LeftInv
<1>. QED
  BY <1>1, <1>2, <1>3, <1>4, <1>5, <1>6 DEF IInv

\* A new directory is empty and nobody else's.
LEMMA NewJobDirKeeps ==
  ASSUME IInv, NEW c \in Calls, NewJobDir(c)
  PROVE  IInv'
<1>. USE DEF Goes, Submitted, ExitedWell
<1>1. step[c] = "called" /\ dir[c] = NoDir /\ at[c] = 1
  BY DEF IInv, StageInv, NewJobDir
<1>2. dir[c] \notin dirs /\ \A d \in Dirs : \A f \in files[d] : f.of # c
  BY <1>1, CallAssumption DEF IInv, TypeOK, OwnerInv
<1>3. Len(Names(kind[c])) \in {1, 2}
  BY NamesFacts DEF IInv, TypeOK
<1>4. UNCHANGED <<files, kind, at, worker, got, output>>
  BY DEF NewJobDir
<1>5. CASE Goes(c, "raised") /\ UNCHANGED <<dirs, dir>>
  <2>1. TypeOK'
    BY <1>4, <1>5 DEF IInv, TypeOK, Ended
  <2>2. StageInv'
    BY <1>1, <1>4, <1>5 DEF IInv, TypeOK, StageInv
  <2>3. OwnerInv'
    BY <1>1, <1>4, <1>5 DEF IInv, TypeOK, StageInv, OwnerInv, Owns
  <2>4. FilesInv'
    BY <1>1, <1>4, <1>5, SameInputs DEF IInv, TypeOK, StageInv, FilesInv
  <2>5. ReadInv'
    BY <1>4, SameInputs DEF IInv, ReadInv
  <2>6. LeftInv'
    BY <1>4, <1>5 DEF IInv, TypeOK, LeftInv
  <2>. QED
    BY <2>1, <2>2, <2>3, <2>4, <2>5, <2>6 DEF IInv
<1>6. ASSUME NEW d \in Dirs, d \notin dirs, dirs' = dirs \cup {d},
             dir' = [dir EXCEPT ![c] = d], Goes(c, "writing")
      PROVE  IInv'
  <2>. USE <1>4, <1>6
  <2>1. TypeOK'
    BY DEF IInv, TypeOK
  <2>2. StageInv'
    BY <1>1, <1>3, CallAssumption DEF IInv, TypeOK, StageInv
  <2>3. OwnerInv'
    <3>1. \A other \in Calls : Owns(other) => dir[other] # d
      BY DEF IInv, OwnerInv
    <3>2. \A other \in Calls \ {c} : Owns(other)' <=> Owns(other)
      BY DEF IInv, TypeOK, Owns
    <3>3. \A e \in Dirs : \A f \in files[e] : f.of \in Calls
      BY DEF IInv, TypeOK, Files
    <3>. QED
      BY <1>2, <3>1, <3>2, <3>3 DEF IInv, TypeOK, OwnerInv
  <2>4. FilesInv'
    <3>1. files[d] = {}
      BY DEF IInv, TypeOK
    <3>2. Between(c, 1, at[c] - 1) = {}
      BY <1>1 DEF Between
    <3>3. \A e \in Calls \ {c} : dir'[e] = dir[e] /\ step'[e] = step[e]
      BY DEF IInv, TypeOK
    <3>4. dir'[c] = d /\ step'[c] = "writing" /\ ~Submitted(c)
      BY <1>1 DEF IInv, TypeOK, StageInv
    <3>. DEFINE FilesOf(e) ==
           /\ step[e] = "writing" => files[dir[e]] = Between(e, 1, at[e] - 1)
           /\ step[e] = "waiting" \/ (Submitted(e) /\ ~ExitedWell(e)) =>
                files[dir[e]] = Inputs(e)
           /\ step[e] = "cleaning" =>
                files[dir[e]] = Between(e, at[e], Len(Names(kind[e])))
    <3>5. FilesOf(c)'
      <4>1. files'[dir'[c]] = {} /\ Between(c, 1, at[c] - 1)' = {}
        BY <3>1, <3>2, <3>4 DEF Between, File
      <4>. QED
        BY <3>4, <4>1
    <3>6. ASSUME NEW e \in Calls \ {c} PROVE FilesOf(e)'
      <4>1. FilesOf(e)
        BY DEF IInv, FilesInv
      <4>. QED
        BY <3>3, <4>1 DEF Inputs, Between, File
    <3>. QED
      BY <3>5, <3>6 DEF FilesInv
  <2>5. ReadInv'
    BY SameInputs DEF IInv, ReadInv
  <2>6. LeftInv'
    BY DEF IInv, TypeOK, LeftInv
  <2>. QED
    BY <2>1, <2>2, <2>3, <2>4, <2>5, <2>6 DEF IInv
<1>. QED
  BY <1>5, <1>6 DEF NewJobDir

\* A directory without files is left to others, removed or not.
LEMMA RemoveDirKeeps ==
  ASSUME IInv, NEW c \in Calls, RemoveDir(c)
  PROVE  IInv'
<1>. USE DEF RemoveDir, Goes, Submitted, ExitedWell
<1>1. TypeOK'
  BY DEF IInv, TypeOK, Ended, StageInv
<1>2. StageInv'
  BY <1>1 DEF IInv, TypeOK, StageInv
<1>3. OwnerInv'
  BY DEF IInv, TypeOK, StageInv, OwnerInv, Owns
<1>4. FilesInv'
  BY SameInputs, InputsAreAll DEF IInv, TypeOK, StageInv, FilesInv
<1>5. ReadInv'
  BY SameInputs DEF IInv, TypeOK, ReadInv
<1>6. LeftInv'
  <2>1. Len(Names(kind[c])) \in {1, 2}
    BY NamesFacts DEF IInv, TypeOK
  <2>2. at[c] = Len(Names(kind[c])) + 1
    BY <2>1 DEF IInv, TypeOK, StageInv, AllHandled
  <2>3. Between(c, at[c], Len(Names(kind[c]))) = {}
    <3>1. at[c]..Len(Names(kind[c])) = {}
      BY <2>1, <2>2
    <3>. QED
      BY <3>1 DEF Between
  <2>4. files[dir[c]] = {}
    BY <2>3 DEF IInv, FilesInv
  <2>5. \A d \in Dirs : \A f \in files[d] : f.of # c
    BY <2>4 DEF IInv, OwnerInv
  <2>6. \A e \in Calls \ {c} : step'[e] = step[e]
    BY DEF IInv, TypeOK
  <2>. QED
    BY <2>5, <2>6 DEF IInv, LeftInv
<1>. QED
  BY <1>1, <1>2, <1>3, <1>4, <1>5, <1>6 DEF IInv

\* Inputs are written in their order, over nobody else's.
LEMMA WriteInputKeeps ==
  ASSUME IInv, NEW c \in Calls, WriteInput(c)
  PROVE  IInv'
<1>. DEFINE n == at[c]
            name == Names(kind[c])[n]
<1>. USE DEF Goes, Submitted, ExitedWell
<1>1. /\ step[c] = "writing"
      /\ worker[c] = "none"
      /\ UNCHANGED <<dirs, kind, dir, worker, got, output>>
  BY DEF IInv, TypeOK, StageInv, WriteInput
<1>2. n \in 1..Len(Names(kind[c])) /\ Len(Names(kind[c])) \in {1, 2}
  BY NamesFacts DEF IInv, TypeOK, WriteInput, AllHandled
<1>3. dir[c] \in dirs /\ dir[c] \in Dirs /\ files[dir[c]] = Between(c, 1, n - 1)
  BY <1>1 DEF IInv, TypeOK, OwnerInv, FilesInv, Owns
<1>4. ASSUME NEW e \in Calls \ {c}, Owns(e) PROVE dir[e] # dir[c]
  BY <1>1, <1>4 DEF IInv, OwnerInv, Owns
<1>5. ASSUME NEW whole \in BOOLEAN,
             files' = [files EXCEPT ![dir[c]] = (@ \ Named(dir[c], name))
                                                  \cup {File(c, n, whole)}],
             \/ whole /\ at' = [at EXCEPT ![c] = @ + 1] /\ UNCHANGED step
             \/ ~whole /\ Goes(c, "raised") /\ UNCHANGED at
      PROVE  IInv'
  <2>. USE <1>1, <1>5
  <2>1. File(c, n, whole) \in Files /\ File(c, n, whole).of = c
    BY <1>2, NamesFacts DEF IInv, TypeOK, File, Files
  <2>2. /\ \A e \in Calls \ {c} : step'[e] = step[e] /\ at'[e] = at[e]
        /\ \/ step'[c] = "writing" /\ at'[c] = n + 1 /\ whole
           \/ step'[c] = "raised"
    BY DEF IInv, TypeOK
  <2>3. \A d \in Dirs \ {dir[c]} : files'[d] = files[d]
    BY DEF IInv, TypeOK
  <2>4. files'[dir[c]] = (files[dir[c]] \ Named(dir[c], name)) \cup {File(c, n, whole)}
    BY <1>3 DEF IInv, TypeOK
  <2>5. TypeOK'
    <3>1. files' \in [Dirs -> SUBSET Files]
      BY <1>3, <2>1 DEF IInv, TypeOK
    <3>2. \A d \in Dirs \ dirs : files'[d] = {}
      BY <1>3, <2>3 DEF IInv, TypeOK
    <3>3. at' \in [Calls -> 1..3]
      <4>1. n + 1 \in 1..3
        <5>1. CASE Len(Names(kind[c])) = 1
          BY <1>2, <5>1
        <5>2. CASE Len(Names(kind[c])) = 2
          BY <1>2, <5>2
        <5>. QED
          BY <1>2, <5>1, <5>2
      <4>. QED
        BY <4>1 DEF IInv, TypeOK
    <3>4. step' \in [Calls -> {"called", "writing", "waiting", "cleaning", "decoding"} \cup Ended]
      BY DEF IInv, TypeOK, Ended
    <3>. QED
      BY <3>1, <3>2, <3>3, <3>4 DEF IInv, TypeOK
  <2>6. StageInv'
    BY <1>2, <1>3, <2>2, CallAssumption DEF IInv, TypeOK, StageInv
  <2>7. OwnerInv'
    <3>1. \A e \in Calls : Owns(e)' => Owns(e)
      BY <2>2 DEF Owns
    <3>2. \A d \in Dirs : \A f \in files'[d] : dir[f.of] = d
      BY <2>1, <2>3, <2>4 DEF IInv, OwnerInv
    <3>. QED
      BY <3>1, <3>2 DEF IInv, OwnerInv
  <2>8. FilesInv'
    <3>. DEFINE FilesOf(e) ==
           /\ step[e] = "writing" => files[dir[e]] = Between(e, 1, at[e] - 1)
           /\ step[e] = "waiting" \/ (Submitted(e) /\ ~ExitedWell(e)) =>
                files[dir[e]] = Inputs(e)
           /\ step[e] = "cleaning" =>
                files[dir[e]] = Between(e, at[e], Len(Names(kind[e])))
    <3>1. FilesOf(c)'
      <4>1. CASE step'[c] = "raised"
        BY <4>1
      <4>2. CASE step'[c] = "writing" /\ at'[c] = n + 1 /\ whole
        <5>1. files'[dir[c]] = Between(c, 1, n)
          BY <1>2, <1>3, <2>4, <4>2, WriteGrows DEF IInv, Named
        <5>2. Between(c, 1, at[c] - 1)' = Between(c, 1, n)
          BY <1>2, <4>2 DEF Between, File
        <5>. QED
          BY <4>2, <5>1, <5>2
      <4>. QED
        BY <2>2, <4>1, <4>2
    <3>2. ASSUME NEW e \in Calls \ {c} PROVE FilesOf(e)'
      <4>1. FilesOf(e)
        BY DEF IInv, FilesInv
      <4>2. CASE Owns(e)
        <5>1. files'[dir[e]] = files[dir[e]]
          BY <1>4, <2>3, <4>2 DEF IInv, TypeOK, OwnerInv
        <5>. QED
          BY <2>2, <4>1, <5>1 DEF Inputs, Between, File
      <4>3. CASE ~Owns(e)
        BY <2>2, <4>3 DEF Owns
      <4>. QED
        BY <4>2, <4>3
    <3>. QED
      BY <3>1, <3>2 DEF FilesInv
  <2>9. ReadInv'
    BY SameInputs DEF IInv, ReadInv
  <2>10. LeftInv'
    BY <2>1, <2>2, <2>3, <2>4 DEF IInv, LeftInv
  <2>. QED
    BY <2>5, <2>6, <2>7, <2>8, <2>9, <2>10 DEF IInv
<1>6. CASE Goes(c, "raised") /\ UNCHANGED <<files, at>>
  <2>. USE <1>1, <1>6
  <2>1. TypeOK'
    BY DEF IInv, TypeOK, Ended
  <2>2. StageInv'
    BY <1>3, CallAssumption DEF IInv, TypeOK, StageInv
  <2>3. OwnerInv'
    BY DEF IInv, TypeOK, OwnerInv, Owns
  <2>4. FilesInv'
    BY SameInputs DEF IInv, TypeOK, FilesInv
  <2>5. ReadInv'
    BY SameInputs DEF IInv, ReadInv
  <2>6. LeftInv'
    BY DEF IInv, TypeOK, LeftInv
  <2>. QED
    BY <2>1, <2>2, <2>3, <2>4, <2>5, <2>6 DEF IInv
<1>. QED
  BY <1>5, <1>6 DEF WriteInput, Puts

\* Inputs are removed in their order, nobody else's with them.
LEMMA RemoveInputKeeps ==
  ASSUME IInv, NEW c \in Calls, RemoveInput(c)
  PROVE  IInv'
<1>. DEFINE n == at[c]
            last == Len(Names(kind[c]))
<1>. USE DEF Goes, Submitted, ExitedWell
<1>1. /\ step[c] = "cleaning"
      /\ worker[c] # "none"
      /\ output[c] \in {"result", "unusable"}
      /\ UNCHANGED <<dirs, kind, dir, worker, got, output>>
  BY DEF IInv, TypeOK, StageInv, RemoveInput
<1>2. n \in 1..last /\ last \in {1, 2}
  BY NamesFacts DEF IInv, TypeOK, RemoveInput, AllHandled
<1>3. dir[c] \in dirs /\ dir[c] \in Dirs /\ files[dir[c]] = Between(c, n, last)
  BY <1>1 DEF IInv, TypeOK, OwnerInv, FilesInv, Owns
<1>4. ASSUME NEW e \in Calls \ {c}, Owns(e) PROVE dir[e] # dir[c]
  BY <1>1, <1>4 DEF IInv, OwnerInv, Owns
<1>5. CASE Goes(c, "raised") /\ UNCHANGED <<files, at>>
  <2>. USE <1>1, <1>5
  <2>1. TypeOK'
    BY DEF IInv, TypeOK, Ended
  <2>2. StageInv'
    BY DEF IInv, TypeOK, StageInv
  <2>3. OwnerInv'
    BY DEF IInv, TypeOK, OwnerInv, Owns
  <2>4. FilesInv'
    BY SameInputs DEF IInv, TypeOK, FilesInv
  <2>5. ReadInv'
    BY SameInputs DEF IInv, ReadInv
  <2>6. LeftInv'
    BY DEF IInv, TypeOK, LeftInv
  <2>. QED
    BY <2>1, <2>2, <2>3, <2>4, <2>5, <2>6 DEF IInv
<1>6. CASE /\ files' = [files EXCEPT ![dir[c]] = @ \ Named(dir[c], Names(kind[c])[n])]
           /\ at' = [at EXCEPT ![c] = @ + 1]
           /\ UNCHANGED step
  <2>. USE <1>1, <1>6
  <2>1. at'[c] = n + 1 /\ \A e \in Calls \ {c} : at'[e] = at[e]
    BY DEF IInv, TypeOK
  <2>2. \A d \in Dirs \ {dir[c]} : files'[d] = files[d]
    BY DEF IInv, TypeOK
  <2>3. files'[dir[c]] = Between(c, n + 1, last)
    <3>1. files'[dir[c]] = files[dir[c]] \ Named(dir[c], Names(kind[c])[n])
      BY <1>3 DEF IInv, TypeOK
    <3>. QED
      BY <1>2, <1>3, <3>1, RemoveShrinks DEF IInv, Named
  <2>4. \A d \in Dirs : files'[d] \subseteq files[d]
    BY <1>3 DEF IInv, TypeOK
  <2>5. TypeOK'
    <3>1. files' \in [Dirs -> SUBSET Files]
      BY <1>3 DEF IInv, TypeOK
    <3>2. \A d \in Dirs \ dirs : files'[d] = {}
      BY <2>4 DEF IInv, TypeOK
    <3>3. at' \in [Calls -> 1..3]
      <4>1. n + 1 \in 1..3
        <5>1. CASE Len(Names(kind[c])) = 1
          BY <1>2, <5>1
        <5>2. CASE Len(Names(kind[c])) = 2
          BY <1>2, <5>2
        <5>. QED
          BY <1>2, <5>1, <5>2
      <4>. QED
        BY <4>1 DEF IInv, TypeOK
    <3>. QED
      BY <3>1, <3>2, <3>3 DEF IInv, TypeOK
  <2>6. StageInv'
    BY <1>2, <2>1, CallAssumption DEF IInv, TypeOK, StageInv
  <2>7. OwnerInv'
    BY <2>4 DEF IInv, OwnerInv, Owns
  <2>8. FilesInv'
    <3>. DEFINE FilesOf(e) ==
           /\ step[e] = "writing" => files[dir[e]] = Between(e, 1, at[e] - 1)
           /\ step[e] = "waiting" \/ (Submitted(e) /\ ~ExitedWell(e)) =>
                files[dir[e]] = Inputs(e)
           /\ step[e] = "cleaning" =>
                files[dir[e]] = Between(e, at[e], Len(Names(kind[e])))
    <3>1. FilesOf(c)'
      <4>1. Between(c, at[c], Len(Names(kind[c])))' = Between(c, n + 1, last)
        BY <2>1 DEF Between, File
      <4>. QED
        BY <2>3, <4>1
    <3>2. ASSUME NEW e \in Calls \ {c} PROVE FilesOf(e)'
      <4>1. FilesOf(e)
        BY DEF IInv, FilesInv
      <4>2. CASE Owns(e)
        <5>1. files'[dir[e]] = files[dir[e]]
          BY <1>4, <2>2, <4>2 DEF IInv, TypeOK, OwnerInv
        <5>. QED
          BY <2>1, <4>1, <5>1 DEF Inputs, Between, File
      <4>3. CASE ~Owns(e)
        BY <4>3 DEF Owns
      <4>. QED
        BY <4>2, <4>3
    <3>. QED
      BY <3>1, <3>2 DEF FilesInv
  <2>9. ReadInv'
    BY SameInputs DEF IInv, ReadInv
  <2>10. LeftInv'
    BY <2>4 DEF IInv, LeftInv
  <2>. QED
    BY <2>5, <2>6, <2>7, <2>8, <2>9, <2>10 DEF IInv
<1>. QED
  BY <1>5, <1>6 DEF RemoveInput

\* The input a worker opens next is there and whole; with the last it has all.
LEMMA WorkerReadsKeeps ==
  ASSUME IInv, NEW c \in Calls, WorkerReads(c)
  PROVE  IInv'
<1>. USE DEF Goes, Submitted, ExitedWell
<1>1. /\ worker[c] = "reading"
      /\ UNCHANGED <<dirs, files, kind, step, dir, at>>
  BY DEF WorkerReads
<1>2. output[c] = "none" /\ files[dir[c]] = Inputs(c) /\ got[c] \subseteq Inputs(c)
  BY <1>1 DEF IInv, TypeOK, StageInv, FilesInv, ReadInv
<1>3. kind[c] \in Kinds
  BY DEF IInv, TypeOK
<1>4. ASSUME NEW i \in 1..Len(Names(kind[c]))
      PROVE  Named(dir[c], Names(kind[c])[i]) = {File(c, i, TRUE)}
  <2>1. \A j \in 1..Len(Names(kind[c])) :
          File(c, j, TRUE).name = Names(kind[c])[i] => j = i
    BY <1>3, NamesFacts DEF File
  <2>2. File(c, i, TRUE) \in Inputs(c) /\ File(c, i, TRUE).name = Names(kind[c])[i]
    BY DEF Inputs, File
  <2>. QED
    BY <1>2, <2>1, <2>2 DEF Named, Inputs
<1>5. PICK i \in Unread(c) :
        /\ got' = [got EXCEPT ![c] = @ \cup {File(c, i, TRUE)}]
        /\ worker' = [worker EXCEPT ![c] =
                        IF Unread(c) = {i} THEN "running" ELSE "reading"]
        /\ UNCHANGED output
  <2>1. \A i \in Unread(c) : i \in 1..Len(Names(kind[c]))
    BY DEF Unread
  <2>2. \A i : File(c, i, TRUE).whole
    BY DEF File
  <2>. QED
    BY <1>4, <2>1, <2>2 DEF WorkerReads
<1>6. i \in 1..Len(Names(kind[c])) /\ File(c, i, TRUE) \in Inputs(c)
  BY DEF Unread, Inputs
<1>7. Unread(c) = {i} => got[c] \cup {File(c, i, TRUE)} = Inputs(c)
  <2>. SUFFICES ASSUME Unread(c) = {i}, NEW j \in 1..Len(Names(kind[c])), j # i
                PROVE  File(c, j, TRUE) \in got[c]
    BY <1>2, <1>6 DEF Inputs
  <2>1. PICK f \in got[c] : f.name = Names(kind[c])[j]
    BY DEF Unread
  <2>2. PICK k \in 1..Len(Names(kind[c])) : f = File(c, k, TRUE)
    BY <1>2, <2>1 DEF Inputs
  <2>3. k = j
    BY <1>3, <2>1, <2>2, NamesFacts DEF File
  <2>. QED
    BY <2>1, <2>2, <2>3
<1>. USE <1>1, <1>5
<1>8. TypeOK'
  <2>1. Inputs(c) \subseteq Files
    <3>1. Len(Names(kind[c])) \in Nat
      BY <1>3, NamesFacts
    <3>. QED
      BY <3>1, BetweenType, InputsAreAll DEF IInv
  <2>. QED
    BY <1>6, <2>1 DEF IInv, TypeOK
<1>9. StageInv'
  BY <1>2 DEF IInv, TypeOK, StageInv
<1>10. OwnerInv'
  BY <1>2 DEF IInv, TypeOK, OwnerInv, Owns
<1>11. FilesInv'
  <2>1. \A e \in Calls : Submitted(e)' <=> Submitted(e)
    BY DEF IInv, TypeOK
  <2>2. ASSUME NEW e \in Calls
        PROVE  /\ (step[e] = "writing" => files[dir[e]] = Between(e, 1, at[e] - 1))'
               /\ (step[e] = "waiting" \/ (Submitted(e) /\ ~ExitedWell(e)) =>
                     files[dir[e]] = Inputs(e))'
               /\ (step[e] = "cleaning" =>
                     files[dir[e]] = Between(e, at[e], Len(Names(kind[e]))))'
    BY <2>1 DEF IInv, FilesInv, Inputs, Between, File
  <2>. QED
    BY <2>2 DEF FilesInv
<1>12. ReadInv'
  <2>1. /\ got'[c] = got[c] \cup {File(c, i, TRUE)}
        /\ worker'[c] = "running" => Unread(c) = {i}
        /\ \A e \in Calls \ {c} : got'[e] = got[e] /\ worker'[e] = worker[e]
    BY DEF IInv, TypeOK
  <2>2. got'[c] \subseteq Inputs(c)
    BY <1>2, <1>6, <2>1
  <2>3. worker'[c] = "running" => got'[c] = Inputs(c)
    BY <1>7, <2>1
  <2>4. ~ExitedWell(c)' /\ \A e \in Calls \ {c} : ExitedWell(e)' <=> ExitedWell(e)
    BY <1>2
  <2>. QED
    BY <2>1, <2>2, <2>3, <2>4, SameInputs DEF IInv, ReadInv
<1>13. LeftInv'
  BY DEF IInv, LeftInv
<1>. QED
  BY <1>8, <1>9, <1>10, <1>11, <1>12, <1>13 DEF IInv

-----------------------------------------------------------------------------
(* The theorems *)

LEMMA NextIInv == IInv /\ [Next]_vars => IInv'
<1>. SUFFICES ASSUME IInv, [Next]_vars PROVE IInv'
  OBVIOUS
<1>1. ASSUME NEW c \in Calls, Proceed(c) PROVE IInv'
  BY <1>1, RunLocallyKeeps, NewJobDirKeeps, WriteInputKeeps, SubmitKeeps,
     SrunReturnsKeeps, RemoveInputKeeps, RemoveDirKeeps, DecodeKeeps DEF Proceed
<1>2. ASSUME NEW c \in Calls, SrunTimesOut(c) \/ Killed(c) PROVE IInv'
  BY <1>2, SrunTimesOutKeeps, KilledKeeps
<1>3. ASSUME NEW c \in Calls, Slurm(c) PROVE IInv'
  BY <1>3, WorkerReadsKeeps, WorkerPrintsKeeps, WorkerFailsKeeps DEF Slurm
<1>4. CASE UNCHANGED vars
  BY <1>4 DEF vars, IInv, TypeOK, StageInv, OwnerInv, Owns, FilesInv, ReadInv, LeftInv,
     Submitted, ExitedWell, Inputs, Between, File
<1>. QED
  BY <1>1, <1>2, <1>3, <1>4 DEF Next

LEMMA Invariance == Spec => []IInv
BY InitIInv, NextIInv, PTL DEF Spec

\* For any number of calls, timed or not, every variable of the model keeps to its
\* type and files are only in directories that exist (offloader.py: sample and
\* estimate).
THEOREM TypeCorrect == Spec => []TypeOK
<1>1. IInv => TypeOK
  BY DEF IInv
<1>. QED
  BY Invariance, <1>1, PTL

\* For any number of calls that share one jobs directory, a worker reads the whole
\* inputs of its own call and no others (offloader.py: _new_job_dir).
THEOREM ReadOwnInputs == Spec => []WorkersReadOwnInputs
<1>1. IInv => WorkersReadOwnInputs
  BY DEF IInv, StageInv, ReadInv, WorkersReadOwnInputs
<1>. QED
  BY Invariance, <1>1, PTL

\* The inputs of a submitted job stay, whole, until its success was reported:
\* after a failure, a timeout or the death of the caller they are still there
\* (offloader.py: _run_srun, sample and estimate).
THEOREM KeepsInputs == Spec => []OnlySuccessRemovesInputs
<1>1. IInv => OnlySuccessRemovesInputs
  BY DEF IInv, FilesInv, OnlySuccessRemovesInputs
<1>. QED
  BY Invariance, <1>1, PTL

\* A call whose success was reported has no file of its own left on the shared file
\* system by the time it decodes its output, and if errors kept its directory from
\* being removed, that is empty or another call's by now (offloader.py: the end of
\* sample and of estimate).
THEOREM LeavesNoInputs == Spec => []SuccessLeavesNoInputs
<1>1. IInv => SuccessLeavesNoInputs
  <2>. SUFFICES ASSUME IInv, NEW c \in Calls, step[c] \in {"decoding", "returned"}
                PROVE  /\ \A d \in Dirs : \A f \in files[d] : f.of # c
                       /\ dir[c] \in dirs =>
                            \/ files[dir[c]] = {}
                            \/ \E other \in Calls \ {c} : dir[other] = dir[c]
    BY DEF SuccessLeavesNoInputs
  <2>1. \A d \in Dirs : \A f \in files[d] : f.of \in Calls \ {c} /\ dir[f.of] = d
    BY DEF IInv, TypeOK, Files, OwnerInv, LeftInv
  <2>2. dirs \subseteq Dirs
    BY DEF IInv, TypeOK
  <2>. QED
    BY <2>1, <2>2
<1>. QED
  BY Invariance, <1>1, PTL

=============================================================================
