----------------------------- MODULE JobResults -----------------------------
(***************************************************************************)
(* What a finished circuit job tells its caller: its histogram and its     *)
(* shots (src/src/iqm_device.cpp 1746-2063).  Both come from artifacts of  *)
(* the IQM Server that are downloaded when first asked for, checked,       *)
(* brought into the order of the program's measurements, cached, and       *)
(* copied into buffers whose sizes the caller asks for beforehand.         *)
(*                                                                         *)
(* DeviceJob has the calls, their races and their errors; here is what     *)
(* they do with the data.  A bitstring is a sequence of bits, the text     *)
(* written into a buffer a sequence of characters.                         *)
(***************************************************************************)
EXTENDS Integers, FiniteSets, SequencesExt

CONSTANTS
  Jobs,      \* what jobs may have measured
  NumShots,  \* num_shots_ of a job this session submitted
  NoValue       \* std::nullopt

\* A program: its measurements in the order of the circuit, each a key and how
\* many qubits it measures; whether that order is known to the session; and
\* what the computer measured, shot by shot.
IsProgram(g) ==
  /\ g.known \in BOOLEAN
  /\ g.fields \in Seq([key : STRING, width : Nat \ {0}]) /\ g.fields # NoValue
  /\ \A f, e \in DOMAIN g.fields : g.fields[f].key = g.fields[e].key => f = e
  /\ g.shots \in Seq(Range(g.shots))
  /\ \A s \in DOMAIN g.shots, f \in DOMAIN g.fields :
       g.shots[s][g.fields[f].key] \in [1..g.fields[f].width -> {0, 1}]

\* No job has more shots than were asked for.
ASSUME JobsAssumption ==
  /\ NumShots \in Nat
  /\ NoValue \notin Seq(STRING) \cup Seq(Seq({0, 1}))
  /\ \A j \in Jobs :
       /\ j.retrieved \in BOOLEAN
       /\ j.programs \in Seq(Range(j.programs))
       /\ \A p \in DOMAIN j.programs :
            /\ IsProgram(j.programs[p])
            /\ ~j.retrieved => Len(j.programs[p].shots) <= NumShots

VARIABLES
  job,        \* what was measured, and whether the job was retrieved by its id
  keys,       \* measurement_keys of each program
  counts,     \* counts
  shots,      \* shots
  announced,  \* for each program and result, the size the caller was last told
  reply       \* what the last call returned and wrote

resultVars == <<job, keys, counts, shots, announced, reply>>

Programs == DOMAIN job.programs
Layout(p) == IF job.programs[p].known THEN job.programs[p].fields ELSE NoValue
Kinds == {"KEYS", "VALUES", "SHOTS"}
Nothing == [code |-> "SUCCESS", program |-> 0, kind |-> "KEYS", size |-> 0, written |-> <<>>]

ResultsInit ==
  /\ job \in Jobs
  /\ keys = [p \in Programs |-> NoValue]
  /\ counts = [p \in Programs |-> NoValue]
  /\ shots = [p \in Programs |-> NoValue]
  /\ announced = [p \in Programs |-> [k \in Kinds |-> NoValue]]
  /\ reply = Nothing

-----------------------------------------------------------------------------
(* The artifacts *)

Histogram(strings) ==
  [o \in Range(strings) |-> Cardinality({s \in DOMAIN strings : strings[s] = o})]

KeysOf(fields) == [f \in DOMAIN fields |-> fields[f].key]

\* The server lists the keys of a program in any order and concatenates the bits
\* of a shot in that order.
CountsEntry(g, order) ==
  [keys   |-> order,
   counts |-> Histogram([s \in DOMAIN g.shots |->
                FlattenSeq([i \in DOMAIN order |-> g.shots[s][order[i]]])])]

\* What the device must not take for an answer about this program.
DamagedCounts(e) ==
  {[e EXCEPT !.keys = Append(@, "unknown")]}
  \cup (IF e.keys = <<>> THEN {} ELSE
        {[e EXCEPT !.keys = Front(@)], [e EXCEPT !.keys = Append(@, Head(@))],
         [e EXCEPT !.keys[1] = "unknown"],
         [e EXCEPT !.counts = [o \in {Tail(x) : x \in DOMAIN e.counts} |-> 1]],
         [e EXCEPT !.counts = [o \in {<<2>> \o Tail(x) : x \in DOMAIN e.counts} |-> 1]]})

\* An answer whose entries are all sound, one that is cut short, or one with a
\* damaged entry.  Without a layout there is nothing to hold an entry against.
CountsAnswers ==
  LET sound == {a \in [Programs -> UNION {{CountsEntry(job.programs[p], o) :
                         o \in SetToSeqs(Range(KeysOf(job.programs[p].fields)))} : p \in Programs}] :
                  \A p \in Programs : \E o \in SetToSeqs(Range(KeysOf(job.programs[p].fields))) :
                    a[p] = CountsEntry(job.programs[p], o)}
  IN  sound \cup {Front(a) : a \in sound}
      \cup UNION {UNION {{[a EXCEPT ![p] = d] : d \in DamagedCounts(a[p]) \ {a[p]}} :
                         p \in {q \in Programs : Layout(q) # NoValue}} : a \in sound}

ShotsEntry(g) ==
  [k \in Range(KeysOf(g.fields)) |-> [s \in DOMAIN g.shots |-> g.shots[s][k]]]

\* Whether an answer with a shot too few for k differs from one after heralding,
\* which leaves fewer shots to a retrieved job: beside another key it does.
LossShows(e, k) == ~job.retrieved \/ DOMAIN e # {k}

DamagedShots(e) ==
  {[k \in DOMAIN e \cup {"unknown"} |-> IF k \in DOMAIN e THEN e[k] ELSE <<>>]}
  \cup {[j \in DOMAIN e \ {k} |-> e[j]] : k \in DOMAIN e}
  \cup {[e EXCEPT ![k] = Tail(@)] : k \in {x \in DOMAIN e : e[x] # <<>> /\ LossShows(e, x)}}
  \cup UNION {{[e EXCEPT ![k][1] = Append(@, 0)], [e EXCEPT ![k][1] = [@ EXCEPT ![1] = 2]],
               [e EXCEPT ![k][1] = <<>>]} : k \in {x \in DOMAIN e : e[x] # <<>>}}

ShotsAnswers ==
  LET sound == [p \in Programs |-> ShotsEntry(job.programs[p])]
  IN  {sound, <<>>, Front(sound)}
      \cup UNION {{[sound EXCEPT ![p] = d] : d \in DamagedShots(sound[p])} :
                  p \in {q \in Programs : Layout(q) # NoValue}}

-----------------------------------------------------------------------------
(* The histogram: IQM_QDMI_device_job_get_results_hist *)

SumOf(numbers) == FoldLeft(LAMBDA n, k : n + k, 0, numbers)
Width(fields) == SumOf([f \in DOMAIN fields |-> fields[f].width])
WidthOf(fields, key) == fields[CHOOSE f \in DOMAIN fields : fields[f].key = key].width

\* Where the bits of a key begin in a string concatenated in this order.
Offset(fields, order, key) ==
  LET i == CHOOSE n \in DOMAIN order : order[n] = key
  IN  SumOf([n \in 1..(i - 1) |-> WidthOf(fields, order[n])])

EntryFitsByWidth(e, fields) ==
  /\ Range(e.keys) = Range(KeysOf(fields)) /\ Len(e.keys) = Len(fields)
  /\ \A o \in DOMAIN e.counts : Len(o) = Width(fields)

EntryFits(e, fields) ==
  /\ Range(e.keys) = Range(KeysOf(fields)) /\ Len(e.keys) = Len(fields)
  /\ \A o \in DOMAIN e.counts : Len(o) = Width(fields) /\ Range(o) \subseteq {0, 1}

NormalizedUnreversed(o, fields, order) ==
  FlattenSeq([f \in DOMAIN fields |->
    LET at == Offset(fields, order, fields[f].key)
    IN  SubSeq(o, at + 1, at + fields[f].width)])

\* The fields in the order of the layout, then the whole string reversed.
Normalized(o, fields, order) ==
  Reverse(FlattenSeq([f \in DOMAIN fields |->
    LET at == Offset(fields, order, fields[f].key)
    IN  SubSeq(o, at + 1, at + fields[f].width)]))

NormalizedCounts(e, fields) ==
  [n \in {Normalized(o, fields, e.keys) : o \in DOMAIN e.counts} |->
     e.counts[CHOOSE o \in DOMAIN e.counts : Normalized(o, fields, e.keys) = n]]

CountsFit(a) ==
  /\ Len(a) = Len(job.programs)
  /\ \A p \in Programs : Layout(p) # NoValue => EntryFits(a[p], Layout(p))

CommitCountsInServerOrder(a) ==
  /\ keys' = [p \in Programs |-> a[p].keys]
  /\ counts' = [p \in Programs |->
       IF Layout(p) = NoValue THEN a[p].counts ELSE NormalizedCounts(a[p], Layout(p))]

CommitCounts(a) ==
  /\ keys' = [p \in Programs |->
       IF Layout(p) = NoValue THEN a[p].keys ELSE KeysOf(Layout(p))]
  /\ counts' = [p \in Programs |->
       IF Layout(p) = NoValue THEN a[p].counts ELSE NormalizedCounts(a[p], Layout(p))]

CountsAtHand(p) ==
  \/ keys[p] # NoValue /\ UNCHANGED <<keys, counts>>
  \/ keys[p] = NoValue /\ \E a \in CountsAnswers : CountsFit(a) /\ CommitCounts(a)

\* The request for the counts fails, or its answer is refused.
CountsFail(p) == keys[p] = NoValue /\ UNCHANGED <<keys, counts>>

-----------------------------------------------------------------------------
(* The shots: IQM_QDMI_device_job_get_results_shots *)

\* shots.size(): a job of this session has all its shots, a retrieved one may
\* have lost some to heralding.
ExpectedShots(e, order) == IF job.retrieved THEN Len(e[Head(order)]) ELSE NumShots

ShotsEntryFits(e, order, fields) ==
  /\ DOMAIN e # {} /\ Cardinality(DOMAIN e) = Len(order)
  /\ Range(order) \subseteq DOMAIN e
  /\ \A i \in DOMAIN order :
       LET values == e[order[i]] IN
       /\ Len(values) = ExpectedShots(e, order)
       /\ \A s \in DOMAIN values :
            /\ values[s] # <<>> /\ Range(values[s]) \subseteq {0, 1}
            /\ Len(values[s]) = IF fields = NoValue THEN Len(values[1]) ELSE fields[i].width

ShotsFit(a, order) ==
  /\ IF a = <<>> THEN \A p \in Programs : order[p] = <<>> ELSE Len(a) = Len(job.programs)
  /\ \A p \in DOMAIN a : ShotsEntryFits(a[p], order[p], Layout(p))

AssembledShots(e, order, fields) ==
  [s \in 1..ExpectedShots(e, order) |->
     LET bits == FlattenSeq([i \in DOMAIN order |-> e[order[i]][s]])
     IN  IF fields = NoValue THEN bits ELSE Reverse(bits)]

\* An empty artifact leaves every program without shots.
CommitShots(a, order) ==
  shots' = [p \in Programs |->
              IF a = <<>> THEN <<>> ELSE AssembledShots(a[p], order[p], Layout(p))]

-----------------------------------------------------------------------------
(* The buffers *)

\* std::map iterates its keys in lexicographic order.
Before(a, b) ==
  \/ \E i \in DOMAIN a \cap DOMAIN b :
       a[i] < b[i] /\ \A n \in 1..(i - 1) : a[n] = b[n]
  \/ Len(a) < Len(b) /\ IsPrefix(a, b)
SortedOutcomes(c) ==
  LET n == Cardinality(DOMAIN c)
  IN  CHOOSE q \in [1..n -> DOMAIN c] : \A i, j \in 1..n : i < j => Before(q[i], q[j])

Digits(bits) == [b \in DOMAIN bits |-> IF bits[b] = 0 THEN "0" ELSE "1"]

\* Strings one after the other, each followed by a comma, the last by NUL.
Joined(strings) ==
  FlattenSeq([s \in DOMAIN strings |->
    Append(Digits(strings[s]), IF s = Len(strings) THEN "NUL" ELSE ",")])

TextOf(strings) == IF strings = <<>> THEN <<"NUL">> ELSE Joined(strings)

\* The size announced for strings, computed without writing them.
TextSize(strings) ==
  IF strings = <<>> THEN 1
  ELSE Len(strings) + SumOf([s \in DOMAIN strings |-> Len(strings[s])])

TextSizeUnterminated(strings) ==
  IF strings = <<>> THEN 1
  ELSE Len(strings) - 1 + SumOf([s \in DOMAIN strings |-> Len(strings[s])])

SizeOfCount == 8  \* sizeof(size_t)

RequiredSizeWithoutLastByte(k, c, t) ==
  CASE k = "KEYS"   -> TextSizeUnterminated(SortedOutcomes(c))
    [] k = "VALUES" -> SizeOfCount * Cardinality(DOMAIN c)
    [] k = "SHOTS"  -> TextSize(t)

RequiredSize(k, c, t) ==
  CASE k = "KEYS"   -> TextSize(SortedOutcomes(c))
    [] k = "VALUES" -> SizeOfCount * Cardinality(DOMAIN c)
    [] k = "SHOTS"  -> TextSize(t)

\* What is copied into the buffer; a count takes SizeOfCount bytes.
Content(k, c, t) ==
  CASE k = "KEYS"   -> TextOf(SortedOutcomes(c))
    [] k = "VALUES" -> FlattenSeq([i \in DOMAIN SortedOutcomes(c) |->
                         [b \in 1..SizeOfCount |-> c[SortedOutcomes(c)[i]]]])
    [] k = "SHOTS"  -> TextOf(t)

Return(p, k, size, code, written) ==
  reply' = [code |-> code, program |-> p, kind |-> k, size |-> size, written |-> written]

\* size is 0 if the caller passes no buffer; the size needed is told before the
\* buffer is looked at.
Deliver(p, k, size, c, t) ==
  LET required == RequiredSize(k, c, t) IN
  /\ announced' = [announced EXCEPT ![p][k] = required]
  /\ \/ size = 0 /\ Return(p, k, size, "SUCCESS", <<>>)
     \/ size # 0 /\ size < required /\ Return(p, k, size, "INVALIDARGUMENT", <<>>)
     \/ size # 0 /\ size >= required /\ Return(p, k, size, "SUCCESS", Content(k, c, t))

Fails(p, k, size) == Return(p, k, size, "FATAL", <<>>) /\ UNCHANGED announced

-----------------------------------------------------------------------------
(* The calls *)

GetHist(p, k, size) ==
  /\ \/ CountsAtHand(p) /\ Deliver(p, k, size, counts'[p], NoValue)
     \/ CountsFail(p) /\ Fails(p, k, size)
  /\ UNCHANGED <<job, shots>>

\* A shots query downloads the histogram first if it is not there: it has the keys.
GetShots(p, size) ==
  /\ \/ /\ shots[p] # NoValue
        /\ Deliver(p, "SHOTS", size, counts[p], shots[p])
        /\ UNCHANGED <<keys, counts, shots>>
     \/ /\ shots[p] = NoValue /\ CountsAtHand(p)
        /\ \E a \in ShotsAnswers :
             /\ ShotsFit(a, keys') /\ CommitShots(a, keys')
             /\ Deliver(p, "SHOTS", size, counts'[p], shots'[p])
     \/ /\ shots[p] = NoValue /\ CountsAtHand(p)
        /\ Fails(p, "SHOTS", size) /\ UNCHANGED shots
     \/ /\ shots[p] = NoValue /\ CountsFail(p)
        /\ Fails(p, "SHOTS", size) /\ UNCHANGED shots
  /\ UNCHANGED job

\* A caller passes no buffer, one byte, or a buffer of the size it was told.
Buffers(p, k) == {0, 1} \cup ({announced[p][k]} \ {NoValue})

ResultsNext ==
  \E p \in Programs :
    \/ \E k \in {"KEYS", "VALUES"} : \E size \in Buffers(p, k) : GetHist(p, k, size)
    \/ \E size \in Buffers(p, "SHOTS") : GetShots(p, size)

ResultsSpec == ResultsInit /\ [][ResultsNext]_resultVars

-----------------------------------------------------------------------------
(* Properties *)

Bitstrings == Seq({0, 1})
IsHistogram(c) == DOMAIN c \subseteq Bitstrings /\ Range(c) \subseteq Nat \ {0}

\* Caches hold what their types say.
ResultsTypeOK ==
  /\ \A p \in Programs :
       /\ keys[p] = NoValue => counts[p] = NoValue
       /\ keys[p] # NoValue => Range(keys[p]) \subseteq STRING /\ IsHistogram(counts[p])
       /\ shots[p] # NoValue => Range(shots[p]) \subseteq Bitstrings
       /\ Range(announced[p]) \subseteq Nat \cup {NoValue}
  /\ reply.code \in {"SUCCESS", "INVALIDARGUMENT", "FATAL"}

\* The shots of a program as strings, put together from the keys in this order.
Told(g, order) ==
  [s \in DOMAIN g.shots |->
     LET bits == FlattenSeq([i \in DOMAIN order |-> g.shots[s][order[i]]])
     IN  IF g.known THEN Reverse(bits) ELSE bits]

\* The histograms of all programs are there or none, each that of its shots.
HistogramInv ==
  \/ \A p \in Programs : keys[p] = NoValue /\ counts[p] = NoValue /\ shots[p] = NoValue
  \/ \A p \in Programs :
       LET g == job.programs[p] IN
       /\ keys[p] \in SetToSeqs(Range(KeysOf(g.fields)))
       /\ g.known => keys[p] = KeysOf(g.fields)
       /\ counts[p] = Histogram(Told(g, keys[p]))

\* So are their shots, in the order of keys of the histogram; a program that
\* measured nothing has none.
ShotsInv ==
  \/ \A p \in Programs : shots[p] = NoValue
  \/ \A p \in Programs :
       LET g == job.programs[p] IN
       /\ keys[p] # NoValue
       /\ shots[p] = IF g.fields = <<>> THEN <<>> ELSE Told(g, keys[p])

ResultsInv == job \in Jobs /\ HistogramInv /\ ShotsInv

\* A size was announced of something that is there, and is the size of that.
AnnouncedInv ==
  /\ announced \in [Programs -> [Kinds -> Nat \cup {NoValue}]]
  /\ \A p \in Programs, k \in Kinds :
       announced[p][k] # NoValue =>
         /\ keys[p] # NoValue
         /\ k = "SHOTS" => shots[p] # NoValue
         /\ announced[p][k] = RequiredSize(k, counts[p], shots[p])

\* Bit b of field f is the character at this distance from the right end.
FromRight(fields, f, b) == Width(SubSeq(fields, 1, f - 1)) + b

\* The string of a shot: every measured qubit, the first measured rightmost.
Shows(o, g, s) ==
  /\ Len(o) = Width(g.fields)
  /\ \A f \in DOMAIN g.fields : \A b \in 1..g.fields[f].width :
       o[Len(o) + 1 - FromRight(g.fields, f, b)] = g.shots[s][g.fields[f].key][b]

\* For a program whose measurements the session knows, every bit of every shot
\* and of every outcome of the histogram is that of the qubit it stands for, in
\* whatever order the server lists the keys (normalization, 1776-1807, and
\* reversal, 1991-1995), and no outcome is missing or made up.
LayoutOrdersBits ==
  \A p \in Programs :
    LET g == job.programs[p] IN
    g.known =>
      /\ shots[p] # NoValue /\ g.fields # <<>> =>
           /\ DOMAIN shots[p] = DOMAIN g.shots
           /\ \A s \in DOMAIN g.shots : Shows(shots[p][s], g, s)
      /\ counts[p] # NoValue =>
           /\ \A s \in DOMAIN g.shots : \E o \in DOMAIN counts[p] : Shows(o, g, s)
           /\ \A o \in DOMAIN counts[p] :
                counts[p][o] = Cardinality({s \in DOMAIN g.shots : Shows(o, g, s)})

\* Histogram and shots are downloaded separately, at different times, and each
\* program's keys come in an order of the server's choice; still the histogram
\* of a program's shots is its histogram, with a known layout or without.
CountsAgreeWithShots ==
  \A p \in Programs :
    shots[p] # NoValue /\ job.programs[p].fields # <<>> => counts[p] = Histogram(shots[p])

\* A buffer of the size that was told is filled to its end, a text ends with its
\* only NUL, and nothing is written beyond the end of a buffer.
SizeSuffices(p, k) ==
  LET told == announced[p][k] IN
  /\ told # NoValue => announced'[p][k] = told
  /\ /\ told # NoValue /\ reply' # reply
     /\ reply'.program = p /\ reply'.kind = k /\ reply'.size = told
     /\ reply'.size > 0 /\ reply'.code # "FATAL"
     => /\ reply'.code = "SUCCESS" /\ Len(reply'.written) = told
        /\ k # "VALUES" => SelectInSeq(reply'.written, LAMBDA x : x = "NUL") = told
  /\ Len(reply'.written) <= reply'.size

\* A size that was announced stays good, whatever is downloaded, refused or asked
\* for in between: a buffer of that size is filled to its last byte, and ends a
\* text with its only NUL; and no call writes beyond the end of its buffer.  (For
\* an empty histogram the values take 0 bytes: the caller has nothing to fetch.)
AnnouncedSizeSuffices ==
  [][\A p \in Programs, k \in Kinds : SizeSuffices(p, k)]_resultVars
=============================================================================
