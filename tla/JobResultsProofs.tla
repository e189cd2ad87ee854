------------------------- MODULE JobResultsProofs -------------------------
(***************************************************************************)
(* Proofs about JobResults: whatever the server sends and in whatever      *)
(* order it lists its keys, histograms and shots are those of the shots    *)
(* the computer measured, for any jobs, programs, widths and numbers of    *)
(* shots; and a buffer of the size that was announced for them is filled   *)
(* to its last byte.                                                       *)
(***************************************************************************)
EXTENDS DeviceData, DeviceDataProofs

-----------------------------------------------------------------------------
(* Sums *)

\* What SumOf folds over: the sum of the numbers at any of the first n places.
Summed(ns, n, f) ==
  f = [s \in SUBSET (1..n) |-> IF s = {} THEN 0 ELSE f[s \ {Max(s)}] + ns[Max(s)]]

LEMMA SumOfIs ==
  ASSUME NEW n \in Nat, NEW ns, DOMAIN ns = 1..n
  PROVE  SumOf(ns) = (CHOOSE f : Summed(ns, n, f))[1..n]
BY DEF SumOf, FoldLeft, MapThenFoldSet, Summed

LEMMA MaxIsLast ==
  ASSUME NEW n \in Nat, NEW s \in SUBSET (1..(n + 1)), n + 1 \in s
  PROVE  Max(s) = n + 1 /\ s \ {Max(s)} \in SUBSET (1..n)
<1>1. \A k \in s : n + 1 >= k
  OBVIOUS
<1>2. \A m \in s : m >= n + 1 => m = n + 1
  OBVIOUS
<1>3. Max(s) = n + 1
  BY <1>1, <1>2 DEF Max
<1>. QED
  BY <1>3

LEMMA SummedNext ==
  ASSUME NEW ns, NEW n \in Nat, NEW f, Summed(ns, n, f)
  PROVE  \E g : Summed(ns, n + 1, g)
<1>. DEFINE At(s) == f[s \ {Max(s)}] + ns[Max(s)]
            g == [s \in SUBSET (1..(n + 1)) |-> IF s \subseteq 1..n THEN f[s] ELSE At(s)]
<1>1. ASSUME NEW s \in SUBSET (1..(n + 1))
      PROVE  g[s] = IF s = {} THEN 0 ELSE g[s \ {Max(s)}] + ns[Max(s)]
  <2>1. CASE s \subseteq 1..n
    <3>1. g[s] = f[s] /\ s \ {Max(s)} \subseteq 1..n /\ s \ {Max(s)} \in SUBSET (1..(n + 1))
      BY <2>1
    <3>2. g[s \ {Max(s)}] = f[s \ {Max(s)}]
      BY <3>1
    <3>3. f[s] = IF s = {} THEN 0 ELSE f[s \ {Max(s)}] + ns[Max(s)]
      BY <2>1, Zenon DEF Summed
    <3>. QED
      BY <3>1, <3>2, <3>3, Zenon
  <2>2. CASE ~(s \subseteq 1..n)
    <3>1. n + 1 \in s
      BY <2>2
    <3>2. s \ {Max(s)} \subseteq 1..n /\ s \ {Max(s)} \in SUBSET (1..(n + 1))
      BY <3>1, MaxIsLast
    <3>3. g[s] = At(s) /\ g[s \ {Max(s)}] = f[s \ {Max(s)}] /\ s # {}
      BY <2>2, <3>1, <3>2, Zenon
    <3>. QED
      BY <3>3, Zenon
  <2>. QED
    BY <2>1, <2>2
<1>2. g = [s \in SUBSET (1..(n + 1)) |-> g[s]]
  OBVIOUS
<1>. HIDE DEF g
<1>3. [s \in SUBSET (1..(n + 1)) |-> g[s]]
        = [s \in SUBSET (1..(n + 1)) |-> IF s = {} THEN 0 ELSE g[s \ {Max(s)}] + ns[Max(s)]]
  BY <1>1, Zenon
<1>. QED
  BY <1>2, <1>3, Zenon DEF Summed

LEMMA SummedExists ==
  ASSUME NEW ns, NEW n \in Nat
  PROVE  \E f : Summed(ns, n, f)
<1>. DEFINE Without == {m \in Nat : ~ \E f : Summed(ns, m, f)}
<1>1. SUFFICES ASSUME Without # {} PROVE FALSE
  OBVIOUS
<1>2. PICK m \in Without : \A k \in Without : m <= k
  <2>. HIDE DEF Without
  <2>1. Without \subseteq Nat
    BY DEF Without
  <2>. QED
    BY <1>1, <2>1, LeastNatural, Zenon
<1>3. m # 0
  <2>. DEFINE f == [s \in SUBSET (1..0) |-> 0]
  <2>1. \A s \in SUBSET (1..0) : s = {}
    OBVIOUS
  <2>2. Summed(ns, 0, f)
    BY <2>1 DEF Summed
  <2>. QED
    BY <2>2
<1>4. m - 1 \in Nat /\ m - 1 \notin Without
  BY <1>2, <1>3
<1>5. PICK f : Summed(ns, m - 1, f)
  BY <1>4
<1>6. \E g : Summed(ns, m - 1 + 1, g)
  BY <1>4, <1>5, SummedNext
<1>. QED
  BY <1>6

\* The sum of the first k numbers does not depend on those behind them.
LEMMA SummedAgree ==
  ASSUME NEW n \in Nat, NEW m \in Nat, NEW ns, NEW ms, NEW f, NEW g,
         Summed(ns, n, f), Summed(ms, m, g),
         NEW k \in Nat, k <= n, k <= m, \A x \in 1..k : ns[x] = ms[x]
  PROVE  f[1..k] = g[1..k]
<1>. DEFINE Apart == {j \in 0..k : f[1..j] # g[1..j]}
<1>1. SUFFICES ASSUME Apart # {} PROVE FALSE
  BY DEF Apart
<1>2. PICK j \in Apart : \A i \in Apart : j <= i
  <2>. HIDE DEF Apart
  <2>1. Apart \subseteq Nat
    BY DEF Apart
  <2>. QED
    BY <1>1, <2>1, LeastNatural, Zenon
<1>3. /\ f[1..0] = 0 /\ g[1..0] = 0
  <2>1. 1..0 = {}
    OBVIOUS
  <2>. QED
    BY <2>1 DEF Summed
<1>4. j \in 1..k /\ j - 1 \in 0..k /\ j - 1 \notin Apart
  BY <1>2, <1>3
<1>5. /\ 1..j \in SUBSET (1..n) /\ 1..j \in SUBSET (1..m) /\ 1..j # {}
      /\ Max(1..j) = j /\ (1..j) \ {j} = 1..(j - 1)
  <2>1. j - 1 \in Nat /\ j - 1 + 1 = j /\ 1..j \in SUBSET (1..(j - 1 + 1)) /\ j \in 1..j
    BY <1>4
  <2>2. Max(1..j) = j - 1 + 1
    BY <2>1, MaxIsLast
  <2>. QED
    BY <1>4, <2>1, <2>2
<1>6. f[1..j] = f[1..(j - 1)] + ns[j] /\ g[1..j] = g[1..(j - 1)] + ms[j]
  <2>1. f[1..j] = IF 1..j = {} THEN 0 ELSE f[(1..j) \ {Max(1..j)}] + ns[Max(1..j)]
    BY <1>5, Zenon DEF Summed
  <2>2. g[1..j] = IF 1..j = {} THEN 0 ELSE g[(1..j) \ {Max(1..j)}] + ms[Max(1..j)]
    BY <1>5, Zenon DEF Summed
  <2>. QED
    BY <1>5, <2>1, <2>2, Zenon
<1>7. f[1..(j - 1)] = g[1..(j - 1)] /\ ns[j] = ms[j]
  BY <1>4
<1>8. f[1..j] = g[1..j]
  BY <1>6, <1>7, Zenon
<1>. QED
  BY <1>2, <1>8

LEMMA SumNext ==
  ASSUME NEW n \in Nat, NEW ns, DOMAIN ns = 1..(n + 1), NEW ms, DOMAIN ms = 1..n,
         \A x \in 1..n : ns[x] = ms[x]
  PROVE  SumOf(ns) = SumOf(ms) + ns[n + 1]
<1>. DEFINE f == CHOOSE h : Summed(ns, n + 1, h)
            g == CHOOSE h : Summed(ms, n, h)
<1>1. Summed(ns, n + 1, f) /\ Summed(ms, n, g)
  <2>1. n + 1 \in Nat
    OBVIOUS
  <2>. QED
    BY <2>1, SummedExists
<1>2. SumOf(ns) = f[1..(n + 1)] /\ SumOf(ms) = g[1..n]
  <2>1. n + 1 \in Nat
    OBVIOUS
  <2>. QED
    BY <2>1, SumOfIs
<1>. HIDE DEF f, g
<1>3. f[1..n] = g[1..n]
  BY <1>1, SummedAgree
<1>4. /\ 1..(n + 1) \in SUBSET (1..(n + 1)) /\ 1..(n + 1) # {} /\ n + 1 \in 1..(n + 1)
      /\ (1..(n + 1)) \ {n + 1} = 1..n
  OBVIOUS
<1>5. Max(1..(n + 1)) = n + 1
  BY <1>4, MaxIsLast
<1>6. f[1..(n + 1)] = f[(1..(n + 1)) \ {Max(1..(n + 1))}] + ns[Max(1..(n + 1))]
  BY <1>1, <1>4, Zenon DEF Summed
<1>. QED
  BY <1>2, <1>3, <1>4, <1>5, <1>6, Zenon

LEMMA SumOfNone ==
  ASSUME NEW ns, DOMAIN ns = 1..0
  PROVE  SumOf(ns) = 0
<1>. DEFINE f == CHOOSE h : Summed(ns, 0, h)
<1>1. Summed(ns, 0, f)
  BY SummedExists
<1>2. SumOf(ns) = f[1..0]
  BY SumOfIs
<1>. HIDE DEF f
<1>3. 1..0 = {} /\ 1..0 \in SUBSET (1..0)
  OBVIOUS
<1>. QED
  BY <1>1, <1>2, <1>3, Zenon DEF Summed

\* t adds the numbers up, place by place.
Runs(ns, n, t) ==
  t \in [0..n -> Nat] /\ t[0] = 0 /\ \A k \in 1..n : t[k] = t[k - 1] + ns[k]

First(ns, k) == [x \in 1..k |-> ns[x]]

LEMMA SumRuns ==
  ASSUME NEW n \in Nat, NEW ns, \A x \in 1..n : ns[x] \in Nat
  PROVE  Runs(ns, n, [k \in 0..n |-> SumOf(First(ns, k))])
<1>. DEFINE t == [k \in 0..n |-> SumOf(First(ns, k))]
<1>1. t[0] = 0
  BY SumOfNone DEF First
<1>2. ASSUME NEW k \in 1..n PROVE t[k] = t[k - 1] + ns[k]
  <2>1. k - 1 \in Nat /\ k - 1 + 1 = k /\ k - 1 \in 0..n /\ k \in 0..n /\ k \in 1..k
    OBVIOUS
  <2>2. /\ DOMAIN First(ns, k) = 1..(k - 1 + 1) /\ DOMAIN First(ns, k - 1) = 1..(k - 1)
        /\ \A x \in 1..(k - 1) : First(ns, k)[x] = First(ns, k - 1)[x]
        /\ First(ns, k)[k - 1 + 1] = ns[k]
    BY <2>1 DEF First
  <2>3. SumOf(First(ns, k)) = SumOf(First(ns, k - 1)) + First(ns, k)[k - 1 + 1]
    BY <2>1, <2>2, SumNext
  <2>. QED
    BY <2>1, <2>2, <2>3
<1>. HIDE DEF t
<1>3. \A k \in 0..n : t[k] \in Nat
  <2>. DEFINE Bad == {k \in 0..n : t[k] \notin Nat}
  <2>1. SUFFICES ASSUME Bad # {} PROVE FALSE
    OBVIOUS
  <2>2. PICK k \in Bad : \A i \in Bad : k <= i
    <3>. HIDE DEF Bad
    <3>1. Bad \subseteq Nat
      BY DEF Bad
    <3>. QED
      BY <2>1, <3>1, LeastNatural, Zenon
  <2>3. k \in 1..n /\ k - 1 \in 0..n /\ k - 1 \notin Bad
    BY <1>1, <2>2
  <2>. QED
    BY <1>2, <2>2, <2>3
<1>4. t \in [0..n -> Nat]
  BY <1>3 DEF t
<1>5. Runs(ns, n, t)
  BY <1>1, <1>2, <1>4 DEF Runs
<1>. QED
  BY <1>5 DEF t

LEMMA RunsGrow ==
  ASSUME NEW ns, NEW n \in Nat, NEW t, Runs(ns, n, t), NEW a \in 0..n, NEW b \in a..n,
         \A k \in 1..n : ns[k] \in Nat
  PROVE  t[a] <= t[b]
<1>. DEFINE Less == {k \in a..n : ~(t[a] <= t[k])}
<1>1. SUFFICES ASSUME Less # {} PROVE FALSE
  BY DEF Less
<1>2. PICK k \in Less : \A i \in Less : k <= i
  <2>. HIDE DEF Less
  <2>1. Less \subseteq Nat
    BY DEF Less
  <2>. QED
    BY <1>1, <2>1, LeastNatural, Zenon
<1>3. \A i \in 0..n : t[i] \in Nat
  BY DEF Runs
<1>4. k # a
  BY <1>2, <1>3
<1>5. k \in 1..n /\ k - 1 \in a..n /\ k - 1 \notin Less /\ k - 1 \in 0..n
  BY <1>2, <1>4
<1>6. t[k] = t[k - 1] + ns[k] /\ ns[k] \in Nat
  BY <1>5 DEF Runs
<1>. QED
  BY <1>2, <1>3, <1>5, <1>6

-----------------------------------------------------------------------------
(* Lists one after the other *)

\* u is the first i lists of ss, each beginning where t says.
Strings(ss, i, t, u) ==
  /\ Len(u) = t[i]
  /\ \A p \in 1..i : \A j \in 1..Len(ss[p]) : u[t[p - 1] + j] = ss[p][j]

LEMMA Within ==
  ASSUME NEW a \in Nat, NEW b \in Nat, NEW l \in Nat, a + l <= b, NEW j \in 1..l
  PROVE  a + j \in 1..b
OBVIOUS

LEMMA StringsNext ==
  ASSUME NEW S, NEW ss \in Seq(Seq(S)), NEW t, Runs([p \in 1..Len(ss) |-> Len(ss[p])], Len(ss), t),
         NEW i \in 0..(Len(ss) - 1), NEW u \in Seq(S), Strings(ss, i, t, u)
  PROVE  u \o ss[i + 1] \in Seq(S) /\ Strings(ss, i + 1, t, u \o ss[i + 1])
<1>. DEFINE v == u \o ss[i + 1]
            n == Len(ss)
            lens == [p \in 1..n |-> Len(ss[p])]
<1>1. /\ n \in Nat /\ i \in Nat /\ i + 1 \in 1..n /\ i + 1 - 1 = i
      /\ \A p \in 1..n : ss[p] \in Seq(S) /\ Len(ss[p]) \in Nat /\ lens[p] = Len(ss[p])
  OBVIOUS
<1>2. /\ \A p \in 0..n : t[p] \in Nat
      /\ \A p \in 1..n : t[p] = t[p - 1] + Len(ss[p])
  BY <1>1 DEF Runs
<1>3. /\ v \in Seq(S) /\ Len(v) = Len(u) + Len(ss[i + 1])
      /\ \A m \in 1..(Len(u) + Len(ss[i + 1])) :
           v[m] = IF m <= Len(u) THEN u[m] ELSE ss[i + 1][m - Len(u)]
  BY <1>1, ConcatProperties
<1>. HIDE DEF v, lens
<1>4. Len(u) = t[i] /\ t[i] \in Nat /\ t[i + 1] = t[i] + Len(ss[i + 1])
  BY <1>1, <1>2 DEF Strings
<1>5. /\ Len(v) = t[i + 1]
      /\ \A m \in 1..(t[i] + Len(ss[i + 1])) :
           v[m] = IF m <= t[i] THEN u[m] ELSE ss[i + 1][m - t[i]]
  BY <1>3, <1>4
<1>6. \A m \in 1..t[i] : v[m] = u[m]
  <2>1. Len(ss[i + 1]) \in Nat
    BY <1>1
  <2>2. \A m \in 1..t[i] : m \in 1..(t[i] + Len(ss[i + 1])) /\ m <= t[i]
    BY <1>4, <2>1
  <2>. QED
    BY <1>5, <2>2
<1>7. ASSUME NEW j \in 1..Len(ss[i + 1])
      PROVE  v[t[i] + j] = ss[i + 1][j]
  <2>. DEFINE m == t[i] + j
  <2>1. m \in 1..(t[i] + Len(ss[i + 1])) /\ ~(m <= t[i]) /\ m - t[i] = j
    <3>1. Len(ss[i + 1]) \in Nat
      BY <1>1
    <3>. QED
      BY <1>4, <3>1
  <2>. HIDE DEF m
  <2>2. v[m] = ss[i + 1][j]
    BY <1>5, <2>1
  <2>. QED
    BY <2>2 DEF m
<1>8. ASSUME NEW p \in 1..(i + 1), NEW j \in 1..Len(ss[p])
      PROVE  v[t[p - 1] + j] = ss[p][j]
  <2>1. CASE p = i + 1
    <3>1. p - 1 = i
      BY <1>1, <2>1
    <3>. QED
      BY <1>7, <2>1, <3>1, Zenon
  <2>2. CASE p \in 1..i
    <3>1. /\ p \in 1..n /\ p - 1 \in 0..n /\ p \in 0..n /\ i \in p..n /\ i \in 0..n
          /\ Len(ss[p]) \in Nat
      BY <1>1, <2>2
    <3>2. t[p] <= t[i]
      <4>1. \A k \in 1..n : lens[k] \in Nat
        BY <1>1
      <4>2. Runs(lens, n, t)
        BY DEF lens
      <4>. QED
        BY <1>1, <3>1, <4>1, <4>2, RunsGrow
    <3>3. t[p - 1] + j \in 1..t[i]
      <4>1. t[p - 1] \in Nat /\ t[p] = t[p - 1] + Len(ss[p])
        BY <1>2, <3>1
      <4>2. t[p - 1] + Len(ss[p]) <= t[i]
        BY <3>2, <4>1
      <4>. QED
        BY <1>4, <3>1, <4>1, <4>2, Within
    <3>4. v[t[p - 1] + j] = u[t[p - 1] + j]
      BY <1>6, <3>3, Zenon
    <3>5. u[t[p - 1] + j] = ss[p][j]
      BY <2>2 DEF Strings
    <3>. QED
      BY <3>4, <3>5
  <2>. QED
    BY <1>1, <2>1, <2>2
<1>. QED
  BY <1>3, <1>5, <1>8 DEF Strings, v

LEMMA FlattenRuns ==
  ASSUME NEW S, NEW ss \in Seq(Seq(S)), NEW t, Runs([p \in 1..Len(ss) |-> Len(ss[p])], Len(ss), t)
  PROVE  FlattenSeq(ss) \in Seq(S) /\ Strings(ss, Len(ss), t, FlattenSeq(ss))
<1>. DEFINE n == Len(ss)
<1>1. n \in Nat /\ t[0] = 0
  BY DEF Runs
<1>2. Strings(ss, 0, t, <<>>) /\ <<>> \in Seq(S)
  BY <1>1 DEF Strings
<1>3. CASE n = 0
  <2>1. FlattenSeq(ss) = <<>>
    BY <1>3 DEF FlattenSeq
  <2>. QED
    BY <1>2, <1>3, <2>1
<1>4. CASE n # 0
  <2>1. PICK f : Flattened(ss, n, f) /\ FlattenSeq(ss) = f[n]
    BY <1>4, FlattenSeqIs
  <2>2. \A i \in 1..n : f[i] = IF i = 1 THEN ss[i] ELSE f[i - 1] \o ss[i]
    BY <2>1 DEF Flattened
  <2>. DEFINE Wrong == {i \in 1..n : ~(f[i] \in Seq(S) /\ Strings(ss, i, t, f[i]))}
  <2>3. Wrong = {}
    <3>1. SUFFICES ASSUME Wrong # {} PROVE FALSE
      OBVIOUS
    <3>2. PICK m \in Wrong : \A k \in Wrong : m <= k
      <4>. HIDE DEF Wrong
      <4>1. Wrong \subseteq Nat
        BY <1>1 DEF Wrong
      <4>. QED
        BY <3>1, <4>1, LeastNatural, Zenon
    <3>3. m \in 1..n /\ ss[m] \in Seq(S)
      BY <3>2
    <3>4. CASE m = 1
      <4>1. <<>> \o ss[1] = ss[1] /\ f[1] = ss[1] /\ 0 \in 0..(n - 1) /\ 0 + 1 = 1
        BY <1>1, <1>4, <2>2, <3>3, <3>4
      <4>2. <<>> \o ss[0 + 1] \in Seq(S) /\ Strings(ss, 0 + 1, t, <<>> \o ss[0 + 1])
        BY <1>2, <4>1, StringsNext
      <4>. QED
        BY <3>2, <3>4, <4>1, <4>2
    <3>5. CASE m # 1
      <4>1. m - 1 \in 1..n /\ m - 1 \in 0..(n - 1) /\ m - 1 + 1 = m /\ m - 1 \notin Wrong
        BY <1>1, <3>2, <3>3, <3>5
      <4>2. f[m - 1] \in Seq(S) /\ Strings(ss, m - 1, t, f[m - 1])
        BY <4>1
      <4>3. f[m] = f[m - 1] \o ss[m - 1 + 1]
        BY <2>2, <3>3, <3>5, <4>1
      <4>4. /\ f[m - 1] \o ss[m - 1 + 1] \in Seq(S)
            /\ Strings(ss, m - 1 + 1, t, f[m - 1] \o ss[m - 1 + 1])
        BY <4>1, <4>2, StringsNext
      <4>. QED
        BY <3>2, <4>1, <4>3, <4>4
    <3>. QED
      BY <3>4, <3>5
  <2>4. n \in 1..n
    BY <1>1, <1>4
  <2>. QED
    BY <2>1, <2>3, <2>4
<1>. QED
  BY <1>3, <1>4

-----------------------------------------------------------------------------
(* The bits of a shot *)

Orders(g) == SetToSeqs(Range(KeysOf(g.fields)))

LEMMA SeqParts ==
  ASSUME NEW S, NEW q \in Seq(S)
  PROVE  Len(q) \in Nat /\ DOMAIN q = 1..Len(q) /\ \A i \in 1..Len(q) : q[i] \in S
OBVIOUS

LEMMA KeysAreDistinct ==
  ASSUME NEW g, IsProgram(g)
  PROVE  /\ Len(g.fields) \in Nat /\ DOMAIN g.fields = 1..Len(g.fields)
         /\ \A f \in 1..Len(g.fields) : /\ g.fields[f].key \in STRING
                                        /\ g.fields[f].width \in Nat \ {0}
         /\ KeysOf(g.fields) \in [1..Len(g.fields) -> STRING]
         /\ IsFiniteSet(Range(KeysOf(g.fields)))
         /\ Cardinality(Range(KeysOf(g.fields))) = Len(g.fields)
<1>. DEFINE n == Len(g.fields)
            K == Range(KeysOf(g.fields))
<1>1. /\ n \in Nat /\ DOMAIN g.fields = 1..n
      /\ \A f \in 1..n : g.fields[f].key \in STRING /\ g.fields[f].width \in Nat \ {0}
  <2>1. g.fields \in Seq([key : STRING, width : Nat \ {0}])
    BY DEF IsProgram
  <2>2. /\ n \in Nat /\ DOMAIN g.fields = 1..n
        /\ \A f \in 1..n : g.fields[f] \in [key : STRING, width : Nat \ {0}]
    BY <2>1, SeqParts
  <2>. QED
    BY <2>2
<1>2. KeysOf(g.fields) = [f \in 1..n |-> g.fields[f].key]
  BY <1>1 DEF KeysOf
<1>3. K = {g.fields[f].key : f \in 1..n}
  BY <1>2 DEF Range
<1>4. KeysOf(g.fields) \in Bijection(1..n, K)
  <2>1. \A f, e \in 1..n : KeysOf(g.fields)[f] = KeysOf(g.fields)[e] => f = e
    BY <1>1, <1>2 DEF IsProgram
  <2>2. \A k \in K : \E f \in 1..n : KeysOf(g.fields)[f] = k
    BY <1>2, <1>3
  <2>3. KeysOf(g.fields) \in [1..n -> K]
    BY <1>2, <1>3
  <2>. QED
    BY <2>1, <2>2, <2>3 DEF Bijection, Injection, Surjection, IsInjective
<1>5. IsFiniteSet(K) /\ Cardinality(K) = n
  <2>1. ExistsBijection(1..n, K)
    BY <1>4 DEF ExistsBijection
  <2>. QED
    BY <1>1, <2>1, FS_CountingElements, FS_NatBijection
<1>. QED
  BY <1>1, <1>2, <1>5

LEMMA KeysOfIsOrder ==
  ASSUME NEW g, IsProgram(g)
  PROVE  KeysOf(g.fields) \in Orders(g)
<1>. DEFINE n == Len(g.fields)
            K == Range(KeysOf(g.fields))
<1>1. Cardinality(K) = n /\ n \in Nat /\ DOMAIN g.fields = 1..n
  BY KeysAreDistinct
<1>2. KeysOf(g.fields) = [f \in 1..n |-> g.fields[f].key]
  BY <1>1 DEF KeysOf
<1>3. KeysOf(g.fields) \in [1..n -> K]
  BY <1>2 DEF Range
<1>4. \A i, j \in 1..n : i # j => KeysOf(g.fields)[i] # KeysOf(g.fields)[j]
  BY <1>1, <1>2 DEF IsProgram
<1>. QED
  BY <1>1, <1>3, <1>4 DEF Orders, SetToSeqs

\* The server lists every key of the program once.
LEMMA OrderFacts ==
  ASSUME NEW g, IsProgram(g), NEW o \in Orders(g)
  PROVE  /\ o \in [1..Len(g.fields) -> STRING]
         /\ Range(o) = Range(KeysOf(g.fields))
         /\ \A i, j \in 1..Len(g.fields) : o[i] = o[j] => i = j
         /\ \A i \in 1..Len(g.fields) : \E f \in 1..Len(g.fields) : o[i] = g.fields[f].key
         /\ \A f \in 1..Len(g.fields) : \E i \in 1..Len(g.fields) : o[i] = g.fields[f].key
<1>. DEFINE n == Len(g.fields)
            K == Range(KeysOf(g.fields))
<1>1. /\ Cardinality(K) = n /\ n \in Nat /\ IsFiniteSet(K) /\ DOMAIN g.fields = 1..n
      /\ \A f \in 1..n : g.fields[f].key \in STRING
  BY KeysAreDistinct
<1>2. o \in [1..n -> K] /\ \A i, j \in 1..n : i # j => o[i] # o[j]
  BY <1>1 DEF Orders, SetToSeqs
<1>3. K = {g.fields[f].key : f \in 1..n}
  BY <1>1 DEF Range, KeysOf
<1>4. o \in Surjection(1..n, K)
  <2>1. o \in Injection(1..n, K)
    BY <1>2 DEF Injection, IsInjective
  <2>2. Cardinality(1..n) = n
    BY <1>1, FS_Interval
  <2>. QED
    BY <1>1, <2>1, <2>2, FS_Injection
<1>5. \A k \in K : \E i \in 1..n : o[i] = k
  BY <1>4 DEF Surjection
<1>6. Range(o) = K
  <2>1. DOMAIN o = 1..n /\ \A i \in 1..n : o[i] \in K
    BY <1>2
  <2>. HIDE DEF K
  <2>2. Range(o) = {o[i] : i \in 1..n}
    BY <2>1 DEF Range
  <2>. QED
    BY <1>5, <2>1, <2>2
<1>7. \A i \in 1..n : o[i] \in STRING /\ \E f \in 1..n : o[i] = g.fields[f].key
  BY <1>1, <1>2, <1>3
<1>8. \A f \in 1..n : \E i \in 1..n : o[i] = g.fields[f].key
  BY <1>3, <1>5
<1>. QED
  BY <1>2, <1>6, <1>7, <1>8

LEMMA WidthOfKey ==
  ASSUME NEW g, IsProgram(g), NEW f \in 1..Len(g.fields)
  PROVE  WidthOf(g.fields, g.fields[f].key) = g.fields[f].width
<1>1. DOMAIN g.fields = 1..Len(g.fields)
  BY KeysAreDistinct
<1>2. \A e \in DOMAIN g.fields : g.fields[e].key = g.fields[f].key => e = f
  BY <1>1 DEF IsProgram
<1>. QED
  BY <1>1, <1>2 DEF WidthOf

\* A shot as the server writes it, and where the bits of its keys end.
Bits(g, s, o) == FlattenSeq([i \in DOMAIN o |-> g.shots[s][o[i]]])
Widths(g, o) == [i \in 1..Len(g.fields) |-> WidthOf(g.fields, o[i])]
Ends(g, o) == [k \in 0..Len(g.fields) |-> SumOf(First(Widths(g, o), k))]

LEMMA WidthsAre ==
  ASSUME NEW g, IsProgram(g), NEW o \in Orders(g), NEW i \in 1..Len(g.fields)
  PROVE  /\ Widths(g, o)[i] = WidthOf(g.fields, o[i])
         /\ WidthOf(g.fields, o[i]) \in Nat \ {0}
         /\ \A s \in DOMAIN g.shots : g.shots[s][o[i]] \in [1..WidthOf(g.fields, o[i]) -> {0, 1}]
<1>1. \A j \in 1..Len(g.fields) : \E f \in 1..Len(g.fields) : o[j] = g.fields[f].key
  BY OrderFacts
<1>2. PICK f \in 1..Len(g.fields) : o[i] = g.fields[f].key
  BY <1>1
<1>3. WidthOf(g.fields, o[i]) = g.fields[f].width
  BY <1>2, WidthOfKey
<1>4. g.fields[f].width \in Nat \ {0} /\ f \in DOMAIN g.fields
  BY KeysAreDistinct
<1>5. \A s \in DOMAIN g.shots : g.shots[s][g.fields[f].key] \in [1..g.fields[f].width -> {0, 1}]
  BY <1>4, Zenon DEF IsProgram
<1>6. Widths(g, o)[i] = WidthOf(g.fields, o[i])
  BY DEF Widths
<1>. QED
  BY <1>2, <1>3, <1>4, <1>5, <1>6, Zenon

LEMMA EndsRun ==
  ASSUME NEW g, IsProgram(g), NEW o \in Orders(g)
  PROVE  Runs(Widths(g, o), Len(g.fields), Ends(g, o))
<1>1. Len(g.fields) \in Nat
  BY KeysAreDistinct
<1>2. \A i \in 1..Len(g.fields) : Widths(g, o)[i] \in Nat
  BY WidthsAre
<1>. QED
  BY <1>1, <1>2, SumRuns DEF Ends

LEMMA BitsAt ==
  ASSUME NEW g, IsProgram(g), NEW o \in Orders(g), NEW s \in DOMAIN g.shots
  PROVE  /\ Bits(g, s, o) \in Seq({0, 1}) /\ Len(Bits(g, s, o)) = Ends(g, o)[Len(g.fields)]
         /\ \A i \in 1..Len(g.fields) : \A b \in 1..WidthOf(g.fields, o[i]) :
              Bits(g, s, o)[Ends(g, o)[i - 1] + b] = g.shots[s][o[i]][b]
<1>. DEFINE n == Len(g.fields)
            ss == [i \in 1..n |-> g.shots[s][o[i]]]
<1>1. n \in Nat /\ DOMAIN o = 1..n
  BY KeysAreDistinct, OrderFacts
<1>2. Bits(g, s, o) = FlattenSeq(ss)
  BY <1>1 DEF Bits
<1>3. \A i \in 1..n : /\ ss[i] \in Seq({0, 1}) /\ Len(ss[i]) = WidthOf(g.fields, o[i])
  <2>1. ASSUME NEW i \in 1..n
        PROVE  ss[i] \in Seq({0, 1}) /\ Len(ss[i]) = WidthOf(g.fields, o[i])
    <3>1. ss[i] \in [1..WidthOf(g.fields, o[i]) -> {0, 1}] /\ WidthOf(g.fields, o[i]) \in Nat
      BY WidthsAre
    <3>. QED
      BY <3>1
  <2>. QED
    BY <2>1
<1>4. ss \in Seq(Seq({0, 1})) /\ Len(ss) = n
  <2>1. ss \in [1..n -> Seq({0, 1})]
    BY <1>3
  <2>. QED
    BY <1>1, <2>1
<1>5. [p \in 1..Len(ss) |-> Len(ss[p])] = Widths(g, o)
  BY <1>3, <1>4 DEF Widths
<1>6. \A i \in 1..n : ss[i] = g.shots[s][o[i]]
  OBVIOUS
<1>. HIDE DEF ss
<1>7. Runs([p \in 1..Len(ss) |-> Len(ss[p])], Len(ss), Ends(g, o))
  BY <1>4, <1>5, EndsRun
<1>8. FlattenSeq(ss) \in Seq({0, 1}) /\ Strings(ss, n, Ends(g, o), FlattenSeq(ss))
  BY <1>4, <1>7, FlattenRuns
<1>. QED
  BY <1>2, <1>3, <1>6, <1>8 DEF Strings

LEMMA OffsetOfKey ==
  ASSUME NEW g, IsProgram(g), NEW o \in Orders(g), NEW i \in 1..Len(g.fields)
  PROVE  Offset(g.fields, o, o[i]) = Ends(g, o)[i - 1] /\ Ends(g, o)[i - 1] \in Nat
<1>1. Len(g.fields) \in Nat /\ DOMAIN o = 1..Len(g.fields)
  BY KeysAreDistinct, OrderFacts
<1>2. \A j, k \in 1..Len(g.fields) : o[j] = o[k] => j = k
  BY OrderFacts
<1>3. (CHOOSE n \in DOMAIN o : o[n] = o[i]) = i
  BY <1>1, <1>2
<1>4. [n \in 1..(i - 1) |-> WidthOf(g.fields, o[n])] = First(Widths(g, o), i - 1)
  <2>1. \A n \in 1..(i - 1) : Widths(g, o)[n] = WidthOf(g.fields, o[n])
    <3>1. \A n \in 1..(i - 1) : n \in 1..Len(g.fields)
      BY <1>1
    <3>. QED
      BY <3>1 DEF Widths
  <2>. QED
    BY <2>1 DEF First
<1>5. i - 1 \in 0..Len(g.fields)
  BY <1>1
<1>6. Ends(g, o)[i - 1] = SumOf(First(Widths(g, o), i - 1))
  BY <1>5 DEF Ends
<1>7. Ends(g, o)[i - 1] \in Nat
  BY <1>5, EndsRun DEF Runs
<1>. QED
  BY <1>3, <1>4, <1>6, <1>7 DEF Offset

LEMMA WindowIs ==
  ASSUME NEW f, NEW N \in Nat, NEW w \in Nat \ {0}, NEW e \in [1..w -> {0, 1}],
         \A b \in 1..w : f[N + b] = e[b]
  PROVE  SubSeq(f, N + 1, N + w) = e
<1>1. SubSeq(f, N + 1, N + w) = [b \in 1..w |-> f[N + b]]
  BY Windows
<1>2. [b \in 1..w |-> f[N + b]] = [b \in 1..w |-> e[b]]
  BY Zenon
<1>3. e = [b \in 1..w |-> e[b]]
  OBVIOUS
<1>. QED
  BY <1>1, <1>2, <1>3, Zenon

\* Normalizing a string brings its keys into the order of the layout, whatever
\* order the server used.
LEMMA NormalizedBits ==
  ASSUME NEW g, IsProgram(g), NEW o \in Orders(g), NEW s \in DOMAIN g.shots
  PROVE  Normalized(Bits(g, s, o), g.fields, o) = Reverse(Bits(g, s, KeysOf(g.fields)))
<1>. DEFINE n == Len(g.fields)
            at(f) == Offset(g.fields, o, g.fields[f].key)
            Part(f) == SubSeq(Bits(g, s, o), at(f) + 1, at(f) + g.fields[f].width)
<1>1. n \in Nat /\ DOMAIN g.fields = 1..n /\ DOMAIN KeysOf(g.fields) = 1..n
  BY KeysAreDistinct
<1>2. ASSUME NEW f \in 1..n
      PROVE  Part(f) = g.shots[s][g.fields[f].key]
  <2>1. \A e \in 1..n : \E i \in 1..n : o[i] = g.fields[e].key
    BY OrderFacts
  <2>2. PICK i \in 1..n : o[i] = g.fields[f].key
    BY <2>1
  <2>3. at(f) = Ends(g, o)[i - 1] /\ at(f) \in Nat
    BY <2>2, OffsetOfKey
  <2>4. WidthOf(g.fields, o[i]) = g.fields[f].width /\ g.fields[f].width \in Nat \ {0}
    BY <2>2, WidthOfKey, KeysAreDistinct
  <2>5. g.shots[s][o[i]] \in [1..WidthOf(g.fields, o[i]) -> {0, 1}]
    BY WidthsAre
  <2>6. \A b \in 1..WidthOf(g.fields, o[i]) :
          Bits(g, s, o)[Ends(g, o)[i - 1] + b] = g.shots[s][o[i]][b]
    BY BitsAt
  <2>. HIDE DEF at
  <2>7. \A b \in 1..g.fields[f].width : Bits(g, s, o)[at(f) + b] = g.shots[s][o[i]][b]
    BY <2>3, <2>4, <2>6, Zenon
  <2>8. g.shots[s][o[i]] \in [1..g.fields[f].width -> {0, 1}]
    BY <2>4, <2>5, Zenon
  <2>9. Part(f) = g.shots[s][o[i]]
    <3>. DEFINE N == at(f)
                w == g.fields[f].width
                e == g.shots[s][o[i]]
                v == Bits(g, s, o)
    <3>1. /\ N \in Nat /\ w \in Nat \ {0} /\ e \in [1..w -> {0, 1}]
          /\ \A b \in 1..w : v[N + b] = e[b]
      BY <2>3, <2>4, <2>7, <2>8, Zenon
    <3>. HIDE DEF N, w, e, v
    <3>2. SubSeq(v, N + 1, N + w) = e
      BY <3>1, WindowIs
    <3>. QED
      BY <3>2 DEF N, w, e, v
  <2>. QED
    BY <2>2, <2>9
<1>3. Normalized(Bits(g, s, o), g.fields, o) = Reverse(FlattenSeq([f \in 1..n |-> Part(f)]))
  BY <1>1 DEF Normalized
<1>4. Bits(g, s, KeysOf(g.fields)) = FlattenSeq([f \in 1..n |-> g.shots[s][g.fields[f].key]])
  <2>1. \A f \in 1..n : KeysOf(g.fields)[f] = g.fields[f].key
    BY <1>1 DEF KeysOf
  <2>2. [f \in 1..n |-> g.shots[s][KeysOf(g.fields)[f]]]
          = [f \in 1..n |-> g.shots[s][g.fields[f].key]]
    BY <2>1
  <2>. QED
    BY <1>1, <2>2 DEF Bits
<1>. HIDE DEF Part
<1>5. [f \in 1..n |-> Part(f)] = [f \in 1..n |-> g.shots[s][g.fields[f].key]]
  BY <1>2, Zenon
<1>. QED
  BY <1>3, <1>4, <1>5, Zenon

-----------------------------------------------------------------------------
(* Strings that show what was measured *)

LEMMA WidthOfFirst ==
  ASSUME NEW g, IsProgram(g)
  PROVE  /\ Width(g.fields) = Ends(g, KeysOf(g.fields))[Len(g.fields)]
         /\ \A k \in 0..Len(g.fields) :
              Width(SubSeq(g.fields, 1, k)) = Ends(g, KeysOf(g.fields))[k]
<1>. DEFINE n == Len(g.fields)
            o == KeysOf(g.fields)
<1>1. /\ n \in Nat /\ DOMAIN g.fields = 1..n
      /\ g.fields \in Seq([key : STRING, width : Nat \ {0}])
  BY KeysAreDistinct DEF IsProgram
<1>2. \A f \in 1..n : Widths(g, o)[f] = g.fields[f].width
  <2>1. ASSUME NEW f \in 1..n PROVE Widths(g, o)[f] = g.fields[f].width
    <3>1. o[f] = g.fields[f].key
      BY <1>1 DEF KeysOf
    <3>2. WidthOf(g.fields, g.fields[f].key) = g.fields[f].width
      BY WidthOfKey
    <3>. QED
      BY <3>1, <3>2 DEF Widths
  <2>. QED
    BY <2>1
<1>3. ASSUME NEW k \in 0..n
      PROVE  Ends(g, o)[k] = SumOf([f \in 1..k |-> g.fields[f].width])
  <2>1. \A f \in 1..k : Widths(g, o)[f] = g.fields[f].width
    BY <1>1, <1>2
  <2>2. First(Widths(g, o), k) = [f \in 1..k |-> g.fields[f].width]
    BY <2>1, Zenon DEF First
  <2>. QED
    BY <2>2 DEF Ends
<1>4. Width(g.fields) = Ends(g, o)[n]
  <2>1. n \in 0..n
    BY <1>1
  <2>2. Width(g.fields) = SumOf([f \in 1..n |-> g.fields[f].width])
    BY <1>1 DEF Width
  <2>. QED
    BY <1>3, <2>1, <2>2
<1>5. ASSUME NEW k \in 0..n
      PROVE  Width(SubSeq(g.fields, 1, k)) = Ends(g, o)[k]
  <2>1. /\ DOMAIN SubSeq(g.fields, 1, k) = 1..k
        /\ \A f \in 1..k : SubSeq(g.fields, 1, k)[f] = g.fields[f]
    BY <1>1
  <2>2. [f \in DOMAIN SubSeq(g.fields, 1, k) |-> SubSeq(g.fields, 1, k)[f].width]
          = [f \in 1..k |-> g.fields[f].width]
    BY <2>1, Zenon
  <2>. QED
    BY <1>3, <2>2 DEF Width
<1>. QED
  BY <1>4, <1>5

LEMMA ReverseAt ==
  ASSUME NEW S, NEW u \in Seq(S)
  PROVE  /\ Len(Reverse(u)) = Len(u) /\ Len(u) \in Nat
         /\ \A x \in 1..Len(u) : Reverse(u)[Len(u) + 1 - x] = u[x]
<1>. DEFINE n == Len(u)
<1>1. n \in Nat
  OBVIOUS
<1>2. Reverse(u) = [i \in 1..n |-> u[(n - i) + 1]]
  BY DEF Reverse
<1>3. ASSUME NEW x \in 1..n PROVE Reverse(u)[n + 1 - x] = u[x]
  <2>1. n + 1 - x \in 1..n /\ (n - (n + 1 - x)) + 1 = x
    BY <1>1
  <2>. QED
    BY <1>2, <2>1
<1>. QED
  BY <1>1, <1>2, <1>3

LEMMA ToldShows ==
  ASSUME NEW g, IsProgram(g), NEW s \in DOMAIN g.shots
  PROVE  Shows(Reverse(Bits(g, s, KeysOf(g.fields))), g, s)
<1>. DEFINE n == Len(g.fields)
            o == KeysOf(g.fields)
            bits == Bits(g, s, o)
            E == Ends(g, o)
<1>1. n \in Nat /\ DOMAIN g.fields = 1..n /\ o \in Orders(g)
  BY KeysAreDistinct, KeysOfIsOrder
<1>2. bits \in Seq({0, 1}) /\ Len(bits) = E[n]
  BY <1>1, BitsAt
<1>3. Width(g.fields) = E[n]
  BY WidthOfFirst
<1>4. ASSUME NEW f \in 1..n, NEW b \in 1..g.fields[f].width
      PROVE  /\ FromRight(g.fields, f, b) \in 1..Len(bits)
             /\ bits[FromRight(g.fields, f, b)] = g.shots[s][g.fields[f].key][b]
  <2>1. o[f] = g.fields[f].key /\ WidthOf(g.fields, o[f]) = g.fields[f].width
    <3>1. o[f] = g.fields[f].key
      BY <1>1 DEF KeysOf
    <3>. QED
      BY <3>1, WidthOfKey
  <2>2. f - 1 \in 0..n /\ f \in 0..n
    BY <1>1
  <2>3. FromRight(g.fields, f, b) = E[f - 1] + b
    BY <2>2, WidthOfFirst DEF FromRight
  <2>4. bits[E[f - 1] + b] = g.shots[s][o[f]][b]
    <3>1. \A i \in 1..n : \A c \in 1..WidthOf(g.fields, o[i]) : bits[E[i - 1] + c] = g.shots[s][o[i]][c]
      BY <1>1, BitsAt
    <3>. QED
      BY <2>1, <3>1
  <2>5. E[f - 1] + b \in 1..E[n]
    <3>1. Runs(Widths(g, o), n, E)
      BY <1>1, EndsRun
    <3>2. \A i \in 1..n : Widths(g, o)[i] \in Nat
      BY <1>1, WidthsAre
    <3>3. E[f] <= E[n]
      <4>1. f \in 0..n /\ n \in f..n
        BY <1>1
      <4>. QED
        BY <1>1, <3>1, <3>2, <4>1, RunsGrow
    <3>4. E[f] = E[f - 1] + g.fields[f].width
      <4>1. Widths(g, o)[f] = g.fields[f].width
        BY <2>1 DEF Widths
      <4>. QED
        BY <3>1, <4>1 DEF Runs
    <3>5. E[f - 1] \in Nat /\ E[n] \in Nat /\ g.fields[f].width \in Nat
      <4>1. n \in 0..n
        BY <1>1
      <4>. QED
        BY <2>2, <3>1, <4>1, KeysAreDistinct DEF Runs
    <3>. HIDE DEF E
    <3>6. E[f - 1] + g.fields[f].width <= E[n]
      BY <3>3, <3>4
    <3>. QED
      BY <3>5, <3>6, Within
  <2>. QED
    BY <1>2, <2>1, <2>3, <2>4, <2>5, Zenon
<1>. HIDE DEF bits
<1>5. /\ Len(Reverse(bits)) = Len(bits)
      /\ \A x \in 1..Len(bits) : Reverse(bits)[Len(bits) + 1 - x] = bits[x]
  BY <1>2, ReverseAt
<1>6. Shows(Reverse(bits), g, s)
  <2>1. \A f \in 1..n : \A b \in 1..g.fields[f].width :
          Reverse(bits)[Len(Reverse(bits)) + 1 - FromRight(g.fields, f, b)]
            = g.shots[s][g.fields[f].key][b]
    BY <1>4, <1>5, Zenon
  <2>. QED
    BY <1>1, <1>2, <1>3, <1>5, <2>1, Zenon DEF Shows
<1>. QED
  BY <1>6 DEF bits

\* A string shows two shots only if they measured the same.
LEMMA ShowsOnce ==
  ASSUME NEW g, IsProgram(g), NEW s \in DOMAIN g.shots, NEW t \in DOMAIN g.shots, NEW u,
         Shows(u, g, s), Shows(u, g, t), NEW o \in Orders(g)
  PROVE  Bits(g, s, o) = Bits(g, t, o)
<1>. DEFINE n == Len(g.fields)
<1>1. n \in Nat /\ DOMAIN g.fields = 1..n /\ DOMAIN o = 1..n
  BY KeysAreDistinct, OrderFacts
<1>2. ASSUME NEW f \in 1..n
      PROVE  g.shots[s][g.fields[f].key] = g.shots[t][g.fields[f].key]
  <2>. DEFINE w == g.fields[f].width
              x == g.shots[s][g.fields[f].key]
              y == g.shots[t][g.fields[f].key]
  <2>1. x \in [1..w -> {0, 1}] /\ y \in [1..w -> {0, 1}]
    BY <1>1, Zenon DEF IsProgram
  <2>. DEFINE At(b) == u[Len(u) + 1 - FromRight(g.fields, f, b)]
  <2>2. \A b \in 1..w : At(b) = x[b] /\ At(b) = y[b]
    <3>1. \A b \in 1..w : At(b) = x[b]
      BY <1>1 DEF Shows
    <3>2. \A b \in 1..w : At(b) = y[b]
      BY <1>1 DEF Shows
    <3>. QED
      BY <3>1, <3>2
  <2>. HIDE DEF At, x, y, w
  <2>3. [b \in 1..w |-> x[b]] = [b \in 1..w |-> y[b]]
    BY <2>2, Zenon
  <2>4. x = [b \in 1..w |-> x[b]] /\ y = [b \in 1..w |-> y[b]]
    BY <2>1
  <2>5. x = y
    BY <2>3, <2>4, Zenon
  <2>. QED
    BY <2>5 DEF x, y
<1>3. ASSUME NEW i \in 1..n PROVE g.shots[s][o[i]] = g.shots[t][o[i]]
  <2>1. \A j \in 1..n : \E f \in 1..n : o[j] = g.fields[f].key
    BY OrderFacts
  <2>2. PICK f \in 1..n : o[i] = g.fields[f].key
    BY <2>1
  <2>. QED
    BY <1>2, <2>2
<1>4. [i \in 1..n |-> g.shots[s][o[i]]] = [i \in 1..n |-> g.shots[t][o[i]]]
  BY <1>3, Zenon
<1>. QED
  BY <1>1, <1>4 DEF Bits

-----------------------------------------------------------------------------
(* The histogram *)

LEMMA EntryOfOrder ==
  ASSUME NEW g, NEW o
  PROVE  /\ CountsEntry(g, o).keys = o
         /\ CountsEntry(g, o).counts = Histogram([s \in DOMAIN g.shots |-> Bits(g, s, o)])
BY DEF CountsEntry, Bits

LEMMA ToldIs ==
  ASSUME NEW g, NEW o
  PROVE  /\ g.known => Told(g, o) = [s \in DOMAIN g.shots |-> Reverse(Bits(g, s, o))]
         /\ ~g.known => Told(g, o) = [s \in DOMAIN g.shots |-> Bits(g, s, o)]
BY DEF Told, Bits

\* Normalizing the histogram of the server's strings is the histogram of the
\* normalized strings: no two outcomes become one.
LEMMA HistogramOfTold ==
  ASSUME NEW g, IsProgram(g), NEW o \in Orders(g)
  PROVE  NormalizedCounts(CountsEntry(g, o), g.fields)
           = Histogram([s \in DOMAIN g.shots |-> Reverse(Bits(g, s, KeysOf(g.fields)))])
<1>. DEFINE D == DOMAIN g.shots
            K == KeysOf(g.fields)
            raw == [s \in D |-> Bits(g, s, o)]
            told == [s \in D |-> Reverse(Bits(g, s, K))]
            N(x) == Normalized(x, g.fields, o)
            c == Histogram(raw)
<1>1. \A s \in D : N(raw[s]) = told[s]
  BY NormalizedBits
<1>2. \A s, t \in D : raw[s] = raw[t] <=> told[s] = told[t]
  <2>1. ASSUME NEW s \in D, NEW t \in D, raw[s] = raw[t] PROVE told[s] = told[t]
    <3>. HIDE DEF raw, told, N
    <3>. QED
      BY <1>1, <2>1
  <2>2. ASSUME NEW s \in D, NEW t \in D, told[s] = told[t] PROVE raw[s] = raw[t]
    <3>1. Shows(told[s], g, s) /\ Shows(told[t], g, t)
      BY ToldShows
    <3>2. Shows(told[s], g, s) /\ Shows(told[s], g, t)
      BY <2>2, <3>1
    <3>3. Bits(g, s, o) = Bits(g, t, o)
      BY <3>2, ShowsOnce
    <3>. QED
      BY <3>3
  <2>. QED
    BY <2>1, <2>2
<1>3. DOMAIN raw = D /\ DOMAIN told = D
  OBVIOUS
<1>4. NormalizedCounts(CountsEntry(g, o), g.fields)
        = [n \in {N(x) : x \in DOMAIN c} |-> c[CHOOSE x \in DOMAIN c : N(x) = n]]
  <2>1. CountsEntry(g, o).keys = o /\ CountsEntry(g, o).counts = c
    BY EntryOfOrder
  <2>. HIDE DEF c
  <2>. QED
    BY <2>1 DEF NormalizedCounts
<1>. HIDE DEF raw, told, N, D
<1>5. DOMAIN c = {raw[s] : s \in D}
  BY <1>3 DEF Histogram, Range
<1>6. {N(x) : x \in DOMAIN c} = {told[s] : s \in D}
  <2>. HIDE DEF c
  <2>. QED
    BY <1>1, <1>5
<1>7. ASSUME NEW n \in {told[s] : s \in D}
      PROVE  c[CHOOSE x \in DOMAIN c : N(x) = n] = Cardinality({s \in D : told[s] = n})
  <2>. DEFINE y == CHOOSE x \in DOMAIN c : N(x) = n
  <2>1. \E x \in DOMAIN c : N(x) = n
    <3>. HIDE DEF c
    <3>. QED
      BY <1>1, <1>5, <1>7
  <2>2. y \in DOMAIN c /\ N(y) = n
    <3>. HIDE DEF c
    <3>. QED
      BY <2>1
  <2>. HIDE DEF y
  <2>3. PICK t \in D : y = raw[t]
    <3>. HIDE DEF c
    <3>. QED
      BY <1>5, <2>2
  <2>4. told[t] = n
    BY <1>1, <2>2, <2>3
  <2>5. c[y] = Cardinality({s \in D : raw[s] = y})
    <3>1. y \in Range(raw)
      BY <1>3, <2>3 DEF Range
    <3>. QED
      BY <1>3, <3>1 DEF Histogram
  <2>6. {s \in D : raw[s] = y} = {s \in D : told[s] = n}
    BY <1>2, <2>3, <2>4
  <2>. QED
    BY <2>5, <2>6 DEF y
<1>8. Histogram(told) = [n \in {told[s] : s \in D} |-> Cardinality({s \in D : told[s] = n})]
  BY <1>3 DEF Histogram, Range
<1>. HIDE DEF c
<1>9. [n \in {told[s] : s \in D} |-> c[CHOOSE x \in DOMAIN c : N(x) = n]]
        = [n \in {told[s] : s \in D} |-> Cardinality({s \in D : told[s] = n})]
  BY <1>7, Zenon
<1>10. NormalizedCounts(CountsEntry(g, o), g.fields) = Histogram(told)
  BY <1>4, <1>6, <1>8, <1>9, Zenon
<1>. QED
  BY <1>10 DEF told, D

-----------------------------------------------------------------------------
(* A string is as wide as its program, whatever the order of its keys *)

Cells(g, k) == {k} \X (1..WidthOf(g.fields, k))
CellsOf(g, o, i) == UNION {Cells(g, o[x]) : x \in 1..i}

LEMMA CellsOfKey ==
  ASSUME NEW g, IsProgram(g), NEW o \in Orders(g), NEW i \in 1..Len(g.fields)
  PROVE  /\ IsFiniteSet(Cells(g, o[i]))
         /\ Cardinality(Cells(g, o[i])) = WidthOf(g.fields, o[i])
<1>. DEFINE w == WidthOf(g.fields, o[i])
<1>1. w \in Nat \ {0}
  BY WidthsAre
<1>2. IsFiniteSet(1..w) /\ Cardinality(1..w) = w
  BY <1>1, FS_Interval
<1>3. IsFiniteSet({o[i]}) /\ Cardinality({o[i]}) = 1
  BY FS_Singleton
<1>. HIDE DEF w
<1>4. IsFiniteSet({o[i]} \X (1..w)) /\ Cardinality({o[i]} \X (1..w)) = 1 * w
  <2>. DEFINE A == {o[i]}
              B == 1..w
  <2>. HIDE DEF A, B
  <2>1. IsFiniteSet(A) /\ Cardinality(A) = 1 /\ IsFiniteSet(B) /\ Cardinality(B) = w
    BY <1>2, <1>3 DEF A, B
  <2>2. IsFiniteSet(A \X B) /\ Cardinality(A \X B) = Cardinality(A) * Cardinality(B)
    BY <2>1, FS_Product, Zenon
  <2>. QED
    BY <2>1, <2>2, Zenon DEF A, B
<1>. QED
  BY <1>1, <1>4 DEF Cells, w

LEMMA CellsCounted ==
  ASSUME NEW g, IsProgram(g), NEW o \in Orders(g), NEW i \in 0..Len(g.fields)
  PROVE  IsFiniteSet(CellsOf(g, o, i)) /\ Cardinality(CellsOf(g, o, i)) = Ends(g, o)[i]
<1>. DEFINE n == Len(g.fields)
            C(k) == CellsOf(g, o, k)
            Wrong == {k \in 0..n : ~(IsFiniteSet(C(k)) /\ Cardinality(C(k)) = Ends(g, o)[k])}
<1>1. n \in Nat /\ Runs(Widths(g, o), n, Ends(g, o))
  BY KeysAreDistinct, EndsRun
<1>2. SUFFICES ASSUME Wrong # {} PROVE FALSE
  OBVIOUS
<1>3. PICK k \in Wrong : \A m \in Wrong : k <= m
  <2>. HIDE DEF Wrong
  <2>1. Wrong \subseteq Nat
    BY DEF Wrong
  <2>. QED
    BY <1>2, <2>1, LeastNatural, Zenon
<1>4. k # 0
  <2>1. C(0) = {}
    BY DEF CellsOf
  <2>2. Ends(g, o)[0] = 0
    BY <1>1 DEF Runs
  <2>. HIDE DEF C
  <2>3. IsFiniteSet(C(0)) /\ Cardinality(C(0)) = Ends(g, o)[0]
    BY <2>1, <2>2, FS_EmptySet
  <2>. QED
    BY <1>3, <2>3
<1>5. k \in 1..n /\ k - 1 \in 0..n /\ k - 1 \notin Wrong
  BY <1>1, <1>3, <1>4
<1>6. IsFiniteSet(C(k - 1)) /\ Cardinality(C(k - 1)) = Ends(g, o)[k - 1]
  BY <1>5
<1>7. C(k) = C(k - 1) \cup Cells(g, o[k])
  <2>1. 1..k = (1..(k - 1)) \cup {k}
    BY <1>5
  <2>. QED
    BY <2>1 DEF CellsOf
<1>8. C(k - 1) \cap Cells(g, o[k]) = {}
  <2>1. \A a, b \in 1..n : o[a] = o[b] => a = b
    BY OrderFacts
  <2>2. \A x \in 1..(k - 1) : x \in 1..n /\ x # k
    BY <1>5
  <2>3. \A x \in 1..(k - 1) : o[x] # o[k]
    BY <1>5, <2>1, <2>2
  <2>4. \A x \in 1..(k - 1) : Cells(g, o[x]) \cap Cells(g, o[k]) = {}
    BY <2>3 DEF Cells
  <2>. QED
    BY <2>4 DEF CellsOf
<1>. HIDE DEF C
<1>9. IsFiniteSet(Cells(g, o[k])) /\ Cardinality(Cells(g, o[k])) = WidthOf(g.fields, o[k])
  BY <1>5, CellsOfKey
<1>10. /\ IsFiniteSet(C(k))
       /\ Cardinality(C(k)) = Cardinality(C(k - 1)) + Cardinality(Cells(g, o[k])) - Cardinality({})
  <2>. DEFINE A == C(k - 1)
              B == Cells(g, o[k])
  <2>1. IsFiniteSet(A) /\ IsFiniteSet(B) /\ A \cap B = {} /\ C(k) = A \cup B
    BY <1>6, <1>7, <1>8, <1>9
  <2>. HIDE DEF A, B
  <2>2. /\ IsFiniteSet(A \cup B)
        /\ Cardinality(A \cup B) = Cardinality(A) + Cardinality(B) - Cardinality(A \cap B)
    BY <2>1, FS_Union
  <2>3. IsFiniteSet(C(k)) /\ Cardinality(C(k)) = Cardinality(A) + Cardinality(B) - Cardinality({})
    BY <2>1, <2>2
  <2>. QED
    BY <2>3 DEF A, B
<1>11. Ends(g, o)[k] = Ends(g, o)[k - 1] + WidthOf(g.fields, o[k])
  <2>1. Widths(g, o)[k] = WidthOf(g.fields, o[k])
    BY <1>5, WidthsAre
  <2>. QED
    BY <1>1, <1>5, <2>1 DEF Runs
<1>12. Ends(g, o)[k - 1] \in Nat /\ WidthOf(g.fields, o[k]) \in Nat
  <2>1. WidthOf(g.fields, o[k]) \in Nat \ {0}
    BY <1>5, WidthsAre
  <2>. QED
    BY <1>1, <1>5, <2>1 DEF Runs
<1>13. Cardinality(C(k)) = Ends(g, o)[k]
  <2>1. Cardinality({}) = 0
    BY FS_EmptySet
  <2>. QED
    BY <1>6, <1>9, <1>10, <1>11, <1>12, <2>1
<1>. QED
  BY <1>3, <1>10, <1>13

LEMMA LengthInAnyOrder ==
  ASSUME NEW g, IsProgram(g), NEW o \in Orders(g)
  PROVE  Ends(g, o)[Len(g.fields)] = Width(g.fields) /\ Width(g.fields) \in Nat
<1>. DEFINE n == Len(g.fields)
            K == KeysOf(g.fields)
<1>1. n \in Nat /\ n \in 0..n /\ K \in Orders(g) /\ DOMAIN o = 1..n /\ DOMAIN K = 1..n
  BY KeysAreDistinct, KeysOfIsOrder, OrderFacts
<1>2. Range(o) = Range(K)
  BY OrderFacts
<1>3. /\ CellsOf(g, o, n) = UNION {Cells(g, k) : k \in Range(o)}
      /\ CellsOf(g, K, n) = UNION {Cells(g, k) : k \in Range(K)}
  <2>. HIDE DEF K
  <2>. QED
    BY <1>1 DEF CellsOf, Range
<1>4. CellsOf(g, o, n) = CellsOf(g, K, n)
  BY <1>2, <1>3
<1>5. Ends(g, o)[n] = Ends(g, K)[n]
  BY <1>1, <1>4, CellsCounted
<1>6. Ends(g, K)[n] \in Nat
  BY <1>1, EndsRun DEF Runs
<1>. QED
  BY <1>5, <1>6, WidthOfFirst

-----------------------------------------------------------------------------
(* No damaged entry is taken for an answer *)

LEMMA BitsAreWide ==
  ASSUME NEW g, IsProgram(g), NEW o \in Orders(g), NEW s \in DOMAIN g.shots
  PROVE  /\ Bits(g, s, o) \in Seq({0, 1}) /\ Len(Bits(g, s, o)) = Width(g.fields)
         /\ o # <<>> => Width(g.fields) \in Nat \ {0}
<1>. DEFINE n == Len(g.fields)
            E == Ends(g, o)
<1>1. Bits(g, s, o) \in Seq({0, 1}) /\ Len(Bits(g, s, o)) = Width(g.fields)
  BY BitsAt, LengthInAnyOrder
<1>2. ASSUME o # <<>> PROVE Width(g.fields) \in Nat \ {0}
  <2>1. n \in Nat /\ o \in [1..n -> STRING]
    BY KeysAreDistinct, OrderFacts
  <2>2. n # 0
    BY <1>2, <2>1
  <2>3. 1 \in 1..n /\ 1 \in 0..n /\ n \in 1..n /\ n \in 0..n /\ 1 - 1 = 0
    BY <2>1, <2>2
  <2>4. Runs(Widths(g, o), n, E)
    BY EndsRun
  <2>5. Widths(g, o)[1] \in Nat \ {0} /\ \A i \in 1..n : Widths(g, o)[i] \in Nat
    BY <2>3, WidthsAre
  <2>6. E[1] <= E[n]
    BY <2>1, <2>3, <2>4, <2>5, RunsGrow
  <2>7. E[1] = E[1 - 1] + Widths(g, o)[1] /\ E[0] = 0 /\ E[n] \in Nat
    BY <2>3, <2>4 DEF Runs
  <2>8. E[n] = Width(g.fields)
    BY LengthInAnyOrder
  <2>. HIDE DEF E
  <2>. QED
    BY <2>3, <2>5, <2>6, <2>7, <2>8
<1>. QED
  BY <1>1, <1>2

LEMMA OutcomesOfOrder ==
  ASSUME NEW g, NEW o
  PROVE  LET c == CountsEntry(g, o).counts
         IN  /\ DOMAIN c = {Bits(g, s, o) : s \in DOMAIN g.shots}
             /\ c = [x \in DOMAIN c |-> c[x]]
<1>. DEFINE raw == [s \in DOMAIN g.shots |-> Bits(g, s, o)]
<1>1. CountsEntry(g, o).counts = Histogram(raw)
  BY EntryOfOrder
<1>2. Range(raw) = {Bits(g, s, o) : s \in DOMAIN g.shots}
  BY DEF Range
<1>. HIDE DEF raw
<1>3. DOMAIN Histogram(raw) = Range(raw)
  BY DEF Histogram
<1>4. Histogram(raw) = [x \in DOMAIN Histogram(raw) |-> Histogram(raw)[x]]
  BY DEF Histogram
<1>. QED
  BY <1>1, <1>2, <1>3, <1>4, Zenon

LEMMA DamagedCountsRefused ==
  ASSUME NEW g, IsProgram(g), NEW o \in Orders(g),
         NEW d \in DamagedCounts(CountsEntry(g, o)), d # CountsEntry(g, o)
  PROVE  ~EntryFits(d, g.fields)
<1>. DEFINE n == Len(g.fields)
            K == KeysOf(g.fields)
            c == CountsEntry(g, o).counts
            e == [keys |-> o, counts |-> c]
            Shorter == {Tail(x) : x \in DOMAIN c}
            Marked == {<<2>> \o Tail(x) : x \in DOMAIN c}
<1>1. CountsEntry(g, o) = e
  BY DEF CountsEntry
<1>2. /\ n \in Nat /\ o \in [1..n -> STRING] /\ Range(o) = Range(K) /\ Len(o) = n
      /\ \A i, j \in 1..n : o[i] = o[j] => i = j
  <2>1. n \in Nat /\ o \in [1..n -> STRING] /\ Range(o) = Range(K)
    BY KeysAreDistinct, OrderFacts
  <2>2. \A i, j \in 1..n : o[i] = o[j] => i = j
    BY OrderFacts
  <2>. QED
    BY <2>1, <2>2
<1>3. \A x \in DOMAIN c : /\ x \in Seq({0, 1}) /\ Len(x) = Width(g.fields)
                          /\ o # <<>> => Width(g.fields) \in Nat \ {0}
  <2>1. DOMAIN c = {Bits(g, s, o) : s \in DOMAIN g.shots}
    BY OutcomesOfOrder
  <2>. HIDE DEF c
  <2>. QED
    BY <2>1, BitsAreWide
<1>4. \/ d = [e EXCEPT !.keys = Append(@, "unknown")]
      \/ o # <<>> /\ \/ d = [e EXCEPT !.keys = Front(@)]
                     \/ d = [e EXCEPT !.keys = Append(@, Head(@))]
                     \/ d = [e EXCEPT !.keys[1] = "unknown"]
                     \/ d = [e EXCEPT !.counts = [x \in Shorter |-> 1]]
                     \/ d = [e EXCEPT !.counts = [x \in Marked |-> 1]]
  <2>. HIDE DEF c
  <2>. QED
    BY <1>1 DEF DamagedCounts
<1>5. DOMAIN c = {} => c = [x \in {} |-> 1]
  <2>1. c = [x \in DOMAIN c |-> c[x]]
    BY OutcomesOfOrder
  <2>. HIDE DEF c
  <2>. QED
    BY <2>1
<1>. HIDE DEF c, K
<1>6. CASE d = [e EXCEPT !.keys = Append(@, "unknown")] \/ d = [e EXCEPT !.keys = Append(@, Head(@))]
  <2>1. PICK k : d.keys = Append(o, k)
    BY <1>6
  <2>2. Len(Append(o, k)) = n + 1
    BY <1>2
  <2>. QED
    BY <1>2, <2>1, <2>2 DEF EntryFits
<1>7. CASE o # <<>> /\ d = [e EXCEPT !.keys = Front(@)]
  <2>1. d.keys = SubSeq(o, 1, n - 1)
    BY <1>2, <1>7 DEF Front
  <2>2. n # 0
    BY <1>2, <1>7
  <2>3. Len(SubSeq(o, 1, n - 1)) = n - 1
    BY <1>2, <2>2
  <2>. QED
    BY <1>2, <2>1, <2>3 DEF EntryFits
<1>8. CASE o # <<>> /\ d = [e EXCEPT !.keys[1] = "unknown"]
  <2>. DEFINE q == [o EXCEPT ![1] = "unknown"]
  <2>1. d = [keys |-> q, counts |-> c]
    BY <1>8
  <2>2. 1 \in 1..n
    BY <1>2, <1>8
  <2>3. o[1] # "unknown"
    <3>1. o[1] = "unknown" => q = o
      BY <1>2
    <3>. QED
      BY <1>1, <2>1, <3>1
  <2>4. o[1] \in Range(K)
    BY <1>2, <2>2 DEF Range
  <2>5. \A i \in 1..n : q[i] # o[1]
    BY <1>2, <2>2, <2>3
  <2>6. o[1] \notin Range(q)
    <3>1. DOMAIN q = 1..n
      BY <1>2
    <3>. QED
      BY <2>5, <3>1 DEF Range
  <2>. HIDE DEF q
  <2>. QED
    BY <2>1, <2>4, <2>6 DEF EntryFits, K
<1>9. CASE o # <<>> /\ d = [e EXCEPT !.counts = [x \in Shorter |-> 1]]
  <2>1. d = [keys |-> o, counts |-> [x \in Shorter |-> 1]]
    BY <1>9
  <2>2. DOMAIN c # {}
    <3>1. DOMAIN c = {} => Shorter = {}
      OBVIOUS
    <3>. QED
      BY <1>1, <1>5, <2>1, <3>1
  <2>3. PICK x : x \in DOMAIN c
    BY <2>2
  <2>4. Tail(x) \in Shorter /\ Len(Tail(x)) # Width(g.fields)
    BY <1>3, <1>9, <2>3
  <2>. QED
    BY <2>1, <2>4 DEF EntryFits
<1>10. CASE o # <<>> /\ d = [e EXCEPT !.counts = [x \in Marked |-> 1]]
  <2>1. d = [keys |-> o, counts |-> [x \in Marked |-> 1]]
    BY <1>10
  <2>2. DOMAIN c # {}
    <3>1. DOMAIN c = {} => Marked = {}
      OBVIOUS
    <3>. QED
      BY <1>1, <1>5, <2>1, <3>1
  <2>3. PICK x : x \in DOMAIN c
    BY <2>2
  <2>. DEFINE y == <<2>> \o Tail(x)
  <2>4. y \in Marked
    BY <2>3
  <2>5. 2 \in Range(y)
    <3>1. Tail(x) \in Seq({0, 1})
      BY <1>3, <1>10, <2>3
    <3>2. 1 \in DOMAIN y /\ y[1] = 2
      BY <3>1
    <3>. QED
      BY <3>2 DEF Range
  <2>. HIDE DEF y
  <2>6. y \in DOMAIN d.counts /\ ~(Range(y) \subseteq {0, 1})
    <3>. HIDE DEF Marked
    <3>1. DOMAIN d.counts = Marked
      BY <2>1
    <3>. QED
      BY <2>4, <2>5, <3>1
  <2>. QED
    BY <2>6 DEF EntryFits
<1>. QED
  BY <1>4, <1>6, <1>7, <1>8, <1>9, <1>10

LEMMA ShotsOfKey ==
  ASSUME NEW g, IsProgram(g), NEW k \in Range(KeysOf(g.fields))
  PROVE  /\ ShotsEntry(g)[k] = [s \in DOMAIN g.shots |-> g.shots[s][k]]
         /\ Len(ShotsEntry(g)[k]) = Len(g.shots) /\ Len(g.shots) \in Nat
         /\ \E i \in 1..Len(g.fields) :
              /\ k = KeysOf(g.fields)[i]
              /\ g.fields[i].width \in Nat \ {0}
              /\ \A s \in 1..Len(g.shots) :
                   ShotsEntry(g)[k][s] \in [1..g.fields[i].width -> {0, 1}]
<1>1. DOMAIN g.fields = 1..Len(g.fields)
  BY KeysAreDistinct
<1>2. ShotsEntry(g)[k] = [s \in DOMAIN g.shots |-> g.shots[s][k]]
  BY DEF ShotsEntry
<1>3. Len(g.shots) \in Nat /\ DOMAIN g.shots = 1..Len(g.shots)
  <2>1. g.shots \in Seq(Range(g.shots))
    BY DEF IsProgram
  <2>. QED
    BY <2>1, SeqParts
<1>4. Len(ShotsEntry(g)[k]) = Len(g.shots)
  BY <1>2, <1>3
<1>5. PICK i \in 1..Len(g.fields) : k = KeysOf(g.fields)[i] /\ k = g.fields[i].key
  BY <1>1 DEF Range, KeysOf
<1>6. g.fields[i].width \in Nat \ {0}
  BY KeysAreDistinct
<1>7. \A s \in DOMAIN g.shots : g.shots[s][g.fields[i].key] \in [1..g.fields[i].width -> {0, 1}]
  BY <1>1, Zenon DEF IsProgram
<1>8. ASSUME NEW s \in 1..Len(g.shots)
      PROVE  ShotsEntry(g)[k][s] \in [1..g.fields[i].width -> {0, 1}]
  <2>1. g.shots[s][g.fields[i].key] \in [1..g.fields[i].width -> {0, 1}]
    BY <1>3, <1>7
  <2>2. ShotsEntry(g)[k][s] = g.shots[s][k]
    BY <1>2, <1>3
  <2>3. g.shots[s][k] = g.shots[s][g.fields[i].key]
    BY <1>5
  <2>. QED
    BY <2>1, <2>2, <2>3, Zenon
<1>. QED
  BY <1>2, <1>3, <1>4, <1>5, <1>6, <1>8, Zenon

\* What an entry that fits says about one of its keys.
LEMMA FittingShots ==
  ASSUME NEW g, IsProgram(g), NEW d, NEW i \in 1..Len(g.fields),
         ShotsEntryFits(d, KeysOf(g.fields), g.fields)
  PROVE  LET v == d[KeysOf(g.fields)[i]]
         IN  /\ Len(v) = ExpectedShots(d, KeysOf(g.fields))
             /\ \A s \in DOMAIN v : /\ v[s] # <<>> /\ Range(v[s]) \subseteq {0, 1}
                                    /\ Len(v[s]) = g.fields[i].width
<1>1. i \in DOMAIN KeysOf(g.fields)
  BY KeysAreDistinct
<1>2. g.fields # NoValue
  BY DEF IsProgram
<1>. QED
  BY <1>1, <1>2, Zenon DEF ShotsEntryFits

LEMMA DamagedShotsRefused ==
  ASSUME NEW g, IsProgram(g), NumShots \in Nat,
         ~job.retrieved => Len(g.shots) <= NumShots,
         NEW d \in DamagedShots(ShotsEntry(g)), d # ShotsEntry(g),
         ShotsEntryFits(d, KeysOf(g.fields), g.fields)
  PROVE  FALSE
<1>. DEFINE n == Len(g.fields)
            o == KeysOf(g.fields)
            K == Range(o)
            e == ShotsEntry(g)
            S(k) == {g.shots[s][k] : s \in DOMAIN g.shots}
            Accepts(k, x) ==
              \E i \in 1..n : /\ k = o[i] /\ g.fields[i].width \in Nat \ {0}
                            /\ e[k][1] \in [1..g.fields[i].width -> {0, 1}]
                            /\ x # <<>> /\ Range(x) \subseteq {0, 1}
                            /\ Len(x) = g.fields[i].width
<1>1. /\ n \in Nat /\ DOMAIN o = 1..n /\ Len(o) = n
      /\ IsFiniteSet(K) /\ Cardinality(K) = n
  BY KeysAreDistinct
<1>2. DOMAIN e = K /\ e = [k \in K |-> e[k]]
  BY DEF ShotsEntry
<1>3. Cardinality(DOMAIN d) = n /\ K \subseteq DOMAIN d
  BY <1>1 DEF ShotsEntryFits
<1>4. \/ d = [k \in K \cup {"unknown"} |-> IF k \in K THEN e[k] ELSE <<>>]
      \/ \E k \in K :
           \/ d = [j \in K \ {k} |-> e[j]]
           \/ e[k] # <<>> /\ \/ LossShows(e, k) /\ d = [e EXCEPT ![k] = Tail(@)]
                             \/ d = [e EXCEPT ![k][1] = Append(@, 0)]
                             \/ d = [e EXCEPT ![k][1] = [@ EXCEPT ![1] = 2]]
                             \/ d = [e EXCEPT ![k][1] = <<>>]
  <2>. HIDE DEF e
  <2>. DEFINE Damaged(k) == {[e EXCEPT ![k][1] = Append(@, 0)],
                             [e EXCEPT ![k][1] = [@ EXCEPT ![1] = 2]],
                             [e EXCEPT ![k][1] = <<>>]}
              Cut(k) == [e EXCEPT ![k] = Tail(@)]
  <2>1. d \in DamagedShots(e)
    BY DEF e
  <2>2. \/ d = [k \in DOMAIN e \cup {"unknown"} |-> IF k \in DOMAIN e THEN e[k] ELSE <<>>]
        \/ d \in {[j \in DOMAIN e \ {k} |-> e[j]] : k \in DOMAIN e}
        \/ d \in {Cut(k) : k \in {x \in DOMAIN e : e[x] # <<>> /\ LossShows(e, x)}}
        \/ d \in UNION {Damaged(k) : k \in {x \in DOMAIN e : e[x] # <<>>}}
    BY <2>1, Zenon DEF DamagedShots
  <2>. HIDE DEF Damaged, Cut
  <2>3. \/ d = [k \in K \cup {"unknown"} |-> IF k \in K THEN e[k] ELSE <<>>]
        \/ \E k \in K : d = [j \in K \ {k} |-> e[j]]
        \/ \E k \in K : e[k] # <<>> /\ LossShows(e, k) /\ d = Cut(k)
        \/ \E k \in K : e[k] # <<>> /\ d \in Damaged(k)
    <3>1. DOMAIN e = K
      BY <1>2
    <3>. HIDE DEF K
    <3>2. ASSUME d = [k \in DOMAIN e \cup {"unknown"} |-> IF k \in DOMAIN e THEN e[k] ELSE <<>>]
          PROVE  d = [k \in K \cup {"unknown"} |-> IF k \in K THEN e[k] ELSE <<>>]
      BY <3>1, <3>2
    <3>3. ASSUME d \in {[j \in DOMAIN e \ {k} |-> e[j]] : k \in DOMAIN e}
          PROVE  \E k \in K : d = [j \in K \ {k} |-> e[j]]
      <4>1. PICK k \in DOMAIN e : d = [j \in DOMAIN e \ {k} |-> e[j]]
        BY <3>3
      <4>2. k \in K /\ d = [j \in K \ {k} |-> e[j]]
        BY <3>1, <4>1
      <4>. QED
        BY <4>2, Zenon
    <3>4. ASSUME d \in {Cut(k) : k \in {x \in DOMAIN e : e[x] # <<>> /\ LossShows(e, x)}}
          PROVE  \E k \in K : e[k] # <<>> /\ LossShows(e, k) /\ d = Cut(k)
      <4>1. PICK k \in {x \in DOMAIN e : e[x] # <<>> /\ LossShows(e, x)} : d = Cut(k)
        BY <3>4
      <4>2. k \in K /\ e[k] # <<>> /\ LossShows(e, k)
        BY <3>1, <4>1
      <4>. QED
        BY <4>1, <4>2, Zenon
    <3>5. ASSUME d \in UNION {Damaged(k) : k \in {x \in DOMAIN e : e[x] # <<>>}}
          PROVE  \E k \in K : e[k] # <<>> /\ d \in Damaged(k)
      BY <3>1, <3>5, Zenon
    <3>. QED
      BY <2>2, <3>2, <3>3, <3>4, <3>5, Zenon
  <2>4. \A k : d \in Damaged(k) => \/ d = [e EXCEPT ![k][1] = Append(@, 0)]
                                  \/ d = [e EXCEPT ![k][1] = [@ EXCEPT ![1] = 2]]
                                  \/ d = [e EXCEPT ![k][1] = <<>>]
    BY Zenon DEF Damaged
  <2>5. \A k : Cut(k) = [e EXCEPT ![k] = Tail(@)]
    BY Zenon DEF Cut
  <2>. QED
    BY <2>3, <2>4, <2>5, Zenon
<1>. HIDE DEF e, K, o, S
<1>5. CASE d = [k \in K \cup {"unknown"} |-> IF k \in K THEN e[k] ELSE <<>>]
  <2>1. CASE "unknown" \in K
    <3>1. K \cup {"unknown"} = K
      BY <2>1
    <3>2. d = [k \in K |-> e[k]]
      BY <1>5, <3>1
    <3>. QED
      BY <1>2, <3>2 DEF e
  <2>2. CASE "unknown" \notin K
    <3>1. Cardinality(K \cup {"unknown"}) = n + 1
      BY <1>1, <2>2, FS_AddElement
    <3>2. DOMAIN d = K \cup {"unknown"}
      BY <1>5
    <3>. QED
      BY <1>1, <1>3, <3>1, <3>2
  <2>. QED
    BY <2>1, <2>2
<1>6. ASSUME NEW k \in K, d = [j \in K \ {k} |-> e[j]] PROVE FALSE
  BY <1>3, <1>6
<1>7. ASSUME NEW k \in K, e[k] # <<>>
      PROVE  /\ e[k] \in Seq(S(k)) /\ Len(e[k]) = Len(g.shots) /\ Len(g.shots) \in Nat \ {0}
             /\ \E i \in 1..n : /\ k = o[i] /\ g.fields[i].width \in Nat \ {0}
                               /\ e[k][1] \in [1..g.fields[i].width -> {0, 1}]
  <2>1. /\ e[k] = [s \in DOMAIN g.shots |-> g.shots[s][k]]
        /\ Len(e[k]) = Len(g.shots) /\ Len(g.shots) \in Nat
    BY ShotsOfKey DEF e, K, o
  <2>2. DOMAIN g.shots = 1..Len(g.shots)
    <3>1. g.shots \in Seq(Range(g.shots))
      BY DEF IsProgram
    <3>. QED
      BY <3>1, SeqParts
  <2>3. e[k] \in Seq(S(k))
    BY <2>1, <2>2 DEF S
  <2>4. Len(g.shots) # 0
    BY <1>7, <2>1, <2>3
  <2>5. PICK i \in 1..n : /\ k = o[i] /\ g.fields[i].width \in Nat \ {0}
                          /\ \A s \in 1..Len(g.shots) :
                               e[k][s] \in [1..g.fields[i].width -> {0, 1}]
    BY ShotsOfKey DEF e, K, o
  <2>6. 1 \in 1..Len(g.shots) /\ Len(g.shots) \in Nat \ {0}
    BY <2>1, <2>4
  <2>. QED
    BY <2>1, <2>3, <2>5, <2>6, Zenon
<1>8. ASSUME NEW k \in K, e[k] # <<>>, LossShows(e, k), d = [e EXCEPT ![k] = Tail(@)]
      PROVE  FALSE
  <2>1. Len(e[k]) = Len(g.shots) /\ Len(g.shots) \in Nat \ {0} /\ e[k] \in Seq(S(k))
    BY <1>7, <1>8
  <2>2. PICK i \in 1..n : k = o[i]
    BY <1>7, <1>8
  <2>3. d[k] = Tail(e[k]) /\ \A j \in K \ {k} : d[j] = e[j]
    BY <1>2, <1>8
  <2>4. Len(d[k]) = Len(g.shots) - 1
    BY <2>1, <2>3
  <2>5. Len(d[k]) = ExpectedShots(d, o)
    BY <2>2, FittingShots DEF o
  <2>6. CASE ~job.retrieved
    <3>1. ExpectedShots(d, o) = NumShots
      BY <2>6 DEF ExpectedShots
    <3>. QED
      BY <2>1, <2>4, <2>5, <2>6, <3>1
  <2>7. CASE job.retrieved
    <3>1. K # {k}
      BY <1>2, <1>8, <2>7 DEF LossShows
    <3>2. PICK j \in K : j # k
      BY <3>1
    <3>3. PICK h \in 1..n : j = o[h]
      BY <1>1 DEF K, Range
    <3>4. Len(d[j]) = ExpectedShots(d, o)
      BY <3>3, FittingShots DEF o
    <3>5. Len(e[j]) = Len(g.shots)
      BY ShotsOfKey DEF e, K, o
    <3>. QED
      BY <2>1, <2>3, <2>4, <2>5, <3>2, <3>4, <3>5
  <2>. QED
    BY <2>6, <2>7
<1>9. ASSUME NEW k \in K, e[k] # <<>>, NEW x, d = [e EXCEPT ![k][1] = x]
      PROVE  Accepts(k, x)
  <2>1. Len(g.shots) \in Nat \ {0} /\ e[k] \in Seq(S(k)) /\ Len(e[k]) = Len(g.shots)
    BY <1>7, <1>9
  <2>2. PICK i \in 1..n : /\ k = o[i] /\ g.fields[i].width \in Nat \ {0}
                          /\ e[k][1] \in [1..g.fields[i].width -> {0, 1}]
    BY <1>7, <1>9
  <2>3. d[k] = [e[k] EXCEPT ![1] = x]
    BY <1>2, <1>9
  <2>4. 1 \in DOMAIN d[k] /\ d[k][1] = x
    BY <2>1, <2>3
  <2>5. \A s \in DOMAIN d[o[i]] : /\ d[o[i]][s] # <<>> /\ Range(d[o[i]][s]) \subseteq {0, 1}
                                  /\ Len(d[o[i]][s]) = g.fields[i].width
    BY FittingShots DEF o
  <2>. QED
    BY <2>2, <2>4, <2>5
<1>. HIDE DEF Accepts
<1>10. ASSUME NEW k \in K, e[k] # <<>>, d = [e EXCEPT ![k][1] = Append(@, 0)] PROVE FALSE
  <2>. DEFINE x == Append(e[k][1], 0)
  <2>1. d = [e EXCEPT ![k][1] = x]
    BY <1>2, <1>10
  <2>2. Accepts(k, x)
    <3>. HIDE DEF x
    <3>. QED
      BY <1>9, <1>10, <2>1
  <2>3. PICK i \in 1..n : /\ g.fields[i].width \in Nat \ {0}
                          /\ e[k][1] \in [1..g.fields[i].width -> {0, 1}]
                          /\ Len(x) = g.fields[i].width
    <3>. HIDE DEF x
    <3>. QED
      BY <2>2, Zenon DEF Accepts
  <2>4. e[k][1] \in Seq({0, 1}) /\ Len(e[k][1]) = g.fields[i].width
    BY <2>3
  <2>5. Len(x) = Len(e[k][1]) + 1
    BY <2>4
  <2>. HIDE DEF x
  <2>. QED
    BY <2>3, <2>4, <2>5
<1>11. ASSUME NEW k \in K, e[k] # <<>>, d = [e EXCEPT ![k][1] = [@ EXCEPT ![1] = 2]]
       PROVE  FALSE
  <2>. DEFINE x == [e[k][1] EXCEPT ![1] = 2]
  <2>1. d = [e EXCEPT ![k][1] = x]
    BY <1>2, <1>11
  <2>2. Accepts(k, x)
    <3>. HIDE DEF x
    <3>. QED
      BY <1>9, <1>11, <2>1
  <2>3. PICK i \in 1..n : /\ g.fields[i].width \in Nat \ {0}
                          /\ e[k][1] \in [1..g.fields[i].width -> {0, 1}]
                          /\ Range(x) \subseteq {0, 1}
    <3>. HIDE DEF x
    <3>. QED
      BY <2>2, Zenon DEF Accepts
  <2>4. 1 \in DOMAIN x /\ x[1] = 2
    BY <2>3
  <2>. HIDE DEF x
  <2>5. 2 \in Range(x)
    BY <2>4 DEF Range
  <2>. QED
    BY <2>3, <2>5
<1>12. ASSUME NEW k \in K, e[k] # <<>>, d = [e EXCEPT ![k][1] = <<>>] PROVE FALSE
  <2>1. Accepts(k, <<>>)
    BY <1>9, <1>12
  <2>. QED
    BY <2>1, Zenon DEF Accepts
<1>. QED
  BY <1>4, <1>5, <1>6, <1>8, <1>10, <1>11, <1>12

-----------------------------------------------------------------------------
(* What is committed *)

LEMMA JobParts ==
  ASSUME job \in Jobs
  PROVE  /\ Len(job.programs) \in Nat /\ Programs = 1..Len(job.programs)
         /\ NumShots \in Nat
         /\ \A p \in Programs :
              /\ IsProgram(job.programs[p])
              /\ ~job.retrieved => Len(job.programs[p].shots) <= NumShots
              /\ job.programs[p].known => Layout(p) = job.programs[p].fields
              /\ (Layout(p) # NoValue) = job.programs[p].known
<1>1. job.programs \in Seq(Range(job.programs)) /\ NumShots \in Nat
  BY JobsAssumption
<1>2. Len(job.programs) \in Nat /\ Programs = 1..Len(job.programs)
  BY <1>1, SeqParts DEF Programs
<1>3. ASSUME NEW p \in Programs
      PROVE  /\ IsProgram(job.programs[p])
             /\ ~job.retrieved => Len(job.programs[p].shots) <= NumShots
  BY <1>3, JobsAssumption, Zenon DEF Programs
<1>4. ASSUME NEW p \in Programs
      PROVE  /\ job.programs[p].known => Layout(p) = job.programs[p].fields
             /\ (Layout(p) # NoValue) = job.programs[p].known
  <2>1. job.programs[p].fields # NoValue /\ job.programs[p].known \in BOOLEAN
    BY <1>3 DEF IsProgram
  <2>. QED
    BY <2>1 DEF Layout
<1>. QED
  BY <1>1, <1>2, <1>3, <1>4

\* An answer that fits gives every program its own histogram, its keys in some order.
LEMMA CountsAreSound ==
  ASSUME job \in Jobs, NEW a \in CountsAnswers, CountsFit(a), NEW p \in Programs
  PROVE  \E o \in Orders(job.programs[p]) : a[p] = CountsEntry(job.programs[p], o)
<1>. DEFINE n == Len(job.programs)
            Own(q, x) == \E o \in Orders(job.programs[q]) : x = CountsEntry(job.programs[q], o)
            Entries == UNION {{CountsEntry(job.programs[q], o) : o \in Orders(job.programs[q])} :
                              q \in Programs}
            Sound == {b \in [Programs -> Entries] : \A q \in Programs : Own(q, b[q])}
            Known == {q \in Programs : Layout(q) # NoValue}
            Broken(b, q) == {[b EXCEPT ![q] = d] : d \in DamagedCounts(b[q]) \ {b[q]}}
<1>1. CountsAnswers = Sound \cup {Front(b) : b \in Sound}
                        \cup UNION {UNION {Broken(b, q) : q \in Known} : b \in Sound}
  BY Zenon DEF CountsAnswers, Orders
<1>. HIDE DEF Entries
<1>2. /\ n \in Nat /\ Programs = 1..n
      /\ \A q \in Programs : IsProgram(job.programs[q])
      /\ \A q \in Known : Layout(q) = job.programs[q].fields
  BY JobParts
<1>3. CASE a \in Sound
  BY <1>3
<1>4. ASSUME NEW b \in Sound, a = Front(b) PROVE FALSE
  <2>1. b \in Seq(Entries) /\ Len(b) = n /\ n >= 1
    BY <1>2
  <2>2. Len(SubSeq(b, 1, Len(b) - 1)) = n - 1
    BY <1>2, <2>1
  <2>. QED
    BY <1>2, <1>4, <2>2 DEF CountsFit, Front
<1>5. ASSUME NEW b \in Sound, NEW q \in Known, a \in Broken(b, q) PROVE FALSE
  <2>1. PICK d \in DamagedCounts(b[q]) : d # b[q] /\ a = [b EXCEPT ![q] = d]
    BY <1>5
  <2>2. a[q] = d
    BY <2>1
  <2>3. EntryFits(d, job.programs[q].fields)
    BY <1>2, <2>2 DEF CountsFit
  <2>4. PICK o \in Orders(job.programs[q]) : b[q] = CountsEntry(job.programs[q], o)
    OBVIOUS
  <2>. QED
    BY <1>2, <2>1, <2>3, <2>4, DamagedCountsRefused
<1>. HIDE DEF Broken, Sound, Known
<1>6. \/ a \in Sound
      \/ \E b \in Sound : a = Front(b)
      \/ \E b \in Sound : \E q \in Known : a \in Broken(b, q)
  BY <1>1
<1>. QED
  BY <1>3, <1>4, <1>5, <1>6

\* Every program has the histogram of its shots.
HistogramThere ==
  \A p \in Programs :
    LET g == job.programs[p] IN
    /\ keys[p] \in Orders(g)
    /\ g.known => keys[p] = KeysOf(g.fields)
    /\ counts[p] = Histogram(Told(g, keys[p]))

NothingThere ==
  \A p \in Programs : keys[p] = NoValue /\ counts[p] = NoValue /\ shots[p] = NoValue

LEMMA HistogramCases == HistogramInv <=> NothingThere \/ HistogramThere
BY DEF HistogramInv, NothingThere, HistogramThere, Orders

LEMMA OrderIsValue ==
  ASSUME NEW g, IsProgram(g), NEW o \in Orders(g)
  PROVE  o # NoValue
<1>1. o \in [1..Len(g.fields) -> STRING] /\ Len(g.fields) \in Nat
  BY KeysAreDistinct, OrderFacts
<1>2. o \in Seq(STRING)
  BY <1>1
<1>. QED
  BY <1>2, JobsAssumption

LEMMA CommittedCounts ==
  ASSUME job \in Jobs, UNCHANGED job, NEW a \in CountsAnswers, CountsFit(a), CommitCounts(a)
  PROVE  HistogramThere'
<1>1. SUFFICES ASSUME NEW p \in Programs
               PROVE  /\ keys'[p] \in Orders(job.programs[p])
                      /\ job.programs[p].known => keys'[p] = KeysOf(job.programs[p].fields)
                      /\ counts'[p] = Histogram(Told(job.programs[p], keys'[p]))
  BY DEF HistogramThere, Orders, Programs, Told
<1>. DEFINE g == job.programs[p]
            K == KeysOf(g.fields)
<1>2. /\ IsProgram(g) /\ K \in Orders(g)
      /\ g.known => Layout(p) = g.fields
      /\ (Layout(p) # NoValue) = g.known
  BY JobParts, KeysOfIsOrder
<1>3. PICK o \in Orders(g) : a[p] = CountsEntry(g, o)
  BY CountsAreSound
<1>4. /\ keys'[p] = IF Layout(p) = NoValue THEN a[p].keys ELSE KeysOf(Layout(p))
      /\ counts'[p] = IF Layout(p) = NoValue THEN a[p].counts
                      ELSE NormalizedCounts(a[p], Layout(p))
  BY DEF CommitCounts
<1>5. CASE g.known
  <2>1. keys'[p] = K /\ counts'[p] = NormalizedCounts(CountsEntry(g, o), g.fields)
    BY <1>2, <1>3, <1>4, <1>5
  <2>2. counts'[p] = Histogram(Told(g, K))
    BY <1>2, <1>5, <2>1, HistogramOfTold, ToldIs
  <2>. QED
    BY <1>2, <2>1, <2>2
<1>6. CASE ~g.known
  <2>1. keys'[p] = o /\ counts'[p] = CountsEntry(g, o).counts
    <3>1. keys'[p] = CountsEntry(g, o).keys /\ counts'[p] = CountsEntry(g, o).counts
      BY <1>2, <1>3, <1>4, <1>6
    <3>. QED
      BY <3>1, EntryOfOrder, Zenon
  <2>2. counts'[p] = Histogram(Told(g, o))
    BY <1>6, <2>1, EntryOfOrder, ToldIs
  <2>. QED
    BY <1>6, <2>1, <2>2
<1>. QED
  BY <1>5, <1>6

\* An answer that fits is empty or gives every program its own shots.
LEMMA ShotsAreSound ==
  ASSUME job \in Jobs, NEW a \in ShotsAnswers, NEW order, ShotsFit(a, order),
         \A q \in Programs : /\ order[q] \in Orders(job.programs[q])
                             /\ job.programs[q].known => order[q] = KeysOf(job.programs[q].fields),
         NEW p \in Programs
  PROVE  /\ job.programs[p].fields = <<>> => a = <<>>
         /\ job.programs[p].fields # <<>> => /\ a # <<>> /\ p \in DOMAIN a
                                            /\ a[p] = ShotsEntry(job.programs[p])
<1>. DEFINE n == Len(job.programs)
            sound == [q \in Programs |-> ShotsEntry(job.programs[q])]
            Known == {q \in Programs : Layout(q) # NoValue}
            Broken(q) == {[sound EXCEPT ![q] = d] : d \in DamagedShots(sound[q])}
<1>1. ShotsAnswers = {sound, <<>>, Front(sound)} \cup UNION {Broken(q) : q \in Known}
  BY Zenon DEF ShotsAnswers
<1>2. /\ n \in Nat /\ Programs = 1..n /\ NumShots \in Nat
      /\ \A q \in Programs : /\ IsProgram(job.programs[q])
                             /\ ~job.retrieved => Len(job.programs[q].shots) <= NumShots
      /\ \A q \in Known : job.programs[q].known /\ Layout(q) = job.programs[q].fields
  BY JobParts
<1>3. ASSUME a # <<>> PROVE a = sound /\ ShotsEntryFits(a[p], order[p], Layout(p))
  <2>1. Len(a) = n /\ \A q \in DOMAIN a : ShotsEntryFits(a[q], order[q], Layout(q))
    BY <1>3 DEF ShotsFit
  <2>2. a # Front(sound)
    <3>. DEFINE S == {ShotsEntry(job.programs[q]) : q \in Programs}
    <3>1. sound \in Seq(S) /\ Len(sound) = n /\ n >= 1
      BY <1>2
    <3>. HIDE DEF sound, S
    <3>2. Len(SubSeq(sound, 1, Len(sound) - 1)) = n - 1
      BY <1>2, <3>1
    <3>. QED
      BY <1>2, <2>1, <3>2 DEF Front
  <2>3. ASSUME NEW q \in Known, a \in Broken(q) PROVE a = sound
    <3>1. PICK d \in DamagedShots(ShotsEntry(job.programs[q])) : a = [sound EXCEPT ![q] = d]
      BY <2>3
    <3>2. q \in DOMAIN a /\ a[q] = d
      BY <3>1
    <3>3. ShotsEntryFits(d, KeysOf(job.programs[q].fields), job.programs[q].fields)
      BY <1>2, <2>1, <3>2
    <3>4. d = ShotsEntry(job.programs[q])
      BY <1>2, <3>3, DamagedShotsRefused
    <3>. QED
      BY <3>1, <3>4
  <2>4. a = sound
    <3>. HIDE DEF sound, Broken, Known
    <3>. QED
      BY <1>1, <1>3, <2>2, <2>3
  <2>5. p \in DOMAIN a
    BY <2>4
  <2>. QED
    BY <2>1, <2>4, <2>5, Zenon
<1>4. order[p] \in [1..Len(job.programs[p].fields) -> STRING] /\ Len(job.programs[p].fields) \in Nat
  BY <1>2, OrderFacts, KeysAreDistinct
<1>5. ASSUME job.programs[p].fields = <<>> PROVE a = <<>>
  <2>1. SUFFICES ASSUME a # <<>> PROVE FALSE
    OBVIOUS
  <2>2. DOMAIN a[p] # {}
    BY <1>3, <2>1 DEF ShotsEntryFits
  <2>3. a[p] = ShotsEntry(job.programs[p])
    BY <1>3, <2>1
  <2>4. DOMAIN ShotsEntry(job.programs[p]) = Range(KeysOf(job.programs[p].fields))
    BY DEF ShotsEntry
  <2>5. Range(KeysOf(job.programs[p].fields)) = {}
    BY <1>5 DEF Range, KeysOf
  <2>. QED
    BY <2>2, <2>3, <2>4, <2>5
<1>6. ASSUME job.programs[p].fields # <<>> PROVE a # <<>>
  <2>1. SUFFICES ASSUME a = <<>> PROVE FALSE
    OBVIOUS
  <2>2. order[p] = <<>>
    BY <2>1 DEF ShotsFit
  <2>3. Len(job.programs[p].fields) = 0
    <3>1. DOMAIN order[p] = 1..Len(job.programs[p].fields) /\ DOMAIN order[p] = {}
      BY <1>4, <2>2
    <3>2. 1 \notin 1..Len(job.programs[p].fields)
      BY <3>1, Zenon
    <3>3. Len(job.programs[p].fields) \in Nat
      BY <1>4
    <3>. QED
      BY <3>2, <3>3
  <2>4. job.programs[p].fields \in Seq([key : STRING, width : Nat \ {0}])
    BY <1>2 DEF IsProgram
  <2>. QED
    BY <1>6, <2>3, <2>4
<1>. QED
  BY <1>3, <1>5, <1>6

\* They are put together as they were told.
LEMMA AssembledIsTold ==
  ASSUME NEW g, IsProgram(g), NEW o \in Orders(g), g.fields # <<>>, NEW fields,
         (fields # NoValue) = g.known, ShotsEntryFits(ShotsEntry(g), o, fields)
  PROVE  AssembledShots(ShotsEntry(g), o, fields) = Told(g, o)
<1>. DEFINE n == Len(g.fields)
            e == ShotsEntry(g)
            Assembled(s) == FlattenSeq([i \in DOMAIN o |-> e[o[i]][s]])
<1>1. /\ n \in Nat /\ DOMAIN o = 1..n /\ n >= 1
      /\ \A i \in 1..n : o[i] \in Range(KeysOf(g.fields))
  <2>1. n \in Nat /\ o \in [1..n -> STRING] /\ Range(o) = Range(KeysOf(g.fields))
    BY KeysAreDistinct, OrderFacts
  <2>2. g.fields \in Seq([key : STRING, width : Nat \ {0}])
    BY DEF IsProgram
  <2>3. n # 0
    BY <2>2
  <2>4. DOMAIN o = 1..n /\ n >= 1
    BY <2>1, <2>3
  <2>5. \A i \in 1..n : o[i] \in Range(o)
    BY <2>4 DEF Range
  <2>. QED
    BY <2>1, <2>4, <2>5, Zenon
<1>2. /\ Len(g.shots) \in Nat /\ DOMAIN g.shots = 1..Len(g.shots)
      /\ \A i \in 1..n : /\ e[o[i]] = [s \in DOMAIN g.shots |-> g.shots[s][o[i]]]
                         /\ Len(e[o[i]]) = Len(g.shots)
  <2>1. g.shots \in Seq(Range(g.shots))
    BY DEF IsProgram
  <2>2. Len(g.shots) \in Nat /\ DOMAIN g.shots = 1..Len(g.shots)
    BY <2>1, SeqParts
  <2>3. ASSUME NEW i \in 1..n
        PROVE  /\ e[o[i]] = [s \in DOMAIN g.shots |-> g.shots[s][o[i]]]
               /\ Len(e[o[i]]) = Len(g.shots)
    <3>. DEFINE k == o[i]
    <3>1. k \in Range(KeysOf(g.fields))
      BY <1>1
    <3>. HIDE DEF k
    <3>2. /\ ShotsEntry(g)[k] = [s \in DOMAIN g.shots |-> g.shots[s][k]]
          /\ Len(ShotsEntry(g)[k]) = Len(g.shots)
      BY <3>1, ShotsOfKey
    <3>. QED
      BY <3>2 DEF k
  <2>. QED
    BY <2>2, <2>3, Zenon
<1>. HIDE DEF e
<1>3. ExpectedShots(e, o) = Len(g.shots)
  <2>1. 1 \in 1..n
    BY <1>1
  <2>2. Len(e[o[1]]) = ExpectedShots(e, o)
    BY <1>1, <2>1, Zenon DEF ShotsEntryFits, e
  <2>. QED
    BY <1>2, <2>1, <2>2
<1>4. ASSUME NEW s \in 1..Len(g.shots) PROVE Assembled(s) = Bits(g, s, o)
  <2>1. ASSUME NEW i \in 1..n PROVE e[o[i]][s] = g.shots[s][o[i]]
    BY <1>2
  <2>2. [i \in DOMAIN o |-> e[o[i]][s]] = [i \in DOMAIN o |-> g.shots[s][o[i]]]
    BY <1>1, <2>1, Zenon
  <2>. QED
    BY <2>2, Zenon DEF Bits
<1>5. AssembledShots(e, o, fields)
        = [s \in 1..Len(g.shots) |-> IF fields = NoValue THEN Assembled(s) ELSE Reverse(Assembled(s))]
  BY <1>3 DEF AssembledShots
<1>. HIDE DEF Assembled
<1>6. CASE g.known
  <2>1. AssembledShots(e, o, fields) = [s \in 1..Len(g.shots) |-> Reverse(Assembled(s))]
    BY <1>5, <1>6
  <2>2. [s \in 1..Len(g.shots) |-> Reverse(Assembled(s))]
          = [s \in 1..Len(g.shots) |-> Reverse(Bits(g, s, o))]
    BY <1>4, Zenon
  <2>. QED
    BY <1>2, <1>6, <2>1, <2>2, ToldIs DEF e
<1>7. CASE ~g.known
  <2>1. AssembledShots(e, o, fields) = [s \in 1..Len(g.shots) |-> Assembled(s)]
    BY <1>5, <1>7
  <2>2. [s \in 1..Len(g.shots) |-> Assembled(s)] = [s \in 1..Len(g.shots) |-> Bits(g, s, o)]
    BY <1>4, Zenon
  <2>. QED
    BY <1>2, <1>7, <2>1, <2>2, ToldIs DEF e
<1>. QED
  BY <1>6, <1>7

-----------------------------------------------------------------------------
(* The invariant *)

LEMMA TheSamePrograms ==
  ASSUME UNCHANGED job
  PROVE  /\ UNCHANGED Programs
         /\ \A p : Told(job.programs[p], keys[p])' = Told(job.programs[p], keys'[p])
<1>1. UNCHANGED Programs
  BY DEF Programs
<1>2. \A p : Told(job.programs[p], keys[p])' = Told(job.programs[p], keys'[p])
  BY DEF Told
<1>. QED
  BY <1>1, <1>2

LEMMA HistogramStays ==
  ASSUME ResultsInv, NEW q \in Programs, CountsAtHand(q), UNCHANGED job
  PROVE  HistogramThere' /\ (UNCHANGED <<keys, counts>> \/ NothingThere)
<1>1. job \in Jobs /\ (NothingThere \/ HistogramThere)
  BY HistogramCases DEF ResultsInv
<1>2. CASE keys[q] # NoValue /\ UNCHANGED <<keys, counts>>
  <2>1. HistogramThere
    BY <1>1, <1>2 DEF NothingThere
  <2>. QED
    BY <1>2, <2>1 DEF HistogramThere, Programs, Orders, Told
<1>3. CASE keys[q] = NoValue /\ \E a \in CountsAnswers : CountsFit(a) /\ CommitCounts(a)
  <2>1. HistogramThere'
    BY <1>1, <1>3, CommittedCounts
  <2>2. ~HistogramThere
    <3>1. IsProgram(job.programs[q])
      BY <1>1, JobParts
    <3>. QED
      BY <1>3, <3>1, OrderIsValue DEF HistogramThere
  <2>. QED
    BY <1>1, <2>1, <2>2
<1>. QED
  BY <1>2, <1>3 DEF CountsAtHand

LEMMA ShotsStay ==
  ASSUME ResultsInv, NEW q \in Programs, CountsAtHand(q), UNCHANGED <<job, shots>>
  PROVE  ResultsInv'
<1>1. HistogramThere' /\ (UNCHANGED <<keys, counts>> \/ NothingThere)
  BY HistogramStays
<1>2. HistogramInv'
  BY <1>1, HistogramCases, PTL
<1>3. ShotsInv'
  <2>1. CASE UNCHANGED <<keys, counts>>
    BY <2>1, TheSamePrograms DEF ResultsInv, ShotsInv
  <2>2. CASE NothingThere
    BY <2>2, TheSamePrograms DEF NothingThere, ShotsInv
  <2>. QED
    BY <1>1, <2>1, <2>2
<1>. QED
  BY <1>2, <1>3 DEF ResultsInv

LEMMA ShotsComeIn ==
  ASSUME ResultsInv, NEW q \in Programs, CountsAtHand(q), UNCHANGED job,
         NEW a \in ShotsAnswers, ShotsFit(a, keys'), CommitShots(a, keys')
  PROVE  /\ ResultsInv'
         /\ \A p \in Programs :
              shots'[p] = IF job.programs[p].fields = <<>> THEN <<>>
                          ELSE Told(job.programs[p], keys'[p])
<1>1. job \in Jobs /\ HistogramThere'
  BY HistogramStays DEF ResultsInv
<1>2. HistogramInv'
  BY <1>1, HistogramCases, PTL
<1>3. \A p \in Programs :
        /\ keys'[p] \in Orders(job.programs[p])
        /\ job.programs[p].known => keys'[p] = KeysOf(job.programs[p].fields)
  BY <1>1 DEF HistogramThere, Programs, Orders
<1>4. ASSUME NEW p \in Programs
      PROVE  /\ keys'[p] # NoValue
             /\ shots'[p] = IF job.programs[p].fields = <<>> THEN <<>>
                            ELSE Told(job.programs[p], keys'[p])
  <2>. DEFINE g == job.programs[p]
  <2>1. IsProgram(g) /\ (Layout(p) # NoValue) = g.known
    BY <1>1, JobParts
  <2>2. keys'[p] \in Orders(g) /\ keys'[p] # NoValue
    BY <1>3, <2>1, OrderIsValue
  <2>3. /\ g.fields = <<>> => a = <<>>
        /\ g.fields # <<>> => a # <<>> /\ p \in DOMAIN a /\ a[p] = ShotsEntry(g)
    <3>. DEFINE order == keys'
    <3>1. /\ ShotsFit(a, order)
          /\ \A r \in Programs : /\ order[r] \in Orders(job.programs[r])
                                 /\ job.programs[r].known => order[r] = KeysOf(job.programs[r].fields)
      BY <1>3
    <3>. HIDE DEF order
    <3>. QED
      BY <1>1, <3>1, ShotsAreSound
  <2>4. CASE g.fields = <<>>
    BY <2>2, <2>3, <2>4 DEF CommitShots
  <2>5. CASE g.fields # <<>>
    <3>1. shots'[p] = AssembledShots(a[p], keys'[p], Layout(p))
      BY <2>3, <2>5 DEF CommitShots
    <3>2. ShotsEntryFits(ShotsEntry(g), keys'[p], Layout(p))
      BY <2>3, <2>5 DEF ShotsFit
    <3>3. AssembledShots(ShotsEntry(g), keys'[p], Layout(p)) = Told(g, keys'[p])
      BY <2>1, <2>2, <2>5, <3>2, AssembledIsTold
    <3>. QED
      BY <2>2, <2>3, <2>5, <3>1, <3>3
  <2>. QED
    BY <2>4, <2>5
<1>5. ShotsInv'
  <2>1. SUFFICES ASSUME NEW p \in Programs
                 PROVE  /\ keys'[p] # NoValue
                        /\ shots'[p] = IF job.programs[p].fields = <<>> THEN <<>>
                                       ELSE Told(job.programs[p], keys'[p])
    BY TheSamePrograms DEF ShotsInv
  <2>. QED
    BY <1>4, <2>1
<1>. QED
  BY <1>1, <1>2, <1>4, <1>5 DEF ResultsInv

LEMMA NothingComesIn ==
  ASSUME ResultsInv, UNCHANGED <<job, keys, counts, shots>>
  PROVE  ResultsInv'
<1>1. /\ UNCHANGED Programs
      /\ \A p : Told(job.programs[p], keys[p])' = Told(job.programs[p], keys[p])
  BY TheSamePrograms
<1>2. HistogramInv'
  BY <1>1 DEF ResultsInv, HistogramInv
<1>3. ShotsInv'
  BY <1>1 DEF ResultsInv, ShotsInv
<1>. QED
  BY <1>2, <1>3 DEF ResultsInv

\* Whatever is downloaded, and in whatever order, histograms and shots are those
\* of the shots the computer measured.
THEOREM ResultsAreTheShots == ResultsSpec => []ResultsInv
<1>1. ResultsInit => ResultsInv
  BY DEF ResultsInit, ResultsInv, HistogramInv, ShotsInv
<1>2. ResultsInv /\ [ResultsNext]_resultVars => ResultsInv'
  <2>. SUFFICES ASSUME ResultsInv, [ResultsNext]_resultVars PROVE ResultsInv'
    OBVIOUS
  <2>1. ASSUME NEW p \in Programs, NEW k, NEW size, GetHist(p, k, size) PROVE ResultsInv'
    <3>1. CASE CountsAtHand(p)
      BY <2>1, <3>1, ShotsStay DEF GetHist
    <3>2. CASE CountsFail(p)
      BY <2>1, <3>2, NothingComesIn DEF GetHist, CountsFail
    <3>. QED
      BY <2>1, <3>1, <3>2 DEF GetHist
  <2>2. ASSUME NEW p \in Programs, NEW size, GetShots(p, size) PROVE ResultsInv'
    <3>1. CASE UNCHANGED <<keys, counts, shots>>
      BY <2>2, <3>1, NothingComesIn DEF GetShots
    <3>2. CASE CountsAtHand(p) /\ \E a \in ShotsAnswers : ShotsFit(a, keys') /\ CommitShots(a, keys')
      BY <2>2, <3>2, ShotsComeIn DEF GetShots
    <3>3. CASE CountsAtHand(p) /\ UNCHANGED shots
      BY <2>2, <3>3, ShotsStay DEF GetShots
    <3>4. CASE CountsFail(p) /\ UNCHANGED shots
      BY <2>2, <3>4, NothingComesIn DEF GetShots, CountsFail
    <3>. QED
      BY <2>2, <3>1, <3>2, <3>3, <3>4 DEF GetShots
  <2>3. CASE UNCHANGED resultVars
    BY <2>3, NothingComesIn DEF resultVars
  <2>. QED
    BY <2>1, <2>2, <2>3 DEF ResultsNext
<1>. QED
  BY <1>1, <1>2, PTL DEF ResultsSpec

LEMMA ShotsTold ==
  ASSUME ResultsInv, NEW p \in Programs, shots[p] # NoValue, job.programs[p].fields # <<>>
  PROVE  keys[p] # NoValue /\ shots[p] = Told(job.programs[p], keys[p])
BY DEF ResultsInv, ShotsInv

\* Every bit of every shot and of every outcome is that of the qubit it stands for.
THEOREM OrdersBits == ResultsSpec => []LayoutOrdersBits
<1>1. ResultsInv => LayoutOrdersBits
  <2>. SUFFICES ASSUME ResultsInv, NEW p \in Programs, job.programs[p].known
                PROVE  LET g == job.programs[p] IN
                       /\ shots[p] # NoValue /\ g.fields # <<>> =>
                            /\ DOMAIN shots[p] = DOMAIN g.shots
                            /\ \A s \in DOMAIN g.shots : Shows(shots[p][s], g, s)
                       /\ counts[p] # NoValue =>
                            /\ \A s \in DOMAIN g.shots : \E o \in DOMAIN counts[p] : Shows(o, g, s)
                            /\ \A o \in DOMAIN counts[p] :
                                 counts[p][o] = Cardinality({s \in DOMAIN g.shots : Shows(o, g, s)})
    BY DEF LayoutOrdersBits
  <2>. DEFINE g == job.programs[p]
              K == KeysOf(g.fields)
              D == DOMAIN g.shots
              told == [s \in D |-> Reverse(Bits(g, s, K))]
  <2>1. job \in Jobs /\ (NothingThere \/ HistogramThere)
    BY HistogramCases DEF ResultsInv
  <2>2. IsProgram(g) /\ K \in Orders(g)
    BY <2>1, JobParts, KeysOfIsOrder
  <2>3. Told(g, K) = told
    BY ToldIs
  <2>4. \A s \in D : told[s] = Reverse(Bits(g, s, K)) /\ Shows(told[s], g, s)
    BY <2>2, ToldShows
  <2>5. DOMAIN told = D
    OBVIOUS
  <2>. HIDE DEF told, D, K, g
  <2>6. ASSUME shots[p] # NoValue, g.fields # <<>>
        PROVE  DOMAIN shots[p] = D /\ \A s \in D : Shows(shots[p][s], g, s)
    <3>1. keys[p] # NoValue /\ shots[p] = Told(g, keys[p])
      BY <2>6, ShotsTold DEF g
    <3>2. keys[p] = K
      BY <2>1, <3>1 DEF NothingThere, HistogramThere, g, K
    <3>. QED
      BY <2>3, <2>4, <2>5, <3>1, <3>2
  <2>7. ASSUME counts[p] # NoValue
        PROVE  /\ \A s \in D : \E o \in DOMAIN counts[p] : Shows(o, g, s)
               /\ \A o \in DOMAIN counts[p] :
                    counts[p][o] = Cardinality({s \in D : Shows(o, g, s)})
    <3>1. HistogramThere
      BY <2>1, <2>7 DEF NothingThere
    <3>2. counts[p] = Histogram(told)
      BY <2>3, <3>1 DEF HistogramThere, g, K
    <3>3. /\ DOMAIN counts[p] = {told[s] : s \in D}
          /\ \A o \in DOMAIN counts[p] : counts[p][o] = Cardinality({s \in D : told[s] = o})
      BY <2>5, <3>2 DEF Histogram, Range
    <3>4. ASSUME NEW o \in DOMAIN counts[p]
          PROVE  {s \in D : told[s] = o} = {s \in D : Shows(o, g, s)}
      <4>1. PICK t \in D : told[t] = o
        BY <3>3
      <4>2. ASSUME NEW s \in D, Shows(o, g, s) PROVE told[s] = o
        <5>1. Shows(o, g, t)
          BY <2>4, <4>1
        <5>2. Bits(g, s, K) = Bits(g, t, K)
          BY <2>2, <4>2, <5>1, ShowsOnce DEF D
        <5>. QED
          BY <2>4, <4>1, <5>2
      <4>. QED
        BY <2>4, <4>2
    <3>. QED
      BY <2>4, <3>3, <3>4
  <2>. QED
    BY <2>6, <2>7 DEF g, D
<1>. QED
  BY <1>1, ResultsAreTheShots, PTL

\* The histogram of a program's shots is its histogram.
THEOREM CountsAgree == ResultsSpec => []CountsAgreeWithShots
<1>1. ResultsInv => CountsAgreeWithShots
  <2>1. SUFFICES ASSUME ResultsInv, NEW p \in Programs, shots[p] # NoValue,
                        job.programs[p].fields # <<>>
                 PROVE  counts[p] = Histogram(shots[p])
    BY DEF CountsAgreeWithShots
  <2>2. keys[p] # NoValue /\ shots[p] = Told(job.programs[p], keys[p])
    BY <2>1, ShotsTold
  <2>3. HistogramThere
    BY <2>1, <2>2, HistogramCases DEF ResultsInv, NothingThere
  <2>. QED
    BY <2>2, <2>3 DEF HistogramThere
<1>. QED
  BY <1>1, ResultsAreTheShots, PTL

-----------------------------------------------------------------------------
(* Outcomes can be sorted *)

LEMMA BeforeIs ==
  ASSUME NEW a \in Bitstrings, NEW b \in Bitstrings
  PROVE  Before(a, b) <=>
           \/ \E i \in 1..Len(a) : /\ i <= Len(b) /\ a[i] < b[i]
                                   /\ \A n \in 1..(i - 1) : a[n] = b[n]
           \/ Len(a) < Len(b) /\ \A n \in 1..Len(a) : a[n] = b[n]
<1>1. /\ Len(a) \in Nat /\ DOMAIN a = 1..Len(a)
      /\ Len(b) \in Nat /\ DOMAIN b = 1..Len(b)
  BY DEF Bitstrings
<1>2. ASSUME Len(a) < Len(b)
      PROVE  IsPrefix(a, b) <=> \A n \in 1..Len(a) : a[n] = b[n]
  <2>1. /\ SubSeq(a, 1, Len(a)) = [n \in 1..Len(a) |-> a[n]]
        /\ SubSeq(b, 1, Len(a)) = [n \in 1..Len(a) |-> b[n]]
    BY <1>1, <1>2 DEF Bitstrings
  <2>. QED
    BY <1>1, <1>2, <2>1 DEF IsPrefix
<1>. QED
  BY <1>1, <1>2 DEF Before

LEMMA BeforeTransitive ==
  ASSUME NEW a \in Bitstrings, NEW b \in Bitstrings, NEW c \in Bitstrings,
         Before(a, b), Before(b, c)
  PROVE  Before(a, c)
<1>. DEFINE Less(x, y, i) == /\ i \in 1..Len(x) /\ i <= Len(y) /\ x[i] < y[i]
                             /\ \A n \in 1..(i - 1) : x[n] = y[n]
            Shorter(x, y) == Len(x) < Len(y) /\ \A n \in 1..Len(x) : x[n] = y[n]
<1>1. /\ Len(a) \in Nat /\ Len(b) \in Nat /\ Len(c) \in Nat
      /\ \A n \in 1..Len(a) : a[n] \in Int
      /\ \A n \in 1..Len(b) : b[n] \in Int
      /\ \A n \in 1..Len(c) : c[n] \in Int
  BY DEF Bitstrings
<1>2. (\E i : Less(a, b, i)) \/ Shorter(a, b)
  BY BeforeIs
<1>3. (\E i : Less(b, c, i)) \/ Shorter(b, c)
  BY BeforeIs
<1>4. (\E i : Less(a, c, i)) \/ Shorter(a, c) => Before(a, c)
  BY BeforeIs
<1>5. ASSUME NEW i, Less(a, b, i), NEW j, Less(b, c, j) PROVE \E k : Less(a, c, k)
  <2>1. i \in Int /\ j \in Int
    BY <1>5
  <2>2. ASSUME i < j PROVE Less(a, c, i)
    <3>1. i \in 1..(j - 1) /\ b[i] = c[i]
      BY <1>1, <1>5, <2>2
    <3>2. \A n \in 1..(i - 1) : n \in 1..(j - 1)
      BY <2>1, <2>2
    <3>. QED
      BY <1>1, <1>5, <2>2, <3>1, <3>2
  <2>3. ASSUME i = j PROVE Less(a, c, i)
    BY <1>1, <1>5, <2>3
  <2>4. ASSUME j < i PROVE Less(a, c, j)
    <3>1. j \in 1..(i - 1) /\ a[j] = b[j]
      BY <1>1, <1>5, <2>4
    <3>2. \A n \in 1..(j - 1) : n \in 1..(i - 1)
      BY <2>1, <2>4
    <3>. QED
      BY <1>1, <1>5, <2>4, <3>1, <3>2
  <2>. HIDE DEF Less
  <2>. QED
    BY <2>1, <2>2, <2>3, <2>4
<1>6. ASSUME NEW i, Less(a, b, i), Shorter(b, c) PROVE Less(a, c, i)
  BY <1>1, <1>6
<1>7. ASSUME Shorter(a, b), NEW j, Less(b, c, j) PROVE Less(a, c, j) \/ Shorter(a, c)
  BY <1>1, <1>7
<1>8. ASSUME Shorter(a, b), Shorter(b, c) PROVE Shorter(a, c)
  BY <1>1, <1>8
<1>. HIDE DEF Less, Shorter
<1>. QED
  BY <1>2, <1>3, <1>4, <1>5, <1>6, <1>7, <1>8

LEMMA BeforeTotal ==
  ASSUME NEW a \in Bitstrings, NEW b \in Bitstrings, a # b
  PROVE  Before(a, b) \/ Before(b, a)
<1>. DEFINE D == {n \in 1..Len(a) : n <= Len(b) /\ a[n] # b[n]}
<1>1. /\ Len(a) \in Nat /\ Len(b) \in Nat
      /\ \A n \in 1..Len(a) : a[n] \in Int
      /\ \A n \in 1..Len(b) : b[n] \in Int
  BY DEF Bitstrings
<1>2. CASE D # {}
  <2>1. D \subseteq Nat
    OBVIOUS
  <2>2. PICK i \in D : \A k \in D : i <= k
    <3>. HIDE DEF D
    <3>. QED
      BY <1>2, <2>1, LeastNatural, Zenon
  <2>3. i \in 1..Len(a) /\ i \in 1..Len(b) /\ i <= Len(b) /\ i <= Len(a)
    BY <1>1, <2>2
  <2>4. \A n \in 1..(i - 1) : a[n] = b[n]
    BY <1>1, <2>2, <2>3
  <2>5. a[i] < b[i] \/ b[i] < a[i]
    BY <1>1, <2>2, <2>3
  <2>6. a[i] < b[i] => Before(a, b)
    BY <2>3, <2>4, BeforeIs
  <2>7. b[i] < a[i] => Before(b, a)
    BY <2>3, <2>4, BeforeIs
  <2>. QED
    BY <2>5, <2>6, <2>7
<1>3. CASE D = {}
  <2>1. \A n \in 1..Len(a) : n <= Len(b) => a[n] = b[n]
    BY <1>3
  <2>2. CASE Len(a) < Len(b)
    BY <1>1, <2>1, <2>2, BeforeIs
  <2>3. CASE Len(b) < Len(a)
    BY <1>1, <2>1, <2>3, BeforeIs
  <2>4. Len(a) # Len(b)
    <3>1. SUFFICES ASSUME Len(a) = Len(b) PROVE FALSE
      OBVIOUS
    <3>2. \A n \in 1..Len(a) : a[n] = b[n]
      BY <1>1, <2>1, <3>1
    <3>. QED
      BY <3>1, <3>2 DEF Bitstrings
  <2>. QED
    BY <1>1, <2>2, <2>3, <2>4
<1>. QED
  BY <1>2, <1>3

LEMMA NotBeforeItself == ASSUME NEW a \in Bitstrings PROVE ~Before(a, a)
<1>1. Len(a) \in Nat /\ \A n \in 1..Len(a) : a[n] \in Int
  BY DEF Bitstrings
<1>. QED
  BY <1>1, BeforeIs

\* The place of an outcome is the number of those that are not behind it.
LEMMA SortedExists ==
  ASSUME NEW S, S \subseteq Bitstrings, IsFiniteSet(S)
  PROVE  \E q \in [1..Cardinality(S) -> S] :
           \A i, j \in 1..Cardinality(S) : i < j => Before(q[i], q[j])
<1>. DEFINE n == Cardinality(S)
            Behind(x) == {y \in S : Before(y, x)}
            place == [x \in S |-> Cardinality(Behind(x)) + 1]
<1>1. n \in Nat
  BY FS_CardinalityType
<1>2. ASSUME NEW x \in S
      PROVE  IsFiniteSet(Behind(x)) /\ Cardinality(Behind(x)) \in 0..(n - 1)
  <2>1. Behind(x) \in SUBSET (S \ {x})
    BY NotBeforeItself
  <2>2. IsFiniteSet(S \ {x}) /\ Cardinality(S \ {x}) = n - 1
    BY FS_RemoveElement
  <2>. HIDE DEF Behind
  <2>3. IsFiniteSet(Behind(x)) /\ Cardinality(Behind(x)) <= n - 1
    BY <2>1, <2>2, FS_Subset
  <2>4. Cardinality(Behind(x)) \in Nat
    BY <2>3, FS_CardinalityType
  <2>. QED
    BY <1>1, <2>3, <2>4
<1>3. ASSUME NEW x \in S, NEW y \in S, Before(x, y)
      PROVE  place[x] < place[y]
  <2>1. Behind(x) \cup {x} \in SUBSET Behind(y)
    BY <1>3, BeforeTransitive
  <2>2. x \notin Behind(x)
    BY NotBeforeItself
  <2>3. IsFiniteSet(Behind(x)) /\ IsFiniteSet(Behind(y))
    BY <1>2
  <2>4. Cardinality(Behind(x)) \in Nat /\ Cardinality(Behind(y)) \in Nat
    BY <2>3, FS_CardinalityType
  <2>. HIDE DEF Behind
  <2>5. Cardinality(Behind(x) \cup {x}) = Cardinality(Behind(x)) + 1
    BY <2>2, <2>3, FS_AddElement
  <2>6. Cardinality(Behind(x) \cup {x}) <= Cardinality(Behind(y))
    BY <2>1, <2>3, FS_Subset
  <2>. QED
    BY <2>4, <2>5, <2>6
<1>4. place \in [S -> 1..n]
  <2>. HIDE DEF Behind
  <2>1. ASSUME NEW x \in S PROVE Cardinality(Behind(x)) + 1 \in 1..n
    <3>1. Cardinality(Behind(x)) \in 0..(n - 1)
      BY <1>2
    <3>. HIDE DEF n
    <3>. QED
      BY <1>1, <3>1
  <2>. QED
    BY <2>1
<1>. HIDE DEF place
<1>5. \A x, y \in S : place[x] = place[y] => x = y
  <2>1. ASSUME NEW x \in S, NEW y \in S, x # y PROVE place[x] # place[y]
    <3>1. Before(x, y) \/ Before(y, x)
      BY <2>1, BeforeTotal
    <3>2. place[x] \in Int /\ place[y] \in Int
      BY <1>4
    <3>. QED
      BY <1>3, <3>1, <3>2
  <2>. QED
    BY <2>1
<1>6. \A i \in 1..n : \E x \in S : place[x] = i
  <2>1. place \in Injection(S, 1..n)
    BY <1>4, <1>5 DEF Injection, IsInjective
  <2>2. IsFiniteSet(1..n) /\ Cardinality(1..n) = n
    BY <1>1, FS_Interval
  <2>. DEFINE T == 1..n
  <2>. HIDE DEF T
  <2>3. place \in Injection(S, T) /\ IsFiniteSet(T) /\ Cardinality(T) = Cardinality(S)
    BY <2>1, <2>2 DEF T
  <2>4. place \in Surjection(S, T)
    BY <2>3, FS_Injection
  <2>5. \A i \in T : \E x \in S : place[x] = i
    BY <2>4 DEF Surjection
  <2>. QED
    BY <2>5 DEF T
<1>. DEFINE q == [i \in 1..n |-> CHOOSE x \in S : place[x] = i]
<1>7. \A i \in 1..n : q[i] \in S /\ place[q[i]] = i
  BY <1>6
<1>8. q \in [1..n -> S]
  BY <1>7
<1>. HIDE DEF q
<1>9. ASSUME NEW i \in 1..n, NEW j \in 1..n, i < j PROVE Before(q[i], q[j])
  <2>1. q[i] \in S /\ q[j] \in S /\ place[q[i]] = i /\ place[q[j]] = j
    BY <1>7
  <2>2. q[i] # q[j]
    BY <1>9, <2>1
  <2>3. Before(q[i], q[j]) \/ Before(q[j], q[i])
    BY <2>1, <2>2, BeforeTotal
  <2>4. Before(q[j], q[i]) => j < i
    BY <1>3, <2>1
  <2>. QED
    BY <1>1, <1>9, <2>3, <2>4
<1>. QED
  BY <1>8, <1>9

LEMMA SortedIs ==
  ASSUME NEW c, DOMAIN c \subseteq Bitstrings, IsFiniteSet(DOMAIN c)
  PROVE  /\ Cardinality(DOMAIN c) \in Nat
         /\ SortedOutcomes(c) \in [1..Cardinality(DOMAIN c) -> DOMAIN c]
         /\ SortedOutcomes(c) \in Seq(DOMAIN c)
         /\ Len(SortedOutcomes(c)) = Cardinality(DOMAIN c)
<1>1. Cardinality(DOMAIN c) \in Nat
  BY FS_CardinalityType
<1>2. \E q \in [1..Cardinality(DOMAIN c) -> DOMAIN c] :
        \A i, j \in 1..Cardinality(DOMAIN c) : i < j => Before(q[i], q[j])
  BY SortedExists
<1>3. SortedOutcomes(c) \in [1..Cardinality(DOMAIN c) -> DOMAIN c]
  BY <1>2, Zenon DEF SortedOutcomes
<1>. QED
  BY <1>1, <1>3, FunctionIsSeq

-----------------------------------------------------------------------------
(* A text is as long as announced *)

Chars == {"0", "1", ",", "NUL"}
Ending(n, s) == IF s = n THEN "NUL" ELSE ","
Pieces(strings) == [s \in DOMAIN strings |-> Append(Digits(strings[s]), Ending(Len(strings), s))]

LEMMA PartIs ==
  ASSUME NEW bits \in Bitstrings, NEW e \in Chars
  PROVE  LET piece == Append(Digits(bits), e)
         IN  /\ piece \in Seq(Chars) /\ Len(piece) = Len(bits) + 1 /\ Len(bits) \in Nat
             /\ \A j \in 1..Len(bits) : piece[j] \in {"0", "1"}
             /\ piece[Len(bits) + 1] = e
<1>1. Len(bits) \in Nat /\ DOMAIN bits = 1..Len(bits)
  BY DEF Bitstrings
<1>2. Digits(bits) = [b \in 1..Len(bits) |-> IF bits[b] = 0 THEN "0" ELSE "1"]
  BY <1>1 DEF Digits
<1>3. Digits(bits) \in [1..Len(bits) -> Chars]
  BY <1>2 DEF Chars
<1>4. Digits(bits) \in Seq(Chars) /\ Len(Digits(bits)) = Len(bits)
  BY <1>1, <1>3, FunctionIsSeq
<1>5. \A j \in 1..Len(bits) : Digits(bits)[j] \in {"0", "1"}
  BY <1>2
<1>. DEFINE d == Digits(bits)
<1>. HIDE DEF d
<1>6. d \in Seq(Chars) /\ Len(d) = Len(bits) /\ \A j \in 1..Len(bits) : d[j] \in {"0", "1"}
  BY <1>4, <1>5 DEF d
<1>7. /\ Append(d, e) \in Seq(Chars) /\ Len(Append(d, e)) = Len(bits) + 1
      /\ \A j \in 1..Len(bits) : Append(d, e)[j] = d[j]
      /\ Append(d, e)[Len(bits) + 1] = e
  BY <1>1, <1>6
<1>. QED
  BY <1>1, <1>6, <1>7 DEF d

\* Every place of a text is in one of its parts.
LEMMA PlaceInPart ==
  ASSUME NEW ns, NEW n \in Nat, NEW t, Runs(ns, n, t), NEW m \in 1..t[n],
         \A k \in 1..n : ns[k] \in Nat
  PROVE  \E k \in 1..n : m - t[k - 1] \in 1..ns[k] /\ t[k] = t[k - 1] + ns[k]
<1>. DEFINE T == {k \in 0..n : m <= t[k]}
<1>1. \A k \in 0..n : t[k] \in Nat
  BY DEF Runs
<1>2. T \subseteq Nat /\ T # {}
  BY <1>1
<1>3. PICK k \in T : \A i \in T : k <= i
  <2>. HIDE DEF T
  <2>. QED
    BY <1>2, LeastNatural, Zenon
<1>4. k # 0
  BY <1>3 DEF Runs
<1>5. k \in 1..n /\ k - 1 \in 0..n /\ k - 1 \notin T
  BY <1>3, <1>4
<1>6. t[k] = t[k - 1] + ns[k]
  BY <1>5 DEF Runs
<1>7. t[k - 1] \in Nat /\ t[k] \in Nat /\ m <= t[k] /\ ~(m <= t[k - 1]) /\ m \in Int
  BY <1>1, <1>3, <1>5
<1>8. m - t[k - 1] \in 1..ns[k]
  BY <1>5, <1>6, <1>7
<1>. QED
  BY <1>5, <1>6, <1>8

\* The only NUL of a text is at its end.
LEMMA TextIs ==
  ASSUME NEW strings \in Seq(Bitstrings), strings # <<>>
  PROVE  /\ TextSize(strings) \in Nat \ {0}
         /\ Joined(strings) \in Seq(Chars) /\ Len(Joined(strings)) = TextSize(strings)
         /\ \A m \in 1..TextSize(strings) :
              Joined(strings)[m] = "NUL" <=> m = TextSize(strings)
<1>. DEFINE n == Len(strings)
            L == [s \in 1..n |-> Len(strings[s])]
            parts == Pieces(strings)
            lens == [s \in 1..Len(parts) |-> Len(parts[s])]
            v == [k \in 0..n |-> SumOf(First(L, k))]
            t == [k \in 0..n |-> v[k] + k]
            F == FlattenSeq(parts)
<1>1. n \in Nat \ {0} /\ DOMAIN strings = 1..n /\ \A s \in 1..n : strings[s] \in Bitstrings
  BY SeqParts
<1>2. \A s \in 1..n : Ending(n, s) \in Chars
  BY DEF Ending, Chars
<1>3. ASSUME NEW s \in 1..n
      PROVE  /\ parts[s] \in Seq(Chars) /\ Len(parts[s]) = L[s] + 1 /\ L[s] \in Nat
             /\ \A j \in 1..L[s] : parts[s][j] \in {"0", "1"}
             /\ parts[s][L[s] + 1] = Ending(n, s)
  <2>1. parts[s] = Append(Digits(strings[s]), Ending(n, s))
    BY <1>1 DEF Pieces
  <2>2. L[s] = Len(strings[s])
    OBVIOUS
  <2>3. strings[s] \in Bitstrings /\ Ending(n, s) \in Chars
    BY <1>1, <1>2
  <2>. DEFINE bits == strings[s]
              e == Ending(n, s)
              piece == Append(Digits(bits), e)
  <2>. HIDE DEF bits, e
  <2>4. bits \in Bitstrings /\ e \in Chars
    BY <2>3 DEF bits, e
  <2>5. /\ piece \in Seq(Chars) /\ Len(piece) = Len(bits) + 1 /\ Len(bits) \in Nat
        /\ \A j \in 1..Len(bits) : piece[j] \in {"0", "1"}
        /\ piece[Len(bits) + 1] = e
    BY <2>4, PartIs
  <2>6. parts[s] = piece /\ L[s] = Len(bits) /\ e = Ending(n, s)
    BY <2>1, <2>2 DEF bits, e
  <2>. HIDE DEF piece, L, parts
  <2>. QED
    BY <2>5, <2>6
<1>4. parts \in Seq(Seq(Chars)) /\ Len(parts) = n
  <2>1. DOMAIN parts = 1..n /\ parts = [s \in 1..n |-> parts[s]]
    BY <1>1 DEF Pieces
  <2>. HIDE DEF parts, L
  <2>2. parts \in [1..n -> Seq(Chars)]
    BY <1>3, <2>1
  <2>. QED
    BY <1>1, <2>2, FunctionIsSeq
<1>5. \A s \in 1..n : L[s] \in Nat
  BY <1>3
<1>6. Runs(L, n, v)
  <2>. HIDE DEF L
  <2>. QED
    BY <1>1, <1>5, SumRuns
<1>7. TextSize(strings) = t[n]
  <2>1. First(L, n) = [s \in DOMAIN strings |-> Len(strings[s])]
    BY <1>1 DEF First
  <2>2. TextSize(strings) = n + SumOf(First(L, n))
    BY <2>1 DEF TextSize
  <2>3. v[n] = SumOf(First(L, n)) /\ v[n] \in Nat
    BY <1>1, <1>6 DEF Runs
  <2>. HIDE DEF v, L
  <2>4. t[n] = v[n] + n
    BY <1>1
  <2>. QED
    BY <1>1, <2>2, <2>3, <2>4
<1>. HIDE DEF v, L, parts
<1>8. Runs(lens, n, t)
  <2>1. t \in [0..n -> Nat]
    BY <1>1, <1>6 DEF Runs
  <2>2. t[0] = 0
    BY <1>1, <1>6 DEF Runs
  <2>3. ASSUME NEW k \in 1..n PROVE t[k] = t[k - 1] + lens[k]
    <3>1. v[k] = v[k - 1] + L[k] /\ v[k - 1] \in Nat /\ v[k] \in Nat
      BY <1>1, <1>6 DEF Runs
    <3>2. lens[k] = L[k] + 1 /\ L[k] \in Nat
      BY <1>3, <1>4
    <3>3. t[k] = v[k] + k /\ t[k - 1] = v[k - 1] + (k - 1)
      BY <1>1
    <3>. HIDE DEF t, lens
    <3>. QED
      BY <1>1, <3>1, <3>2, <3>3
  <2>. QED
    BY <2>1, <2>2, <2>3 DEF Runs
<1>. HIDE DEF t
<1>9. /\ F \in Seq(Chars) /\ Len(F) = t[n]
      /\ \A p \in 1..n : \A j \in 1..Len(parts[p]) : F[t[p - 1] + j] = parts[p][j]
  <2>. DEFINE m == Len(parts)
  <2>1. Runs([p \in 1..m |-> Len(parts[p])], m, t)
    BY <1>4, <1>8
  <2>2. FlattenSeq(parts) \in Seq(Chars) /\ Strings(parts, m, t, FlattenSeq(parts))
    BY <1>4, <2>1, FlattenRuns
  <2>. QED
    BY <1>4, <2>2 DEF Strings
<1>10. Joined(strings) = F
  BY <1>1, Zenon DEF Joined, Pieces, parts, Ending
<1>. HIDE DEF F
<1>11. \A k \in 0..n : t[k] \in Nat
  BY <1>8 DEF Runs
<1>12. t[n] = t[n - 1] + L[n] + 1 /\ t[n] \in Nat \ {0}
  <2>1. lens[n] = L[n] + 1 /\ L[n] \in Nat
    BY <1>1, <1>3, <1>4
  <2>. HIDE DEF lens
  <2>3. n \in 1..n /\ n - 1 \in 0..n
    BY <1>1
  <2>2. t[n] = t[n - 1] + lens[n] /\ t[n - 1] \in Nat
    <3>. DEFINE N == n
    <3>1. \A k \in 1..N : t[k] = t[k - 1] + lens[k]
      BY <1>8 DEF Runs
    <3>. HIDE DEF N
    <3>2. N \in 1..N /\ N = n
      BY <2>3 DEF N
    <3>. QED
      BY <1>11, <2>3, <3>1, <3>2
  <2>. QED
    BY <2>1, <2>2
<1>13. F[t[n]] = "NUL"
  <2>. DEFINE j == L[n] + 1
  <2>4. n \in 1..n
    BY <1>1
  <2>5. Len(parts[n]) = j /\ L[n] \in Nat /\ parts[n][j] = Ending(n, n)
    BY <1>3, <2>4
  <2>6. j \in 1..Len(parts[n])
    BY <2>5
  <2>1. F[t[n - 1] + j] = parts[n][j]
    BY <1>9, <2>4, <2>6
  <2>2. parts[n][j] = "NUL"
    BY <2>5 DEF Ending
  <2>3. t[n - 1] + (L[n] + 1) = t[n]
    BY <1>1, <1>3, <1>11, <1>12
  <2>. QED
    BY <2>1, <2>2, <2>3
<1>14. ASSUME NEW m \in 1..t[n], m # t[n] PROVE F[m] # "NUL"
  <2>1. \A k \in 1..n : lens[k] \in Nat /\ lens[k] = L[k] + 1 /\ L[k] \in Nat
    BY <1>3, <1>4
  <2>. HIDE DEF lens
  <2>2. PICK k \in 1..n : m - t[k - 1] \in 1..lens[k] /\ t[k] = t[k - 1] + lens[k]
    BY <1>1, <1>8, <2>1, PlaceInPart
  <2>. DEFINE j == m - t[k - 1]
  <2>3. j \in 1..(L[k] + 1) /\ m = t[k - 1] + j
    BY <1>1, <1>11, <2>1, <2>2
  <2>4. F[m] = parts[k][j]
    BY <1>3, <1>9, <2>3
  <2>5. CASE j \in 1..L[k]
    BY <1>3, <2>4, <2>5
  <2>6. CASE j = L[k] + 1
    <3>1. parts[k][j] = Ending(n, k)
      BY <1>3, <2>6
    <3>2. k # n
      BY <1>11, <1>14, <2>1, <2>2, <2>3, <2>6
    <3>. QED
      BY <2>4, <3>1, <3>2 DEF Ending
  <2>. QED
    BY <2>1, <2>3, <2>5, <2>6
<1>. QED
  BY <1>7, <1>9, <1>10, <1>12, <1>13, <1>14

LEMMA FirstNul ==
  ASSUME NEW chars, NEW n \in Nat \ {0}, Len(chars) = n,
         \A m \in 1..n : chars[m] = "NUL" <=> m = n
  PROVE  SelectInSeq(chars, LAMBDA x : x = "NUL") = n
<1>. DEFINE I == {i \in 1..Len(chars) : chars[i] = "NUL"}
<1>1. I = {n}
  OBVIOUS
<1>2. SelectInSeq(chars, LAMBDA x : x = "NUL") = IF I # {} THEN Min(I) ELSE 0
  BY DEF SelectInSeq
<1>. HIDE DEF I
<1>3. Min({n}) = n
  BY DEF Min
<1>. QED
  BY <1>1, <1>2, <1>3

LEMMA TextFits ==
  ASSUME NEW strings \in Seq(Bitstrings)
  PROVE  /\ TextSize(strings) \in Nat \ {0} /\ Len(TextOf(strings)) = TextSize(strings)
         /\ SelectInSeq(TextOf(strings), LAMBDA x : x = "NUL") = TextSize(strings)
<1>1. CASE strings = <<>>
  <2>1. TextSize(strings) = 1 /\ TextOf(strings) = <<"NUL">>
    BY <1>1 DEF TextSize, TextOf
  <2>. DEFINE x == <<"NUL">>
              one == 1
  <2>2. one \in Nat \ {0} /\ Len(x) = one /\ \A m \in 1..one : x[m] = "NUL" <=> m = one
    OBVIOUS
  <2>. HIDE DEF x, one
  <2>3. SelectInSeq(x, LAMBDA y : y = "NUL") = one
    BY <2>2, FirstNul
  <2>. QED
    BY <2>1, <2>2, <2>3 DEF x, one
<1>2. CASE strings # <<>>
  <2>1. TextOf(strings) = Joined(strings)
    BY <1>2 DEF TextOf
  <2>. DEFINE x == Joined(strings)
              n == TextSize(strings)
  <2>2. n \in Nat \ {0} /\ Len(x) = n /\ \A m \in 1..n : x[m] = "NUL" <=> m = n
    BY <1>2, TextIs
  <2>. HIDE DEF x, n
  <2>3. SelectInSeq(x, LAMBDA y : y = "NUL") = n
    BY <2>2, FirstNul
  <2>. QED
    BY <2>1, <2>2, <2>3 DEF x, n
<1>. QED
  BY <1>1, <1>2

\* Counts take eight bytes each.
LEMMA ValuesFit ==
  ASSUME NEW c, NEW q, NEW n \in Nat, DOMAIN q = 1..n
  PROVE  Len(FlattenSeq([i \in DOMAIN q |-> [b \in 1..SizeOfCount |-> c[q[i]]]])) = SizeOfCount * n
<1>. DEFINE S == {c[q[i]] : i \in 1..n}
            ss == [i \in 1..n |-> [b \in 1..8 |-> c[q[i]]]]
            t == [k \in 0..n |-> 8 * k]
<1>1. \A i \in 1..n : [b \in 1..8 |-> c[q[i]]] \in [1..8 -> S]
  OBVIOUS
<1>. HIDE DEF S
<1>2. \A i \in 1..n : ss[i] \in Seq(S) /\ Len(ss[i]) = 8
  BY <1>1, FunctionIsSeq
<1>3. ss = [i \in 1..n |-> ss[i]]
  OBVIOUS
<1>. HIDE DEF ss
<1>4. ss \in [1..n -> Seq(S)]
  BY <1>2, <1>3
<1>5. ss \in Seq(Seq(S)) /\ Len(ss) = n
  BY <1>4, FunctionIsSeq
<1>6. Runs([p \in 1..Len(ss) |-> Len(ss[p])], Len(ss), t)
  <2>1. t \in [0..n -> Nat] /\ t[0] = 0
    OBVIOUS
  <2>2. \A k \in 1..n : t[k] = t[k - 1] + 8
    OBVIOUS
  <2>3. \A k \in 1..n : [p \in 1..n |-> Len(ss[p])][k] = 8
    BY <1>2
  <2>. HIDE DEF t
  <2>4. Runs([p \in 1..n |-> Len(ss[p])], n, t)
    BY <2>1, <2>2, <2>3 DEF Runs
  <2>. QED
    BY <1>5, <2>4
<1>7. t[n] = 8 * n
  OBVIOUS
<1>. HIDE DEF t
<1>8. Len(FlattenSeq(ss)) = t[n]
  BY <1>5, <1>6, FlattenRuns DEF Strings
<1>. QED
  BY <1>7, <1>8 DEF ss, SizeOfCount

\* What is copied into a buffer is as long as announced.
LEMMA ContentFits ==
  ASSUME NEW k \in Kinds, NEW c, NEW t,
         DOMAIN c \subseteq Bitstrings, IsFiniteSet(DOMAIN c),
         k = "SHOTS" => t \in Seq(Bitstrings)
  PROVE  /\ RequiredSize(k, c, t) \in Nat
         /\ Len(Content(k, c, t)) = RequiredSize(k, c, t)
         /\ k # "VALUES" =>
              SelectInSeq(Content(k, c, t), LAMBDA x : x = "NUL") = RequiredSize(k, c, t)
<1>1. CASE k = "KEYS"
  <2>1. SortedOutcomes(c) \in Seq(DOMAIN c)
    BY SortedIs
  <2>2. SortedOutcomes(c) \in Seq(Bitstrings)
    BY <2>1
  <2>3. /\ RequiredSize(k, c, t) = TextSize(SortedOutcomes(c))
        /\ Content(k, c, t) = TextOf(SortedOutcomes(c))
    BY <1>1 DEF RequiredSize, Content
  <2>. DEFINE q == SortedOutcomes(c)
  <2>. HIDE DEF q
  <2>4. /\ TextSize(q) \in Nat \ {0} /\ Len(TextOf(q)) = TextSize(q)
        /\ SelectInSeq(TextOf(q), LAMBDA x : x = "NUL") = TextSize(q)
    BY <2>2, TextFits DEF q
  <2>. QED
    BY <2>3, <2>4 DEF q
<1>2. CASE k = "VALUES"
  <2>. DEFINE q == SortedOutcomes(c)
              n == Cardinality(DOMAIN c)
  <2>1. n \in Nat /\ DOMAIN q = 1..n
    BY SortedIs
  <2>. HIDE DEF q, n
  <2>2. Len(FlattenSeq([i \in DOMAIN q |-> [b \in 1..SizeOfCount |-> c[q[i]]]])) = SizeOfCount * n
    BY <2>1, ValuesFit
  <2>3. RequiredSize(k, c, t) = SizeOfCount * n
    BY <1>2 DEF RequiredSize, n
  <2>4. Content(k, c, t) = FlattenSeq([i \in DOMAIN q |-> [b \in 1..SizeOfCount |-> c[q[i]]]])
    BY <1>2 DEF Content, q
  <2>5. SizeOfCount * n \in Nat
    BY <2>1 DEF SizeOfCount
  <2>. QED
    BY <1>2, <2>2, <2>3, <2>4, <2>5
<1>3. CASE k = "SHOTS"
  <2>1. RequiredSize(k, c, t) = TextSize(t) /\ Content(k, c, t) = TextOf(t)
    BY <1>3 DEF RequiredSize, Content
  <2>2. /\ TextSize(t) \in Nat \ {0} /\ Len(TextOf(t)) = TextSize(t)
        /\ SelectInSeq(TextOf(t), LAMBDA x : x = "NUL") = TextSize(t)
    BY <1>3, TextFits
  <2>. QED
    BY <2>1, <2>2
<1>. QED
  BY <1>1, <1>2, <1>3 DEF Kinds

-----------------------------------------------------------------------------
(* Sizes that were announced stay good *)

\* What is stored are outcomes and shots.
Stored ==
  \A p \in Programs : keys[p] # NoValue =>
    /\ DOMAIN counts[p] \subseteq Bitstrings /\ IsFiniteSet(DOMAIN counts[p])
    /\ shots[p] # NoValue => shots[p] \in Seq(Bitstrings)

LEMMA ToldAreBitstrings ==
  ASSUME NEW g, IsProgram(g), NEW o \in Orders(g)
  PROVE  Told(g, o) \in Seq(Bitstrings)
<1>. DEFINE n == Len(g.shots)
<1>1. n \in Nat /\ DOMAIN g.shots = 1..n /\ g.known \in BOOLEAN
  BY DEF IsProgram
<1>2. ASSUME NEW s \in 1..n
      PROVE  Bits(g, s, o) \in Bitstrings /\ Reverse(Bits(g, s, o)) \in Bitstrings
  <2>. DEFINE u == Bits(g, s, o)
  <2>1. u \in Seq({0, 1})
    BY <1>1, BitsAreWide
  <2>. HIDE DEF u
  <2>2. Len(u) \in Nat /\ \A i \in 1..Len(u) : u[i] \in {0, 1}
    BY <2>1
  <2>3. Reverse(u) = [i \in 1..Len(u) |-> u[(Len(u) - i) + 1]]
    BY DEF Reverse
  <2>4. Reverse(u) \in [1..Len(u) -> {0, 1}]
    BY <2>2, <2>3
  <2>5. Reverse(u) \in Seq({0, 1})
    BY <2>2, <2>4, FunctionIsSeq
  <2>. QED
    BY <2>1, <2>5 DEF u, Bitstrings
<1>3. \/ Told(g, o) = [s \in 1..n |-> Reverse(Bits(g, s, o))]
      \/ Told(g, o) = [s \in 1..n |-> Bits(g, s, o)]
  BY <1>1, ToldIs
<1>4. Told(g, o) \in [1..n -> Bitstrings]
  BY <1>2, <1>3
<1>. QED
  BY <1>1, <1>4, FunctionIsSeq

LEMMA ToldAreNoValue ==
  ASSUME NEW g, IsProgram(g), NEW o \in Orders(g)
  PROVE  (IF g.fields = <<>> THEN <<>> ELSE Told(g, o)) # NoValue
<1>1. Told(g, o) \in Seq(Bitstrings)
  BY ToldAreBitstrings
<1>2. <<>> \in Seq(Bitstrings)
  OBVIOUS
<1>. QED
  BY <1>1, <1>2, JobsAssumption DEF Bitstrings

LEMMA WhatIsStored == ResultsInv => Stored
<1>. SUFFICES ASSUME ResultsInv, NEW p \in Programs, keys[p] # NoValue
              PROVE  /\ DOMAIN counts[p] \subseteq Bitstrings /\ IsFiniteSet(DOMAIN counts[p])
                     /\ shots[p] # NoValue => shots[p] \in Seq(Bitstrings)
  BY DEF Stored
<1>. DEFINE g == job.programs[p]
            strings == Told(g, keys[p])
<1>1. job \in Jobs /\ HistogramThere
  BY HistogramCases DEF ResultsInv, NothingThere
<1>2. IsProgram(g) /\ keys[p] \in Orders(g) /\ counts[p] = Histogram(strings)
  BY <1>1, JobParts DEF HistogramThere
<1>3. strings \in Seq(Bitstrings)
  BY <1>2, ToldAreBitstrings
<1>4. shots[p] # NoValue => shots[p] = <<>> \/ shots[p] = strings
  BY DEF ResultsInv, ShotsInv
<1>. HIDE DEF strings
<1>5. Range(strings) \subseteq Bitstrings /\ IsFiniteSet(Range(strings))
  <2>1. Len(strings) \in Nat /\ DOMAIN strings = 1..Len(strings)
        /\ \A i \in 1..Len(strings) : strings[i] \in Bitstrings
    BY <1>3, SeqParts
  <2>2. IsFiniteSet(DOMAIN strings)
    BY <2>1, FS_Interval
  <2>3. Range(strings) = {strings[i] : i \in DOMAIN strings}
    BY DEF Range
  <2>4. strings \in [DOMAIN strings -> Range(strings)]
    <3>1. strings = [i \in DOMAIN strings |-> strings[i]]
      BY <1>3
    <3>. QED
      BY <2>3, <3>1
  <2>5. strings \in Surjection(DOMAIN strings, Range(strings))
    BY <2>3, <2>4 DEF Surjection
  <2>6. IsFiniteSet(Range(strings))
    BY <2>2, <2>5, FS_Surjection
  <2>. QED
    BY <2>1, <2>3, <2>6
<1>6. DOMAIN counts[p] = Range(strings)
  BY <1>2 DEF Histogram
<1>7. shots[p] # NoValue => shots[p] \in Seq(Bitstrings)
  <2>1. <<>> \in Seq(Bitstrings)
    OBVIOUS
  <2>. QED
    BY <1>3, <1>4, <2>1
<1>8. DOMAIN counts[p] \subseteq Bitstrings /\ IsFiniteSet(DOMAIN counts[p])
  BY <1>5, <1>6
<1>. QED
  BY <1>7, <1>8

\* The size of a histogram's texts and values does not depend on the shots.
LEMMA SizeOfCounts ==
  ASSUME NEW k \in Kinds, k # "SHOTS", NEW c, NEW t, NEW u
  PROVE  RequiredSize(k, c, t) = RequiredSize(k, c, u)
BY DEF RequiredSize, Kinds

\* What was announced is still there after a step.
Kept ==
  \A p \in Programs, k \in Kinds :
    announced[p][k] # NoValue =>
      /\ keys'[p] = keys[p] /\ counts'[p] = counts[p]
      /\ k = "SHOTS" => shots'[p] = shots[p]

LEMMA KeptSize ==
  ASSUME AnnouncedInv, Kept, NEW p \in Programs, NEW k \in Kinds, announced[p][k] # NoValue
  PROVE  /\ announced[p][k] \in Nat /\ keys'[p] # NoValue
         /\ k = "SHOTS" => shots'[p] # NoValue
         /\ announced[p][k] = RequiredSize(k, counts'[p], shots'[p])
<1>1. /\ announced[p][k] \in Nat /\ keys[p] # NoValue
      /\ k = "SHOTS" => shots[p] # NoValue
      /\ announced[p][k] = RequiredSize(k, counts[p], shots[p])
  BY DEF AnnouncedInv
<1>2. /\ keys'[p] = keys[p] /\ counts'[p] = counts[p]
      /\ k = "SHOTS" => shots'[p] = shots[p]
  BY DEF Kept
<1>. QED
  BY <1>1, <1>2, SizeOfCounts

LEMMA DeliverKeeps ==
  ASSUME ResultsInv', AnnouncedInv, Kept, UNCHANGED job,
         NEW q \in Programs, NEW kind \in Kinds, NEW size \in Buffers(q, kind), NEW c, NEW t,
         Deliver(q, kind, size, c, t),
         keys'[q] # NoValue, c = counts'[q],
         kind = "SHOTS" => shots'[q] # NoValue /\ t = shots'[q]
  PROVE  AnnouncedInv' /\ \A p \in Programs, k \in Kinds : SizeSuffices(p, k)
<1>. DEFINE required == RequiredSize(kind, c, t)
            content == Content(kind, c, t)
<1>1. UNCHANGED Programs
  BY TheSamePrograms
<1>2. /\ DOMAIN c \subseteq Bitstrings /\ IsFiniteSet(DOMAIN c)
      /\ kind = "SHOTS" => t \in Seq(Bitstrings)
  <2>1. Stored'
    BY WhatIsStored, PTL
  <2>. QED
    BY <1>1, <2>1 DEF Stored
<1>3. /\ required \in Nat /\ Len(content) = required
      /\ kind # "VALUES" => SelectInSeq(content, LAMBDA x : x = "NUL") = required
  BY <1>2, ContentFits
<1>4. required = RequiredSize(kind, counts'[q], shots'[q])
  BY SizeOfCounts
<1>5. announced' = [announced EXCEPT ![q][kind] = required]
  BY DEF Deliver
<1>6. \/ size = 0 /\ Return(q, kind, size, "SUCCESS", <<>>)
      \/ size # 0 /\ size < required /\ Return(q, kind, size, "INVALIDARGUMENT", <<>>)
      \/ size # 0 /\ size >= required /\ Return(q, kind, size, "SUCCESS", content)
  BY DEF Deliver
<1>. HIDE DEF required, content
<1>7. announced \in [Programs -> [Kinds -> Nat \cup {NoValue}]]
  BY DEF AnnouncedInv
<1>8. announced' \in [Programs -> [Kinds -> Nat \cup {NoValue}]]
  BY <1>3, <1>5, <1>7
<1>9. ASSUME NEW p \in Programs, NEW k \in Kinds
      PROVE  announced'[p][k] = IF p = q /\ k = kind THEN required ELSE announced[p][k]
  BY <1>5, <1>7
<1>10. announced[q][kind] # NoValue => announced[q][kind] = required
  BY <1>4, KeptSize
<1>11. AnnouncedInv'
  <2>1. ASSUME NEW p \in Programs, NEW k \in Kinds, announced'[p][k] # NoValue
        PROVE  /\ keys'[p] # NoValue
               /\ k = "SHOTS" => shots'[p] # NoValue
               /\ announced'[p][k] = RequiredSize(k, counts'[p], shots'[p])
    <3>1. CASE p = q /\ k = kind
      BY <1>4, <1>9, <3>1
    <3>2. CASE ~(p = q /\ k = kind)
      BY <1>9, <2>1, <3>2, KeptSize
    <3>. QED
      BY <3>1, <3>2
  <2>2. Programs' = Programs /\ Kinds' = Kinds
    BY <1>1 DEF Kinds
  <2>. QED
    BY <1>8, <2>1, <2>2 DEF AnnouncedInv, RequiredSize
<1>12. size \in Nat
  BY <1>7 DEF Buffers
<1>13. ASSUME NEW p \in Programs, NEW k \in Kinds PROVE SizeSuffices(p, k)
  <2>. DEFINE told == announced[p][k]
  <2>1. told # NoValue => announced'[p][k] = told
    BY <1>9, <1>10
  <2>2. /\ reply'.program = q /\ reply'.kind = kind /\ reply'.size = size
        /\ Len(reply'.written) <= size
    BY <1>3, <1>6, <1>12 DEF Return
  <2>3. ASSUME told # NoValue, p = q, k = kind, size = told, size > 0
        PROVE  /\ reply'.code = "SUCCESS" /\ Len(reply'.written) = told
               /\ k # "VALUES" => SelectInSeq(reply'.written, LAMBDA x : x = "NUL") = told
    <3>1. size = required
      BY <1>10, <2>3
    <3>2. Return(q, kind, size, "SUCCESS", content)
      BY <1>3, <1>6, <2>3, <3>1
    <3>3. reply'.code = "SUCCESS" /\ reply'.written = content
      BY <3>2 DEF Return
    <3>. QED
      BY <1>3, <2>3, <3>1, <3>3
  <2>. HIDE DEF told
  <2>. QED
    BY <2>1, <2>2, <2>3 DEF SizeSuffices, told
<1>. QED
  BY <1>11, <1>13

LEMMA FailKeeps ==
  ASSUME AnnouncedInv, Kept, UNCHANGED job,
         NEW q \in Programs, NEW kind \in Kinds, NEW size \in Buffers(q, kind),
         Fails(q, kind, size)
  PROVE  AnnouncedInv' /\ \A p \in Programs, k \in Kinds : SizeSuffices(p, k)
<1>1. Programs' = Programs /\ Kinds' = Kinds
  BY TheSamePrograms DEF Kinds
<1>2. announced' = announced /\ announced \in [Programs -> [Kinds -> Nat \cup {NoValue}]]
  BY DEF Fails, AnnouncedInv
<1>3. AnnouncedInv'
  <2>1. ASSUME NEW p \in Programs, NEW k \in Kinds, announced[p][k] # NoValue
        PROVE  /\ keys'[p] # NoValue
               /\ k = "SHOTS" => shots'[p] # NoValue
               /\ announced[p][k] = RequiredSize(k, counts'[p], shots'[p])
    BY <2>1, KeptSize
  <2>. QED
    BY <1>1, <1>2, <2>1 DEF AnnouncedInv, RequiredSize
<1>4. size \in Nat
  BY <1>2 DEF Buffers
<1>5. reply'.code = "FATAL" /\ reply'.size = size /\ reply'.written = <<>>
  BY DEF Fails, Return
<1>6. Len(reply'.written) <= reply'.size
  BY <1>4, <1>5
<1>. QED
  BY <1>2, <1>3, <1>5, <1>6 DEF SizeSuffices

\* A size that was announced of a histogram is of one that is there, and stays.
LEMMA DownloadKeeps ==
  ASSUME ResultsInv, AnnouncedInv, NEW q \in Programs, CountsAtHand(q), UNCHANGED job,
         UNCHANGED shots \/ \A p \in Programs : shots[p] = NoValue
  PROVE  Kept /\ keys'[q] # NoValue
<1>1. HistogramThere' /\ (UNCHANGED <<keys, counts>> \/ NothingThere)
  BY HistogramStays
<1>2. Kept
  BY <1>1 DEF Kept, AnnouncedInv, NothingThere
<1>3. job \in Jobs /\ IsProgram(job.programs[q])
  BY JobParts DEF ResultsInv
<1>4. keys'[q] \in Orders(job.programs[q])
  BY <1>1 DEF HistogramThere, Programs, Orders
<1>. QED
  BY <1>2, <1>3, <1>4, OrderIsValue

LEMMA NoShots ==
  ASSUME ResultsInv, NEW q \in Programs, shots[q] = NoValue
  PROVE  \A p \in Programs : shots[p] = NoValue
<1>1. ASSUME keys[q] # NoValue,
             shots[q] = IF job.programs[q].fields = <<>> THEN <<>> ELSE Told(job.programs[q], keys[q])
      PROVE  FALSE
  <2>1. job \in Jobs /\ HistogramThere
    BY <1>1, HistogramCases DEF ResultsInv, NothingThere
  <2>2. IsProgram(job.programs[q]) /\ keys[q] \in Orders(job.programs[q])
    BY <2>1, JobParts DEF HistogramThere
  <2>. QED
    BY <1>1, <2>2, ToldAreNoValue
<1>. QED
  BY <1>1 DEF ResultsInv, ShotsInv

LEMMA SizesInductive ==
  ASSUME ResultsInv, ResultsInv', AnnouncedInv, ResultsNext
  PROVE  AnnouncedInv' /\ \A p \in Programs, k \in Kinds : SizeSuffices(p, k)
<1>1. ASSUME NEW q \in Programs, NEW kind \in {"KEYS", "VALUES"}, NEW size \in Buffers(q, kind),
             GetHist(q, kind, size)
      PROVE  AnnouncedInv' /\ \A p \in Programs, k \in Kinds : SizeSuffices(p, k)
  <2>1. kind \in Kinds /\ kind # "SHOTS" /\ UNCHANGED <<job, shots>>
    BY <1>1 DEF Kinds, GetHist
  <2>2. CASE CountsAtHand(q) /\ Deliver(q, kind, size, counts'[q], NoValue)
    BY <2>1, <2>2, DownloadKeeps, DeliverKeeps
  <2>3. CASE CountsFail(q) /\ Fails(q, kind, size)
    <3>1. Kept
      BY <2>1, <2>3 DEF Kept, CountsFail
    <3>. QED
      BY <2>1, <2>3, <3>1, FailKeeps
  <2>. QED
    BY <1>1, <2>2, <2>3 DEF GetHist
<1>2. ASSUME NEW q \in Programs, NEW size \in Buffers(q, "SHOTS"), GetShots(q, size)
      PROVE  AnnouncedInv' /\ \A p \in Programs, k \in Kinds : SizeSuffices(p, k)
  <2>1. "SHOTS" \in Kinds /\ UNCHANGED job
    BY <1>2 DEF Kinds, GetShots
  <2>2. CASE /\ shots[q] # NoValue
             /\ Deliver(q, "SHOTS", size, counts[q], shots[q])
             /\ UNCHANGED <<keys, counts, shots>>
    <3>1. Kept
      BY <2>2 DEF Kept
    <3>2. keys'[q] # NoValue
      BY <2>2 DEF ResultsInv, ShotsInv
    <3>. QED
      BY <2>1, <2>2, <3>1, <3>2, DeliverKeeps
  <2>3. ASSUME shots[q] = NoValue, CountsAtHand(q),
               NEW a \in ShotsAnswers, ShotsFit(a, keys'), CommitShots(a, keys'),
               Deliver(q, "SHOTS", size, counts'[q], shots'[q])
        PROVE  AnnouncedInv' /\ \A p \in Programs, k \in Kinds : SizeSuffices(p, k)
    <3>1. Kept /\ keys'[q] # NoValue
      BY <2>1, <2>3, NoShots, DownloadKeeps
    <3>2. shots'[q] # NoValue
      <4>1. job \in Jobs /\ IsProgram(job.programs[q])
        BY JobParts DEF ResultsInv
      <4>2. keys'[q] \in Orders(job.programs[q])
        BY <2>1, <2>3, HistogramStays DEF HistogramThere, Programs, Orders
      <4>3. shots'[q] = IF job.programs[q].fields = <<>> THEN <<>>
                        ELSE Told(job.programs[q], keys'[q])
        BY <2>1, <2>3, ShotsComeIn
      <4>. QED
        BY <4>1, <4>2, <4>3, ToldAreNoValue
    <3>. QED
      BY <2>1, <2>3, <3>1, <3>2, DeliverKeeps
  <2>4. CASE /\ shots[q] = NoValue /\ CountsAtHand(q)
             /\ Fails(q, "SHOTS", size) /\ UNCHANGED shots
    BY <2>1, <2>4, DownloadKeeps, FailKeeps
  <2>5. CASE /\ shots[q] = NoValue /\ CountsFail(q)
             /\ Fails(q, "SHOTS", size) /\ UNCHANGED shots
    <3>1. Kept
      BY <2>5 DEF Kept, CountsFail
    <3>. QED
      BY <2>1, <2>5, <3>1, FailKeeps
  <2>. QED
    BY <1>2, <2>2, <2>3, <2>4, <2>5 DEF GetShots
<1>. QED
  BY <1>1, <1>2 DEF ResultsNext

\* A size that was announced stays good, whatever is downloaded, refused or asked
\* for in between: a buffer of that size is filled to its last byte.
THEOREM SizesSuffice == ResultsSpec => AnnouncedSizeSuffices
<1>1. ResultsInit => AnnouncedInv
  BY DEF ResultsInit, AnnouncedInv
<1>2. ASSUME ResultsInv, ResultsInv', AnnouncedInv, [ResultsNext]_resultVars
      PROVE  AnnouncedInv' /\ [\A p \in Programs, k \in Kinds : SizeSuffices(p, k)]_resultVars
  <2>1. CASE ResultsNext
    BY <1>2, <2>1, SizesInductive
  <2>2. CASE UNCHANGED resultVars
    <3>1. AnnouncedInv'
      BY <1>2, <2>2 DEF resultVars, AnnouncedInv, Programs, Kinds, RequiredSize
    <3>. QED
      BY <2>2, <3>1
  <2>. QED
    BY <1>2, <2>1, <2>2
<1>. QED
  BY <1>1, <1>2, ResultsAreTheShots, PTL DEF ResultsSpec, AnnouncedSizeSuffices
-----------------------------------------------------------------------------
(* Types *)

ReplyInv == reply.code \in {"SUCCESS", "INVALIDARGUMENT", "FATAL"}

LEMMA RepliesAreTyped ==
  ASSUME ReplyInv, [ResultsNext]_resultVars
  PROVE  ReplyInv'
<1>1. ASSUME NEW p, NEW k, NEW size, NEW c, NEW t, Deliver(p, k, size, c, t) PROVE ReplyInv'
  BY <1>1 DEF Deliver, Return, ReplyInv
<1>2. ASSUME NEW p, NEW k, NEW size, Fails(p, k, size) PROVE ReplyInv'
  BY <1>2 DEF Fails, Return, ReplyInv
<1>3. ASSUME NEW p, NEW k, NEW size, GetHist(p, k, size) PROVE ReplyInv'
  BY <1>1, <1>2, <1>3, Zenon DEF GetHist
<1>4. ASSUME NEW p, NEW size, GetShots(p, size) PROVE ReplyInv'
  BY <1>1, <1>2, <1>4, Zenon DEF GetShots
<1>5. CASE UNCHANGED resultVars
  BY <1>5 DEF resultVars, ReplyInv
<1>. QED
  BY <1>3, <1>4, <1>5, Zenon DEF ResultsNext

\* The histogram of some bitstrings counts bitstrings, each at least once.
LEMMA HistogramIsTyped ==
  ASSUME NEW strings \in Seq(Bitstrings)
  PROVE  IsHistogram(Histogram(strings))
<1>. DEFINE h == Histogram(strings)
            At(o) == {s \in DOMAIN strings : strings[s] = o}
<1>1. /\ Len(strings) \in Nat /\ DOMAIN strings = 1..Len(strings)
      /\ \A i \in 1..Len(strings) : strings[i] \in Bitstrings
  BY SeqParts
<1>2. Range(strings) = {strings[i] : i \in DOMAIN strings}
  BY DEF Range
<1>3. h = [o \in Range(strings) |-> Cardinality(At(o))]
  BY DEF Histogram
<1>4. ASSUME NEW o \in Range(strings) PROVE Cardinality(At(o)) \in Nat \ {0}
  <2>1. At(o) # {} /\ At(o) \subseteq 1..Len(strings)
    BY <1>1, <1>2
  <2>2. IsFiniteSet(1..Len(strings))
    BY <1>1, FS_Interval
  <2>. HIDE DEF At
  <2>3. IsFiniteSet(At(o))
    BY <2>1, <2>2, FS_Subset
  <2>. QED
    BY <2>1, <2>3, FS_CardinalityType, FS_EmptySet
<1>5. DOMAIN h = Range(strings) /\ Range(strings) \subseteq Bitstrings
  BY <1>1, <1>2, <1>3
<1>6. Range(h) = {h[o] : o \in DOMAIN h}
  BY DEF Range
<1>7. \A o \in DOMAIN h : h[o] \in Nat \ {0}
  BY <1>3, <1>4, <1>5
<1>. HIDE DEF h
<1>8. Range(h) \subseteq Nat \ {0}
  BY <1>6, <1>7
<1>. QED
  BY <1>5, <1>8 DEF IsHistogram, h

LEMMA ResultsAreTyped ==
  ASSUME ResultsInv, AnnouncedInv, ReplyInv
  PROVE  ResultsTypeOK
<1>1. job \in Jobs /\ Stored /\ HistogramInv
  BY WhatIsStored DEF ResultsInv
<1>2. ASSUME NEW p \in Programs, keys[p] = NoValue PROVE counts[p] = NoValue
  <2>1. CASE NothingThere
    BY <2>1 DEF NothingThere
  <2>2. CASE HistogramThere
    <3>1. IsProgram(job.programs[p]) /\ keys[p] \in Orders(job.programs[p])
      BY <1>1, <2>2, JobParts DEF HistogramThere
    <3>. QED
      BY <1>2, <3>1, OrderIsValue
  <2>. QED
    BY <1>1, <2>1, <2>2, HistogramCases
<1>3. ASSUME NEW p \in Programs, keys[p] # NoValue
      PROVE  Range(keys[p]) \subseteq STRING /\ IsHistogram(counts[p])
  <2>. DEFINE g == job.programs[p]
  <2>1. HistogramThere
    BY <1>1, <1>3, HistogramCases DEF NothingThere
  <2>2. IsProgram(g) /\ keys[p] \in Orders(g) /\ counts[p] = Histogram(Told(g, keys[p]))
    BY <1>1, <2>1, JobParts DEF HistogramThere
  <2>3. keys[p] \in [1..Len(g.fields) -> STRING]
    BY <2>2, OrderFacts
  <2>4. Range(keys[p]) = {keys[p][i] : i \in DOMAIN keys[p]}
    BY DEF Range
  <2>5. Range(keys[p]) \subseteq STRING
    BY <2>3, <2>4
  <2>6. IsHistogram(counts[p])
    BY <2>2, ToldAreBitstrings, HistogramIsTyped
  <2>. QED
    BY <2>5, <2>6
<1>4. ASSUME NEW p \in Programs, shots[p] # NoValue PROVE Range(shots[p]) \subseteq Bitstrings
  <2>1. keys[p] # NoValue
    BY <1>4 DEF ResultsInv, ShotsInv
  <2>2. shots[p] \in Seq(Bitstrings)
    BY <1>1, <1>4, <2>1 DEF Stored
  <2>3. DOMAIN shots[p] = 1..Len(shots[p]) /\ \A i \in 1..Len(shots[p]) : shots[p][i] \in Bitstrings
    BY <2>2, SeqParts
  <2>4. Range(shots[p]) = {shots[p][i] : i \in DOMAIN shots[p]}
    BY DEF Range
  <2>. QED
    BY <2>3, <2>4
<1>5. ASSUME NEW p \in Programs PROVE Range(announced[p]) \subseteq Nat \cup {NoValue}
  <2>1. announced[p] \in [Kinds -> Nat \cup {NoValue}]
    BY DEF AnnouncedInv
  <2>2. Range(announced[p]) = {announced[p][k] : k \in DOMAIN announced[p]}
    BY DEF Range
  <2>. QED
    BY <2>1, <2>2
<1>. QED
  BY <1>2, <1>3, <1>4, <1>5, Zenon DEF ResultsTypeOK, ReplyInv

\* The caches of a job's results hold what their types say.
THEOREM KeepsResultTypes == ResultsSpec => []ResultsTypeOK
<1>1. ResultsInit => AnnouncedInv /\ ReplyInv
  BY DEF ResultsInit, AnnouncedInv, Nothing, ReplyInv
<1>2. ASSUME ResultsInv, ResultsInv', AnnouncedInv, ReplyInv, [ResultsNext]_resultVars
      PROVE  AnnouncedInv' /\ ReplyInv'
  <2>1. CASE ResultsNext
    BY <1>2, <2>1, SizesInductive, RepliesAreTyped
  <2>2. CASE UNCHANGED resultVars
    <3>1. AnnouncedInv'
      BY <1>2, <2>2 DEF resultVars, AnnouncedInv, Programs, Kinds, RequiredSize
    <3>. QED
      BY <1>2, <3>1, RepliesAreTyped
  <2>. QED
    BY <1>2, <2>1, <2>2
<1>3. ResultsInv /\ AnnouncedInv /\ ReplyInv => ResultsTypeOK
  BY ResultsAreTyped
<1>. QED
  BY <1>1, <1>2, <1>3, ResultsAreTheShots, PTL DEF ResultsSpec

\* A behaviour of all parts is one of each: every part keeps to its types.
THEOREM KeepsTypes == Spec => []TypeOK
<1>1. Init => ResultsInit /\ ModelInit /\ StatusInit
  BY Zenon DEF Init
<1>2. ASSUME [Next]_vars
      PROVE  [ResultsNext]_resultVars /\ [ModelNext]_modelVars /\ [StatusNext]_statusVars
  BY <1>2, Zenon DEF Next, vars
<1>3. Spec => ResultsSpec /\ ModelSpec /\ StatusSpec
  BY <1>1, <1>2, PTL DEF Spec, ResultsSpec, ModelSpec, StatusSpec
<1>. QED
  BY <1>3, KeepsResultTypes, KeepsModelTypes, StatusInvariance, PTL DEF TypeOK
=============================================================================
