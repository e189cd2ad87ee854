---------------------------- MODULE MCDeviceData ----------------------------
(* A small instance of DeviceData for TLC. *)
EXTENDS DeviceData, MCSessionSettings

\* Programs of one or two measurements with their shots.
Field1(k, w) == [key |-> k, width |-> w]
Uneven == <<Field1("m", 2), Field1("n", 1)>>
Even   == <<Field1("m", 1), Field1("n", 1)>>
Shot(m, n) == [m |-> m, n |-> n]
Program(f, k, s) == [fields |-> f, known |-> k, shots |-> s]
Job(r, ps) == [retrieved |-> r, programs |-> ps]

\* Unequal and equal widths, known and unknown layouts, a pair of programs, shots
\* lost to heralding, fewer shots than were asked for, one measurement or none.
MCJobs ==
  LET u == <<Shot(<<0, 1>>, <<1>>), Shot(<<1, 1>>, <<0>>)>>
      e == <<Shot(<<0>>, <<1>>), Shot(<<0>>, <<1>>)>>
  IN  {Job(FALSE, <<Program(Uneven, TRUE, u)>>),
       Job(FALSE, <<Program(Uneven, TRUE, u), Program(Even, FALSE, e)>>),
       Job(TRUE, <<Program(Even, TRUE, Tail(e)), Program(Uneven, TRUE, <<>>)>>),
       Job(FALSE, <<Program(Even, TRUE, Tail(e))>>),
       Job(TRUE, <<Program(Tail(Uneven), TRUE, u)>>),
       Job(FALSE, <<Program(<<>>, TRUE, <<>>)>>)}

\* Two qubits and a resonator, with couplings that are sound or not.
MCArchitectures ==
  [qubits : {<<"q1", "q2">>}, resonators : {<<>>, <<"r">>},
   connectivity : {<<>>, <<<<"q1", "q2">>>>, <<<<"q2", "r">>>>}]

Implemented(l) == [default |-> "i", loci |-> [i |-> l, o |-> <<<<"q1">>>>]]
MCGateSets ==
  [{"prx", "cz"} -> {Implemented(l) :
      l \in {<<>>, <<<<"q1">>, <<"q2">>>>, <<<<"q1", "q2">>>>, <<<<"q1", "q2">>, <<"q2", "q1">>>>,
             <<<<"q1", "q2">>, <<"q1">>>>, <<<<>>>>}}]
  \cup {[g \in {"move", "cc_prx", "prx_12"} |->
           CASE g = "move" -> Implemented(<<<<"q1", "r">>>>)
             [] g = "cc_prx" -> Implemented(<<<<"q9">>>>)
             [] g = "prx_12" -> Implemented(<<<<"q2">>>>)]}

Observe(f, i, v) == [field |-> f, invalid |-> i, value |-> v]
MCObservations ==
  LET cz == <<"cz", "i", <<"q1", "q2">>>>
      times == {NotFinite, -2, 0, 1, 2, 5, 2 * TooMany - 1, 2 * TooMany, 2 * TooMany + 3}
  IN  {<<Observe(<<"t1", "q1">>, FALSE, v), Observe(<<"t2", "q1">>, v = 5, v)>> : v \in times}
      \cup {<<Observe(cz, FALSE, 0), Observe(cz, i, 0), Observe(<<"prx", "o", <<"q1">>>>, FALSE, 0),
              Observe(<<"prx", "i", <<"q2">>>>, i, 0),
              Observe(<<"cz", "i", <<"q2", "q1">>>>, i, 0)>> : i \in BOOLEAN}

\* Payloads between braces, up to four bytes long inside, whose sextets are of every
\* kind, each with a life of its own or none; a stray letter, digit, sign, or pad.
MCExpOf ==
  LET inner == UNION {[1..n -> {48, 62, 63, 113}] : n \in 0..4}
      digit == (48 :> 1) @@ (62 :> 2) @@ (63 :> 3) @@ (113 :> 4)
      code(b) == FoldLeft(LAMBDA n, x : 5 * n + digit[x], 0, b)
      payloads == {<<123>> \o b \o <<125>> : b \in inner}
  IN  [p \in payloads |-> code(SubSeq(p, 2, Len(p) - 1))]
MCStrays == {65, 73, 97, 43, 126, 61}
=============================================================================
