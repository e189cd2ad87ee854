----------------------------- MODULE TokenText ------------------------------
(***************************************************************************)
(* The expiry of an access token (src/src/internal/iqm_auth.cpp,           *)
(* Base64_decode and TokenManager::time_left_seconds).  A token is a JSON  *)
(* Web Token: header, payload and signature in base64, separated by dots,  *)
(* here the sequence of its parts.  Characters are their ASCII codes.      *)
(* TokenManager uses the result.                                           *)
(***************************************************************************)
EXTENDS Integers, SequencesExt

CONSTANTS
  ExpOf,     \* for each payload, a sequence of bytes, its "exp", or 0
  Now,       \* std::time
  Strays,    \* characters that may end up behind a payload
  NoToken    \* no token yet

Payloads == DOMAIN ExpOf

\* Payloads are JSON objects: they end with a brace, and none is the beginning of
\* another.  A dot would begin another part.
ASSUME PayloadsAssumption ==
  /\ \A d \in Payloads : d \in Seq(0..255) /\ d # <<>> /\ d[Len(d)] = 125
  /\ \A d, e \in Payloads : IsPrefix(d, e) => d = e
  /\ Strays \subseteq 0..255 \ {46}

VARIABLES
  payload,   \* what the token says
  text,      \* the token, or NoToken
  intact,    \* whether it is as its issuer wrote it
  timeLeft   \* what time_left_seconds returned, or -1

tokenTextVars == <<payload, text, intact, timeLeft>>

Pad == 61    \* =

-----------------------------------------------------------------------------
(* RFC 4648: what an issuer writes *)

Letter(n, url) ==
  CASE n \in 0..25  -> n + 65
    [] n \in 26..51 -> n + 71
    [] n \in 52..61 -> n - 4
    [] n = 62       -> IF url THEN 45 ELSE 43
    [] n = 63       -> IF url THEN 95 ELSE 47

\* Three bytes, or what there is of them, are 24 bits and make four sextets.
Group(bytes, q) ==
  LET at(i) == IF 3 * q + i <= Len(bytes) THEN bytes[3 * q + i] ELSE 0
  IN  at(1) * 65536 + at(2) * 256 + at(3)
SixBits(bytes, k) == (Group(bytes, k \div 4) \div <<262144, 4096, 64, 1>>[(k % 4) + 1]) % 64

Encoded(bytes, url, padded) ==
  LET n == (8 * Len(bytes) + 5) \div 6
      full == IF padded THEN ((n + 3) \div 4) * 4 ELSE n
  IN  [k \in 1..full |-> IF k <= n THEN Letter(SixBits(bytes, k - 1), url) ELSE Pad]

-----------------------------------------------------------------------------
(* What the session reads *)

StandardTable(c) ==
  CASE c \in 65..90  -> c - 65
    [] c \in 97..122 -> c - 71
    [] c \in 48..57  -> c + 4
    [] c = 43        -> 62
    [] c = 47        -> 63
    [] OTHER         -> -1

\* DECODE_TABLE, which has both alphabets.
DECODE_TABLE(c) ==
  CASE c \in 65..90    -> c - 65
    [] c \in 97..122   -> c - 71
    [] c \in 48..57    -> c + 4
    [] c \in {43, 45}  -> 62
    [] c \in {47, 95}  -> 63
    [] OTHER           -> -1

\* The padding at the end, two characters at most.
Padding(chars) ==
  LET pad(i) == IF i > 0 /\ chars[i] = Pad THEN 1 ELSE 0
  IN  pad(Len(chars)) + pad(Len(chars) - 1)

Sextet(chars, i) ==
  IF i > Len(chars) \/ chars[i] = Pad THEN 0 ELSE DECODE_TABLE(chars[i])

\* Of the sum of four shifted sextets only the low 24 bits are used.
Triple(chars, q) ==
  (Sextet(chars, 4 * q + 1) * 262144 + Sextet(chars, 4 * q + 2) * 4096
     + Sextet(chars, 4 * q + 3) * 64 + Sextet(chars, 4 * q + 4)) % 16777216

Base64_decode(chars) ==
  [j \in 1..((Len(chars) * 3) \div 4 - Padding(chars)) |->
     (Triple(chars, (j - 1) \div 3) \div <<65536, 256, 1>>[((j - 1) % 3) + 1]) % 256]

PaddedToFour(chars) == chars \o [i \in 1..((4 - (Len(chars) % 4)) % 4) |-> Pad]

\* nlohmann::json reads a document up to the end of the text or to a NUL, with
\* nothing but blanks behind it.
Blanks == {9, 10, 13, 32}
Parses(bytes, document) ==
  /\ IsPrefix(document, bytes)
  /\ \E end \in Len(document)..Len(bytes) :
       /\ \A i \in (Len(document) + 1)..end : bytes[i] \in Blanks
       /\ end = Len(bytes) \/ bytes[end + 1] = 0

LifeLeft(document) == IF ExpOf[document] > Now THEN ExpOf[document] - Now ELSE 0

\* Anything that is not three parts, or whose second one cannot be read, has no
\* time left.
time_left_seconds(token) ==
  IF Len(token) # 3 THEN 0
  ELSE LET bytes == Base64_decode(PaddedToFour(token[2]))
           read == {d \in Payloads : Parses(bytes, d)}
       IN  IF read = {} THEN 0 ELSE LifeLeft(CHOOSE d \in read : TRUE)

-----------------------------------------------------------------------------

TextInit == payload = <<>> /\ text = NoToken /\ intact = TRUE /\ timeLeft = -1

\* Issuers differ in the alphabet and in leaving the padding off.
Issue ==
  /\ text = NoToken
  /\ payload' \in Payloads
  /\ \E url, padded \in BOOLEAN :
       text' = <<<<72>>, Encoded(payload', url, padded), <<83>>>>
  /\ UNCHANGED <<intact, timeLeft>>

\* A token is copied with a character too few or too many, or without a part.
Damage ==
  /\ text # NoToken /\ intact /\ timeLeft = -1
  /\ \/ \E c \in Strays : text' = [text EXCEPT ![2] = Append(@, c)]
     \/ text' = [text EXCEPT ![2] = Front(@)]
     \/ text' = Front(text)
  /\ intact' = FALSE
  /\ UNCHANGED <<payload, timeLeft>>

ReadExpiry ==
  /\ text # NoToken /\ timeLeft = -1
  /\ timeLeft' = time_left_seconds(text)
  /\ UNCHANGED <<payload, text, intact>>

TextNext == Issue \/ Damage \/ ReadExpiry

TextSpec == TextInit /\ [][TextNext]_tokenTextVars

-----------------------------------------------------------------------------
(* Properties *)

\* The time a token has left is that of its payload, whatever its length leaves
\* of the last group of characters and whichever alphabet and padding its issuer
\* uses; a token that was damaged has none or, if its payload can still be read,
\* the same, but never another one.
ExpiryIsRead ==
  timeLeft # -1 =>
    IF intact THEN timeLeft = LifeLeft(payload) ELSE timeLeft \in {0, LifeLeft(payload)}
=============================================================================
