---------------------------- MODULE TelnetProofs ----------------------------
(***************************************************************************)
(* Proofs about module TelnetInput: for every number of tokens and every   *)
(* cut of their bytes, the lines handled are the lines said less the bytes *)
(* that were escaped, every question is answered in its turn, and no       *)
(* session ends for the way it was cut.  The invariant is about what the   *)
(* server makes of the tokens (Receives); what the client means by them    *)
(* (Hears) is compared with it at the end (Views).                         *)
(***************************************************************************)
EXTENDS TelnetInput, SequenceLemmas

(* The table of tokens.                                                    *)

LEMMA CodeTable ==
  /\ Code["a"] = <<"a">> /\ Code["space"] = <<"space">> /\ Code["line"] = <<"CR", "LF">>
  /\ Code["data"] = <<"IAC", "IAC">> /\ Code["nop"] = <<"IAC", "NOP">>
  /\ Code["ayt"] = <<"IAC", "AYT">> /\ Code["ec"] = <<"IAC", "EC">>
  /\ Code["el"] = <<"IAC", "EL">> /\ Code["ga"] = <<"IAC", "GA">>
  /\ Code["will"] = <<"IAC", "WILL", "echo">> /\ Code["wont"] = <<"IAC", "WONT", "echo">>
  /\ Code["do"] = <<"IAC", "DO", "echo">> /\ Code["do0"] = <<"IAC", "DO", "NUL">>
  BY DEF Code

LEMMA TokensListed ==
  Tokens = {"a", "space", "line", "data", "nop", "ayt", "ec", "el", "ga", "will", "wont", "do", "do0"}
  BY DEF Tokens, Code

\* A code is one to three bytes.
LEMMA CodeLengths ==
  ASSUME NEW t \in Tokens
  PROVE  Len(Code[t]) = IF t \in {"a", "space"} THEN 1
                        ELSE IF t \in {"will", "wont", "do", "do0"} THEN 3 ELSE 2
<1>1. /\ Len(Code["a"]) = 1 /\ Len(Code["space"]) = 1
  BY CodeTable
<1>2. /\ Len(Code["will"]) = 3 /\ Len(Code["wont"]) = 3 /\ Len(Code["do"]) = 3
      /\ Len(Code["do0"]) = 3
  BY CodeTable
<1>3. /\ Len(Code["line"]) = 2 /\ Len(Code["data"]) = 2 /\ Len(Code["nop"]) = 2
      /\ Len(Code["ayt"]) = 2 /\ Len(Code["ec"]) = 2 /\ Len(Code["el"]) = 2
      /\ Len(Code["ga"]) = 2
  BY CodeTable
<1> QED BY <1>1, <1>2, <1>3, TokensListed

Octets == {"a", "space", "CR", "LF", "IAC", "NOP", "AYT", "EC", "EL", "GA", "WILL", "WONT", "DO",
            "echo", "NUL"}

LEMMA CodeTyped ==
  ASSUME NEW t \in Tokens
  PROVE  Code[t] \in Seq(Bytes) /\ Len(Code[t]) \in 1..3
<1>1. Code[t] \in Seq(Octets) /\ Len(Code[t]) \in 1..3
  <2>1. /\ Code["a"] \in Seq(Octets) /\ Code["space"] \in Seq(Octets)
        /\ Code["line"] \in Seq(Octets) /\ Code["data"] \in Seq(Octets)
    BY CodeTable DEF Octets
  <2>2. /\ Code["nop"] \in Seq(Octets) /\ Code["ayt"] \in Seq(Octets)
        /\ Code["ec"] \in Seq(Octets) /\ Code["el"] \in Seq(Octets)
        /\ Code["ga"] \in Seq(Octets)
    BY CodeTable DEF Octets
  <2>3. /\ Code["will"] \in Seq(Octets) /\ Code["wont"] \in Seq(Octets)
        /\ Code["do"] \in Seq(Octets) /\ Code["do0"] \in Seq(Octets)
    BY CodeTable DEF Octets
  <2> QED BY <2>1, <2>2, <2>3, CodeLengths, TokensListed
<1>2. \A i \in 1..Len(Code[t]) : Code[t][i] \in ToSet(Code[t])
  BY <1>1 DEF ToSet
<1>3. \A i \in 1..Len(Code[t]) : Code[t][i] \in Bytes
  BY <1>2 DEF Bytes
<1> QED BY <1>1, <1>3

\* The recursion of Encoded has a solution.
LEMMA EncodedDefined ==
  ASSUME NEW tokens \in Seq(Tokens)
  PROVE  /\ Encoded(tokens) \in [0..Len(tokens) -> Seq(Bytes)]
         /\ Encoded(tokens)[0] = <<>>
         /\ \A k \in 1..Len(tokens) : Encoded(tokens)[k] = Encoded(tokens)[k - 1] \o Code[tokens[k]]
<1> DEFINE n == Len(tokens)
           step == [k \in 1..n |-> [q \in Seq(Bytes) |-> q \o Code[tokens[k]]]]
           E(f) == [k \in 0..n |-> IF k = 0 THEN <<>> ELSE f[k - 1] \o Code[tokens[k]]]
<1>0. n \in Nat
  OBVIOUS
<1>1. \A k \in 1..n : Code[tokens[k]] \in Seq(Bytes)
  BY CodeTyped
<1>2. step \in [1..n -> [Seq(Bytes) -> Seq(Bytes)]] /\ <<>> \in Seq(Bytes)
  BY <1>1
<1>3. PICK f : Solves(f, n, Seq(Bytes), <<>>, step)
  <2> HIDE DEF step, n
  <2> QED BY <1>0, <1>2, RecursionDefines
<1>4. /\ f \in [0..n -> Seq(Bytes)] /\ f[0] = <<>>
      /\ \A k \in 1..n : f[k] = f[k - 1] \o Code[tokens[k]]
  <2>1. f \in [0..n -> Seq(Bytes)] /\ f[0] = <<>> /\ \A k \in 1..n : f[k] = step[k][f[k - 1]]
    BY <1>3 DEF Solves
  <2>2. ASSUME NEW k \in 1..n PROVE f[k] = f[k - 1] \o Code[tokens[k]]
    <3>1. f[k - 1] \in Seq(Bytes)
      BY <2>1
    <3> QED BY <2>1, <3>1
  <2> QED BY <2>1, <2>2
<1>5. ASSUME NEW e, NEW h, e = E(h)
      PROVE  e[0] = <<>> /\ \A k \in 1..n : e[k] = h[k - 1] \o Code[tokens[k]]
  <2>1. \A k \in 0..n : e[k] = IF k = 0 THEN <<>> ELSE h[k - 1] \o Code[tokens[k]]
    BY <1>5
  <2>2. \A k \in 1..n : k \in 0..n /\ k # 0
    BY <1>0
  <2>3. 0 \in 0..n
    BY <1>0
  <2> HIDE DEF E
  <2> QED BY <2>1, <2>2, <2>3, Zenon
<1>6. f = E(f)
  <2> DEFINE e == E(f)
  <2>1. e = [k \in 0..n |-> e[k]] /\ f = [k \in 0..n |-> f[k]]
    BY <1>4
  <2>2. e[0] = f[0] /\ \A k \in 1..n : e[k] = f[k]
    <3>1. e = E(f)
      OBVIOUS
    <3> HIDE DEF E, e
    <3> QED BY <1>4, <1>5, <3>1
  <2>3. \A k \in 0..n : e[k] = f[k]
    <3> HIDE DEF e
    <3> QED BY <1>0, <2>2
  <2> HIDE DEF e
  <2>4. e = f
    BY <2>1, <2>3
  <2> QED BY <2>4 DEF e
<1>7. Encoded(tokens) = E(Encoded(tokens))
  <2>1. Encoded(tokens) = CHOOSE e : e = E(e)
    BY DEF Encoded
  <2> HIDE DEF E
  <2> QED BY <1>6, <2>1, Zenon
<1> DEFINE g == Encoded(tokens)
<1>8. g[0] = <<>> /\ \A k \in 1..n : g[k] = g[k - 1] \o Code[tokens[k]]
  <2> HIDE DEF E
  <2> QED BY <1>5, <1>7
<1>9. \A k \in 0..n : g[k] = f[k]
  <2>1. \A k \in 1..n : g[k - 1] = f[k - 1] => g[k] = f[k]
    BY <1>4, <1>8
  <2>2. g[0] = f[0]
    BY <1>4, <1>8
  <2> HIDE DEF g, n
  <2> QED BY <1>0, <2>1, <2>2, RecursionUnique, SMTT(60)
<1>10. g = [k \in 0..n |-> g[k]]
  BY <1>7
<1> QED BY <1>4, <1>8, <1>9, <1>10

-----------------------------------------------------------------------------
(* What the server makes of the words.                                     *)

Letters == {"a", "space"}
Commands == Seq(Seq({"a", "A", "space"}))
Outputs == Seq(Bytes \cup {"HELLO", "DONT"})

Senses ==
  {s \in [lines : Seq(Commands), answers : Seq(Outputs), verb : Seq({"A"}), arg : Seq(Letters),
          inArg : BOOLEAN, torn : BOOLEAN] : s.inArg \/ s.arg = <<>>}

LEMMA MinIs ==
  ASSUME NEW T \in SUBSET Nat, NEW m \in T, \A i \in T : m <= i
  PROVE  Min(T) = m
<1>1. \A x \in T : (\A y \in T : x <= y) => x = m
  OBVIOUS
<1> QED BY <1>1 DEF Min

LEMMA MaxIs ==
  ASSUME NEW T \in SUBSET Nat, NEW m \in T, \A i \in T : m >= i
  PROVE  Max(T) = m
<1>1. \A x \in T : (\A y \in T : x >= y) => x = m
  OBVIOUS
<1> QED BY <1>1 DEF Max

\* The words of s as text.
Words(s, t) ==
  LET n == Len(s.verb) IN
    /\ t \in Seq(Letters)
    /\ s.inArg => /\ Len(t) = n + 1 + Len(s.arg) /\ t[n + 1] = "space"
                  /\ \A i \in 1..Len(s.arg) : t[n + 1 + i] = s.arg[i]
    /\ ~s.inArg => Len(t) = n
    /\ \A i \in 1..n : t[i] = "a"

LEMMA TypedIs ==
  ASSUME NEW s \in Senses
  PROVE  Words(s, Typed(s))
<1> DEFINE v == [i \in DOMAIN s.verb |-> "a"]
           a == s.arg
           n == Len(s.verb)
<1>1. s.verb \in Seq({"A"}) /\ a \in Seq(Letters) /\ s.inArg \in BOOLEAN /\ n \in Nat
  BY DEF Senses
<1>2. v \in Seq(Letters) /\ Len(v) = n /\ \A i \in 1..n : v[i] = "a"
  BY <1>1 DEF Letters
<1>3. "space" \in Letters
  BY DEF Letters
<1>4. Typed(s) = v \o (IF s.inArg THEN <<"space">> \o a ELSE <<>>)
  BY DEF Typed
<1> HIDE DEF v, a, n
<1>5. CASE s.inArg
  <2> DEFINE t == v \o (<<"space">> \o a)
  <2>1. /\ t \in Seq(Letters) /\ Len(t) = Len(v) + 1 + Len(a)
        /\ \A i \in 1..Len(v) : t[i] = v[i]
        /\ t[Len(v) + 1] = "space"
        /\ \A i \in 1..Len(a) : t[Len(v) + 1 + i] = a[i]
    <3>1. v \in Seq(Letters) /\ a \in Seq(Letters)
      BY <1>1, <1>2
    <3>2. t = v \o (<<"space">> \o a)
      OBVIOUS
    <3> HIDE DEF t
    <3> QED BY <1>3, <3>1, <3>2, ConcatOne
  <2>2. Typed(s) = t
    BY <1>4, <1>5
  <2> HIDE DEF t
  <2>3. Words(s, t)
    BY <1>1, <1>2, <1>5, <2>1 DEF Words, a, n
  <2> QED BY <2>2, <2>3
<1>6. CASE ~s.inArg
  <2>1. Typed(s) = v
    BY <1>2, <1>4, <1>6
  <2> QED BY <1>1, <1>2, <1>6, <2>1 DEF Words, n
<1> QED BY <1>1, <1>5, <1>6

LEMMA CommandTyped ==
  ASSUME NEW s \in Senses
  PROVE  ParseCommand(Typed(s)) = IF s.inArg THEN <<s.verb, s.arg>>
                                  ELSE IF s.verb = <<>> THEN <<>> ELSE <<s.verb>>
<1> DEFINE t == Typed(s)
           spaces == {i \in DOMAIN t : t[i] \in {"space", "CR", "LF"}}
           v == s.verb
           a == s.arg
           n == Len(v)
<1>1. v \in Seq({"A"}) /\ a \in Seq(Letters) /\ s.inArg \in BOOLEAN /\ n \in Nat /\ Len(a) \in Nat
  BY DEF Senses
<1>2. /\ t \in Seq(Letters) /\ \A i \in 1..n : t[i] = "a"
      /\ s.inArg => /\ Len(t) = n + 1 + Len(a) /\ t[n + 1] = "space"
                    /\ \A i \in 1..Len(a) : t[n + 1 + i] = a[i]
      /\ ~s.inArg => Len(t) = n
  BY TypedIs DEF Words
<1>3. ParseCommand(t) = IF t = <<>> THEN <<>>
                        ELSE IF spaces = {} THEN <<Upper(t)>>
                        ELSE <<Upper(SubSeq(t, 1, Min(spaces) - 1)), SubSeq(t, Min(spaces) + 1, Len(t))>>
  BY DEF ParseCommand
<1>4. DOMAIN t = 1..Len(t) /\ Len(t) \in Nat /\ spaces \in SUBSET (1..Len(t))
      /\ \A i \in 1..Len(t) : i \in spaces <=> t[i] = "space"
  BY <1>2 DEF Letters
<1> HIDE DEF t, spaces, v, a
<1>5. ASSUME NEW x \in Seq(Letters), Len(x) = n, \A i \in 1..n : x[i] = "a" PROVE Upper(x) = v
  <2>1. Upper(x) \in Seq({"A"}) /\ Len(Upper(x)) = n
    BY <1>5 DEF Upper
  <2> QED BY <1>1, <2>1
<1>6. CASE s.inArg
  <2>1. n \in 0..Len(t) /\ n + 1 \in 1..Len(t) /\ Len(t) - (n + 1) = Len(a)
        /\ \A i \in 1..n : i \in 1..Len(t)
    BY <1>1, <1>2, <1>6
  <2>2. n + 1 \in spaces /\ \A i \in spaces : n + 1 <= i
    BY <1>1, <1>2, <1>4, <1>6, <2>1
  <2>3. Min(spaces) = n + 1
    BY <1>4, <2>2, MinIs
  <2>4. Upper(SubSeq(t, 1, n)) = v
    <3>1. LET u == SubSeq(t, 1, n) IN u \in Seq(Letters) /\ Len(u) = n /\ \A i \in 1..n : u[i] = t[i]
      BY <1>2, <2>1, PrefixIs
    <3> QED BY <1>2, <1>5, <3>1
  <2>5. SubSeq(t, (n + 1) + 1, Len(t)) = a
    <3> DEFINE u == SubSeq(t, (n + 1) + 1, Len(t))
    <3>1. u \in Seq(Letters) /\ Len(u) = Len(a) /\ \A i \in 1..Len(a) : u[i] = t[n + 1 + i]
      <4>1. n + 1 \in 0..Len(t)
        BY <2>1
      <4> QED BY <1>2, <2>1, <4>1, SuffixIs
    <3>2. \A i \in 1..Len(a) : u[i] = a[i]
      BY <1>2, <1>6, <3>1
    <3> HIDE DEF u
    <3>3. u = a
      BY <1>1, <3>1, <3>2, SameSeq
    <3> QED BY <3>3 DEF u
  <2>6. t # <<>> /\ spaces # {} /\ (n + 1) - 1 = n
    BY <1>1, <1>2, <1>6, <2>1, <2>2
  <2>7. ParseCommand(t) = <<v, a>>
    BY <1>3, <2>3, <2>4, <2>5, <2>6
  <2> QED BY <1>6, <2>7 DEF t, v, a
<1>7. CASE ~s.inArg
  <2>1. Len(t) = n /\ spaces = {}
    BY <1>1, <1>2, <1>4, <1>7
  <2>2. Upper(t) = v
    BY <1>2, <1>5, <2>1
  <2>3. t = <<>> <=> v = <<>>
    BY <1>1, <1>2, <2>1
  <2>4. ParseCommand(t) = IF v = <<>> THEN <<>> ELSE <<v>>
    BY <1>3, <2>1, <2>2, <2>3
  <2> QED BY <1>7, <2>4 DEF t, v
<1> QED BY <1>6, <1>7

(* What one token adds.                                                    *)

\* What Parse writes for a token: an answer, or the echo of an escaped byte.
Replies ==
  [t \in DOMAIN Answers \cup {"data"} |-> IF t = "data" THEN <<"IAC", "IAC">> ELSE Answers[t]]

LEMMA Asking ==
  /\ DOMAIN Replies = {"ayt", "data", "will", "do", "do0"}
  /\ Replies["ayt"] = <<"HELLO">> /\ Replies["data"] = <<"IAC", "IAC">>
  /\ Replies["will"] = <<"IAC", "IAC", "DONT", "echo">>
  /\ Replies["do"] = <<"IAC", "IAC", "WONT", "echo">>
  /\ Replies["do0"] = <<"IAC", "IAC", "WONT">>
  /\ DOMAIN Answers = {"ayt", "will", "do", "do0"}
  /\ \A t \in DOMAIN Answers : Replies[t] = Answers[t]
  /\ Echo = Replies["data"] \o <<"CR", "LF">>
<1>1. /\ DOMAIN Answers = {"ayt", "will", "do", "do0"} /\ Answers["ayt"] = <<"HELLO">>
      /\ Answers["will"] = <<"IAC", "IAC", "DONT", "echo">>
      /\ Answers["do"] = <<"IAC", "IAC", "WONT", "echo">>
      /\ Answers["do0"] = <<"IAC", "IAC", "WONT">>
  BY DEF Answers
<1>2. Echo = <<"IAC", "IAC">> \o <<"CR", "LF">>
  BY DEF Echo
<1> QED BY <1>1, <1>2 DEF Replies

LEMMA ReceivesA ==
  ASSUME NEW s, s.inArg \in BOOLEAN
  PROVE  /\ s.inArg => Receives("a", s) = [s EXCEPT !.arg = Append(s.arg, "a")]
         /\ ~s.inArg => Receives("a", s) = [s EXCEPT !.verb = Append(s.verb, "A")]
  BY Asking DEF Receives, Hears

LEMMA ReceivesSpace ==
  ASSUME NEW s, s.inArg \in BOOLEAN
  PROVE  /\ s.inArg => Receives("space", s) = [s EXCEPT !.arg = Append(s.arg, "space")]
         /\ ~s.inArg => Receives("space", s) = [s EXCEPT !.inArg = TRUE]
  BY Asking DEF Receives, Hears

LEMMA ReceivesLine ==
  ASSUME NEW s
  PROVE  Receives("line", s) =
           [s EXCEPT !.lines = Append(s.lines, IF s.inArg THEN <<s.verb, s.arg>>
                                               ELSE IF s.verb = <<>> THEN <<>> ELSE <<s.verb>>),
                     !.verb = <<>>, !.arg = <<>>, !.inArg = FALSE]
  BY Asking DEF Receives, Hears

LEMMA ReceivesQuestion ==
  ASSUME NEW s, NEW t \in DOMAIN Replies
  PROVE  Receives(t, s) = [s EXCEPT !.answers = Append(s.answers, Replies[t] \o <<"CR", "LF">>)]
  BY Asking DEF Receives, Hears

LEMMA ReceivesNothing ==
  ASSUME NEW s, NEW t \in {"nop", "wont", "el", "ga"}
  PROVE  Receives(t, s) = s
  BY Asking DEF Receives, Hears

LEMMA AnswersTyped ==
  ASSUME NEW t \in DOMAIN Replies
  PROVE  Replies[t] \o <<"CR", "LF">> \in Outputs
<1> DEFINE B == Bytes \cup {"HELLO", "DONT"}
<1>1. \A u \in Tokens : \A i \in 1..Len(Code[u]) : Code[u][i] \in B
  BY CodeTyped
<1>2. "line" \in Tokens /\ "will" \in Tokens /\ "wont" \in Tokens
  BY TokensListed
<1>3. "CR" \in B /\ "LF" \in B
  BY <1>1, <1>2, CodeTable
<1>4. "IAC" \in B /\ "WONT" \in B /\ "echo" \in B
  <2>1. Code["wont"][1] \in B /\ Code["wont"][2] \in B /\ Code["wont"][3] \in B
    BY <1>1, <1>2, CodeLengths
  <2> QED BY <2>1, CodeTable
<1>5. "HELLO" \in B /\ "DONT" \in B
  OBVIOUS
<1> HIDE DEF B
<1>6. <<"CR", "LF">> \in Seq(B)
  BY <1>3
<1>7. <<"HELLO">> \in Seq(B) /\ <<"IAC", "IAC">> \in Seq(B)
  BY <1>4, <1>5
<1>8. <<"IAC", "IAC", "DONT", "echo">> \in Seq(B)
  BY <1>4, <1>5
<1>9. <<"IAC", "IAC", "WONT", "echo">> \in Seq(B)
  BY <1>4
<1>10. <<"IAC", "IAC", "WONT">> \in Seq(B)
  BY <1>4
<1>11. Replies[t] \in Seq(B)
  BY <1>7, <1>8, <1>9, <1>10, Asking
<1> QED BY <1>6, <1>11, ConcatIs DEF Outputs, B

LEMMA SensesAre ==
  ASSUME NEW s \in Senses
  PROVE  /\ s = [lines |-> s.lines, answers |-> s.answers, verb |-> s.verb, arg |-> s.arg,
                 inArg |-> s.inArg, torn |-> s.torn]
         /\ s.lines \in Seq(Commands) /\ s.answers \in Seq(Outputs) /\ s.verb \in Seq({"A"})
         /\ s.arg \in Seq(Letters) /\ s.inArg \in BOOLEAN /\ s.torn \in BOOLEAN
         /\ s.inArg \/ s.arg = <<>>
  BY DEF Senses

LEMMA SenseOf ==
  ASSUME NEW l \in Seq(Commands), NEW o \in Seq(Outputs), NEW v \in Seq({"A"}), NEW a \in Seq(Letters),
         NEW i \in BOOLEAN, NEW r \in BOOLEAN, i \/ a = <<>>
  PROVE  [lines |-> l, answers |-> o, verb |-> v, arg |-> a, inArg |-> i, torn |-> r] \in Senses
  BY DEF Senses

LEMMA SenseWith ==
  ASSUME NEW s \in Senses, NEW x
  PROVE  /\ [s EXCEPT !.arg = x] = [lines |-> s.lines, answers |-> s.answers, verb |-> s.verb,
                                    arg |-> x, inArg |-> s.inArg, torn |-> s.torn]
         /\ [s EXCEPT !.verb = x] = [lines |-> s.lines, answers |-> s.answers, verb |-> x,
                                     arg |-> s.arg, inArg |-> s.inArg, torn |-> s.torn]
         /\ [s EXCEPT !.inArg = x] = [lines |-> s.lines, answers |-> s.answers, verb |-> s.verb,
                                      arg |-> s.arg, inArg |-> x, torn |-> s.torn]
         /\ [s EXCEPT !.torn = x] = [lines |-> s.lines, answers |-> s.answers, verb |-> s.verb,
                                     arg |-> s.arg, inArg |-> s.inArg, torn |-> x]
         /\ [s EXCEPT !.answers = x] = [lines |-> s.lines, answers |-> x, verb |-> s.verb,
                                        arg |-> s.arg, inArg |-> s.inArg, torn |-> s.torn]
<1>1. DOMAIN s = {"lines", "answers", "verb", "arg", "inArg", "torn"} /\ s = [i \in DOMAIN s |-> s[i]]
  BY DEF Senses
<1> QED BY <1>1

LEMMA ReceivesErase ==
  ASSUME NEW s \in Senses
  PROVE  /\ s.inArg /\ s.arg # <<>> => Receives("ec", s) = [s EXCEPT !.arg = Front(s.arg)]
         /\ s.inArg /\ s.arg = <<>> => Receives("ec", s) = [s EXCEPT !.inArg = FALSE]
         /\ ~s.inArg /\ s.verb # <<>> => Receives("ec", s) = [s EXCEPT !.verb = Front(s.verb)]
         /\ ~s.inArg /\ s.verb = <<>> =>
              Receives("ec", s) = [s EXCEPT !.torn = s.torn \/ s.lines # <<>>]
<1>1. /\ s.arg \in Seq(Letters) /\ s.verb \in Seq({"A"}) /\ s.torn \in BOOLEAN
      /\ s.inArg \in BOOLEAN /\ (s.inArg \/ s.arg = <<>>)
  BY SensesAre
<1>2. /\ s.arg # <<>> => Last(s.arg) # "IAC"
      /\ s.verb # <<>> => Last(s.verb) # "IAC"
  BY <1>1 DEF Last, Letters
<1>3. CASE s.inArg /\ s.arg # <<>>
  <2>1. Receives("ec", s) = [s EXCEPT !.arg = Front(s.arg), !.torn = s.torn \/ Last(s.arg) = "IAC"]
    BY <1>3, Asking DEF Receives, Hears
  <2>2. (s.torn \/ Last(s.arg) = "IAC") = s.torn
    BY <1>1, <1>2, <1>3
  <2>3. \A x, y : y = s.torn => [s EXCEPT !.arg = x, !.torn = y] = [s EXCEPT !.arg = x]
    BY SensesAre
  <2> QED BY <1>3, <2>1, <2>2, <2>3
<1>4. CASE s.inArg /\ s.arg = <<>>
  BY <1>4, Asking DEF Receives, Hears
<1>5. CASE ~s.inArg /\ s.verb # <<>>
  <2>1. Receives("ec", s) = [s EXCEPT !.verb = Front(s.verb), !.torn = s.torn \/ Last(s.verb) = "IAC"]
    BY <1>1, <1>5, Asking DEF Receives, Hears
  <2>2. (s.torn \/ Last(s.verb) = "IAC") = s.torn
    BY <1>1, <1>2, <1>5
  <2>3. \A x, y : y = s.torn => [s EXCEPT !.verb = x, !.torn = y] = [s EXCEPT !.verb = x]
    BY SensesAre
  <2> QED BY <1>5, <2>1, <2>2, <2>3
<1>6. CASE ~s.inArg /\ s.verb = <<>>
  BY <1>1, <1>6, Asking DEF Receives, Hears
<1> QED BY <1>1, <1>3, <1>4, <1>5, <1>6

LEMMA WordsUnique ==
  ASSUME NEW s \in Senses, NEW t, NEW u, Words(s, t), Words(s, u)
  PROVE  t = u
<1> DEFINE v == s.verb
           a == s.arg
           n == Len(v)
<1>1. v \in Seq({"A"}) /\ a \in Seq(Letters) /\ s.inArg \in BOOLEAN /\ n \in Nat /\ Len(a) \in Nat
  BY SensesAre
<1>2. ASSUME NEW w, Words(s, w)
      PROVE  /\ w \in Seq(Letters) /\ \A i \in 1..n : w[i] = "a"
             /\ s.inArg => /\ Len(w) = n + 1 + Len(a) /\ w[n + 1] = "space"
                           /\ \A i \in 1..Len(a) : w[n + 1 + i] = a[i]
             /\ ~s.inArg => Len(w) = n
  BY <1>2 DEF Words
<1> HIDE DEF v, a, n
<1>3. Len(t) = Len(u) /\ t \in Seq(Letters) /\ u \in Seq(Letters)
  BY <1>1, <1>2
<1>4. ASSUME NEW i \in 1..Len(t) PROVE t[i] = u[i]
  <2>1. CASE i \in 1..n
    BY <1>2, <2>1
  <2>2. CASE i = n + 1 /\ s.inArg
    BY <1>2, <2>2
  <2>3. CASE i > n + 1 /\ s.inArg
    <3>1. Len(t) = n + 1 + Len(a)
      BY <1>2, <2>3
    <3>2. PICK j \in 1..Len(a) : i = n + 1 + j
      <4>1. i - n - 1 \in 1..Len(a) /\ i = n + 1 + (i - n - 1)
        BY <1>1, <2>3, <3>1
      <4> QED BY <4>1
    <3>3. t[n + 1 + j] = a[j] /\ u[n + 1 + j] = a[j]
      BY <1>2, <2>3
    <3> QED BY <3>2, <3>3
  <2>4. CASE ~s.inArg
    <3>1. Len(t) = n
      BY <1>2, <2>4
    <3> QED BY <2>1, <3>1
  <2> QED BY <1>1, <2>1, <2>2, <2>3, <2>4
<1> QED BY <1>3, <1>4, SameSeq

\* A letter or a space is text at the end of the line.
LEMMA ReceivesText ==
  ASSUME NEW s \in Senses, NEW t \in Letters, NEW r, r = Receives(t, s)
  PROVE  /\ r \in Senses /\ r.lines = s.lines /\ r.answers = s.answers /\ r.torn = s.torn
         /\ Typed(r) = Append(Typed(s), t)
<1> DEFINE v == s.verb
           a == s.arg
           n == Len(v)
           q == Typed(s)
           w == Append(q, t)
<1>1. s.inArg \in BOOLEAN /\ (s.inArg \/ a = <<>>) /\ n \in Nat /\ Len(a) \in Nat
  BY SensesAre
<1>2. /\ s.lines \in Seq(Commands) /\ s.answers \in Seq(Outputs) /\ v \in Seq({"A"})
      /\ a \in Seq(Letters) /\ s.torn \in BOOLEAN
  BY SensesAre
<1>3. /\ q \in Seq(Letters) /\ \A i \in 1..n : q[i] = "a"
      /\ s.inArg => /\ Len(q) = n + 1 + Len(a) /\ q[n + 1] = "space"
                    /\ \A i \in 1..Len(a) : q[n + 1 + i] = a[i]
      /\ ~s.inArg => Len(q) = n
  BY TypedIs DEF Words
<1>4. /\ w \in Seq(Letters) /\ Len(w) = Len(q) + 1
      /\ \A i \in 1..Len(q) : w[i] = q[i]
      /\ w[Len(q) + 1] = t
  BY <1>3, AppendProperties
<1>5. "a" \in Letters /\ "space" \in Letters /\ t \in {"a", "space"}
  BY DEF Letters
<1> SUFFICES /\ r \in Senses /\ r.lines = s.lines /\ r.answers = s.answers /\ r.torn = s.torn
             /\ Words(r, w)
  BY TypedIs, WordsUnique
<1>7. CASE s.inArg
  <2> DEFINE b == Append(a, t)
  <2>1. /\ b \in Seq(Letters) /\ Len(b) = Len(a) + 1 /\ \A i \in 1..Len(a) : b[i] = a[i]
        /\ b[Len(a) + 1] = t
    BY <1>2, AppendProperties
  <2>2. r = [s EXCEPT !.arg = b]
    <3>1. CASE t = "a"
      <4>1. Receives("a", s) = [s EXCEPT !.arg = Append(s.arg, "a")]
        BY <1>7, SensesAre, ReceivesA
      <4> QED BY <3>1, <4>1, Zenon
    <3>2. CASE t = "space"
      <4>1. Receives("space", s) = [s EXCEPT !.arg = Append(s.arg, "space")]
        BY <1>7, SensesAre, ReceivesSpace
      <4> QED BY <3>2, <4>1, Zenon
    <3> QED BY <1>5, <3>1, <3>2
  <2>3. r = [lines |-> s.lines, answers |-> s.answers, verb |-> v, arg |-> b, inArg |-> s.inArg,
             torn |-> s.torn]
    BY <2>2, SenseWith
  <2> HIDE DEF b, v, a, q, w, n
  <2>4. r \in Senses
    BY <1>1, <1>2, <1>7, <2>1, <2>3, SenseOf, ZenonT(60)
  <2>5. /\ Len(q) = n + 1 + Len(a) /\ q[n + 1] = "space" /\ \A i \in 1..n : q[i] = "a"
        /\ \A i \in 1..Len(a) : q[n + 1 + i] = a[i]
    BY <1>3, <1>7
  <2>6. Len(w) = n + 1 + Len(b) /\ w[n + 1] = "space" /\ \A i \in 1..n : w[i] = "a"
    BY <1>1, <1>4, <2>1, <2>5
  <2>7. \A i \in 1..Len(a) : w[n + 1 + i] = b[i]
    BY <1>1, <1>4, <2>1, <2>5
  <2>8. w[n + 1 + (Len(a) + 1)] = b[Len(a) + 1]
    BY <1>1, <1>4, <2>1, <2>5
  <2>9. \A i \in 1..Len(b) : w[n + 1 + i] = b[i]
    BY <1>1, <2>1, <2>7, <2>8
  <2>10. Words(r, w)
    <3>1. r.verb = v /\ r.arg = b /\ r.inArg
      BY <1>7, <2>3
    <3> QED BY <1>4, <2>6, <2>9, <3>1 DEF Words, n
  <2> QED BY <2>3, <2>4, <2>10 DEF w, q
<1>8. CASE ~s.inArg /\ t = "a"
  <2> DEFINE b == Append(v, "A")
  <2>1. b \in Seq({"A"}) /\ Len(b) = n + 1
    BY <1>2, AppendProperties
  <2>2. r = [s EXCEPT !.verb = b]
    BY <1>8, SensesAre, ReceivesA
  <2>3. r = [lines |-> s.lines, answers |-> s.answers, verb |-> b, arg |-> a, inArg |-> s.inArg,
             torn |-> s.torn]
    BY <2>2, SenseWith
  <2> HIDE DEF b, v, a, q, w, n
  <2>4. r \in Senses
    BY <1>1, <1>2, <2>1, <2>3, SenseOf
  <2>5. Len(q) = n /\ \A i \in 1..n : q[i] = "a"
    BY <1>3, <1>8
  <2>6. Len(w) = Len(b) /\ \A i \in 1..Len(b) : w[i] = "a"
    BY <1>1, <1>4, <1>8, <2>1, <2>5
  <2>7. Words(r, w)
    <3>1. r.verb = b /\ ~r.inArg
      BY <1>8, <2>3
    <3> QED BY <1>4, <2>6, <3>1 DEF Words
  <2> QED BY <2>3, <2>4, <2>7 DEF w, q
<1>9. CASE ~s.inArg /\ t = "space"
  <2>1. a = <<>> /\ Len(a) = 0
    BY <1>1, <1>9
  <2>2. r = [s EXCEPT !.inArg = TRUE]
    BY <1>9, SensesAre, ReceivesSpace
  <2>3. r = [lines |-> s.lines, answers |-> s.answers, verb |-> v, arg |-> a, inArg |-> TRUE,
             torn |-> s.torn]
    BY <2>2, SenseWith
  <2> HIDE DEF v, a, q, w, n
  <2>4. r \in Senses
    BY <1>2, <2>3, SenseOf
  <2>5. Len(q) = n /\ \A i \in 1..n : q[i] = "a"
    BY <1>3, <1>9
  <2>6. Len(w) = n + 1 + Len(a) /\ w[n + 1] = "space" /\ \A i \in 1..n : w[i] = "a"
    BY <1>1, <1>4, <1>9, <2>1, <2>5
  <2>7. Words(r, w)
    <3>1. \A i \in 1..Len(a) : w[n + 1 + i] = a[i]
      BY <2>1
    <3> QED BY <1>4, <2>3, <2>6, <3>1 DEF Words, n
  <2> QED BY <2>3, <2>4, <2>7 DEF w, q
<1> QED BY <1>1, <1>5, <1>7, <1>8, <1>9

LEMMA NoWords ==
  ASSUME NEW r, r.verb = <<>>, ~r.inArg
  PROVE  Words(r, <<>>)
<1>1. Len(<<>>) = 0 /\ <<>> \in Seq(Letters) /\ Len(r.verb) = 0
  OBVIOUS
<1>2. \A i \in 1..0 : FALSE
  OBVIOUS
<1> QED BY <1>1, <1>2 DEF Words

\* An end of a line is the command of its words.
LEMMA ReceivesEnd ==
  ASSUME NEW s \in Senses, NEW r, r = Receives("line", s)
  PROVE  /\ r \in Senses /\ r.answers = s.answers /\ r.torn = s.torn
         /\ r.lines = Append(s.lines, ParseCommand(Typed(s))) /\ Typed(r) = <<>>
<1> DEFINE v == s.verb
           a == s.arg
           p == ParseCommand(Typed(s))
<1>1. /\ s.lines \in Seq(Commands) /\ s.answers \in Seq(Outputs) /\ v \in Seq({"A"})
      /\ a \in Seq(Letters) /\ s.torn \in BOOLEAN /\ s.inArg \in BOOLEAN
  BY SensesAre
<1>2. p = IF s.inArg THEN <<v, a>> ELSE IF v = <<>> THEN <<>> ELSE <<v>>
  BY CommandTyped
<1>3. r = [s EXCEPT !.lines = Append(s.lines, p), !.verb = <<>>, !.arg = <<>>, !.inArg = FALSE]
  BY <1>2, ReceivesLine
<1>4. p \in Commands
  <2>1. v \in Seq({"a", "A", "space"}) /\ a \in Seq({"a", "A", "space"})
    BY <1>1 DEF Letters
  <2> HIDE DEF v, a, p
  <2>2. /\ <<v, a>> \in Seq(Seq({"a", "A", "space"})) /\ <<v>> \in Seq(Seq({"a", "A", "space"}))
        /\ <<>> \in Seq(Seq({"a", "A", "space"}))
    BY <2>1
  <2> QED BY <1>2, <2>2 DEF Commands
<1>5. r = [lines |-> Append(s.lines, p), answers |-> s.answers, verb |-> <<>>, arg |-> <<>>,
           inArg |-> FALSE, torn |-> s.torn]
  <2>1. DOMAIN s = {"lines", "answers", "verb", "arg", "inArg", "torn"} /\ s = [i \in DOMAIN s |-> s[i]]
    BY DEF Senses
  <2> HIDE DEF v, a, p
  <2> QED BY <1>3, <2>1
<1> HIDE DEF v, a, p
<1>6. r \in Senses
  <2>1. Append(s.lines, p) \in Seq(Commands) /\ <<>> \in Seq({"A"}) /\ <<>> \in Seq(Letters)
    BY <1>1, <1>4
  <2> QED BY <1>1, <1>5, <2>1, SenseOf, ZenonT(60)
<1>7. Words(r, <<>>)
  <2>1. r.verb = <<>> /\ ~r.inArg
    BY <1>5
  <2> QED BY <2>1, NoWords
<1> QED BY <1>5, <1>6, <1>7, TypedIs, WordsUnique DEF p

\* An erase takes the last character of the line, or finds none.
LEMMA ReceivesErased ==
  ASSUME NEW s \in Senses, NEW r, r = Receives("ec", s)
  PROVE  /\ r \in Senses /\ r.lines = s.lines /\ r.answers = s.answers
         /\ Typed(s) # <<>> => r.torn = s.torn /\ Typed(r) = Front(Typed(s))
         /\ Typed(s) = <<>> => r.torn = (s.torn \/ s.lines # <<>>) /\ Typed(r) = <<>>
<1> DEFINE v == s.verb
           a == s.arg
           n == Len(v)
           q == Typed(s)
           w == Front(q)
<1>1. s.inArg \in BOOLEAN /\ (s.inArg \/ a = <<>>) /\ n \in Nat /\ Len(a) \in Nat
  BY SensesAre
<1>2. /\ s.lines \in Seq(Commands) /\ s.answers \in Seq(Outputs) /\ v \in Seq({"A"})
      /\ a \in Seq(Letters) /\ s.torn \in BOOLEAN
  BY SensesAre
<1>3. /\ q \in Seq(Letters) /\ \A i \in 1..n : q[i] = "a"
      /\ s.inArg => /\ Len(q) = n + 1 + Len(a) /\ q[n + 1] = "space"
                    /\ \A i \in 1..Len(a) : q[n + 1 + i] = a[i]
      /\ ~s.inArg => Len(q) = n
  BY TypedIs DEF Words
<1>4. q # <<>> => /\ w \in Seq(Letters) /\ Len(w) = Len(q) - 1
                  /\ \A i \in 1..(Len(q) - 1) : w[i] = q[i]
  BY <1>3, FrontIs
<1>5. ASSUME q # <<>>, r \in Senses, r.lines = s.lines, r.answers = s.answers, r.torn = s.torn,
             Words(r, w)
      PROVE  Typed(r) = w
  BY <1>5, TypedIs, WordsUnique
<1>6. CASE s.inArg /\ a # <<>>
  <2> DEFINE b == Front(a)
  <2>1. /\ b \in Seq(Letters) /\ Len(b) = Len(a) - 1 /\ \A i \in 1..(Len(a) - 1) : b[i] = a[i]
        /\ Len(a) > 0
    <3>1. a \in Seq(Letters) /\ a # <<>>
      BY <1>2, <1>6
    <3> HIDE DEF a
    <3> QED BY <3>1, FrontIs
  <2>2. r = [s EXCEPT !.arg = b]
    BY <1>6, SensesAre, ReceivesErase
  <2>3. r = [lines |-> s.lines, answers |-> s.answers, verb |-> v, arg |-> b, inArg |-> s.inArg,
             torn |-> s.torn]
    BY <2>2, SenseWith
  <2> HIDE DEF b, v, a, q, w, n
  <2>4. r \in Senses
    BY <1>1, <1>2, <1>6, <2>1, <2>3, SenseOf, ZenonT(60)
  <2>5. /\ Len(q) = n + 1 + Len(a) /\ q[n + 1] = "space" /\ \A i \in 1..n : q[i] = "a"
        /\ \A i \in 1..Len(a) : q[n + 1 + i] = a[i]
    BY <1>3, <1>6
  <2>6. q # <<>>
    BY <1>1, <1>3, <2>5
  <2>7. w \in Seq(Letters) /\ Len(w) = Len(q) - 1 /\ \A i \in 1..(Len(q) - 1) : w[i] = q[i]
    BY <1>4, <2>6
  <2>8. /\ Len(b) \in Nat /\ Len(q) - 1 = n + 1 + Len(b) /\ n + 1 \in 1..(Len(q) - 1)
        /\ \A i \in 1..n : i \in 1..(Len(q) - 1)
        /\ \A i \in 1..Len(b) : n + 1 + i \in 1..(Len(q) - 1) /\ i \in 1..Len(a)
    BY <1>1, <2>1, <2>5
  <2>9. Len(w) = n + 1 + Len(b) /\ w[n + 1] = "space" /\ \A i \in 1..n : w[i] = "a"
    BY <2>5, <2>7, <2>8
  <2>10. \A i \in 1..Len(b) : w[n + 1 + i] = b[i]
    BY <2>1, <2>5, <2>7, <2>8
  <2>11. Words(r, w)
    <3>1. r.verb = v /\ r.arg = b /\ r.inArg
      BY <1>6, <2>3
    <3> QED BY <2>7, <2>9, <2>10, <3>1 DEF Words, n
  <2> QED BY <1>5, <2>3, <2>4, <2>6, <2>11 DEF w, q
<1>7. CASE s.inArg /\ a = <<>>
  <2>1. r = [s EXCEPT !.inArg = FALSE]
    BY <1>7, SensesAre, ReceivesErase
  <2>2. r = [lines |-> s.lines, answers |-> s.answers, verb |-> v, arg |-> a, inArg |-> FALSE,
             torn |-> s.torn]
    BY <2>1, SenseWith
  <2> HIDE DEF v, a, q, w, n
  <2>3. r \in Senses
    BY <1>2, <1>7, <2>2, SenseOf
  <2>4. Len(q) = n + 1 /\ q # <<>> /\ \A i \in 1..n : q[i] = "a"
    BY <1>1, <1>3, <1>7
  <2>5. w \in Seq(Letters) /\ Len(w) = n /\ \A i \in 1..n : w[i] = "a"
    BY <1>1, <1>4, <2>4
  <2>6. Words(r, w)
    <3>1. r.verb = v /\ ~r.inArg
      BY <2>2
    <3> QED BY <2>5, <3>1 DEF Words, n
  <2> QED BY <1>5, <2>2, <2>3, <2>4, <2>6 DEF w, q
<1>8. CASE ~s.inArg /\ v # <<>>
  <2> DEFINE b == Front(v)
  <2>1. b \in Seq({"A"}) /\ Len(b) = n - 1 /\ n > 0
    <3>1. v \in Seq({"A"}) /\ v # <<>>
      BY <1>2, <1>8
    <3> HIDE DEF v
    <3> QED BY <3>1, FrontIs
  <2>2. r = [s EXCEPT !.verb = b]
    BY <1>8, SensesAre, ReceivesErase
  <2>3. r = [lines |-> s.lines, answers |-> s.answers, verb |-> b, arg |-> a, inArg |-> s.inArg,
             torn |-> s.torn]
    BY <2>2, SenseWith
  <2> HIDE DEF b, v, a, q, w, n
  <2>4. r \in Senses
    BY <1>1, <1>2, <2>1, <2>3, SenseOf
  <2>5. Len(q) = n /\ q # <<>> /\ \A i \in 1..n : q[i] = "a"
    BY <1>1, <1>3, <1>8, <2>1
  <2>6. w \in Seq(Letters) /\ Len(w) = n - 1 /\ \A i \in 1..(n - 1) : w[i] = "a"
    BY <1>1, <1>4, <2>5
  <2>7. Words(r, w)
    <3>1. r.verb = b /\ ~r.inArg
      BY <1>8, <2>3
    <3> QED BY <2>1, <2>6, <3>1 DEF Words
  <2> QED BY <1>5, <2>3, <2>4, <2>5, <2>7 DEF w, q
<1>9. CASE ~s.inArg /\ v = <<>>
  <2> DEFINE b == s.torn \/ s.lines # <<>>
  <2>1. r = [s EXCEPT !.torn = b]
    BY <1>9, SensesAre, ReceivesErase
  <2>2. r = [lines |-> s.lines, answers |-> s.answers, verb |-> v, arg |-> a, inArg |-> s.inArg,
             torn |-> b]
    BY <2>1, SenseWith
  <2>3. b \in BOOLEAN
    BY <1>2
  <2> HIDE DEF v, a, q, w, n, b
  <2>4. r \in Senses
    BY <1>1, <1>2, <2>2, <2>3, SenseOf
  <2>5. q = <<>>
    <3>1. Len(q) = 0
      BY <1>3, <1>9 DEF n
    <3> QED BY <1>3, <3>1
  <2>6. Words(r, <<>>)
    <3>1. r.verb = <<>> /\ ~r.inArg
      BY <1>9, <2>2
    <3> QED BY <3>1, NoWords
  <2>7. Typed(r) = <<>>
    BY <2>4, <2>6, TypedIs, WordsUnique
  <2> QED BY <2>2, <2>4, <2>5, <2>7 DEF q, b
<1> QED BY <1>1, <1>6, <1>7, <1>8, <1>9

\* A question is answered, and is no text.
LEMMA ReceivesAsked ==
  ASSUME NEW s \in Senses, NEW t \in DOMAIN Replies, NEW r, r = Receives(t, s)
  PROVE  /\ r \in Senses /\ r.lines = s.lines /\ r.torn = s.torn
         /\ r.answers = Append(s.answers, Replies[t] \o <<"CR", "LF">>) /\ Typed(r) = Typed(s)
<1> DEFINE o == Append(s.answers, Replies[t] \o <<"CR", "LF">>)
<1>1. r = [s EXCEPT !.answers = o]
  BY ReceivesQuestion
<1>2. o \in Seq(Outputs)
  BY SensesAre, AnswersTyped, AppendProperties
<1>3. r = [lines |-> s.lines, answers |-> o, verb |-> s.verb, arg |-> s.arg, inArg |-> s.inArg,
           torn |-> s.torn]
  BY <1>1, SenseWith
<1> HIDE DEF o
<1>4. r \in Senses
  BY <1>2, <1>3, SensesAre, SenseOf
<1>5. r.verb = s.verb /\ r.arg = s.arg /\ r.inArg = s.inArg
  BY <1>3
<1>6. Typed(r) = Typed(s)
  BY <1>5 DEF Typed
<1> QED BY <1>3, <1>4, <1>6 DEF o

LEMMA ReceivesTyped ==
  ASSUME NEW s \in Senses, NEW t \in Tokens
  PROVE  Receives(t, s) \in Senses
<1>1. CASE t \in Letters
  BY <1>1, ReceivesText
<1>2. CASE t = "line"
  BY <1>2, ReceivesEnd
<1>3. CASE t = "ec"
  BY <1>3, ReceivesErased
<1>4. CASE t \in DOMAIN Replies
  BY <1>4, ReceivesAsked
<1>5. CASE t \in {"nop", "wont", "el", "ga"}
  BY <1>5, ReceivesNothing
<1> QED BY <1>1, <1>2, <1>3, <1>4, <1>5, TokensListed, Asking DEF Letters

LEMMA SilenceIs == Silence \in Senses /\ Typed(Silence) = <<>>
<1>1. <<>> \in Seq(Commands) /\ <<>> \in Seq(Outputs) /\ <<>> \in Seq({"A"}) /\ <<>> \in Seq(Letters)
  OBVIOUS
<1>2. Silence \in Senses
  BY <1>1, SenseOf DEF Silence
<1>3. Silence.verb = <<>> /\ ~Silence.inArg
  BY DEF Silence
<1> QED BY <1>2, <1>3, NoWords, TypedIs, WordsUnique

\* The recursion of Reception has a solution.
LEMMA ReceptionDefined ==
  ASSUME NEW tokens \in Seq(Tokens)
  PROVE  /\ Reception(tokens) \in [0..Len(tokens) -> Senses]
         /\ Reception(tokens)[0] = Silence
         /\ \A k \in 1..Len(tokens) : Reception(tokens)[k] = Receives(tokens[k], Reception(tokens)[k - 1])
<1> DEFINE n == Len(tokens)
           step == [k \in 1..n |-> [s \in Senses |-> Receives(tokens[k], s)]]
           E(f) == [k \in 0..n |-> IF k = 0 THEN Silence ELSE Receives(tokens[k], f[k - 1])]
<1>0. n \in Nat
  OBVIOUS
<1>1. \A k \in 1..n : tokens[k] \in Tokens
  OBVIOUS
<1>2. step \in [1..n -> [Senses -> Senses]] /\ Silence \in Senses
  BY <1>1, ReceivesTyped, SilenceIs
<1>3. PICK f : Solves(f, n, Senses, Silence, step)
  <2> HIDE DEF step, n
  <2> QED BY <1>0, <1>2, RecursionDefines
<1>4. /\ f \in [0..n -> Senses] /\ f[0] = Silence
      /\ \A k \in 1..n : f[k] = Receives(tokens[k], f[k - 1])
  <2>1. f \in [0..n -> Senses] /\ f[0] = Silence /\ \A k \in 1..n : f[k] = step[k][f[k - 1]]
    BY <1>3 DEF Solves
  <2>2. ASSUME NEW k \in 1..n PROVE f[k] = Receives(tokens[k], f[k - 1])
    <3>1. f[k - 1] \in Senses
      BY <2>1
    <3> QED BY <2>1, <3>1
  <2> QED BY <2>1, <2>2
<1>5. ASSUME NEW e, NEW h, e = E(h)
      PROVE  e[0] = Silence /\ \A k \in 1..n : e[k] = Receives(tokens[k], h[k - 1])
  <2>1. \A k \in 0..n : e[k] = IF k = 0 THEN Silence ELSE Receives(tokens[k], h[k - 1])
    BY <1>5
  <2>2. \A k \in 1..n : k \in 0..n /\ k # 0
    BY <1>0
  <2>3. 0 \in 0..n
    BY <1>0
  <2> HIDE DEF E
  <2> QED BY <2>1, <2>2, <2>3, Zenon
<1>6. f = E(f)
  <2> DEFINE e == E(f)
  <2>1. e = [k \in 0..n |-> e[k]] /\ f = [k \in 0..n |-> f[k]]
    BY <1>4
  <2>2. e[0] = f[0] /\ \A k \in 1..n : e[k] = f[k]
    <3>1. e = E(f)
      OBVIOUS
    <3> HIDE DEF E, e
    <3> QED BY <1>4, <1>5, <3>1
  <2>3. \A k \in 0..n : e[k] = f[k]
    <3> HIDE DEF e
    <3> QED BY <1>0, <2>2
  <2> HIDE DEF e
  <2>4. e = f
    BY <2>1, <2>3
  <2> QED BY <2>4 DEF e
<1>7. Reception(tokens) = E(Reception(tokens))
  <2>1. Reception(tokens) = CHOOSE e : e = E(e)
    BY DEF Reception, Silence
  <2> HIDE DEF E
  <2> QED BY <1>6, <2>1, Zenon
<1> DEFINE g == Reception(tokens)
<1>8. g[0] = Silence /\ \A k \in 1..n : g[k] = Receives(tokens[k], g[k - 1])
  <2> HIDE DEF E
  <2> QED BY <1>5, <1>7
<1>9. \A k \in 0..n : g[k] = f[k]
  <2>1. \A k \in 1..n : g[k - 1] = f[k - 1] => g[k] = f[k]
    BY <1>4, <1>8
  <2>2. g[0] = f[0]
    BY <1>4, <1>8
  <2> HIDE DEF g, n
  <2> QED BY <1>0, <2>1, <2>2, RecursionUnique, SMTT(60)
<1>10. g = [k \in 0..n |-> g[k]]
  BY <1>7
<1> QED BY <1>4, <1>8, <1>9, <1>10

-----------------------------------------------------------------------------
(* What waits in m_readBuf.                                                *)

Plain == Bytes \ {"IAC"}
Parts == Seq(Seq(Bytes \cup {"A"}))
Works == [done : Seq(Parts), text : Seq(Plain)]

LEMMA ParseTyped ==
  ASSUME NEW q \in Seq(Bytes)
  PROVE  ParseCommand(q) \in Parts
<1> DEFINE spaces == {i \in DOMAIN q : q[i] \in {"space", "CR", "LF"}}
           B == Bytes \cup {"A"}
<1>1. ParseCommand(q) = IF q = <<>> THEN <<>>
                        ELSE IF spaces = {} THEN <<Upper(q)>>
                        ELSE <<Upper(SubSeq(q, 1, Min(spaces) - 1)), SubSeq(q, Min(spaces) + 1, Len(q))>>
  BY DEF ParseCommand
<1>2. ASSUME NEW w \in Seq(Bytes) PROVE Upper(w) \in Seq(B)
  BY DEF Upper
<1>3. Len(q) \in Nat /\ spaces \in SUBSET (1..Len(q))
  OBVIOUS
<1>4. q \in Seq(B)
  OBVIOUS
<1> HIDE DEF spaces, B
<1>5. CASE spaces # {}
  <2>1. PICK m \in spaces : \A i \in spaces : m <= i
    BY <1>3, <1>5, LeastNumber
  <2>2. Min(spaces) = m /\ m \in 1..Len(q)
    BY <1>3, <2>1, MinIs
  <2>3. SubSeq(q, 1, m - 1) \in Seq(Bytes)
    <3>1. m - 1 \in 0..Len(q)
      BY <1>3, <2>2
    <3> QED BY <3>1, PrefixIs
  <2>4. SubSeq(q, m + 1, Len(q)) \in Seq(B)
    <3>1. m \in 0..Len(q)
      BY <1>3, <2>2
    <3> QED BY <1>4, <3>1, SuffixIs
  <2>5. ParseCommand(q) = IF q = <<>> THEN <<>>
                          ELSE <<Upper(SubSeq(q, 1, m - 1)), SubSeq(q, m + 1, Len(q))>>
    BY <1>1, <1>5, <2>2
  <2>6. <<Upper(SubSeq(q, 1, m - 1)), SubSeq(q, m + 1, Len(q))>> \in Seq(Seq(B)) /\ <<>> \in Seq(Seq(B))
    <3>1. Upper(SubSeq(q, 1, m - 1)) \in Seq(B)
      BY <1>2, <2>3
    <3> QED BY <2>4, <3>1
  <2> QED BY <2>5, <2>6 DEF Parts, B
<1>6. CASE spaces = {}
  <2>1. <<Upper(q)>> \in Seq(Seq(B)) /\ <<>> \in Seq(Seq(B))
    BY <1>2
  <2> QED BY <1>1, <1>6, <2>1 DEF Parts, B
<1> QED BY <1>5, <1>6

LEMMA AddByteTyped ==
  ASSUME NEW w \in Works, NEW b \in Plain
  PROVE  AddByte(w, b) \in Works
<1>1. w.done \in Seq(Parts) /\ w.text \in Seq(Plain) /\ w = [done |-> w.done, text |-> w.text]
  BY DEF Works
<1>2. CASE b = "LF" /\ w.text # <<>> /\ Last(w.text) = "CR"
  <2>1. Front(w.text) \in Seq(Bytes)
    <3>1. Front(w.text) \in Seq(Plain)
      BY <1>1, <1>2, FrontIs
    <3> QED BY <3>1 DEF Plain
  <2>2. AddByte(w, b) = [done |-> Append(w.done, ParseCommand(Front(w.text))), text |-> <<>>]
    BY <1>2 DEF AddByte
  <2>3. Append(w.done, ParseCommand(Front(w.text))) \in Seq(Parts) /\ <<>> \in Seq(Plain)
    BY <1>1, <2>1, ParseTyped
  <2> QED BY <2>2, <2>3 DEF Works
<1>3. CASE ~(b = "LF" /\ w.text # <<>> /\ Last(w.text) = "CR")
  <2>1. AddByte(w, b) = [w EXCEPT !.text = Append(w.text, b)]
    BY <1>3 DEF AddByte
  <2>2. Append(w.text, b) \in Seq(Plain)
    BY <1>1
  <2> QED BY <1>1, <2>1, <2>2 DEF Works
<1> QED BY <1>2, <1>3

NoText == [done |-> <<>>, text |-> <<>>]

LEMMA NoTextTyped == NoText \in Works
  BY DEF NoText, Works

\* The recursion of Lines has a solution.
LEMMA LinesDefined ==
  ASSUME NEW q \in Seq(Plain)
  PROVE  /\ Lines(q) \in [0..Len(q) -> Works]
         /\ Lines(q)[0] = NoText
         /\ \A k \in 1..Len(q) : Lines(q)[k] = AddByte(Lines(q)[k - 1], q[k])
<1> DEFINE n == Len(q)
           step == [k \in 1..n |-> [w \in Works |-> AddByte(w, q[k])]]
           E(f) == [k \in 0..n |-> IF k = 0 THEN NoText ELSE AddByte(f[k - 1], q[k])]
<1>0. n \in Nat
  OBVIOUS
<1>1. \A k \in 1..n : q[k] \in Plain
  OBVIOUS
<1>2. step \in [1..n -> [Works -> Works]] /\ NoText \in Works
  BY <1>1, AddByteTyped, NoTextTyped
<1>3. PICK f : Solves(f, n, Works, NoText, step)
  <2> HIDE DEF step, n
  <2> QED BY <1>0, <1>2, RecursionDefines
<1>4. /\ f \in [0..n -> Works] /\ f[0] = NoText
      /\ \A k \in 1..n : f[k] = AddByte(f[k - 1], q[k])
  <2>1. f \in [0..n -> Works] /\ f[0] = NoText /\ \A k \in 1..n : f[k] = step[k][f[k - 1]]
    BY <1>3 DEF Solves
  <2>2. ASSUME NEW k \in 1..n PROVE f[k] = AddByte(f[k - 1], q[k])
    <3>1. f[k - 1] \in Works
      BY <2>1
    <3> QED BY <2>1, <3>1
  <2> QED BY <2>1, <2>2
<1>5. ASSUME NEW e, NEW h, e = E(h)
      PROVE  e[0] = NoText /\ \A k \in 1..n : e[k] = AddByte(h[k - 1], q[k])
  <2>1. \A k \in 0..n : e[k] = IF k = 0 THEN NoText ELSE AddByte(h[k - 1], q[k])
    BY <1>5
  <2>2. \A k \in 1..n : k \in 0..n /\ k # 0
    BY <1>0
  <2>3. 0 \in 0..n
    BY <1>0
  <2> HIDE DEF E
  <2> QED BY <2>1, <2>2, <2>3, Zenon
<1>6. f = E(f)
  <2> DEFINE e == E(f)
  <2>1. e = [k \in 0..n |-> e[k]] /\ f = [k \in 0..n |-> f[k]]
    BY <1>4
  <2>2. e[0] = f[0] /\ \A k \in 1..n : e[k] = f[k]
    <3>1. e = E(f)
      OBVIOUS
    <3> HIDE DEF E, e
    <3> QED BY <1>4, <1>5, <3>1
  <2>3. \A k \in 0..n : e[k] = f[k]
    <3> HIDE DEF e
    <3> QED BY <1>0, <2>2
  <2> HIDE DEF e
  <2>4. e = f
    BY <2>1, <2>3
  <2> QED BY <2>4 DEF e
<1>7. Lines(q) = E(Lines(q))
  <2>1. Lines(q) = CHOOSE e : e = E(e)
    BY DEF Lines, NoText
  <2> HIDE DEF E
  <2> QED BY <1>6, <2>1, Zenon
<1> DEFINE g == Lines(q)
<1>8. g[0] = NoText /\ \A k \in 1..n : g[k] = AddByte(g[k - 1], q[k])
  <2> HIDE DEF E
  <2> QED BY <1>5, <1>7
<1>9. \A k \in 0..n : g[k] = f[k]
  <2>1. \A k \in 1..n : g[k - 1] = f[k - 1] => g[k] = f[k]
    BY <1>4, <1>8
  <2>2. g[0] = f[0]
    BY <1>4, <1>8
  <2> HIDE DEF g, n
  <2> QED BY <1>0, <2>1, <2>2, RecursionUnique, SMTT(60)
<1>10. g = [k \in 0..n |-> g[k]]
  BY <1>7
<1> QED BY <1>4, <1>8, <1>9, <1>10

\* What all of q amounts to.
Work(q) == Lines(q)[Len(q)]

LEMMA WorkTyped ==
  ASSUME NEW q \in Seq(Plain)
  PROVE  /\ Work(q) \in Works /\ Work(q).done \in Seq(Parts) /\ Work(q).text \in Seq(Plain)
<1>1. Len(q) \in 0..Len(q)
  OBVIOUS
<1>2. Work(q) \in Works
  BY <1>1, LinesDefined DEF Work
<1> QED BY <1>2 DEF Works

LEMMA WorkEmpty == Work(<<>>) = NoText
<1>1. <<>> \in Seq(Plain) /\ Len(<<>>) = 0
  OBVIOUS
<1> QED BY <1>1, LinesDefined DEF Work

\* A byte more.
LEMMA WorkAppend ==
  ASSUME NEW q \in Seq(Plain), NEW b \in Plain
  PROVE  Work(Append(q, b)) = AddByte(Work(q), b)
<1> DEFINE r == Append(q, b)
           n == Len(q)
           f == Lines(q)
           g == Lines(r)
<1>1. /\ r \in Seq(Plain) /\ Len(r) = n + 1 /\ n \in Nat /\ r[n + 1] = b
      /\ \A i \in 1..n : r[i] = q[i]
  BY AppendProperties
<1>2. f[0] = NoText /\ \A i \in 1..n : f[i] = AddByte(f[i - 1], q[i])
  BY LinesDefined
<1>3. g[0] = NoText /\ \A i \in 1..Len(r) : g[i] = AddByte(g[i - 1], r[i])
  <2> HIDE DEF r
  <2> QED BY <1>1, LinesDefined
<1> HIDE DEF r, f, g, n
<1>4. \A i \in 1..n : f[i - 1] = g[i - 1] => f[i] = g[i]
  BY <1>1, <1>2, <1>3
<1>5. \A i \in 0..n : f[i] = g[i]
  <2>1. f[0] = g[0] /\ n \in Nat
    BY <1>1, <1>2, <1>3
  <2> QED BY <1>4, <2>1, RecursionUnique, SMTT(60)
<1>6. g[n + 1] = AddByte(g[n], b)
  <2>1. n + 1 \in 1..Len(r) /\ (n + 1) - 1 = n
    BY <1>1
  <2> QED BY <1>1, <1>3, <2>1
<1>7. Work(q) = f[n] /\ Work(r) = g[n + 1] /\ n \in 0..n
  BY <1>1 DEF Work, f, g, r, n
<1> QED BY <1>5, <1>6, <1>7 DEF r

\* A byte less.
LEMMA WorkFront ==
  ASSUME NEW q \in Seq(Plain), q # <<>>
  PROVE  Front(q) \in Seq(Plain) /\ Last(q) \in Plain /\ Work(q) = AddByte(Work(Front(q)), Last(q))
<1>1. Front(q) \in Seq(Plain) /\ Last(q) \in Plain /\ q = Append(Front(q), Last(q))
  BY FrontIs
<1> QED BY <1>1, WorkAppend

\* A byte that ends no line is text; one that does leaves none.
LEMMA AddByteIs ==
  ASSUME NEW w \in Works, NEW b \in Plain
  PROVE  LET r == AddByte(w, b) IN
         \/ /\ b = "LF" /\ w.text # <<>> /\ Last(w.text) = "CR"
            /\ r.done = Append(w.done, ParseCommand(Front(w.text))) /\ r.text = <<>>
         \/ /\ ~(b = "LF" /\ w.text # <<>> /\ Last(w.text) = "CR")
            /\ r.done = w.done /\ r.text = Append(w.text, b)
<1>1. w = [done |-> w.done, text |-> w.text]
  BY DEF Works
<1>2. CASE b = "LF" /\ w.text # <<>> /\ Last(w.text) = "CR"
  <2>1. AddByte(w, b) = [done |-> Append(w.done, ParseCommand(Front(w.text))), text |-> <<>>]
    BY <1>2 DEF AddByte
  <2> QED BY <1>2, <2>1
<1>3. CASE ~(b = "LF" /\ w.text # <<>> /\ Last(w.text) = "CR")
  <2>1. AddByte(w, b) = [w EXCEPT !.text = Append(w.text, b)]
    BY <1>3 DEF AddByte
  <2>2. [w EXCEPT !.text = Append(w.text, b)] = [done |-> w.done, text |-> Append(w.text, b)]
    BY <1>1
  <2> QED BY <1>3, <2>1, <2>2
<1> QED BY <1>2, <1>3

\* An erase takes the last byte of the text behind the lines, if there is one.
LEMMA WorkErased ==
  ASSUME NEW q \in Seq(Plain), Work(q).text # <<>>
  PROVE  /\ q # <<>> /\ Work(Front(q)).done = Work(q).done
         /\ Work(Front(q)).text = Front(Work(q).text)
<1>1. q # <<>>
  BY WorkEmpty DEF NoText
<1> DEFINE w == Work(Front(q))
           b == Last(q)
<1>2. Front(q) \in Seq(Plain) /\ b \in Plain /\ Work(q) = AddByte(w, b)
  BY <1>1, WorkFront
<1>3. w \in Works /\ w.text \in Seq(Plain)
  BY <1>2, WorkTyped
<1> HIDE DEF w, b
<1>4. Work(q).done = w.done /\ Work(q).text = Append(w.text, b)
  BY <1>2, <1>3, AddByteIs
<1>5. Front(Append(w.text, b)) = w.text
  <2> DEFINE t == w.text
             u == Append(t, b)
  <2>1. t \in Seq(Plain)
    BY <1>3
  <2> HIDE DEF t
  <2>2. u \in Seq(Plain) /\ u # <<>> /\ Len(u) = Len(t) + 1 /\ \A i \in 1..Len(t) : u[i] = t[i]
    BY <1>2, <2>1, AppendProperties
  <2> HIDE DEF u
  <2>3. Front(u) \in Seq(Plain) /\ Len(Front(u)) = Len(t) /\ \A i \in 1..Len(t) : Front(u)[i] = t[i]
    <3>1. Len(u) - 1 = Len(t)
      BY <2>1, <2>2
    <3> QED BY <2>2, <3>1, FrontIs
  <2>4. Front(u) = t
    BY <2>1, <2>3, SameSeq
  <2> QED BY <2>4 DEF t, u
<1> QED BY <1>1, <1>4, <1>5 DEF w

LEMMA WorkNothing ==
  ASSUME NEW q \in Seq(Plain), Work(q).text = <<>>, Work(q).done = <<>>
  PROVE  q = <<>>
<1> SUFFICES ASSUME q # <<>> PROVE FALSE
  OBVIOUS
<1> DEFINE w == Work(Front(q))
           b == Last(q)
<1>2. Front(q) \in Seq(Plain) /\ b \in Plain /\ Work(q) = AddByte(w, b)
  BY WorkFront
<1>3. w \in Works /\ w.text \in Seq(Plain) /\ w.done \in Seq(Parts)
  BY <1>2, WorkTyped
<1> HIDE DEF w, b
<1>4. \/ Work(q).done = Append(w.done, ParseCommand(Front(w.text)))
      \/ Work(q).text = Append(w.text, b)
  BY <1>2, <1>3, AddByteIs
<1>5. Append(w.text, b) # <<>>
  BY <1>2, <1>3, AppendProperties
<1> QED BY <1>2, <1>3, <1>4, <1>5, AddByteIs

\* Where a line ends.
LEMMA PairIs ==
  ASSUME NEW q \in Seq(Plain), NEW i \in 1..(Len(q) - 1)
  PROVE  SubSeq(q, i, i + 1) = <<"CR", "LF">> <=> q[i] = "CR" /\ q[i + 1] = "LF"
<1>1. PICK u, a, b : u = SubSeq(q, i, i + 1) /\ a = i - 1 /\ b = i + 1
  OBVIOUS
<1>2. a \in 0..b /\ b \in 0..Len(q) /\ a + 1 = i /\ a + 2 = b /\ b - a = 2
  BY <1>1
<1>3. u = SubSeq(q, a + 1, b)
  BY <1>1, <1>2
<1>4. u \in Seq(Plain) /\ Len(u) = b - a /\ \A j \in 1..(b - a) : u[j] = q[a + j]
  BY <1>2, <1>3, PieceIs
<1>5. u \in Seq(Plain) /\ Len(u) = 2 /\ u[1] = q[a + 1] /\ u[2] = q[a + 2]
  BY <1>2, <1>4
<1>6. u = <<u[1], u[2]>>
  BY <1>5
<1>7. a + 2 = i + 1
  BY <1>1
<1>8. u = <<"CR", "LF">> <=> u[1] = "CR" /\ u[2] = "LF"
  BY <1>6
<1> QED BY <1>1, <1>2, <1>5, <1>7, <1>8

LEMMA LineEndIs ==
  ASSUME NEW q \in Seq(Plain), \E i \in 1..(Len(q) - 1) : SubSeq(q, i, i + 1) = <<"CR", "LF">>
  PROVE  /\ LineEnd(q) \in 1..(Len(q) - 1) /\ q[LineEnd(q)] = "CR" /\ q[LineEnd(q) + 1] = "LF"
         /\ \A i \in 1..(LineEnd(q) - 1) : ~(q[i] = "CR" /\ q[i + 1] = "LF")
<1> DEFINE T == {i \in 1..(Len(q) - 1) : SubSeq(q, i, i + 1) = <<"CR", "LF">>}
<1>1. LineEnd(q) = Min(T)
  BY DEF LineEnd
<1>2. T \in SUBSET Nat /\ T # {}
  OBVIOUS
<1>3. \A i \in 1..(Len(q) - 1) : i \in T <=> q[i] = "CR" /\ q[i + 1] = "LF"
  BY PairIs
<1>4. T \subseteq 1..(Len(q) - 1) /\ Len(q) \in Nat
  OBVIOUS
<1> HIDE DEF T
<1>5. PICK m \in T : \A i \in T : m <= i
  BY <1>2, LeastNumber
<1>6. LineEnd(q) = m
  BY <1>1, <1>2, <1>5, MinIs
<1>7. \A i \in 1..(m - 1) : i \in 1..(Len(q) - 1) /\ i \notin T
  BY <1>4, <1>5
<1> QED BY <1>3, <1>4, <1>5, <1>6, <1>7

\* In front of the end of its first line, q is text.
LEMMA WorkBefore ==
  ASSUME NEW q \in Seq(Plain), NEW e \in 0..Len(q),
         \A i \in 1..(e - 1) : ~(q[i] = "CR" /\ q[i + 1] = "LF")
  PROVE  \A i \in 0..e : Lines(q)[i].done = <<>> /\ Lines(q)[i].text = SubSeq(q, 1, i)
<1> DEFINE L == Lines(q)
           P == {i \in 0..e : L[i].done = <<>> /\ L[i].text = SubSeq(q, 1, i)}
<1>1. /\ L \in [0..Len(q) -> Works] /\ L[0] = NoText
      /\ \A i \in 1..Len(q) : L[i] = AddByte(L[i - 1], q[i])
  BY LinesDefined
<1>2. Len(q) \in Nat /\ e \in Nat
  OBVIOUS
<1> HIDE DEF L
<1>3. 0 \in P
  <2>1. SubSeq(q, 1, 0) = <<>> /\ 0 \in 0..e
    BY <1>2
  <2>2. L[0].done = <<>> /\ L[0].text = <<>>
    BY <1>1 DEF NoText
  <2> QED BY <2>1, <2>2
<1>4. ASSUME NEW i \in 1..e, i - 1 \in P PROVE i \in P
  <2> DEFINE t == SubSeq(q, 1, i - 1)
  <2>1. i \in 1..Len(q) /\ i - 1 \in 0..Len(q) /\ q[i] \in Plain
    BY <1>2
  <2>2. L[i - 1] \in Works /\ L[i - 1].done = <<>> /\ L[i - 1].text = t /\ L[i] = AddByte(L[i - 1], q[i])
    BY <1>1, <1>4, <2>1
  <2>3. t \in Seq(Plain) /\ Len(t) = i - 1 /\ \A j \in 1..(i - 1) : t[j] = q[j]
    BY <2>1, PrefixIs
  <2>4. ~(q[i] = "LF" /\ t # <<>> /\ Last(t) = "CR")
    <3>1. ASSUME t # <<>>, q[i] = "LF" PROVE Last(t) # "CR"
      <4>1. i - 1 \in 1..(i - 1)
        <5>1. Len(t) # 0
          <6> HIDE DEF t
          <6> QED BY <2>3, <3>1
        <5> QED BY <2>1, <2>3, <5>1
      <4>2. Last(t) = q[i - 1]
        BY <2>3, <4>1 DEF Last
      <4>3. i - 1 \in 1..(e - 1) /\ (i - 1) + 1 = i
        BY <1>2, <4>1
      <4> QED BY <3>1, <4>2, <4>3
    <3> QED BY <3>1
  <2>5. L[i].done = <<>> /\ L[i].text = Append(t, q[i])
    <3> HIDE DEF t
    <3> QED BY <2>1, <2>2, <2>4, AddByteIs
  <2>6. Append(t, q[i]) = SubSeq(q, 1, i) /\ i \in 0..e
    BY <1>2, <2>1
  <2> HIDE DEF t
  <2> QED BY <2>5, <2>6
<1>5. \A i \in 0..e : i \in P
  <2>1. \A i \in 1..e : i - 1 \in P => i \in P
    BY <1>4
  <2> HIDE DEF P
  <2> QED BY <1>2, <1>3, <2>1, Induction
<1> QED BY <1>5 DEF L

\* The first line taken, the rest is as it was.
LEMMA WorkRest ==
  ASSUME NEW q \in Seq(Plain), NEW e \in 1..(Len(q) - 1), q[e] = "CR", q[e + 1] = "LF",
         \A i \in 1..(e - 1) : ~(q[i] = "CR" /\ q[i + 1] = "LF"),
         NEW u, u = SubSeq(q, e + 2, Len(q))
  PROVE  /\ u \in Seq(Plain) /\ Work(q).text = Work(u).text
         /\ Work(q).done = <<ParseCommand(SubSeq(q, 1, e - 1))>> \o Work(u).done
<1> DEFINE L == Lines(q)
           M == Lines(u)
           c == ParseCommand(SubSeq(q, 1, e - 1))
           n == Len(u)
           P == {i \in 0..n : L[e + 1 + i].done = <<c>> \o M[i].done /\ L[e + 1 + i].text = M[i].text}
<1>1. /\ L \in [0..Len(q) -> Works]
      /\ \A i \in 1..Len(q) : L[i] = AddByte(L[i - 1], q[i])
  BY LinesDefined
<1>2. Len(q) \in Nat /\ e \in Nat /\ e + 1 \in 0..Len(q) /\ e + 1 \in 1..Len(q) /\ e \in 0..Len(q)
  OBVIOUS
<1>3. /\ u \in Seq(Plain) /\ n = Len(q) - (e + 1) /\ n \in Nat
      /\ \A i \in 1..n : u[i] = q[e + 1 + i]
  <2>1. u = SubSeq(q, (e + 1) + 1, Len(q))
    BY <1>2
  <2> QED BY <1>2, <2>1, SuffixIs
<1>4. /\ M \in [0..n -> Works] /\ M[0] = NoText
      /\ \A i \in 1..n : M[i] = AddByte(M[i - 1], u[i])
  BY <1>3, LinesDefined
<1> HIDE DEF L, M, n
<1>5. L[e + 1].done = <<c>> /\ L[e + 1].text = <<>>
  <2> DEFINE t == SubSeq(q, 1, e)
  <2>1. L[e].done = <<>> /\ L[e].text = t /\ L[e] \in Works
    <3>1. \A i \in 0..e : Lines(q)[i].done = <<>> /\ Lines(q)[i].text = SubSeq(q, 1, i)
      BY <1>2, WorkBefore
    <3>2. e \in 0..e
      BY <1>2
    <3> QED BY <1>1, <1>2, <3>1, <3>2 DEF L
  <2>2. t \in Seq(Plain) /\ Len(t) = e /\ \A i \in 1..e : t[i] = q[i]
    BY <1>2, PrefixIs
  <2>3. t # <<>> /\ Last(t) = "CR"
    BY <1>2, <2>2 DEF Last
  <2>4. Front(t) = SubSeq(q, 1, e - 1)
    BY <1>2, <2>2 DEF Front
  <2>5. L[e + 1] = AddByte(L[e], q[e + 1]) /\ q[e + 1] \in Plain
    <3>1. (e + 1) - 1 = e
      BY <1>2
    <3> QED BY <1>1, <1>2, <3>1
  <2> HIDE DEF t
  <2>6. L[e + 1].done = Append(<<>>, ParseCommand(Front(t))) /\ L[e + 1].text = <<>>
    BY <2>1, <2>3, <2>5, AddByteIs
  <2> QED BY <2>4, <2>6
<1> HIDE DEF c
<1>6. 0 \in P
  <2>1. e + 1 + 0 = e + 1 /\ 0 \in 0..n
    BY <1>2, <1>3
  <2>2. <<c>> \o M[0].done = <<c>> /\ M[0].text = <<>>
    BY <1>4 DEF NoText
  <2> QED BY <1>5, <2>1, <2>2
<1>7. ASSUME NEW i \in 1..n, i - 1 \in P PROVE i \in P
  <2> DEFINE k == e + 1 + i
             v == L[k - 1]
             w == M[i - 1]
  <2>1. k \in 1..Len(q) /\ k - 1 = e + 1 + (i - 1) /\ k - 1 \in 0..Len(q) /\ i - 1 \in 0..n
        /\ i \in 0..n
    BY <1>2, <1>3
  <2>2. v.done = <<c>> \o w.done /\ v.text = w.text
    BY <1>7, <2>1
  <2>3. v \in Works /\ w \in Works /\ q[k] \in Plain
    <3>1. \A j \in 0..Len(q) : L[j] \in Works
      BY <1>1
    <3>2. \A j \in 0..n : M[j] \in Works
      BY <1>4
    <3> HIDE DEF k
    <3> QED BY <2>1, <3>1, <3>2
  <2>4. L[k] = AddByte(v, q[k]) /\ M[i] = AddByte(w, q[k])
    BY <1>1, <1>3, <1>4, <2>1
  <2>5. v.done \in Seq(Parts) /\ w.done \in Seq(Parts)
    BY <2>3 DEF Works
  <2> HIDE DEF v, w
  <2>6. L[k].done = <<c>> \o M[i].done /\ L[k].text = M[i].text
    <3>1. CASE q[k] = "LF" /\ w.text # <<>> /\ Last(w.text) = "CR"
      <4>1. /\ L[k].done = Append(v.done, ParseCommand(Front(w.text))) /\ L[k].text = <<>>
            /\ M[i].done = Append(w.done, ParseCommand(Front(w.text))) /\ M[i].text = <<>>
        BY <2>2, <2>3, <2>4, <3>1, AddByteIs
      <4>2. Append(<<c>> \o w.done, ParseCommand(Front(w.text)))
              = <<c>> \o Append(w.done, ParseCommand(Front(w.text)))
        BY <2>5
      <4> QED BY <2>2, <4>1, <4>2
    <3>2. CASE ~(q[k] = "LF" /\ w.text # <<>> /\ Last(w.text) = "CR")
      BY <2>2, <2>3, <2>4, <3>2, AddByteIs
    <3> QED BY <3>1, <3>2
  <2> QED BY <2>1, <2>6
<1>8. \A i \in 0..n : i \in P
  <2>1. \A i \in 1..n : i - 1 \in P => i \in P
    BY <1>7
  <2> HIDE DEF P
  <2> QED BY <1>3, <1>6, <2>1, Induction
<1>9. n \in P /\ e + 1 + n = Len(q)
  <2> HIDE DEF P
  <2> QED BY <1>2, <1>3, <1>8
<1>10. Work(q) = L[Len(q)] /\ Work(u) = M[n]
  BY DEF Work, L, M, n
<1> QED BY <1>3, <1>9, <1>10 DEF c

-----------------------------------------------------------------------------
(* Tokens and their bytes.                                                 *)

\* Where the code of a token begins and ends.
LEMMA Offsets ==
  ASSUME NEW tokens \in Seq(Tokens)
  PROVE  LET e == Encoded(tokens) IN
         /\ \A k \in 0..Len(tokens) : e[k] \in Seq(Bytes) /\ Len(e[k]) \in Nat
         /\ Len(e[0]) = 0
         /\ \A k \in 1..Len(tokens) : /\ tokens[k] \in Tokens /\ Len(Code[tokens[k]]) \in 1..3
                                       /\ Len(e[k]) = Len(e[k - 1]) + Len(Code[tokens[k]])
         /\ \A j, k \in 0..Len(tokens) : j < k => Len(e[j]) < Len(e[k])
<1> DEFINE e == Encoded(tokens)
           n == Len(tokens)
<1>1. /\ e \in [0..n -> Seq(Bytes)] /\ e[0] = <<>>
      /\ \A k \in 1..n : e[k] = e[k - 1] \o Code[tokens[k]]
  BY EncodedDefined
<1>2. n \in Nat /\ \A k \in 1..n : tokens[k] \in Tokens
  OBVIOUS
<1> HIDE DEF e, n
<1>3. \A k \in 0..n : e[k] \in Seq(Bytes) /\ Len(e[k]) \in Nat
  BY <1>1
<1>4. Len(e[0]) = 0
  BY <1>1
<1>5. ASSUME NEW k \in 1..n
      PROVE  /\ tokens[k] \in Tokens /\ Len(Code[tokens[k]]) \in 1..3
             /\ Len(e[k]) = Len(e[k - 1]) + Len(Code[tokens[k]])
  <2>1. Code[tokens[k]] \in Seq(Bytes) /\ Len(Code[tokens[k]]) \in 1..3
    BY <1>2, CodeTyped
  <2>2. k - 1 \in 0..n
    BY <1>2
  <2>3. e[k - 1] \in Seq(Bytes) /\ e[k] = e[k - 1] \o Code[tokens[k]]
    BY <1>1, <1>3, <2>2
  <2>4. Len(e[k - 1] \o Code[tokens[k]]) = Len(e[k - 1]) + Len(Code[tokens[k]])
    BY <2>1, <2>3, ConcatIs
  <2> QED BY <1>2, <2>1, <2>3, <2>4
<1>6. ASSUME NEW j \in 0..n
      PROVE  \A k \in 0..n : j < k => Len(e[j]) < Len(e[k])
  <2> DEFINE P == {k \in 0..n : j < k => Len(e[j]) < Len(e[k])}
  <2>1. 0 \in P
    BY <1>2
  <2>2. ASSUME NEW k \in 1..n, k - 1 \in P PROVE k \in P
    <3>1. Len(e[k - 1]) < Len(e[k]) /\ Len(e[k - 1]) \in Nat /\ Len(e[k]) \in Nat /\ Len(e[j]) \in Nat
          /\ k \in 0..n
      <4>1. k - 1 \in 0..n /\ k \in 0..n
        BY <1>2
      <4>2. Len(e[k - 1]) \in Nat /\ Len(e[k]) \in Nat /\ Len(e[j]) \in Nat
        BY <1>3, <4>1
      <4>3. PICK c \in 1..3 : Len(e[k]) = Len(e[k - 1]) + c
        BY <1>5
      <4> QED BY <4>1, <4>2, <4>3
    <3>2. CASE j = k - 1
      BY <3>1, <3>2
    <3>3. CASE j # k - 1
      BY <2>2, <3>1, <3>3
    <3> QED BY <3>2, <3>3
  <2>3. \A k \in 1..n : k - 1 \in P => k \in P
    BY <2>2
  <2>4. \A k \in 0..n : k \in P
    <3> HIDE DEF P
    <3> QED BY <1>2, <2>1, <2>3, Induction
  <2> QED BY <2>4
<1> QED BY <1>3, <1>4, <1>5, <1>6 DEF e, n

\* The codes of the first tokens begin every longer stream.
LEMMA EncodedPrefix ==
  ASSUME NEW tokens \in Seq(Tokens)
  PROVE  LET e == Encoded(tokens) IN
         \A k \in 0..Len(tokens) : \A j \in 0..k : \A i \in 1..Len(e[j]) : e[k][i] = e[j][i]
<1> DEFINE e == Encoded(tokens)
           n == Len(tokens)
           P == {k \in 0..n : \A j \in 0..k : \A i \in 1..Len(e[j]) : e[k][i] = e[j][i]}
<1>1. \A k \in 1..n : e[k] = e[k - 1] \o Code[tokens[k]]
  BY EncodedDefined
<1>2. /\ \A k \in 0..n : e[k] \in Seq(Bytes) /\ Len(e[k]) \in Nat
      /\ \A j, k \in 0..n : j < k => Len(e[j]) < Len(e[k])
  BY Offsets
<1>3. n \in Nat /\ \A k \in 1..n : Code[tokens[k]] \in Seq(Bytes)
  BY CodeTyped
<1> HIDE DEF e, n
<1>4. 0 \in P
  BY <1>3
<1>5. ASSUME NEW k \in 1..n, k - 1 \in P PROVE k \in P
  <2>1. k \in 0..n /\ k - 1 \in 0..n
    BY <1>3
  <2>2. \A i \in 1..Len(e[k - 1]) : e[k][i] = e[k - 1][i]
    <3>1. e[k - 1] \in Seq(Bytes) /\ Code[tokens[k]] \in Seq(Bytes)
      BY <1>2, <1>3, <2>1
    <3>2. \A i \in 1..Len(e[k - 1]) : (e[k - 1] \o Code[tokens[k]])[i] = e[k - 1][i]
      BY <3>1, ConcatIs
    <3> QED BY <1>1, <3>2
  <2>3. ASSUME NEW j \in 0..k, NEW i \in 1..Len(e[j]) PROVE e[k][i] = e[j][i]
    <3>1. CASE j = k
      BY <3>1
    <3>2. CASE j # k
      <4>1. j \in 0..(k - 1) /\ j \in 0..n
        BY <1>3, <3>2
      <4>2. e[k - 1][i] = e[j][i]
        BY <1>5, <4>1
      <4>3. Len(e[j]) <= Len(e[k - 1])
        BY <1>2, <2>1, <4>1
      <4>4. i \in 1..Len(e[k - 1])
        BY <1>2, <2>1, <4>1, <4>3
      <4> QED BY <2>2, <4>2, <4>4
    <3> QED BY <3>1, <3>2
  <2> QED BY <2>1, <2>3
<1>6. \A k \in 0..n : k \in P
  <2>1. \A k \in 1..n : k - 1 \in P => k \in P
    BY <1>5
  <2> HIDE DEF P
  <2> QED BY <1>3, <1>4, <2>1, Induction
<1> QED BY <1>6 DEF e, n

LEMMA ByteOf ==
  ASSUME NEW tokens \in Seq(Tokens), NEW k \in 1..Len(tokens), NEW i \in 1..Len(Code[tokens[k]])
  PROVE  LET e == Encoded(tokens) IN
         /\ Len(e[k - 1]) + i \in 1..Len(e[Len(tokens)])
         /\ e[Len(tokens)][Len(e[k - 1]) + i] = Code[tokens[k]][i]
<1> DEFINE e == Encoded(tokens)
           n == Len(tokens)
           c == Code[tokens[k]]
           m == Len(e[k - 1]) + i
<1>1. e[k] = e[k - 1] \o c
  BY EncodedDefined
<1>2. /\ \A j \in 0..n : e[j] \in Seq(Bytes) /\ Len(e[j]) \in Nat
      /\ \A j, l \in 0..n : j < l => Len(e[j]) < Len(e[l])
  BY Offsets
<1>3. Len(e[k]) = Len(e[k - 1]) + Len(c)
  BY Offsets
<1>4. n \in Nat /\ c \in Seq(Bytes) /\ Len(c) \in Nat /\ k \in 0..n /\ k - 1 \in 0..n /\ n \in 0..n
  BY CodeTyped
<1>5. \A j \in 0..n : \A l \in 1..Len(e[j]) : e[n][l] = e[j][l]
  BY <1>4, EncodedPrefix
<1>10. i \in 1..Len(c)
  OBVIOUS
<1> HIDE DEF e, n, c
<1>6. e[k][m] = c[i]
  <2>1. e[k - 1] \in Seq(Bytes)
    BY <1>2, <1>4
  <2>2. (e[k - 1] \o c)[Len(e[k - 1]) + i] = c[i]
    BY <1>4, <1>10, <2>1, ConcatIs
  <2> QED BY <1>1, <2>2
<1>7. m \in 1..Len(e[k])
  <2>1. Len(e[k - 1]) \in Nat
    BY <1>2, <1>4
  <2> QED BY <1>3, <1>4, <1>10, <2>1
<1>8. Len(e[k]) <= Len(e[n])
  BY <1>2, <1>4 DEF n
<1>9. m \in 1..Len(e[n])
  BY <1>2, <1>4, <1>7, <1>8
<1> QED BY <1>4, <1>5, <1>6, <1>7, <1>9 DEF e, n, c

\* A token more changes nothing of what was said before it.
LEMMA SaidMore ==
  ASSUME NEW tokens \in Seq(Tokens), NEW t \in Tokens
  PROVE  LET more == Append(tokens, t) IN
         /\ more \in Seq(Tokens) /\ Len(more) = Len(tokens) + 1
         /\ \A k \in 0..Len(tokens) : /\ Encoded(more)[k] = Encoded(tokens)[k]
                                       /\ Reception(more)[k] = Reception(tokens)[k]
<1> DEFINE more == Append(tokens, t)
           n == Len(tokens)
           e == Encoded(tokens)
           f == Encoded(more)
           m == Reception(tokens)
           o == Reception(more)
<1>1. more \in Seq(Tokens) /\ Len(more) = n + 1 /\ n \in Nat /\ \A k \in 1..n : more[k] = tokens[k]
  BY AppendProperties
<1>2. /\ e[0] = <<>> /\ \A k \in 1..n : e[k] = e[k - 1] \o Code[tokens[k]]
      /\ m[0] = Silence /\ \A k \in 1..n : m[k] = Receives(tokens[k], m[k - 1])
  BY EncodedDefined, ReceptionDefined
<1>3. /\ f[0] = <<>> /\ \A k \in 1..(n + 1) : f[k] = f[k - 1] \o Code[more[k]]
      /\ o[0] = Silence /\ \A k \in 1..(n + 1) : o[k] = Receives(more[k], o[k - 1])
  <2> HIDE DEF more
  <2> QED BY <1>1, EncodedDefined, ReceptionDefined
<1> HIDE DEF more, n, e, f, m, o
<1>4. \A k \in 1..n : k \in 1..(n + 1)
  BY <1>1
<1>5. \A k \in 0..n : e[k] = f[k]
  <2>1. \A k \in 1..n : e[k - 1] = f[k - 1] => e[k] = f[k]
    BY <1>1, <1>2, <1>3, <1>4
  <2>2. e[0] = f[0] /\ n \in Nat
    BY <1>1, <1>2, <1>3
  <2> QED BY <2>1, <2>2, RecursionUnique, SMTT(60)
<1>6. \A k \in 0..n : m[k] = o[k]
  <2>1. \A k \in 1..n : m[k - 1] = o[k - 1] => m[k] = o[k]
    BY <1>1, <1>2, <1>3, <1>4
  <2>2. m[0] = o[0] /\ n \in Nat
    BY <1>1, <1>2, <1>3
  <2> QED BY <2>1, <2>2, RecursionUnique, ZenonT(60)
<1> QED BY <1>1, <1>5, <1>6 DEF more, n, e, f, m, o

\* k tokens are whole in n bytes.
IsWhole(tokens, n, k) ==
  /\ k \in 0..Len(tokens) /\ Len(Encoded(tokens)[k]) <= n
  /\ k < Len(tokens) => n < Len(Encoded(tokens)[k + 1])

LEMMA WholeIs ==
  ASSUME NEW tokens \in Seq(Tokens), NEW n \in Nat, NEW k, IsWhole(tokens, n, k)
  PROVE  WholeTokens(tokens, n) = k
<1> DEFINE e == Encoded(tokens)
           T == {j \in 0..Len(tokens) : Len(e[j]) <= n}
<1>1. WholeTokens(tokens, n) = Max(T)
  BY DEF WholeTokens
<1>2. /\ \A j \in 0..Len(tokens) : Len(e[j]) \in Nat
      /\ \A i, j \in 0..Len(tokens) : i < j => Len(e[i]) < Len(e[j])
  BY Offsets
<1>3. k \in 0..Len(tokens) /\ Len(e[k]) <= n /\ (k < Len(tokens) => n < Len(e[k + 1]))
  BY DEF IsWhole
<1> HIDE DEF e
<1>4. Len(tokens) \in Nat
  OBVIOUS
<1>5. ASSUME NEW j \in 0..Len(tokens), Len(e[j]) <= n, j > k PROVE FALSE
  <2>1. k + 1 \in 0..Len(tokens) /\ k < Len(tokens)
    BY <1>3, <1>4, <1>5
  <2>2. j = k + 1 \/ Len(e[k + 1]) < Len(e[j])
    BY <1>2, <1>3, <1>4, <1>5, <2>1
  <2> QED BY <1>2, <1>3, <1>5, <2>1, <2>2
<1>6. T \in SUBSET Nat /\ k \in T /\ \A j \in T : k >= j
  BY <1>3, <1>4, <1>5
<1> HIDE DEF T
<1> QED BY <1>1, <1>6, MaxIs

LEMMA WholeExists ==
  ASSUME NEW tokens \in Seq(Tokens), NEW n \in Nat
  PROVE  IsWhole(tokens, n, WholeTokens(tokens, n))
<1> DEFINE e == Encoded(tokens)
           U == {j \in 1..Len(tokens) : n < Len(e[j])}
<1>1. Len(e[0]) = 0 /\ \A j \in 0..Len(tokens) : Len(e[j]) \in Nat
  BY Offsets
<1>2. Len(tokens) \in Nat
  OBVIOUS
<1> HIDE DEF e
<1>3. CASE U = {}
  <2>1. \A j \in 1..Len(tokens) : Len(e[j]) <= n
    BY <1>1, <1>2, <1>3
  <2>2. Len(e[Len(tokens)]) <= n
    BY <1>1, <1>2, <2>1
  <2>3. IsWhole(tokens, n, Len(tokens))
    BY <1>2, <2>2 DEF IsWhole, e
  <2> QED BY <2>3, WholeIs
<1>4. CASE U # {}
  <2>1. PICK m \in U : \A j \in U : m <= j
    <3>1. U \in SUBSET Nat
      BY <1>2
    <3> HIDE DEF U
    <3> QED BY <1>4, <3>1, LeastNumber
  <2>2. m \in 1..Len(tokens) /\ n < Len(e[m]) /\ m - 1 \in 0..Len(tokens) /\ (m - 1) + 1 = m
    BY <1>2, <2>1
  <2>3. Len(e[m - 1]) <= n
    <3>1. CASE m = 1
      BY <1>1, <3>1
    <3>2. CASE m # 1
      <4>1. m - 1 \in 1..Len(tokens) /\ m - 1 \notin U
        BY <1>2, <2>1, <2>2, <3>2
      <4> QED BY <1>1, <2>2, <4>1
    <3> QED BY <3>1, <3>2
  <2>4. IsWhole(tokens, n, m - 1)
    BY <2>2, <2>3 DEF IsWhole, e
  <2> QED BY <2>4, WholeIs
<1> QED BY <1>3, <1>4

\* w tokens are whole in n bytes, the next one has begun with j bytes.
At(tokens, n, w, j) ==
  /\ w \in 0..(Len(tokens) - 1) /\ tokens[w + 1] \in Tokens
  /\ j \in 0..(Len(Code[tokens[w + 1]]) - 1)
  /\ n = Len(Encoded(tokens)[w]) + j
  /\ WholeTokens(tokens, n) = w

LEMMA AtExists ==
  ASSUME NEW tokens \in Seq(Tokens), NEW n \in Nat, n < Len(Encoded(tokens)[Len(tokens)])
  PROVE  \E w, j : At(tokens, n, w, j)
<1> DEFINE e == Encoded(tokens)
           l == Len(tokens)
<1>2. /\ l \in Nat /\ \A i \in 0..l : Len(e[i]) \in Nat
      /\ \A i \in 1..l : /\ tokens[i] \in Tokens /\ Len(Code[tokens[i]]) \in 1..3
                         /\ Len(e[i]) = Len(e[i - 1]) + Len(Code[tokens[i]])
  <2>1. l \in Nat
    OBVIOUS
  <2>2. \A i \in 0..l : Len(e[i]) \in Nat
    BY Offsets
  <2>3. \A i \in 1..l : /\ tokens[i] \in Tokens /\ Len(Code[tokens[i]]) \in 1..3
                        /\ Len(e[i]) = Len(e[i - 1]) + Len(Code[tokens[i]])
    BY Offsets
  <2> QED BY <2>1, <2>2, <2>3
<1> HIDE DEF e, l
<1>3. PICK w : w = WholeTokens(tokens, n)
  OBVIOUS
<1>4. w \in 0..l /\ Len(e[w]) <= n /\ (w < l => n < Len(e[w + 1]))
  BY <1>3, WholeExists DEF IsWhole, e, l
<1>5. w # l
  BY <1>4 DEF e, l
<1>6. w \in 0..(l - 1) /\ w + 1 \in 1..l /\ (w + 1) - 1 = w /\ n < Len(e[w + 1])
  BY <1>2, <1>4, <1>5
<1>7. PICK o, m : o = Len(e[w]) /\ m = Len(Code[tokens[w + 1]])
  OBVIOUS
<1>8. o \in Nat /\ m \in 1..3 /\ Len(e[w + 1]) = o + m
  BY <1>2, <1>4, <1>6, <1>7
<1>9. o <= n /\ n < o + m
  BY <1>4, <1>6, <1>7, <1>8
<1>10. n - o \in 0..(m - 1) /\ n = o + (n - o)
  BY <1>8, <1>9
<1>11. At(tokens, n, w, n - o)
  BY <1>2, <1>3, <1>6, <1>7, <1>10 DEF At, e, l
<1> QED BY <1>11

\* The bytes of a token that have begun, and what the next byte does: with the
\* last one the token is whole.
LEMMA NextByte ==
  ASSUME NEW tokens \in Seq(Tokens), NEW n \in Nat, NEW w, NEW j, At(tokens, n, w, j)
  PROVE  LET c == Code[tokens[w + 1]] IN
         /\ n < Len(Encoded(tokens)[Len(tokens)])
         /\ Encoded(tokens)[Len(tokens)][n + 1] = c[j + 1]
         /\ Begun(tokens, n) = SubSeq(c, 1, j)
         /\ j + 1 < Len(c) => At(tokens, n + 1, w, j + 1)
         /\ j + 1 = Len(c) => /\ WholeTokens(tokens, n + 1) = w + 1
                              /\ Begun(tokens, n + 1) = <<>>
         /\ Reception(tokens)[w] \in Senses
         /\ Reception(tokens)[w + 1] = Receives(tokens[w + 1], Reception(tokens)[w])
<1> DEFINE e == Encoded(tokens)
           l == Len(tokens)
           z == e[l]
<1>4. /\ l \in Nat /\ \A i \in 0..l : e[i] \in Seq(Bytes) /\ Len(e[i]) \in Nat
      /\ \A i \in 1..l : Len(e[i]) = Len(e[i - 1]) + Len(Code[tokens[i]])
      /\ \A i, q \in 0..l : i < q => Len(e[i]) < Len(e[q])
  <2>1. l \in Nat
    OBVIOUS
  <2>2. \A i \in 0..l : e[i] \in Seq(Bytes) /\ Len(e[i]) \in Nat
    BY Offsets
  <2>3. \A i \in 1..l : Len(e[i]) = Len(e[i - 1]) + Len(Code[tokens[i]])
    BY Offsets
  <2>4. \A i, q \in 0..l : i < q => Len(e[i]) < Len(e[q])
    BY Offsets
  <2> QED BY <2>1, <2>2, <2>3, <2>4
<1>1. z = e[l]
  OBVIOUS
<1> HIDE DEF e, l, z
<1>2. PICK k, c, m, o : /\ k = w + 1 /\ c = Code[tokens[k]] /\ m = Len(c) /\ o = Len(e[w])
  OBVIOUS
<1>3. /\ w \in 0..(l - 1) /\ tokens[k] \in Tokens /\ j \in 0..(m - 1) /\ n = o + j
      /\ WholeTokens(tokens, n) = w
  BY <1>2 DEF At, e, l
<1>5. c \in Seq(Bytes) /\ m \in 1..3
  BY <1>2, <1>3, CodeTyped
<1>6. w \in Nat /\ k \in 1..l /\ k - 1 = w /\ k \in 0..l /\ w \in 0..l /\ l \in 0..l /\ k = w + 1
  BY <1>2, <1>3, <1>4
<1>7. o \in Nat /\ Len(e[k]) = o + m /\ z \in Seq(Bytes) /\ Len(z) \in Nat
  <2>1. o \in Nat
    BY <1>2, <1>4, <1>6
  <2>2. Len(e[k]) = Len(e[k - 1]) + Len(Code[tokens[k]])
    BY <1>4, <1>6
  <2>3. z \in Seq(Bytes) /\ Len(z) \in Nat
    BY <1>1, <1>4, <1>6
  <2> QED BY <1>2, <1>6, <2>1, <2>2, <2>3
<1>8. Len(e[k]) <= Len(z)
  BY <1>1, <1>4, <1>6
<1>9. \A i \in 1..m : z[o + i] = c[i]
  <2>1. k \in 1..Len(tokens)
    BY <1>6 DEF l
  <2>2. \A i \in 1..Len(Code[tokens[k]]) :
          Encoded(tokens)[Len(tokens)][Len(Encoded(tokens)[k - 1]) + i] = Code[tokens[k]][i]
    BY <2>1, ByteOf
  <2> QED BY <1>2, <1>6, <2>2 DEF e, l, z
<1>10. n < Len(z) /\ j + 1 \in 1..m /\ n + 1 = o + (j + 1) /\ j \in 0..m
  BY <1>3, <1>5, <1>7, <1>8
<1>11. z[n + 1] = c[j + 1]
  BY <1>9, <1>10
<1>12. Begun(tokens, n) = SubSeq(c, 1, j)
  <2>1. Begun(tokens, n) = SubSeq(z, o + 1, o + j)
    BY <1>2, <1>3 DEF Begun, e, l, z
  <2>2. SubSeq(z, o + 1, o + j) = SubSeq(c, 1, j)
    <3>1. o + Len(c) <= Len(z) /\ j \in 0..Len(c) /\ \A i \in 1..Len(c) : z[o + i] = c[i]
      BY <1>2, <1>7, <1>8, <1>9, <1>10
    <3>2. c \in Seq(Bytes) /\ z \in Seq(Bytes) /\ o \in Nat
      BY <1>5, <1>7
    <3> QED BY <3>1, <3>2, Window
  <2> QED BY <2>1, <2>2
<1>13. ASSUME j + 1 < m
       PROVE  At(tokens, n + 1, w, j + 1)
  <2>1. n + 1 \in Nat /\ o <= n + 1 /\ n + 1 < o + m /\ j + 1 \in 0..(m - 1)
    BY <1>3, <1>5, <1>7, <1>13
  <2>2. IsWhole(tokens, n + 1, w)
    BY <1>2, <1>6, <1>7, <2>1 DEF IsWhole, e, l
  <2>3. WholeTokens(tokens, n + 1) = w
    BY <2>1, <2>2, WholeIs
  <2> QED BY <1>2, <1>3, <1>10, <2>1, <2>3 DEF At, e, l
<1>14. ASSUME j + 1 = m
       PROVE  WholeTokens(tokens, n + 1) = k /\ Begun(tokens, n + 1) = <<>>
  <2>1. n + 1 \in Nat /\ Len(e[k]) = n + 1
    BY <1>3, <1>7, <1>14
  <2>2. k < l => n + 1 < Len(e[k + 1])
    <3>1. k < l => k + 1 \in 0..l /\ k < k + 1
      BY <1>4, <1>6
    <3> QED BY <1>4, <1>6, <2>1, <3>1
  <2>3. IsWhole(tokens, n + 1, k)
    BY <1>6, <2>1, <2>2 DEF IsWhole, e, l
  <2>4. WholeTokens(tokens, n + 1) = k
    BY <2>1, <2>3, WholeIs
  <2>5. Begun(tokens, n + 1) = SubSeq(z, (n + 1) + 1, n + 1)
    BY <2>1, <2>4 DEF Begun, e, l, z
  <2>6. SubSeq(z, (n + 1) + 1, n + 1) = <<>>
    <3>1. (n + 1) + 1 \in Int /\ n + 1 \in Int /\ n + 1 < (n + 1) + 1
      BY <2>1
    <3> QED BY <3>1, SubSeqEmpty
  <2> QED BY <2>4, <2>5, <2>6
<1>15. Reception(tokens)[w] \in Senses /\ Reception(tokens)[k] = Receives(tokens[k], Reception(tokens)[w])
  <2>1. /\ \A i \in 0..l : Reception(tokens)[i] \in Senses
        /\ \A i \in 1..l : Reception(tokens)[i] = Receives(tokens[i], Reception(tokens)[i - 1])
    BY ReceptionDefined DEF l
  <2> QED BY <1>6, <2>1
<1> QED BY <1>2, <1>10, <1>11, <1>12, <1>13, <1>14, <1>15 DEF e, l, z

-----------------------------------------------------------------------------
(* What Telnet::Write sends.                                               *)

Doubling(b) == IF b = "IAC" THEN <<"IAC", "IAC">> ELSE <<b>>

Escapes(msg, e) ==
  /\ e[0] = <<>> /\ \A k \in 1..Len(msg) : e[k] = e[k - 1] \o Doubling(msg[k])
  /\ Escaped(msg) = e[Len(msg)] \o <<"CR", "LF">>

LEMMA EscapedDefined ==
  ASSUME NEW B, "IAC" \in B, NEW msg \in Seq(B)
  PROVE  \E e : Escapes(msg, e)
<1> DEFINE n == Len(msg)
           step == [k \in 1..n |-> [q \in Seq(B) |-> q \o (IF msg[k] = "IAC" THEN <<"IAC", "IAC">> ELSE <<msg[k]>>)]]
           E(f) == [k \in 0..n |-> IF k = 0 THEN <<>> ELSE f[k - 1] \o (IF msg[k] = "IAC" THEN <<"IAC", "IAC">> ELSE <<msg[k]>>)]
<1>0. n \in Nat
  OBVIOUS
<1>1. \A k \in 1..n : (IF msg[k] = "IAC" THEN <<"IAC", "IAC">> ELSE <<msg[k]>>) \in Seq(B)
  OBVIOUS
<1>2. step \in [1..n -> [Seq(B) -> Seq(B)]] /\ <<>> \in Seq(B)
  BY <1>1
<1>3. PICK f : Solves(f, n, Seq(B), <<>>, step)
  <2> HIDE DEF step, n
  <2> QED BY <1>0, <1>2, RecursionDefines
<1>4. /\ f \in [0..n -> Seq(B)] /\ f[0] = <<>>
      /\ \A k \in 1..n : f[k] = f[k - 1] \o (IF msg[k] = "IAC" THEN <<"IAC", "IAC">> ELSE <<msg[k]>>)
  <2>1. f \in [0..n -> Seq(B)] /\ f[0] = <<>> /\ \A k \in 1..n : f[k] = step[k][f[k - 1]]
    BY <1>3 DEF Solves
  <2>2. ASSUME NEW k \in 1..n PROVE f[k] = f[k - 1] \o (IF msg[k] = "IAC" THEN <<"IAC", "IAC">> ELSE <<msg[k]>>)
    <3>1. f[k - 1] \in Seq(B)
      BY <2>1
    <3> QED BY <2>1, <3>1
  <2> QED BY <2>1, <2>2
<1>5. ASSUME NEW e, NEW h, e = E(h)
      PROVE  e[0] = <<>> /\ \A k \in 1..n : e[k] = h[k - 1] \o (IF msg[k] = "IAC" THEN <<"IAC", "IAC">> ELSE <<msg[k]>>)
  <2>1. \A k \in 0..n : e[k] = IF k = 0 THEN <<>> ELSE h[k - 1] \o (IF msg[k] = "IAC" THEN <<"IAC", "IAC">> ELSE <<msg[k]>>)
    BY <1>5
  <2>2. \A k \in 1..n : k \in 0..n /\ k # 0
    BY <1>0
  <2>3. 0 \in 0..n
    BY <1>0
  <2> HIDE DEF E
  <2> QED BY <2>1, <2>2, <2>3, Zenon
<1>6. f = E(f)
  <2> DEFINE e == E(f)
  <2>1. e = [k \in 0..n |-> e[k]] /\ f = [k \in 0..n |-> f[k]]
    BY <1>4
  <2>2. e[0] = f[0] /\ \A k \in 1..n : e[k] = f[k]
    <3>1. e = E(f)
      OBVIOUS
    <3> HIDE DEF E, e
    <3> QED BY <1>4, <1>5, <3>1
  <2>3. \A k \in 0..n : e[k] = f[k]
    <3> HIDE DEF e
    <3> QED BY <1>0, <2>2
  <2> HIDE DEF e
  <2>4. e = f
    BY <2>1, <2>3
  <2> QED BY <2>4 DEF e
<1> DEFINE d == CHOOSE e : e = E(e)
<1>7. d = E(d)
  <2> HIDE DEF E
  <2> QED BY <1>6, Zenon
<1>8. d[0] = <<>> /\ \A k \in 1..n : d[k] = d[k - 1] \o (IF msg[k] = "IAC" THEN <<"IAC", "IAC">> ELSE <<msg[k]>>)
  <2> HIDE DEF E, d
  <2> QED BY <1>5, <1>7
<1>9. Escaped(msg) = d[Len(msg)] \o <<"CR", "LF">>
  BY DEF Escaped
<1> HIDE DEF d
<1>11. Escapes(msg, d)
  BY <1>8, <1>9 DEF Escapes, Doubling
<1> QED BY <1>11

LEMMA EscapedThree ==
  ASSUME NEW B, "IAC" \in B, NEW msg \in Seq(B)
  PROVE  /\ Len(msg) = 1 => Escaped(msg) = Doubling(msg[1]) \o <<"CR", "LF">>
         /\ Len(msg) = 2 => Escaped(msg) = (Doubling(msg[1]) \o Doubling(msg[2])) \o <<"CR", "LF">>
         /\ Len(msg) = 3 => Escaped(msg) = ((Doubling(msg[1]) \o Doubling(msg[2])) \o Doubling(msg[3]))
                                            \o <<"CR", "LF">>
<1>1. PICK e : Escapes(msg, e)
  BY EscapedDefined
<1>2. /\ e[0] = <<>> /\ \A k \in 1..Len(msg) : e[k] = e[k - 1] \o Doubling(msg[k])
      /\ Escaped(msg) = e[Len(msg)] \o <<"CR", "LF">>
  BY <1>1 DEF Escapes
<1>3. \A b \in B : Doubling(b) \in Seq(B)
  BY DEF Doubling
<1>4. Len(msg) \in Nat /\ \A k \in 1..Len(msg) : msg[k] \in B
  OBVIOUS
<1>5. ASSUME 1 <= Len(msg) PROVE e[1] = Doubling(msg[1])
  <2>1. 1 \in 1..Len(msg) /\ 1 - 1 = 0
    BY <1>4, <1>5
  <2>2. e[1] = <<>> \o Doubling(msg[1]) /\ Doubling(msg[1]) \in Seq(B)
    BY <1>2, <1>3, <1>4, <2>1
  <2> QED BY <2>2, ConcatEmptySeq
<1>6. ASSUME 2 <= Len(msg) PROVE e[2] = Doubling(msg[1]) \o Doubling(msg[2])
  <2>1. 2 \in 1..Len(msg) /\ 2 - 1 = 1 /\ 1 <= Len(msg)
    BY <1>4, <1>6
  <2> QED BY <1>2, <1>5, <2>1
<1>7. ASSUME 3 <= Len(msg) PROVE e[3] = (Doubling(msg[1]) \o Doubling(msg[2])) \o Doubling(msg[3])
  <2>1. 3 \in 1..Len(msg) /\ 3 - 1 = 2 /\ 2 <= Len(msg)
    BY <1>4, <1>7
  <2> QED BY <1>2, <1>6, <2>1
<1>8. ASSUME Len(msg) = 1 PROVE Escaped(msg) = Doubling(msg[1]) \o <<"CR", "LF">>
  <2>1. Escaped(msg) = e[1] \o <<"CR", "LF">>
    BY <1>2, <1>8
  <2>2. 1 <= Len(msg)
    BY <1>8
  <2>3. e[1] = Doubling(msg[1])
    BY <1>5, <2>2
  <2> QED BY <2>1, <2>3
<1>9. ASSUME Len(msg) = 2 PROVE Escaped(msg) = (Doubling(msg[1]) \o Doubling(msg[2])) \o <<"CR", "LF">>
  <2>1. Escaped(msg) = e[2] \o <<"CR", "LF">>
    BY <1>2, <1>9
  <2>2. 2 <= Len(msg)
    BY <1>9
  <2>3. e[2] = Doubling(msg[1]) \o Doubling(msg[2])
    BY <1>6, <2>2
  <2> QED BY <2>1, <2>3
<1>10. ASSUME Len(msg) = 3
       PROVE  Escaped(msg) = ((Doubling(msg[1]) \o Doubling(msg[2])) \o Doubling(msg[3])) \o <<"CR", "LF">>
  <2>1. Escaped(msg) = e[3] \o <<"CR", "LF">>
    BY <1>2, <1>10
  <2>2. 3 <= Len(msg)
    BY <1>10
  <2>3. e[3] = (Doubling(msg[1]) \o Doubling(msg[2])) \o Doubling(msg[3])
    BY <1>7, <2>2
  <2> QED BY <2>1, <2>3
<1> QED BY <1>8, <1>9, <1>10

\* The answers to the five questions.
LEMMA AnswersSent ==
  /\ Escaped(<<"HELLO">>) = Replies["ayt"] \o <<"CR", "LF">>
  /\ Escaped(<<"IAC">>) = Replies["data"] \o <<"CR", "LF">>
  /\ Escaped(Refusal("DONT", "echo")) = Replies["will"] \o <<"CR", "LF">>
  /\ Escaped(Refusal("WONT", "echo")) = Replies["do"] \o <<"CR", "LF">>
  /\ Escaped(Refusal("WONT", "NUL")) = Replies["do0"] \o <<"CR", "LF">>
<1> DEFINE B == {"IAC", "HELLO", "DONT", "WONT", "echo"}
<1>1. /\ Doubling("IAC") = <<"IAC", "IAC">> /\ Doubling("HELLO") = <<"HELLO">>
      /\ Doubling("DONT") = <<"DONT">> /\ Doubling("WONT") = <<"WONT">> /\ Doubling("echo") = <<"echo">>
  BY DEF Doubling
<1>2. ASSUME NEW a \in B PROVE Escaped(<<a>>) = Doubling(a) \o <<"CR", "LF">>
  <2>1. PICK m : m = <<a>>
    OBVIOUS
  <2>2. m \in Seq(B) /\ Len(m) = 1 /\ m[1] = a /\ "IAC" \in B
    BY <2>1
  <2> HIDE DEF B
  <2> QED BY <2>1, <2>2, EscapedThree
<1>3. ASSUME NEW a \in B, NEW b \in B
      PROVE  Escaped(<<a, b>>) = (Doubling(a) \o Doubling(b)) \o <<"CR", "LF">>
  <2>1. PICK m : m = <<a, b>>
    OBVIOUS
  <2>2. m \in Seq(B) /\ Len(m) = 2 /\ m[1] = a /\ m[2] = b /\ "IAC" \in B
    BY <2>1
  <2> HIDE DEF B
  <2> QED BY <2>1, <2>2, EscapedThree
<1>4. ASSUME NEW a \in B, NEW b \in B, NEW c \in B
      PROVE  Escaped(<<a, b, c>>) = ((Doubling(a) \o Doubling(b)) \o Doubling(c)) \o <<"CR", "LF">>
  <2>1. PICK m : m = <<a, b, c>>
    OBVIOUS
  <2>2. m \in Seq(B) /\ Len(m) = 3 /\ m[1] = a /\ m[2] = b /\ m[3] = c /\ "IAC" \in B
    BY <2>1
  <2> HIDE DEF B
  <2> QED BY <2>1, <2>2, EscapedThree
<1>5. /\ Refusal("DONT", "echo") = <<"IAC", "DONT", "echo">>
      /\ Refusal("WONT", "echo") = <<"IAC", "WONT", "echo">>
      /\ Refusal("WONT", "NUL") = <<"IAC", "WONT">>
  <2>1. /\ Refusal("DONT", "echo") = <<"IAC", "DONT">> \o <<"echo">>
        /\ Refusal("WONT", "echo") = <<"IAC", "WONT">> \o <<"echo">>
        /\ Refusal("WONT", "NUL") = <<"IAC", "WONT">> \o <<>>
    BY DEF Refusal
  <2>2. "IAC" \in B /\ "DONT" \in B /\ "WONT" \in B /\ "echo" \in B
    OBVIOUS
  <2> HIDE DEF B
  <2> QED BY <2>1, <2>2, Joined
<1>6. Escaped(<<"HELLO">>) = Replies["ayt"] \o <<"CR", "LF">>
  BY <1>1, <1>2, Asking
<1>7. Escaped(<<"IAC">>) = Replies["data"] \o <<"CR", "LF">>
  BY <1>1, <1>2, Asking
<1>8. Escaped(Refusal("DONT", "echo")) = Replies["will"] \o <<"CR", "LF">>
  <2>1. (<<"IAC", "IAC">> \o <<"DONT">>) \o <<"echo">> = <<"IAC", "IAC", "DONT", "echo">>
    <3>1. "IAC" \in B /\ "DONT" \in B /\ "echo" \in B
      OBVIOUS
    <3> HIDE DEF B
    <3> QED BY <3>1, Joined
  <2>2. Escaped(<<"IAC", "DONT", "echo">>)
          = ((Doubling("IAC") \o Doubling("DONT")) \o Doubling("echo")) \o <<"CR", "LF">>
    BY <1>4
  <2> QED BY <1>1, <1>5, <2>1, <2>2, Asking
<1>9. Escaped(Refusal("WONT", "echo")) = Replies["do"] \o <<"CR", "LF">>
  <2>1. (<<"IAC", "IAC">> \o <<"WONT">>) \o <<"echo">> = <<"IAC", "IAC", "WONT", "echo">>
    <3>1. "IAC" \in B /\ "WONT" \in B /\ "echo" \in B
      OBVIOUS
    <3> HIDE DEF B
    <3> QED BY <3>1, Joined
  <2>2. Escaped(<<"IAC", "WONT", "echo">>)
          = ((Doubling("IAC") \o Doubling("WONT")) \o Doubling("echo")) \o <<"CR", "LF">>
    BY <1>4
  <2> QED BY <1>1, <1>5, <2>1, <2>2, Asking
<1>10. Escaped(Refusal("WONT", "NUL")) = Replies["do0"] \o <<"CR", "LF">>
  <2>1. <<"IAC", "IAC">> \o <<"WONT">> = <<"IAC", "IAC", "WONT">>
    <3>1. "IAC" \in B /\ "WONT" \in B
      OBVIOUS
    <3> HIDE DEF B
    <3> QED BY <3>1, Joined
  <2> QED BY <1>1, <1>3, <1>5, <2>1, Asking
<1> QED BY <1>6, <1>7, <1>8, <1>9, <1>10

-----------------------------------------------------------------------------
(* The lines that wait and those that are said, one byte at a time.        *)

Cut(begun) == IF begun = <<"CR">> THEN begun ELSE <<>>

\* h has been handled and q waits, for a server that received s.
Agrees(s, begun, q, h) ==
  s.torn \/ (Work(q).text = Typed(s) \o Cut(begun) /\ h \o Work(q).done = s.lines)

LEMMA PlainIs == {"a", "space", "CR", "LF"} \subseteq Plain /\ Plain \subseteq Bytes
<1>1. \A u \in Tokens : \A i \in 1..Len(Code[u]) : Code[u][i] \in Bytes
  BY CodeTyped
<1>2. "a" \in Tokens /\ "space" \in Tokens /\ "line" \in Tokens
  BY TokensListed
<1>3. Code["a"][1] \in Bytes /\ Code["space"][1] \in Bytes /\ Code["line"][1] \in Bytes /\ Code["line"][2] \in Bytes
  BY <1>1, <1>2, CodeLengths
<1>4. "a" \in Bytes /\ "space" \in Bytes /\ "CR" \in Bytes /\ "LF" \in Bytes
  BY <1>3, CodeTable
<1> QED BY <1>4 DEF Plain

\* A byte that is not the end of a line.
LEMMA AddText ==
  ASSUME NEW q \in Seq(Plain), NEW b \in Plain, b # "LF"
  PROVE  /\ Append(q, b) \in Seq(Plain) /\ Work(Append(q, b)).done = Work(q).done
         /\ Work(Append(q, b)).text = Append(Work(q).text, b)
<1>1. Append(q, b) \in Seq(Plain)
  OBVIOUS
<1>2. Work(q) \in Works /\ Work(Append(q, b)) = AddByte(Work(q), b)
  BY WorkTyped, WorkAppend
<1> QED BY <1>1, <1>2, AddByteIs

LEMMA AgreesText ==
  ASSUME NEW s \in Senses, NEW q \in Seq(Plain), NEW h \in Seq(Parts), NEW t \in Letters,
         Agrees(s, <<>>, q, h)
  PROVE  Agrees(Receives(t, s), <<>>, Append(q, t), h)
<1>1. PICK r : r = Receives(t, s)
  OBVIOUS
<1>2. r.lines = s.lines /\ r.torn = s.torn /\ Typed(r) = Append(Typed(s), t) /\ r \in Senses
  BY <1>1, ReceivesText
<1>3. t \in Plain /\ t # "LF"
  BY PlainIs DEF Letters
<1>4. /\ Work(Append(q, t)).done = Work(q).done
      /\ Work(Append(q, t)).text = Append(Work(q).text, t)
  BY <1>3, AddText
<1>5. Cut(<<>>) = <<>>
  BY DEF Cut
<1>6. Typed(s) \in Seq(Letters) /\ Typed(r) \in Seq(Letters)
  BY <1>2, TypedIs DEF Words
<1>7. Typed(s) \o <<>> = Typed(s) /\ Typed(r) \o <<>> = Typed(r)
  BY <1>6, ConcatEmptySeq
<1>8. Agrees(r, <<>>, Append(q, t), h)
  BY <1>2, <1>4, <1>5, <1>7 DEF Agrees
<1> QED BY <1>1, <1>8

LEMMA AgreesReturn ==
  ASSUME NEW s \in Senses, NEW q \in Seq(Plain), NEW h \in Seq(Parts), Agrees(s, <<>>, q, h)
  PROVE  Agrees(s, <<"CR">>, Append(q, "CR"), h)
<1>1. "CR" \in Plain /\ "CR" # "LF"
  BY PlainIs
<1>2. /\ Work(Append(q, "CR")).done = Work(q).done
      /\ Work(Append(q, "CR")).text = Append(Work(q).text, "CR")
  BY <1>1, AddText
<1>3. Cut(<<>>) = <<>> /\ Cut(<<"CR">>) = <<"CR">>
  BY DEF Cut
<1>4. Typed(s) \in Seq(Letters)
  BY TypedIs DEF Words
<1>5. Typed(s) \o <<>> = Typed(s)
  BY <1>4, ConcatEmptySeq
<1>6. Append(Typed(s), "CR") = Typed(s) \o <<"CR">>
  BY <1>4
<1> QED BY <1>2, <1>3, <1>5, <1>6 DEF Agrees

LEMMA AgreesEnd ==
  ASSUME NEW s \in Senses, NEW q \in Seq(Plain), NEW h \in Seq(Parts), Agrees(s, <<"CR">>, q, h)
  PROVE  Agrees(Receives("line", s), <<>>, Append(q, "LF"), h)
<1>1. PICK r, p : r = Receives("line", s) /\ p = ParseCommand(Typed(s))
  OBVIOUS
<1>2. r.lines = Append(s.lines, p) /\ r.torn = s.torn /\ Typed(r) = <<>>
  BY <1>1, ReceivesEnd
<1>3. "LF" \in Plain
  BY PlainIs
<1>4. Work(q) \in Works /\ Work(Append(q, "LF")) = AddByte(Work(q), "LF") /\ Work(q).done \in Seq(Parts)
  BY <1>3, WorkTyped, WorkAppend
<1>5. Cut(<<>>) = <<>> /\ Cut(<<"CR">>) = <<"CR">>
  BY DEF Cut
<1>6. Typed(s) \in Seq(Letters)
  BY TypedIs DEF Words
<1>7. CASE s.torn
  BY <1>1, <1>2, <1>7 DEF Agrees
<1>8. CASE ~s.torn
  <2>1. PICK x : x = Work(q).text
    OBVIOUS
  <2>2. x = Typed(s) \o <<"CR">> /\ h \o Work(q).done = s.lines
    BY <1>5, <1>8, <2>1 DEF Agrees
  <2>3. x # <<>> /\ Last(x) = "CR" /\ Front(x) = Typed(s)
    <3>1. PICK y : y = Typed(s)
      OBVIOUS
    <3>2. y \in Seq(Letters) /\ x = y \o <<"CR">> /\ Len(y) \in Nat
      BY <1>6, <2>2, <3>1
    <3>3. y \in Seq(Letters \cup {"CR"})
      BY <3>2
    <3>4. x \in Seq(Letters \cup {"CR"}) /\ Len(x) = Len(y) + 1 /\ x[Len(y) + 1] = "CR"
          /\ \A i \in 1..Len(y) : x[i] = y[i]
      BY <3>2, <3>3
    <3>5. x # <<>>
      BY <3>2, <3>4
    <3>6. /\ Front(x) \in Seq(Letters \cup {"CR"}) /\ Len(Front(x)) = Len(y) /\ Last(x) = "CR"
          /\ \A i \in 1..Len(y) : Front(x)[i] = y[i]
      <4>1. Len(x) - 1 = Len(y) /\ Last(x) = x[Len(x)]
        BY <3>2, <3>4 DEF Last
      <4> QED BY <3>4, <3>5, <4>1, FrontIs
    <3>7. Front(x) = y
      BY <3>3, <3>6, SameSeq
    <3> QED BY <3>1, <3>5, <3>6, <3>7
  <2>4. Work(Append(q, "LF")).done = Append(Work(q).done, p) /\ Work(Append(q, "LF")).text = <<>>
    <3>1. /\ AddByte(Work(q), "LF").done = Append(Work(q).done, ParseCommand(Front(x)))
          /\ AddByte(Work(q), "LF").text = <<>>
      BY <1>3, <1>4, <2>1, <2>3, AddByteIs
    <3> QED BY <1>1, <1>4, <2>3, <3>1
  <2>5. h \o Append(Work(q).done, p) = Append(h \o Work(q).done, p)
    BY <1>4
  <2>6. h \o Work(Append(q, "LF")).done = r.lines
    BY <1>2, <2>2, <2>4, <2>5
  <2>7. Typed(r) \o Cut(<<>>) = <<>>
    BY <1>2, <1>5
  <2> QED BY <1>1, <2>4, <2>6, <2>7 DEF Agrees
<1> QED BY <1>7, <1>8

LEMMA AgreesErased ==
  ASSUME NEW s \in Senses, NEW q \in Seq(Plain), NEW h \in Seq(Parts), Agrees(s, <<>>, q, h)
  PROVE  Agrees(Receives("ec", s), <<>>, Erased(q), h) /\ Erased(q) \in Seq(Plain)
<1>1. PICK r : r = Receives("ec", s)
  OBVIOUS
<1>2. /\ r \in Senses /\ r.lines = s.lines
      /\ Typed(s) # <<>> => r.torn = s.torn /\ Typed(r) = Front(Typed(s))
      /\ Typed(s) = <<>> => r.torn = (s.torn \/ s.lines # <<>>) /\ Typed(r) = <<>>
  BY <1>1, ReceivesErased
<1>3. Typed(s) \in Seq(Letters) /\ Typed(r) \in Seq(Letters)
  BY <1>2, TypedIs DEF Words
<1>4. Typed(s) \o <<>> = Typed(s) /\ Typed(r) \o <<>> = Typed(r) /\ Cut(<<>>) = <<>>
  BY <1>3, ConcatEmptySeq DEF Cut
<1>5. Erased(q) \in Seq(Plain)
  BY FrontIs DEF Erased
<1>6. CASE s.torn
  <2>1. r.torn
    BY <1>2, <1>6
  <2> QED BY <1>1, <1>5, <2>1 DEF Agrees
<1>7. CASE ~s.torn /\ Typed(s) # <<>>
  <2>1. Work(q).text = Typed(s) /\ h \o Work(q).done = s.lines
    BY <1>4, <1>7 DEF Agrees
  <2>2. q # <<>> /\ Work(Front(q)).done = Work(q).done /\ Work(Front(q)).text = Front(Work(q).text)
    BY <1>7, <2>1, WorkErased
  <2>3. Erased(q) = Front(q)
    BY <2>2 DEF Erased
  <2> QED BY <1>1, <1>2, <1>4, <1>5, <1>7, <2>1, <2>2, <2>3 DEF Agrees
<1>8. CASE ~s.torn /\ Typed(s) = <<>> /\ s.lines # <<>>
  <2>1. r.torn
    BY <1>2, <1>8
  <2> QED BY <1>1, <1>5, <2>1 DEF Agrees
<1>9. CASE ~s.torn /\ Typed(s) = <<>> /\ s.lines = <<>>
  <2>1. Work(q).text = <<>> /\ h \o Work(q).done = <<>> /\ Work(q).done \in Seq(Parts)
    BY <1>4, <1>9, WorkTyped DEF Agrees
  <2>2. Work(q).done = <<>>
    BY <2>1, ConcatEqualIffEmpty
  <2>3. q = <<>>
    BY <2>1, <2>2, WorkNothing
  <2>4. Erased(q) = q
    BY <2>3 DEF Erased
  <2> QED BY <1>1, <1>2, <1>4, <1>5, <1>9, <2>1, <2>4 DEF Agrees
<1> QED BY <1>6, <1>7, <1>8, <1>9

\* What is no text changes nothing.
LEMMA AgreesBegun ==
  ASSUME NEW s, NEW b, NEW q, NEW h, b # <<"CR">>
  PROVE  Agrees(s, b, q, h) <=> Agrees(s, <<>>, q, h)
<1>1. Cut(b) = Cut(<<>>)
  BY DEF Cut
<1> QED BY <1>1 DEF Agrees

LEMMA AgreesAsked ==
  ASSUME NEW s \in Senses, NEW t \in DOMAIN Replies \cup {"nop", "wont", "el", "ga"}, NEW q, NEW h,
         Agrees(s, <<>>, q, h)
  PROVE  Agrees(Receives(t, s), <<>>, q, h)
<1>1. PICK r : r = Receives(t, s)
  OBVIOUS
<1>2. r.lines = s.lines /\ r.torn = s.torn /\ Typed(r) = Typed(s)
  BY <1>1, ReceivesAsked, ReceivesNothing
<1> QED BY <1>1, <1>2 DEF Agrees

\* GetBuf takes the first of the lines that wait.
LEMMA AgreesTaken ==
  ASSUME NEW s, NEW b, NEW q \in Seq(Plain), NEW h \in Seq(Parts), Agrees(s, b, q, h),
         \E i \in 1..(Len(q) - 1) : SubSeq(q, i, i + 1) = <<"CR", "LF">>
  PROVE  LET p == ParseCommand(SubSeq(q, 1, LineEnd(q) - 1))
             u == SubSeq(q, LineEnd(q) + 2, Len(q)) IN
         p \in Parts /\ u \in Seq(Plain) /\ Agrees(s, b, u, Append(h, p))
<1>1. PICK e : e = LineEnd(q)
  OBVIOUS
<1>2. /\ e \in 1..(Len(q) - 1) /\ q[e] = "CR" /\ q[e + 1] = "LF"
      /\ \A i \in 1..(e - 1) : ~(q[i] = "CR" /\ q[i + 1] = "LF")
  BY <1>1, LineEndIs
<1>3. PICK p, u : p = ParseCommand(SubSeq(q, 1, e - 1)) /\ u = SubSeq(q, e + 2, Len(q))
  OBVIOUS
<1>4. u \in Seq(Plain) /\ Work(q).text = Work(u).text /\ Work(q).done = <<p>> \o Work(u).done
  BY <1>2, <1>3, WorkRest
<1>5. p \in Parts
  <2>1. e - 1 \in 0..Len(q)
    BY <1>2
  <2>2. SubSeq(q, 1, e - 1) \in Seq(Plain)
    BY <2>1, PrefixIs
  <2>3. SubSeq(q, 1, e - 1) \in Seq(Bytes)
    BY <2>2, PlainIs
  <2> QED BY <1>3, <2>3, ParseTyped
<1>6. Work(u).done \in Seq(Parts)
  BY <1>4, WorkTyped
<1>7. h \o (<<p>> \o Work(u).done) = Append(h, p) \o Work(u).done
  <2>1. PICK x, d : x = <<p>> /\ d = Work(u).done
    OBVIOUS
  <2>2. x \in Seq(Parts) /\ d \in Seq(Parts) /\ Append(h, p) = h \o x
    BY <1>5, <1>6, <2>1, SMTT(60)
  <2>3. (h \o x) \o d = h \o (x \o d)
    BY <2>2, ConcatAssociative, SMTT(60)
  <2> QED BY <2>1, <2>2, <2>3, Zenon
<1> QED BY <1>1, <1>3, <1>4, <1>5, <1>7 DEF Agrees

-----------------------------------------------------------------------------
(* The state.                                                              *)

\* A token that is said after n bytes were parsed changes nothing of these.
LEMMA Continued ==
  ASSUME NEW tokens \in Seq(Tokens), NEW t \in Tokens,
         NEW n \in 0..Len(Encoded(tokens)[Len(tokens)])
  PROVE  LET more == Append(tokens, t)
             y == Encoded(tokens)[Len(tokens)]
             z == Encoded(more)[Len(more)] IN
         /\ WholeTokens(more, n) = WholeTokens(tokens, n)
         /\ Reception(more)[WholeTokens(tokens, n)] = Reception(tokens)[WholeTokens(tokens, n)]
         /\ Begun(more, n) = Begun(tokens, n)
         /\ Len(y) <= Len(z) /\ \A i \in 1..Len(y) : z[i] = y[i]
<1>1. PICK more, l, k : more = Append(tokens, t) /\ l = Len(tokens) /\ k = WholeTokens(tokens, n)
  OBVIOUS
<1>2. /\ more \in Seq(Tokens) /\ Len(more) = l + 1 /\ l \in Nat
      /\ \A i \in 0..l : Encoded(more)[i] = Encoded(tokens)[i] /\ Reception(more)[i] = Reception(tokens)[i]
  BY <1>1, SaidMore
<1>3. PICK e, f : e = Encoded(tokens) /\ f = Encoded(more)
  OBVIOUS
<1>4. /\ \A i \in 0..l : e[i] \in Seq(Bytes) /\ Len(e[i]) \in Nat
      /\ \A i \in 0..(l + 1) : f[i] \in Seq(Bytes) /\ Len(f[i]) \in Nat
  <2>1. \A i \in 0..l : e[i] \in Seq(Bytes) /\ Len(e[i]) \in Nat
    BY <1>1, <1>3, Offsets
  <2>2. \A i \in 0..(l + 1) : f[i] \in Seq(Bytes) /\ Len(f[i]) \in Nat
    BY <1>2, <1>3, Offsets
  <2> QED BY <2>1, <2>2
<1>5. /\ \A i \in 0..(l + 1) : \A j \in 0..i : \A h \in 1..Len(f[j]) : f[i][h] = f[j][h]
  BY <1>2, <1>3, EncodedPrefix, SMTT(60)
<1>6. Len(f[l]) < Len(f[l + 1])
  <2>1. \A i, j \in 0..Len(more) : i < j => Len(f[i]) < Len(f[j])
    BY <1>2, <1>3, Offsets
  <2> QED BY <1>2, <2>1
<1>7. /\ \A i \in 0..l : f[i] = e[i]
      /\ Len(e[l]) \in Nat /\ Len(f[l + 1]) \in Nat
  BY <1>2, <1>3, <1>4
<1>8. Len(e[l]) <= Len(f[l + 1]) /\ \A i \in 1..Len(e[l]) : f[l + 1][i] = e[l][i]
  <2>1. l \in 0..l /\ l \in 0..(l + 1) /\ l + 1 \in 0..(l + 1)
    BY <1>2
  <2> QED BY <1>5, <1>6, <1>7, <2>1
<1>9. n \in Nat /\ n <= Len(e[l])
  BY <1>1, <1>3
<1>10. k \in 0..l /\ Len(e[k]) <= n /\ (k < l => n < Len(e[k + 1]))
  BY <1>1, <1>3, <1>9, WholeExists DEF IsWhole
<1>11. IsWhole(more, n, k)
  <2>1. k \in 0..(l + 1) /\ Len(f[k]) <= n
    BY <1>2, <1>7, <1>10
  <2>2. k < l + 1 => n < Len(f[k + 1])
    <3>1. CASE k < l
      <4>1. k + 1 \in 0..l
        BY <1>2, <1>10, <3>1
      <4> QED BY <1>7, <1>10, <3>1, <4>1
    <3>2. CASE k = l
      <4>1. l \in 0..l
        BY <1>2
      <4>2. Len(f[l]) = Len(e[l])
        BY <1>7, <4>1
      <4> QED BY <1>6, <1>7, <1>9, <3>2, <4>2
    <3> QED BY <1>2, <1>10, <3>1, <3>2
  <2> QED BY <1>2, <1>3, <2>1, <2>2 DEF IsWhole
<1>12. WholeTokens(more, n) = k
  BY <1>2, <1>9, <1>11, WholeIs
<1>13. Reception(more)[k] = Reception(tokens)[k]
  BY <1>2, <1>10
<1>14. Begun(more, n) = Begun(tokens, n)
  <2>1. PICK y, z, a : y = e[l] /\ z = f[l + 1] /\ a = Len(e[k])
    OBVIOUS
  <2>2. /\ y \in Seq(Bytes) /\ z \in Seq(Bytes) /\ a \in 0..n /\ n \in 0..Len(y) /\ n \in 0..Len(z)
        /\ \A i \in 1..Len(y) : z[i] = y[i]
    BY <1>2, <1>4, <1>7, <1>8, <1>9, <1>10, <2>1
  <2>3. PICK u, v : u = SubSeq(y, a + 1, n) /\ v = SubSeq(z, a + 1, n)
    OBVIOUS
  <2>4. u \in Seq(Bytes) /\ Len(u) = n - a /\ \A i \in 1..(n - a) : u[i] = y[a + i]
    BY <2>2, <2>3, PieceIs
  <2>5. v \in Seq(Bytes) /\ Len(v) = n - a /\ \A i \in 1..(n - a) : v[i] = z[a + i]
    BY <2>2, <2>3, PieceIs
  <2>6. \A i \in 1..(n - a) : a + i \in 1..Len(y)
    BY <1>9, <2>2
  <2>7. \A i \in 1..Len(u) : u[i] = v[i]
    BY <2>2, <2>4, <2>5, <2>6
  <2>8. u = v
    BY <2>4, <2>5, <2>7, SameSeq
  <2>9. f[k] = e[k]
    BY <1>7, <1>10
  <2> QED BY <1>1, <1>2, <1>3, <1>12, <2>1, <2>3, <2>8, <2>9 DEF Begun
<1> QED BY <1>1, <1>2, <1>3, <1>8, <1>12, <1>13, <1>14

\* The parser of a server that received s and has begun b has c, q waits, h has
\* been handled and o was sent.
Holds(s, b, c, q, h, o, where) ==
  /\ where # "failed" => c = IF b = <<"CR">> THEN <<>> ELSE b
  /\ Agrees(s, b, q, h)
  /\ where # "failed" => o = s.answers

\* So it is after n bytes of what was said.
Fits(tokens, n, c, q, h, o, where) ==
  Holds(Reception(tokens)[WholeTokens(tokens, n)], Begun(tokens, n), c, q, h, o, where)

\* The invariant is that what is parsed fits.
LEMMA Fitting ==
  TelnetInv <=> /\ TypeOK /\ LineThere /\ FailureExcused
                /\ buf = SubSeq(Stream, taken - Len(buf) + 1, taken)
                /\ Fits(said, taken - Len(buf), command, readBuf, handled, output, at)
<1>1. Agrees(Received, Begun(said, taken - Len(buf)), readBuf, handled)
        <=> /\ LinesReceived
            /\ Received.torn \/
                 Lines(readBuf)[Len(readBuf)].text
                   = Typed(Received) \o (IF Begun(said, taken - Len(buf)) = <<"CR">>
                                      THEN Begun(said, taken - Len(buf)) ELSE <<>>)
  BY DEF Agrees, Cut, Work, LinesReceived, Waiting
<1> QED BY <1>1 DEF TelnetInv, InStep, AnswersGiven, Fits, Holds, Received, Parsed

LEMMA FittingNext ==
  ASSUME TypeOK', LineThere', FailureExcused',
         buf' = SubSeq(Stream', taken' - Len(buf') + 1, taken'),
         Fits(said', taken' - Len(buf'), command', readBuf', handled', output', at')
  PROVE  TelnetInv'
<1>1. Agrees(Received, Begun(said, taken - Len(buf)), readBuf, handled)'
        <=> /\ LinesReceived'
            /\ (Received.torn \/
                 Lines(readBuf)[Len(readBuf)].text
                   = Typed(Received) \o (IF Begun(said, taken - Len(buf)) = <<"CR">>
                                      THEN Begun(said, taken - Len(buf)) ELSE <<>>))'
  BY DEF Agrees, Cut, Work, LinesReceived, Waiting
<1> QED BY <1>1 DEF TelnetInv, InStep, AnswersGiven, Fits, Holds, Received, Parsed

\* Types that follow from those of the state.
LEMMA Known ==
  ASSUME TelnetInv
  PROVE  /\ said \in Seq(Tokens) /\ Stream \in Seq(Bytes) /\ Len(Stream) \in Nat
         /\ arrived \in 0..Len(Stream) /\ taken \in 0..arrived
         /\ taken - Len(buf) \in 0..taken /\ taken - Len(buf) \in 0..Len(Stream)
         /\ readBuf \in Seq(Plain) /\ handled \in Seq(Parts) /\ Len(buf) \in Nat /\ buf \in Seq(Bytes)
<1>1. said \in Seq(Tokens)
  BY TelnetAssumption DEF TelnetInv, TypeOK
<1>2. Stream \in Seq(Bytes) /\ Len(Stream) \in Nat
  <2>1. Len(said) \in 0..Len(said)
    BY <1>1
  <2>2. Encoded(said)[Len(said)] \in Seq(Bytes) /\ Len(Encoded(said)[Len(said)]) \in Nat
    BY <1>1, <2>1, Offsets
  <2> QED BY <2>2 DEF Stream
<1>3. arrived \in 0..Len(Stream) /\ taken \in 0..arrived /\ buf \in Seq(Bytes) /\ Len(buf) <= taken
  BY DEF TelnetInv, TypeOK
<1>4. readBuf \in Seq(Plain) /\ handled \in Seq(Parts)
  BY DEF TelnetInv, TypeOK, Plain, Parts
<1> QED BY <1>1, <1>2, <1>3, <1>4

\* A step that parses nothing.
LEMMA Quiet ==
  ASSUME TelnetInv, TypeOK', LineThere', FailureExcused',
         UNCHANGED <<said, parser, handled>>,
         taken' - Len(buf') = taken - Len(buf),
         buf' = SubSeq(Stream, taken - Len(buf) + 1, taken'),
         at' # "failed" => at # "failed"
  PROVE  TelnetInv'
<1>1. Fits(said, taken - Len(buf), command, readBuf, handled, output, at)
  BY Fitting
<1>2. Stream' = Stream
  BY DEF Stream
<1>3. buf' = SubSeq(Stream', taken' - Len(buf') + 1, taken')
  BY <1>2
<1>4. Fits(said', taken' - Len(buf'), command', readBuf', handled', output', at')
  BY <1>1 DEF Fits, Holds, parser
<1> QED BY <1>3, <1>4, FittingNext

LEMMA InitInv == Init => TelnetInv
<1> SUFFICES ASSUME Init PROVE TelnetInv
  OBVIOUS
<1>1. /\ said = <<>> /\ arrived = 0 /\ taken = 0 /\ buf = <<>> /\ readBuf = <<>> /\ command = <<>>
      /\ output = <<>> /\ handled = <<>> /\ peer = "up" /\ at = "waiting"
  BY DEF Init
<1>2. PICK z : z = <<>>
  OBVIOUS
<1>3. z \in Seq(Tokens) /\ Len(z) = 0 /\ z \in Seq(Bytes) /\ z \in Seq(Plain) /\ z \in Seq(Parts)
  BY <1>2
<1>4. Encoded(z)[0] = <<>> /\ Reception(z)[0] = Silence /\ Len(Encoded(z)[0]) = 0
  <2>1. Encoded(z)[0] = <<>>
    BY <1>3, EncodedDefined
  <2>2. Reception(z)[0] = Silence
    BY <1>3, ReceptionDefined
  <2> QED BY <2>1, <2>2
<1>5. Stream = <<>> /\ Len(Stream) = 0
  BY <1>1, <1>2, <1>3, <1>4 DEF Stream
<1>6. TypeOK
  BY <1>1, <1>5, TelnetAssumption DEF TypeOK
<1>7. WholeTokens(z, 0) = 0
  <2>1. IsWhole(z, 0, 0)
    BY <1>3, <1>4 DEF IsWhole
  <2>2. PICK k : k = 0
    OBVIOUS
  <2>3. k \in Nat /\ IsWhole(z, k, k)
    BY <2>1, <2>2
  <2>4. WholeTokens(z, k) = k
    BY <1>3, <2>3, WholeIs
  <2> QED BY <2>2, <2>4
<1>8. Begun(z, 0) = <<>>
  BY <1>3, <1>4, <1>7 DEF Begun
<1>9. Agrees(Silence, <<>>, z, z)
  <2>1. Work(z).text = <<>> /\ Work(z).done = <<>>
    BY <1>2, WorkEmpty DEF NoText
  <2>2. Typed(Silence) = <<>> /\ Silence.lines = <<>>
    BY SilenceIs DEF Silence
  <2>3. Cut(<<>>) = <<>>
    BY DEF Cut
  <2> QED BY <1>2, <2>1, <2>2, <2>3 DEF Agrees
<1>10. Fits(z, 0, z, z, z, z, at)
  <2>1. Silence.answers = <<>>
    BY DEF Silence
  <2> QED BY <1>2, <1>4, <1>7, <1>8, <1>9, <2>1 DEF Fits, Holds
<1>11. buf = SubSeq(Stream, taken - Len(buf) + 1, taken) /\ taken - Len(buf) = 0
  <2>1. taken - Len(buf) = 0 /\ taken = 0
    <3>1. Len(buf) = 0 /\ taken = 0
      BY <1>1, <1>2, <1>3
    <3> QED BY <3>1
  <2>2. SubSeq(z, 1, 0) = z
    BY <1>2, <1>3
  <2> QED BY <1>1, <1>2, <1>5, <2>1, <2>2
<1>12. LineThere /\ FailureExcused
  BY <1>1 DEF LineThere, FailureExcused
<1> QED BY <1>1, <1>2, <1>6, <1>10, <1>11, <1>12, Fitting

\* The steps in front of the bytes, and behind them.
LEMMA QuietSteps ==
  ASSUME TelnetInv,
         Tick \/ RecvEnd \/ RecvFails \/ NothingMore \/ ParsingEnds \/ Deliver \/ Close \/ Break
  PROVE  TelnetInv'
<1>1. /\ TypeOK /\ LineThere /\ FailureExcused
      /\ buf = SubSeq(Stream, taken - Len(buf) + 1, taken)
  BY Fitting
<1>2. UNCHANGED <<said, parser, handled, taken, buf>> /\ Stream' = Stream
  BY DEF Tick, RecvEnd, RecvFails, NothingMore, ParsingEnds, Deliver, Close, Break, network, Stream
<1>3. arrived' \in 0..Len(Stream) /\ taken \in 0..arrived'
  <2>1. arrived \in 0..Len(Stream) /\ taken \in 0..arrived /\ Len(Stream) \in Nat
    BY Known
  <2>2. CASE Deliver
    BY <2>1, <2>2 DEF Deliver
  <2>3. CASE UNCHANGED arrived
    BY <2>1, <2>3
  <2> QED BY <2>2, <2>3 DEF Tick, RecvEnd, RecvFails, NothingMore, ParsingEnds, Close, Break, network
<1>4. /\ peer' \in {"up", "closed", "reset"}
      /\ at' \in {"waiting", "reading", "parsing", "line", "ended", "failed"}
      /\ at' = "failed" => peer' = "reset"
      /\ at' = "line" => \/ UNCHANGED <<at, readBuf>>
                         \/ \E i \in 1..(Len(readBuf) - 1) : SubSeq(readBuf, i, i + 1) = <<"CR", "LF">>
      /\ at' # "failed" => at # "failed"
  BY <1>1, <1>2 DEF TypeOK, Tick, RecvEnd, RecvFails, NothingMore, ParsingEnds, Deliver, Close, Break,
     network, Outside, Gone, FailureExcused, parser
<1>5. TypeOK'
  BY <1>1, <1>2, <1>3, <1>4 DEF TypeOK, parser
<1>6. LineThere'
  BY <1>1, <1>2, <1>4 DEF LineThere, parser
<1>7. FailureExcused'
  BY <1>4 DEF FailureExcused
<1> QED BY <1>1, <1>2, <1>4, <1>5, <1>6, <1>7, Quiet

LEMMA RecvStep ==
  ASSUME TelnetInv, Recv
  PROVE  TelnetInv'
<1>1. /\ TypeOK /\ LineThere /\ FailureExcused
      /\ buf = SubSeq(Stream, taken - Len(buf) + 1, taken)
  BY Fitting
<1>2. /\ UNCHANGED <<said, parser, handled, arrived, peer, at>> /\ Stream' = Stream
      /\ buf' = buf \o SubSeq(Stream, taken + 1, arrived) /\ taken' = arrived /\ at = "reading"
  BY DEF Recv, network, Stream
<1>3. PICK z, b, c, a, l : z = Stream /\ b = taken /\ c = arrived /\ a = taken - Len(buf) /\ l = Len(buf)
  OBVIOUS
<1>4. z \in Seq(Bytes) /\ c \in 0..Len(z) /\ b \in 0..c /\ a \in 0..b /\ l \in Nat /\ a = b - l
  BY <1>3, Known
<1>5. SubSeq(z, a + 1, b) \o SubSeq(z, b + 1, c) = SubSeq(z, a + 1, c)
  BY <1>4, PiecesJoin
<1>6. buf' = SubSeq(z, a + 1, c)
  BY <1>1, <1>2, <1>3, <1>5
<1>7. buf' \in Seq(Bytes) /\ Len(buf') = c - a
  <2>1. a \in 0..c
    BY <1>4
  <2> QED BY <1>4, <1>6, <2>1, PieceIs
<1>8. taken' - Len(buf') = taken - Len(buf) /\ Len(buf') <= taken'
  BY <1>2, <1>3, <1>4, <1>7
<1>9. TypeOK'
  <2>1. taken' \in 0..arrived' /\ arrived' \in 0..Len(Stream')
    BY <1>2, <1>3, <1>4
  <2> QED BY <1>1, <1>2, <1>7, <1>8, <2>1 DEF TypeOK, parser
<1>10. LineThere' /\ FailureExcused'
  BY <1>2 DEF LineThere, FailureExcused
<1> QED BY <1>2, <1>3, <1>6, <1>8, <1>9, <1>10, Quiet

LEMMA SayStep ==
  ASSUME TelnetInv, Say
  PROVE  TelnetInv'
<1>1. /\ TypeOK /\ LineThere /\ FailureExcused
      /\ buf = SubSeq(Stream, taken - Len(buf) + 1, taken)
      /\ Fits(said, taken - Len(buf), command, readBuf, handled, output, at)
  BY Fitting
<1>2. PICK t \in Said : said' = Append(said, t)
  BY DEF Say
<1>3. /\ UNCHANGED <<arrived, peer, taken, buf, parser, handled, at>> /\ Len(said) < MaxTokens
      /\ at # "failed" /\ at # "line"
  BY DEF Say, Outside
<1>4. said \in Seq(Said) /\ said \in Seq(Tokens) /\ t \in Tokens
  BY <1>1, <1>2, Known, TelnetAssumption DEF TypeOK
<1>5. PICK z, y, b, a, l : /\ z = Stream /\ y = Stream' /\ b = taken /\ a = taken - Len(buf)
                           /\ l = Len(buf)
  OBVIOUS
<1>6. /\ z \in Seq(Bytes) /\ Len(z) \in Nat /\ b \in 0..Len(z) /\ a \in 0..b /\ a \in 0..Len(z)
      /\ l \in Nat /\ a = b - l
  BY <1>5, Known
<1>7. /\ WholeTokens(said', a) = WholeTokens(said, a)
      /\ Reception(said')[WholeTokens(said, a)] = Reception(said)[WholeTokens(said, a)]
      /\ Begun(said', a) = Begun(said, a)
      /\ Len(z) <= Len(y) /\ \A i \in 1..Len(z) : y[i] = z[i]
  <2>1. a \in 0..Len(Encoded(said)[Len(said)])
    BY <1>5, <1>6 DEF Stream
  <2> QED BY <1>2, <1>4, <1>5, <2>1, Continued DEF Stream
<1>8. said' \in Seq(Said) /\ Len(said') <= MaxTokens /\ said' \in Seq(Tokens)
  <2>1. Len(said') = Len(said) + 1 /\ said' \in Seq(Said) /\ Len(said) \in Nat
    BY <1>2, <1>4
  <2>2. Len(said') <= MaxTokens
    BY <1>3, <2>1, TelnetAssumption
  <2> QED BY <2>1, <2>2, TelnetAssumption
<1>9. y \in Seq(Bytes) /\ Len(y) \in Nat
  <2>1. Len(said') \in 0..Len(said')
    BY <1>8
  <2>2. Encoded(said')[Len(said')] \in Seq(Bytes)
    BY <1>8, <2>1, Offsets
  <2> QED BY <1>5, <2>2 DEF Stream
<1>10. TypeOK'
  <2>1. arrived' \in 0..Len(Stream') /\ taken' \in 0..arrived'
    BY <1>3, <1>5, <1>7, <1>9, Known
  <2> QED BY <1>1, <1>3, <1>8, <2>1 DEF TypeOK, parser
<1>11. SubSeq(y, a + 1, b) = SubSeq(z, a + 1, b)
  <2>1. PICK u, v : u = SubSeq(z, a + 1, b) /\ v = SubSeq(y, a + 1, b)
    OBVIOUS
  <2>2. u \in Seq(Bytes) /\ Len(u) = b - a /\ \A i \in 1..(b - a) : u[i] = z[a + i]
    BY <1>6, <2>1, PieceIs
  <2>3. b \in 0..Len(y)
    BY <1>6, <1>7, <1>9
  <2>4. v \in Seq(Bytes) /\ Len(v) = b - a /\ \A i \in 1..(b - a) : v[i] = y[a + i]
    BY <1>6, <1>9, <2>1, <2>3, PieceIs
  <2>5. \A i \in 1..(b - a) : a + i \in 1..Len(z)
    BY <1>6
  <2>6. \A i \in 1..Len(u) : u[i] = v[i]
    BY <1>7, <2>2, <2>4, <2>5
  <2>7. u = v
    BY <2>2, <2>4, <2>6, SameSeq
  <2> QED BY <2>1, <2>7
<1>12. buf' = SubSeq(Stream', taken' - Len(buf') + 1, taken')
  BY <1>1, <1>3, <1>5, <1>11
<1>13. LineThere' /\ FailureExcused'
  BY <1>3 DEF LineThere, FailureExcused
<1>14. Fits(said', taken' - Len(buf'), command', readBuf', handled', output', at')
  BY <1>1, <1>3, <1>5, <1>7 DEF Fits, Holds, parser
<1> QED BY <1>10, <1>12, <1>13, <1>14, FittingNext

LEMMA GetLineStep ==
  ASSUME TelnetInv, GetLine
  PROVE  TelnetInv'
<1>1. /\ TypeOK /\ LineThere /\ FailureExcused
      /\ buf = SubSeq(Stream, taken - Len(buf) + 1, taken)
      /\ Fits(said, taken - Len(buf), command, readBuf, handled, output, at)
  BY Fitting
<1>2. /\ UNCHANGED <<said, arrived, peer, taken, buf, command, output>> /\ at = "line" /\ at' = "waiting"
      /\ handled' = Append(handled, ParseCommand(SubSeq(readBuf, 1, LineEnd(readBuf) - 1)))
      /\ readBuf' = SubSeq(readBuf, LineEnd(readBuf) + 2, Len(readBuf))
      /\ Stream' = Stream
  BY DEF GetLine, network, Stream
<1>3. PICK s, b : /\ s = Reception(said)[WholeTokens(said, taken - Len(buf))]
                  /\ b = Begun(said, taken - Len(buf))
  OBVIOUS
<1>4. Agrees(s, b, readBuf, handled)
  BY <1>1, <1>3 DEF Fits, Holds
<1>5. readBuf \in Seq(Plain) /\ handled \in Seq(Parts)
  BY Known
<1>6. \E i \in 1..(Len(readBuf) - 1) : SubSeq(readBuf, i, i + 1) = <<"CR", "LF">>
  BY <1>1, <1>2 DEF LineThere
<1>7. PICK p, u : /\ p = ParseCommand(SubSeq(readBuf, 1, LineEnd(readBuf) - 1))
                  /\ u = SubSeq(readBuf, LineEnd(readBuf) + 2, Len(readBuf))
  OBVIOUS
<1>8. p \in Parts /\ u \in Seq(Plain) /\ Agrees(s, b, u, Append(handled, p))
  BY <1>4, <1>5, <1>6, <1>7, AgreesTaken
<1>9. readBuf' = u /\ handled' = Append(handled, p)
  BY <1>2, <1>7
<1>10. handled' \in Seq(Parts) /\ readBuf' \in Seq(Plain)
  BY <1>5, <1>8, <1>9
<1>11. TypeOK'
  BY <1>1, <1>2, <1>10 DEF TypeOK, Plain, Parts
<1>12. LineThere' /\ FailureExcused'
  BY <1>2 DEF LineThere, FailureExcused
<1>13. Fits(said', taken' - Len(buf'), command', readBuf', handled', output', at')
  <2>1. command = (IF b = <<"CR">> THEN <<>> ELSE b) /\ output = s.answers
    BY <1>1, <1>2, <1>3 DEF Fits, Holds
  <2> QED BY <1>2, <1>3, <1>8, <1>9, <2>1 DEF Fits, Holds
<1>14. buf' = SubSeq(Stream', taken' - Len(buf') + 1, taken')
  BY <1>1, <1>2
<1> QED BY <1>11, <1>12, <1>13, <1>14, FittingNext

\* With the byte behind n bytes, the server that received s receives s2, and the
\* bytes b of a token that is cut have become b2; j of them are of token t.
Reads(t, j, s, b, s2, b2) ==
  /\ t \in Tokens /\ j \in 0..2 /\ j < Len(Code[t]) /\ s \in Senses
  /\ b = SubSeq(Code[t], 1, j)
  /\ b2 = IF j + 1 < Len(Code[t]) THEN SubSeq(Code[t], 1, j + 1) ELSE <<>>
  /\ s2 = IF j + 1 < Len(Code[t]) THEN s ELSE Receives(t, s)

ReadsAt(tokens, n, t, j, s, b, s2, b2) ==
  /\ Reads(t, j, s, b, s2, b2) /\ t \in ToSet(tokens)
  /\ Encoded(tokens)[Len(tokens)][n + 1] = Code[t][j + 1]
  /\ b = Begun(tokens, n) /\ b2 = Begun(tokens, n + 1)
  /\ s = Reception(tokens)[WholeTokens(tokens, n)]
  /\ s2 = Reception(tokens)[WholeTokens(tokens, n + 1)]

LEMMA ReadsExists ==
  ASSUME NEW tokens \in Seq(Tokens), NEW n \in Nat, n < Len(Encoded(tokens)[Len(tokens)])
  PROVE  \E t, j, s, b, s2, b2 : ReadsAt(tokens, n, t, j, s, b, s2, b2)
<1>1. PICK w, j : At(tokens, n, w, j)
  BY AtExists
<1>2. PICK t, c : t = tokens[w + 1] /\ c = Code[t]
  OBVIOUS
<1>3. PICK s, b, s2, b2 : /\ s = Reception(tokens)[w] /\ b = SubSeq(c, 1, j)
                          /\ s2 = (IF j + 1 < Len(c) THEN s ELSE Receives(t, s))
                          /\ b2 = (IF j + 1 < Len(c) THEN SubSeq(c, 1, j + 1) ELSE <<>>)
  OBVIOUS
<1>4. /\ w \in 0..(Len(tokens) - 1) /\ t \in Tokens /\ j \in 0..(Len(c) - 1)
      /\ WholeTokens(tokens, n) = w
  BY <1>1, <1>2 DEF At
<1>5. Len(c) \in 1..3
  BY <1>2, <1>4, CodeTyped
<1>6. j \in 0..2 /\ j < Len(c) /\ (~(j + 1 < Len(c)) => j + 1 = Len(c))
  <2>1. PICK l : l = Len(c)
    OBVIOUS
  <2> QED BY <1>4, <1>5, <2>1
<1>7. /\ Encoded(tokens)[Len(tokens)][n + 1] = c[j + 1]
      /\ Begun(tokens, n) = SubSeq(c, 1, j)
      /\ j + 1 < Len(c) => At(tokens, n + 1, w, j + 1)
      /\ j + 1 = Len(c) => WholeTokens(tokens, n + 1) = w + 1 /\ Begun(tokens, n + 1) = <<>>
      /\ Reception(tokens)[w] \in Senses
      /\ Reception(tokens)[w + 1] = Receives(t, Reception(tokens)[w])
  BY <1>1, <1>2, NextByte
<1>8. t \in ToSet(tokens)
  <2>1. w + 1 \in 1..Len(tokens)
    BY <1>4
  <2> QED BY <1>2, <2>1 DEF ToSet
<1>9. Reads(t, j, s, b, s2, b2)
  BY <1>2, <1>3, <1>4, <1>6, <1>7 DEF Reads
<1>10. CASE j + 1 < Len(c)
  <2>1. At(tokens, n + 1, w, j + 1) /\ n + 1 \in Nat
    BY <1>7, <1>10
  <2>2. WholeTokens(tokens, n + 1) = w
    BY <2>1 DEF At
  <2>3. Begun(tokens, n + 1) = SubSeq(c, 1, j + 1)
    BY <1>2, <2>1, NextByte
  <2> QED BY <1>2, <1>3, <1>4, <1>7, <1>8, <1>9, <1>10, <2>2, <2>3 DEF ReadsAt
<1>11. CASE ~(j + 1 < Len(c))
  BY <1>2, <1>3, <1>4, <1>6, <1>7, <1>8, <1>9, <1>11 DEF ReadsAt
<1> QED BY <1>10, <1>11

\* The bytes of the tokens, one by one.
LEMMA FirstByte ==
  ASSUME NEW t, NEW s, NEW b, NEW s2, NEW b2, Reads(t, 0, s, b, s2, b2), NEW x, x = Code[t][1]
  PROVE  /\ b = <<>>
         /\ t \in Letters => x = t /\ b2 = <<>> /\ s2 = Receives(t, s)
         /\ t = "line" => x = "CR" /\ b2 = <<"CR">> /\ s2 = s
         /\ t \notin Letters \cup {"line"} => x = "IAC" /\ b2 = <<"IAC">> /\ s2 = s
<1>1. PICK c : c = Code[t]
  OBVIOUS
<1>2. t \in Tokens /\ c \in Seq(Bytes) /\ Len(c) \in 1..3
  BY <1>1, CodeTyped DEF Reads
<1>3. SubSeq(c, 1, 0) = <<>> /\ SubSeq(c, 1, 1) = <<c[1]>>
  BY <1>2, OneOrTwo
<1>4. /\ b = <<>> /\ b2 = (IF 1 < Len(c) THEN <<c[1]>> ELSE <<>>)
      /\ s2 = IF 1 < Len(c) THEN s ELSE Receives(t, s)
  <2>1. b = SubSeq(c, 1, 0) /\ b2 = (IF 0 + 1 < Len(c) THEN SubSeq(c, 1, 0 + 1) ELSE <<>>)
    BY <1>1 DEF Reads
  <2>2. s2 = (IF 0 + 1 < Len(c) THEN s ELSE Receives(t, s))
    BY <1>1 DEF Reads
  <2>3. 0 + 1 = 1
    OBVIOUS
  <2> QED BY <1>3, <2>1, <2>2, <2>3
<1>5. 1 < Len(c) <=> t \notin Letters
  BY <1>1, <1>2, CodeLengths DEF Letters
<1>6. /\ t \in Letters => c[1] = t
      /\ t = "line" => c[1] = "CR"
      /\ t \notin Letters \cup {"line"} => c[1] = "IAC"
  BY <1>1, <1>2, CodeTable, TokensListed DEF Letters
<1> QED BY <1>1, <1>4, <1>5, <1>6 DEF Letters

LEMMA SecondByte ==
  ASSUME NEW t, NEW s, NEW b, NEW s2, NEW b2, Reads(t, 1, s, b, s2, b2), NEW x, x = Code[t][2]
  PROVE  \/ t = "line" /\ x = "LF" /\ b = <<"CR">> /\ b2 = <<>> /\ s2 = Receives(t, s)
         \/ /\ b = <<"IAC">> /\ b2 = <<>> /\ s2 = Receives(t, s)
            /\ <<t, x>> \in {<<"data", "IAC">>, <<"nop", "NOP">>, <<"ayt", "AYT">>, <<"ec", "EC">>,
                              <<"el", "EL">>, <<"ga", "GA">>}
         \/ /\ b = <<"IAC">> /\ b2 = <<"IAC", x>> /\ s2 = s /\ x \in {"WILL", "WONT", "DO"}
<1>1. PICK c : c = Code[t]
  OBVIOUS
<1>2. t \in Tokens /\ c \in Seq(Bytes) /\ Len(c) \in 2..3
  BY <1>1, CodeTyped DEF Reads
<1>3. SubSeq(c, 1, 1) = <<c[1]>> /\ SubSeq(c, 1, 2) = <<c[1], c[2]>>
  BY <1>2, OneOrTwo
<1>4. /\ b = <<c[1]>> /\ b2 = (IF 2 < Len(c) THEN <<c[1], c[2]>> ELSE <<>>)
      /\ s2 = IF 2 < Len(c) THEN s ELSE Receives(t, s)
  <2>1. b = SubSeq(c, 1, 1) /\ b2 = (IF 1 + 1 < Len(c) THEN SubSeq(c, 1, 1 + 1) ELSE <<>>)
    BY <1>1 DEF Reads
  <2>2. s2 = (IF 1 + 1 < Len(c) THEN s ELSE Receives(t, s))
    BY <1>1 DEF Reads
  <2>3. 1 + 1 = 2
    OBVIOUS
  <2> QED BY <1>3, <2>1, <2>2, <2>3
<1>5. t \notin {"a", "space"} /\ (2 < Len(c) <=> t \in {"will", "wont", "do", "do0"})
  BY <1>1, <1>2, CodeLengths
<1>6. /\ t = "line" => c[1] = "CR" /\ c[2] = "LF"
      /\ t # "line" => c[1] = "IAC"
  BY <1>1, <1>2, <1>5, CodeTable, TokensListed
<1>7. /\ t = "data" => c[2] = "IAC"
      /\ t = "nop" => c[2] = "NOP"
      /\ t = "ayt" => c[2] = "AYT"
      /\ t = "ec" => c[2] = "EC"
      /\ t = "el" => c[2] = "EL"
      /\ t = "ga" => c[2] = "GA"
      /\ t \in {"will", "wont", "do", "do0"} => c[2] \in {"WILL", "WONT", "DO"}
  BY <1>1, CodeTable
<1> QED BY <1>1, <1>2, <1>4, <1>5, <1>6, <1>7, TokensListed

LEMMA ThirdByte ==
  ASSUME NEW t, NEW s, NEW b, NEW s2, NEW b2, Reads(t, 2, s, b, s2, b2), NEW x, x = Code[t][3]
  PROVE  /\ b2 = <<>> /\ s2 = Receives(t, s)
         /\ \/ t = "will" /\ b = <<"IAC", "WILL">> /\ x = "echo"
            \/ t = "wont" /\ b = <<"IAC", "WONT">> /\ x = "echo"
            \/ t = "do" /\ b = <<"IAC", "DO">> /\ x = "echo"
            \/ t = "do0" /\ b = <<"IAC", "DO">> /\ x = "NUL"
<1>1. PICK c : c = Code[t]
  OBVIOUS
<1>2. t \in Tokens /\ c \in Seq(Bytes) /\ Len(c) = 3
  BY <1>1, CodeTyped DEF Reads
<1>3. SubSeq(c, 1, 2) = <<c[1], c[2]>>
  BY <1>2, OneOrTwo
<1>4. b = <<c[1], c[2]>> /\ b2 = <<>> /\ s2 = Receives(t, s)
  BY <1>1, <1>2, <1>3 DEF Reads
<1>5. t \in {"will", "wont", "do", "do0"}
  BY <1>1, <1>2, CodeLengths
<1>6. /\ t = "will" => c[1] = "IAC" /\ c[2] = "WILL" /\ c[3] = "echo"
      /\ t = "wont" => c[1] = "IAC" /\ c[2] = "WONT" /\ c[3] = "echo"
      /\ t = "do" => c[1] = "IAC" /\ c[2] = "DO" /\ c[3] = "echo"
      /\ t = "do0" => c[1] = "IAC" /\ c[2] = "DO" /\ c[3] = "NUL"
  BY <1>1, CodeTable
<1> QED BY <1>1, <1>4, <1>5, <1>6

\* The byte at the head of buf, when it is parsed.
Before(t, j, s, b, s2, b2) ==
  /\ at = "parsing" /\ ReadsAt(said, taken - Len(buf), t, j, s, b, s2, b2)
  /\ Holds(s, b, command, readBuf, handled, output, at) /\ Head(buf) = Code[t][j + 1]
  /\ readBuf \in Seq(Plain) /\ handled \in Seq(Parts) /\ output \in Seq(Outputs)

\* What has to be true when it is.
Done(t, s2, b2) ==
  /\ Holds(s2, b2, command', readBuf', handled, output', at')
  /\ command' \in {<<>>, <<"IAC">>} \cup {<<"IAC", v>> : v \in {"WILL", "WONT", "DO"}}
  /\ readBuf' \in Seq(Plain) /\ output' \in Seq(Outputs) /\ at' \in {"parsing", "failed"}
  /\ at' = "failed" => peer = "reset" \/ t \in {"el", "ga"}

LEMMA BeforeExists ==
  ASSUME TelnetInv, at = "parsing", buf # <<>>
  PROVE  \E t, j, s, b, s2, b2 : Before(t, j, s, b, s2, b2)
<1>1. /\ TypeOK /\ buf = SubSeq(Stream, taken - Len(buf) + 1, taken)
      /\ Fits(said, taken - Len(buf), command, readBuf, handled, output, at)
  BY Fitting
<1>2. PICK z, n, m, l : z = Stream /\ n = taken - Len(buf) /\ m = taken /\ l = Len(buf)
  OBVIOUS
<1>3. /\ said \in Seq(Tokens) /\ z \in Seq(Bytes) /\ Len(z) \in Nat /\ m \in 0..Len(z)
      /\ n \in 0..m /\ l \in Nat /\ n = m - l /\ buf \in Seq(Bytes)
      /\ readBuf \in Seq(Plain) /\ handled \in Seq(Parts)
  BY <1>2, Known
<1>4. l # 0
  BY <1>2, <1>3
<1>5. n \in Nat /\ n < Len(z) /\ n \in 0..(m - 1)
  BY <1>3, <1>4
<1>6. n < Len(Encoded(said)[Len(said)])
  BY <1>2, <1>5 DEF Stream
<1>7. PICK t, j, s, b, s2, b2 : ReadsAt(said, n, t, j, s, b, s2, b2)
  BY <1>3, <1>5, <1>6, ReadsExists
<1>8. Head(SubSeq(z, n + 1, m)) = z[n + 1]
  BY <1>3, <1>5, PieceHead
<1>9. Head(buf) = Code[t][j + 1]
  BY <1>1, <1>2, <1>7, <1>8 DEF Stream, ReadsAt
<1>10. Holds(s, b, command, readBuf, handled, output, at)
  BY <1>1, <1>2, <1>7 DEF Fits, ReadsAt
<1>11. output \in Seq(Outputs)
  BY <1>1 DEF TypeOK, Outputs
<1> QED BY <1>2, <1>3, <1>7, <1>9, <1>10, <1>11 DEF Before

LEMMA ParseDone ==
  ASSUME TelnetInv, buf # <<>>, UNCHANGED <<network, taken, handled>>, buf' = Tail(buf),
         NEW t, NEW j, NEW s, NEW b, NEW s2, NEW b2, Before(t, j, s, b, s2, b2), Done(t, s2, b2)
  PROVE  TelnetInv'
<1>1. TypeOK /\ FailureExcused /\ buf = SubSeq(Stream, taken - Len(buf) + 1, taken)
  BY Fitting
<1>2. PICK z, n, m, l : z = Stream /\ n = taken - Len(buf) /\ m = taken /\ l = Len(buf)
  OBVIOUS
<1>3. /\ z \in Seq(Bytes) /\ Len(z) \in Nat /\ m \in 0..Len(z) /\ n \in 0..m /\ l \in Nat /\ n = m - l
      /\ buf \in Seq(Bytes)
  BY <1>2, Known
<1>4. n \in 0..(m - 1) /\ l # 0
  BY <1>2, <1>3
<1>5. buf = SubSeq(z, n + 1, m)
  BY <1>1, <1>2
<1>6. Tail(buf) = SubSeq(z, (n + 1) + 1, m) /\ Len(Tail(buf)) = l - 1
  BY <1>2, <1>3, <1>4, <1>5, PieceHead
<1>7. /\ UNCHANGED <<said, arrived, peer, taken, handled>> /\ Stream' = z
      /\ Len(buf') = l - 1 /\ taken' - Len(buf') = n + 1
  BY <1>2, <1>3, <1>6 DEF network, Stream
<1>8. buf' = SubSeq(Stream', taken' - Len(buf') + 1, taken')
  BY <1>2, <1>6, <1>7
<1>9. buf' \in Seq(Bytes) /\ Len(buf') <= taken'
  BY <1>2, <1>3, <1>4, <1>7
<1>10. command' \in {<<>>, <<"IAC">>} \cup {<<"IAC", v>> : v \in {"WILL", "WONT", "DO"}}
  BY DEF Done
<1>11. readBuf' \in Seq(Plain) /\ output' \in Seq(Outputs) /\ at' \in {"parsing", "failed"}
  BY DEF Done
<1>12. TypeOK'
  <2>1. arrived' \in 0..Len(Stream') /\ taken' \in 0..arrived'
    BY <1>2, <1>7, Known
  <2>2. at' \in {"waiting", "reading", "parsing", "line", "ended", "failed"}
    BY <1>11
  <2> QED BY <1>1, <1>7, <1>9, <1>10, <1>11, <2>1, <2>2 DEF TypeOK, Plain, Outputs
<1>13. LineThere'
  BY <1>11 DEF LineThere
<1>14. FailureExcused'
  <2>1. t \in ToSet(said)
    BY DEF Before, ReadsAt
  <2>2. at' = "failed" => peer = "reset" \/ t \in {"el", "ga"}
    BY DEF Done
  <2> QED BY <1>7, <2>1, <2>2 DEF FailureExcused
<1>15. Fits(said', taken' - Len(buf'), command', readBuf', handled', output', at')
  <2>1. s2 = Reception(said)[WholeTokens(said, n + 1)] /\ b2 = Begun(said, n + 1)
    BY <1>2 DEF Before, ReadsAt
  <2>2. Holds(s2, b2, command', readBuf', handled, output', at')
    BY DEF Done
  <2> QED BY <1>7, <2>1, <2>2 DEF Fits
<1> QED BY <1>8, <1>12, <1>13, <1>14, <1>15, FittingNext

\* An answer is sent, or the connection is found to be broken.
LEMMA Answered ==
  ASSUME NEW s \in Senses, NEW t \in DOMAIN Replies, NEW msg, Write(msg), at = "parsing",
         Escaped(msg) = Replies[t] \o <<"CR", "LF">>, output = s.answers, output \in Seq(Outputs),
         NEW q, NEW h, Agrees(s, <<>>, q, h)
  PROVE  /\ Holds(Receives(t, s), <<>>, <<>>, q, h, output', at')
         /\ output' \in Seq(Outputs) /\ at' \in {"parsing", "failed"}
         /\ at' = "failed" => peer = "reset"
<1>1. Agrees(Receives(t, s), <<>>, q, h)
  BY AgreesAsked
<1>2. \/ output' = Append(output, Escaped(msg)) /\ at' = "parsing"
      \/ peer = "reset" /\ at' = "failed" /\ output' = output
  BY DEF Write
<1>3. Receives(t, s).answers = Append(s.answers, Escaped(msg))
  BY ReceivesAsked
<1>4. Append(output, Escaped(msg)) \in Seq(Outputs)
  BY AnswersTyped, AppendProperties
<1>5. at' # "failed" => output' = Receives(t, s).answers
  BY <1>2, <1>3
<1>6. <<>> = (IF <<>> = <<"CR">> THEN <<>> ELSE <<>>)
  OBVIOUS
<1>7. Holds(Receives(t, s), <<>>, <<>>, q, h, output', at')
  BY <1>1, <1>5, <1>6 DEF Holds
<1> QED BY <1>2, <1>4, <1>7

\* The first byte of a token.
LEMMA FirstStep ==
  ASSUME Parse, NEW t, NEW s, NEW b, NEW s2, NEW b2, Before(t, 0, s, b, s2, b2)
  PROVE  Done(t, s2, b2)
<1>1. PICK x : x = Head(buf)
  OBVIOUS
<1>2. /\ at = "parsing" /\ Reads(t, 0, s, b, s2, b2) /\ s \in Senses /\ x = Code[t][1]
      /\ readBuf \in Seq(Plain) /\ handled \in Seq(Parts) /\ output \in Seq(Outputs)
  <2>1. 0 + 1 = 1
    OBVIOUS
  <2> QED BY <1>1, <2>1 DEF Before, ReadsAt, Reads
<1>3. /\ b = <<>>
      /\ t \in Letters => x = t /\ b2 = <<>> /\ s2 = Receives(t, s)
      /\ t = "line" => x = "CR" /\ b2 = <<"CR">> /\ s2 = s
      /\ t \notin Letters \cup {"line"} => x = "IAC" /\ b2 = <<"IAC">> /\ s2 = s
  BY <1>2, FirstByte
<1>4. command = <<>> /\ output = s.answers /\ Agrees(s, <<>>, readBuf, handled)
  BY <1>2, <1>3 DEF Before, Holds
<1>5. \/ /\ x # "IAC" /\ readBuf' = Append(readBuf, x)
         /\ UNCHANGED <<command, output, at>>
      \/ /\ x = "IAC" /\ command' = <<"IAC">>
         /\ UNCHANGED <<readBuf, output, at>>
  <2>1. <<>> # <<"IAC">> /\ Len(<<>>) # 2
    OBVIOUS
  <2> QED BY <1>1, <1>4, <2>1 DEF Parse, Text, Begin, Consume, Ignored, AreYouThere, Doubled, Erase,
          Refuse, Negotiate, Option, Complete
<1>6. {"a", "space", "CR", "LF"} \subseteq Plain
  BY PlainIs
<1>7. CASE t \in Letters
  <2>1. x = t /\ x # "IAC" /\ t \in Plain
    BY <1>3, <1>6, <1>7 DEF Letters
  <2>2. readBuf' = Append(readBuf, t) /\ UNCHANGED <<command, output, at>>
    BY <1>5, <2>1
  <2>3. Agrees(s2, b2, readBuf', handled)
    BY <1>2, <1>3, <1>4, <1>7, <2>2, AgreesText
  <2>4. s2.answers = s.answers
    BY <1>2, <1>3, <1>7, ReceivesText
  <2>5. readBuf' \in Seq(Plain)
    BY <1>2, <2>1, <2>2, AppendProperties
  <2>6. Holds(s2, b2, command', readBuf', handled, output', at')
    BY <1>3, <1>4, <1>7, <2>2, <2>3, <2>4 DEF Holds
  <2> QED BY <1>2, <1>4, <2>2, <2>5, <2>6 DEF Done
<1>8. CASE t = "line"
  <2>1. x = "CR" /\ x # "IAC" /\ x \in Plain
    BY <1>3, <1>6, <1>8
  <2>2. readBuf' = Append(readBuf, "CR") /\ UNCHANGED <<command, output, at>>
    BY <1>5, <2>1
  <2>3. Agrees(s2, b2, readBuf', handled)
    BY <1>2, <1>3, <1>4, <1>8, <2>2, AgreesReturn
  <2>4. readBuf' \in Seq(Plain)
    BY <1>2, <2>1, <2>2, AppendProperties
  <2>5. Holds(s2, b2, command', readBuf', handled, output', at')
    BY <1>3, <1>4, <1>8, <2>2, <2>3 DEF Holds
  <2> QED BY <1>2, <1>4, <2>2, <2>4, <2>5 DEF Done
<1>9. CASE t \notin Letters \cup {"line"}
  <2>1. command' = <<"IAC">> /\ UNCHANGED <<readBuf, output, at>> /\ b2 = <<"IAC">> /\ s2 = s
    BY <1>3, <1>5, <1>9
  <2>2. b2 # <<"CR">>
    BY <2>1
  <2>3. Agrees(s2, b2, readBuf', handled)
    BY <1>4, <2>1, <2>2, AgreesBegun
  <2>4. Holds(s2, b2, command', readBuf', handled, output', at')
    BY <1>4, <2>1, <2>2, <2>3 DEF Holds
  <2> QED BY <1>2, <2>1, <2>4 DEF Done
<1> QED BY <1>7, <1>8, <1>9

\* The second byte of an end of a line.
LEMMA LineStep ==
  ASSUME Parse, NEW t, NEW s, NEW b, NEW s2, NEW b2, Before(t, 1, s, b, s2, b2),
         t = "line", Head(buf) = "LF", b = <<"CR">>, b2 = <<>>, s2 = Receives(t, s), s \in Senses
  PROVE  Done(t, s2, b2)
<1>1. at = "parsing" /\ readBuf \in Seq(Plain) /\ handled \in Seq(Parts) /\ output \in Seq(Outputs)
  BY DEF Before
<1>2. command = <<>> /\ output = s.answers /\ Agrees(s, <<"CR">>, readBuf, handled)
  BY <1>1 DEF Before, Holds
<1>3. readBuf' = Append(readBuf, "LF") /\ UNCHANGED <<command, output, at>>
  <2>1. <<>> # <<"IAC">> /\ Len(<<>>) # 2
    OBVIOUS
  <2> QED BY <1>2, <2>1 DEF Parse, Text, Begin, Consume, Ignored, AreYouThere, Doubled, Erase,
          Refuse, Negotiate, Option, Complete
<1>4. Agrees(s2, b2, readBuf', handled)
  BY <1>1, <1>2, <1>3, AgreesEnd
<1>5. s2.answers = s.answers
  BY ReceivesEnd
<1>6. readBuf' \in Seq(Plain)
  BY <1>1, <1>3, PlainIs, AppendProperties
<1>7. Holds(s2, b2, command', readBuf', handled, output', at')
  BY <1>2, <1>3, <1>4, <1>5 DEF Holds
<1> QED BY <1>1, <1>2, <1>3, <1>6, <1>7 DEF Done

\* The second byte of a Telnet command of two.
LEMMA CompleteStep ==
  ASSUME Parse, NEW t, NEW s, NEW b, NEW s2, NEW b2, Before(t, 1, s, b, s2, b2),
         NEW x, x = Head(buf), b = <<"IAC">>, b2 = <<>>, s2 = Receives(t, s), s \in Senses,
         <<t, x>> \in {<<"data", "IAC">>, <<"nop", "NOP">>, <<"ayt", "AYT">>, <<"ec", "EC">>,
                       <<"el", "EL">>, <<"ga", "GA">>}
  PROVE  Done(t, s2, b2)
<1>1. at = "parsing" /\ readBuf \in Seq(Plain) /\ handled \in Seq(Parts) /\ output \in Seq(Outputs)
  BY DEF Before
<1>2. <<"IAC">> # <<"CR">> /\ <<"IAC">> # <<>> /\ Len(<<"IAC">>) # 2
  OBVIOUS
<1>3. command = <<"IAC">> /\ output = s.answers /\ Agrees(s, <<>>, readBuf, handled)
  BY <1>1, <1>2, AgreesBegun DEF Before, Holds
<1>4. /\ x = "NOP" => command' = <<>> /\ UNCHANGED <<readBuf, output, at>>
      /\ x = "AYT" => command' = <<>> /\ UNCHANGED readBuf /\ Write(<<"HELLO">>)
      /\ x = "IAC" => command' = <<>> /\ UNCHANGED readBuf /\ Write(<<"IAC">>)
      /\ x = "EC" => command' = <<>> /\ readBuf' = Erased(readBuf) /\ UNCHANGED <<output, at>>
      /\ x \in {"EL", "GA"} => at' = "failed" /\ UNCHANGED <<readBuf, command, output>>
  BY <1>2, <1>3 DEF Parse, Text, Begin, Consume, Ignored, AreYouThere, Doubled, Erase,
     Refuse, Negotiate, Option, Complete, parser
<1>5. CASE t = "nop" /\ x = "NOP"
  <2>1. s2 = s /\ command' = <<>> /\ UNCHANGED <<readBuf, output, at>>
    BY <1>4, <1>5, ReceivesNothing
  <2>2. Holds(s2, b2, command', readBuf', handled, output', at')
    BY <1>3, <2>1 DEF Holds
  <2> QED BY <1>1, <2>1, <2>2 DEF Done
<1>6. CASE \/ t = "ayt" /\ x = "AYT"
           \/ t = "data" /\ x = "IAC"
  <2>1. PICK msg : Write(msg) /\ Escaped(msg) = Replies[t] \o <<"CR", "LF">>
    BY <1>4, <1>6, AnswersSent
  <2>2. t \in DOMAIN Replies
    BY <1>6, Asking
  <2>3. /\ Holds(Receives(t, s), <<>>, <<>>, readBuf, handled, output', at')
        /\ output' \in Seq(Outputs) /\ at' \in {"parsing", "failed"}
        /\ at' = "failed" => peer = "reset"
    BY <1>1, <1>3, <2>1, <2>2, Answered
  <2>4. command' = <<>> /\ readBuf' = readBuf
    BY <1>4, <1>6
  <2> QED BY <1>1, <2>3, <2>4 DEF Done
<1>7. CASE t = "ec" /\ x = "EC"
  <2>1. command' = <<>> /\ readBuf' = Erased(readBuf) /\ UNCHANGED <<output, at>>
    BY <1>4, <1>7
  <2>2. Agrees(s2, <<>>, readBuf', handled) /\ readBuf' \in Seq(Plain)
    BY <1>1, <1>3, <1>7, <2>1, AgreesErased
  <2>3. s2.answers = s.answers
    BY <1>7, ReceivesErased
  <2>4. Holds(s2, b2, command', readBuf', handled, output', at')
    BY <1>3, <2>1, <2>2, <2>3 DEF Holds
  <2> QED BY <1>1, <2>1, <2>2, <2>4 DEF Done
<1>8. CASE \/ t = "el" /\ x = "EL"
           \/ t = "ga" /\ x = "GA"
  <2>1. s2 = s /\ at' = "failed" /\ UNCHANGED <<readBuf, command, output>>
    BY <1>4, <1>8, ReceivesNothing
  <2>2. Holds(s2, b2, command', readBuf', handled, output', at')
    BY <1>3, <2>1 DEF Holds
  <2> QED BY <1>1, <1>3, <1>8, <2>1, <2>2 DEF Done
<1> QED BY <1>5, <1>6, <1>7, <1>8

\* The second byte of a Telnet command of three.
LEMMA NegotiateStep ==
  ASSUME Parse, NEW t, NEW s, NEW b, NEW s2, NEW b2, Before(t, 1, s, b, s2, b2),
         NEW x \in {"WILL", "WONT", "DO"}, x = Head(buf), b = <<"IAC">>, b2 = <<"IAC", x>>, s2 = s
  PROVE  Done(t, s2, b2)
<1>1. at = "parsing" /\ readBuf \in Seq(Plain) /\ handled \in Seq(Parts) /\ output \in Seq(Outputs)
  BY DEF Before
<1>2. <<"IAC">> # <<"CR">> /\ <<"IAC">> # <<>> /\ Len(<<"IAC">>) # 2 /\ b2 # <<"CR">>
  OBVIOUS
<1>3. command = <<"IAC">> /\ output = s.answers /\ Agrees(s, <<>>, readBuf, handled)
  BY <1>1, <1>2, AgreesBegun DEF Before, Holds
<1>4. command' = Append(command, x) /\ UNCHANGED <<readBuf, output, at>>
  BY <1>2, <1>3 DEF Parse, Text, Begin, Consume, Ignored, AreYouThere, Doubled, Erase,
     Refuse, Negotiate, Option, Complete
<1>5. command' = b2
  <2>1. PICK S : S = {"IAC", "WILL", "WONT", "DO"}
    OBVIOUS
  <2>2. "IAC" \in S /\ x \in S
    BY <2>1
  <2>3. Append(<<"IAC">>, x) = <<"IAC", x>>
    BY <2>2, Appended
  <2> QED BY <1>3, <1>4, <2>3
<1>6. Agrees(s2, b2, readBuf', handled)
  BY <1>2, <1>3, <1>4, AgreesBegun
<1>7. Holds(s2, b2, command', readBuf', handled, output', at')
  BY <1>2, <1>3, <1>4, <1>5, <1>6 DEF Holds
<1> QED BY <1>1, <1>4, <1>5, <1>7 DEF Done

\* The option of a negotiation.
LEMMA OptionStep ==
  ASSUME Parse, NEW t, NEW s, NEW b, NEW s2, NEW b2, Before(t, 2, s, b, s2, b2)
  PROVE  Done(t, s2, b2)
<1>1. PICK x : x = Head(buf)
  OBVIOUS
<1>2. /\ at = "parsing" /\ Reads(t, 2, s, b, s2, b2) /\ s \in Senses /\ x = Code[t][3]
      /\ readBuf \in Seq(Plain) /\ handled \in Seq(Parts) /\ output \in Seq(Outputs)
  <2>1. 2 + 1 = 3
    OBVIOUS
  <2> QED BY <1>1, <2>1 DEF Before, ReadsAt, Reads
<1>3. /\ b2 = <<>> /\ s2 = Receives(t, s)
      /\ \/ t = "will" /\ b = <<"IAC", "WILL">> /\ x = "echo"
         \/ t = "wont" /\ b = <<"IAC", "WONT">> /\ x = "echo"
         \/ t = "do" /\ b = <<"IAC", "DO">> /\ x = "echo"
         \/ t = "do0" /\ b = <<"IAC", "DO">> /\ x = "NUL"
  BY <1>2, ThirdByte
<1>4. b # <<"CR">> /\ b # <<>> /\ b # <<"IAC">> /\ Len(b) = 2
  BY <1>3
<1>5. command = b /\ output = s.answers /\ Agrees(s, <<>>, readBuf, handled)
  BY <1>2, <1>4, AgreesBegun DEF Before, Holds
<1>6. /\ command' = <<>> /\ UNCHANGED readBuf
      /\ \/ b[2] = "WILL" /\ Write(Refusal("DONT", x))
         \/ b[2] = "DO" /\ Write(Refusal("WONT", x))
         \/ b[2] = "WONT" /\ UNCHANGED <<output, at>>
  BY <1>1, <1>4, <1>5 DEF Parse, Text, Begin, Consume, Ignored, AreYouThere, Doubled, Erase,
     Refuse, Negotiate, Option, Complete
<1>7. CASE t = "wont"
  <2>1. b[2] = "WONT"
    BY <1>3, <1>7
  <2>2. s2 = s /\ UNCHANGED <<output, at>>
    BY <1>3, <1>6, <1>7, <2>1, ReceivesNothing
  <2>3. Holds(s2, b2, command', readBuf', handled, output', at')
    BY <1>3, <1>5, <1>6, <2>2 DEF Holds
  <2> QED BY <1>2, <1>6, <2>2, <2>3 DEF Done
<1>8. CASE t # "wont"
  <2>1. PICK msg : Write(msg) /\ Escaped(msg) = Replies[t] \o <<"CR", "LF">>
    <3>1. CASE t = "will"
      <4>1. b[2] = "WILL" /\ x = "echo"
        BY <1>3, <3>1
      <4> QED BY <1>6, <3>1, <4>1, AnswersSent
    <3>2. CASE t = "do"
      <4>1. b[2] = "DO" /\ x = "echo"
        BY <1>3, <3>2
      <4> QED BY <1>6, <3>2, <4>1, AnswersSent
    <3>3. CASE t = "do0"
      <4>1. b[2] = "DO" /\ x = "NUL"
        BY <1>3, <3>3
      <4> QED BY <1>6, <3>3, <4>1, AnswersSent
    <3> QED BY <1>3, <1>8, <3>1, <3>2, <3>3
  <2>2. t \in DOMAIN Replies
    BY <1>3, <1>8, Asking
  <2>3. /\ Holds(Receives(t, s), <<>>, <<>>, readBuf, handled, output', at')
        /\ output' \in Seq(Outputs) /\ at' \in {"parsing", "failed"}
        /\ at' = "failed" => peer = "reset"
    BY <1>2, <1>5, <2>1, <2>2, Answered
  <2> QED BY <1>2, <1>3, <1>6, <2>3 DEF Done
<1> QED BY <1>7, <1>8

LEMMA ParseStep ==
  ASSUME TelnetInv, Parse
  PROVE  TelnetInv'
<1>1. at = "parsing" /\ buf # <<>> /\ UNCHANGED <<network, taken, handled>> /\ buf' = Tail(buf)
  BY DEF Parse, Text, Begin, Consume, Ignored, AreYouThere, Doubled, Erase, Refuse, Negotiate, Option,
     Complete
<1>2. PICK t, j, s, b, s2, b2 : Before(t, j, s, b, s2, b2)
  BY <1>1, BeforeExists
<1>3. j \in 0..2 /\ Reads(t, j, s, b, s2, b2) /\ s \in Senses /\ Head(buf) = Code[t][j + 1]
  BY <1>2 DEF Before, ReadsAt, Reads
<1>4. Done(t, s2, b2)
  <2>1. CASE j = 0
    BY <1>2, <2>1, FirstStep
  <2>2. CASE j = 1
    <3>1. PICK x : x = Code[t][2]
      OBVIOUS
    <3>2. x = Head(buf)
      <4>1. j + 1 = 2
        BY <2>2
      <4> QED BY <1>3, <3>1, <4>1
    <3>3. Reads(t, 1, s, b, s2, b2) /\ Before(t, 1, s, b, s2, b2)
      BY <1>2, <1>3, <2>2
    <3>4. \/ t = "line" /\ x = "LF" /\ b = <<"CR">> /\ b2 = <<>> /\ s2 = Receives(t, s)
          \/ /\ b = <<"IAC">> /\ b2 = <<>> /\ s2 = Receives(t, s)
             /\ <<t, x>> \in {<<"data", "IAC">>, <<"nop", "NOP">>, <<"ayt", "AYT">>, <<"ec", "EC">>,
                              <<"el", "EL">>, <<"ga", "GA">>}
          \/ /\ b = <<"IAC">> /\ b2 = <<"IAC", x>> /\ s2 = s /\ x \in {"WILL", "WONT", "DO"}
      BY <3>1, <3>3, SecondByte
    <3>5. CASE t = "line" /\ x = "LF" /\ b = <<"CR">> /\ b2 = <<>> /\ s2 = Receives(t, s)
      BY <1>3, <3>2, <3>3, <3>5, LineStep
    <3>6. CASE /\ b = <<"IAC">> /\ b2 = <<>> /\ s2 = Receives(t, s)
               /\ <<t, x>> \in {<<"data", "IAC">>, <<"nop", "NOP">>, <<"ayt", "AYT">>, <<"ec", "EC">>,
                                <<"el", "EL">>, <<"ga", "GA">>}
      BY <1>3, <3>2, <3>3, <3>6, CompleteStep
    <3>7. CASE b = <<"IAC">> /\ b2 = <<"IAC", x>> /\ s2 = s /\ x \in {"WILL", "WONT", "DO"}
      BY <3>2, <3>3, <3>7, NegotiateStep
    <3> QED BY <3>4, <3>5, <3>6, <3>7
  <2>3. CASE j = 2
    BY <1>2, <2>3, OptionStep
  <2> QED BY <1>3, <2>1, <2>2, <2>3
<1> QED BY <1>1, <1>2, <1>4, ParseDone

-----------------------------------------------------------------------------
(* A sequence less one of its members.                                     *)

Leave(w, x, b) == IF b = x THEN w ELSE Append(w, b)

\* The recursion of Without has the solution w.
Leaves(q, x, S, w) ==
  /\ w \in [0..Len(q) -> Seq(S)]
  /\ w[0] = <<>> /\ \A k \in 1..Len(q) : w[k] = Leave(w[k - 1], x, q[k])
  /\ Without(q, x) = w[Len(q)]

LEMMA LeavesExist ==
  ASSUME NEW S, NEW q \in Seq(S), NEW x
  PROVE  \E w : Leaves(q, x, S, w)
<1> DEFINE n == Len(q)
           step == [k \in 1..n |-> [w \in Seq(S) |-> Leave(w, x, q[k])]]
           E(f) == [k \in 0..n |-> IF k = 0 THEN <<>> ELSE Leave(f[k - 1], x, q[k])]
<1>0. n \in Nat
  OBVIOUS
<1>1. \A k \in 1..n : \A w \in Seq(S) : Leave(w, x, q[k]) \in Seq(S)
  BY DEF Leave
<1>2. step \in [1..n -> [Seq(S) -> Seq(S)]] /\ <<>> \in Seq(S)
  BY <1>1
<1>3. PICK f : Solves(f, n, Seq(S), <<>>, step)
  <2> HIDE DEF step, n
  <2> QED BY <1>0, <1>2, RecursionDefines
<1>4. /\ f \in [0..n -> Seq(S)] /\ f[0] = <<>>
      /\ \A k \in 1..n : f[k] = Leave(f[k - 1], x, q[k])
  <2>1. f \in [0..n -> Seq(S)] /\ f[0] = <<>> /\ \A k \in 1..n : f[k] = step[k][f[k - 1]]
    BY <1>3 DEF Solves
  <2>2. ASSUME NEW k \in 1..n PROVE f[k] = Leave(f[k - 1], x, q[k])
    <3>1. f[k - 1] \in Seq(S)
      BY <2>1
    <3> QED BY <2>1, <3>1
  <2> QED BY <2>1, <2>2
<1>5. ASSUME NEW e, NEW h, e = E(h)
      PROVE  e[0] = <<>> /\ \A k \in 1..n : e[k] = Leave(h[k - 1], x, q[k])
  <2>1. \A k \in 0..n : e[k] = IF k = 0 THEN <<>> ELSE Leave(h[k - 1], x, q[k])
    BY <1>5
  <2>2. \A k \in 1..n : k \in 0..n /\ k # 0
    BY <1>0
  <2>3. 0 \in 0..n
    BY <1>0
  <2> HIDE DEF E
  <2> QED BY <2>1, <2>2, <2>3, Zenon
<1>6. f = E(f)
  <2> DEFINE e == E(f)
  <2>1. e = [k \in 0..n |-> e[k]] /\ f = [k \in 0..n |-> f[k]]
    BY <1>4
  <2>2. e[0] = f[0] /\ \A k \in 1..n : e[k] = f[k]
    <3>1. e = E(f)
      OBVIOUS
    <3> HIDE DEF E, e
    <3> QED BY <1>4, <1>5, <3>1
  <2>3. \A k \in 0..n : e[k] = f[k]
    <3> HIDE DEF e
    <3> QED BY <1>0, <2>2
  <2> HIDE DEF e
  <2>4. e = f
    BY <2>1, <2>3
  <2> QED BY <2>4 DEF e
<1> DEFINE d == CHOOSE e : e = E(e)
<1>7. d = E(d)
  <2> HIDE DEF E
  <2> QED BY <1>6, Zenon
<1>8. d[0] = <<>> /\ \A k \in 1..n : d[k] = Leave(d[k - 1], x, q[k])
  <2> HIDE DEF E, d
  <2> QED BY <1>5, <1>7
<1>9. Without(q, x) = d[Len(q)]
  BY DEF Without, Leave
<1>10. d = [k \in 0..n |-> d[k]]
  BY <1>7
<1>11. \A k \in 0..n : d[k] = f[k]
  <2>1. \A k \in 1..n : d[k - 1] = f[k - 1] => d[k] = f[k]
    BY <1>4, <1>8
  <2>2. d[0] = f[0]
    BY <1>4, <1>8
  <2> HIDE DEF d, n
  <2> QED BY <1>0, <2>1, <2>2, RecursionUnique, SMTT(60)
<1> HIDE DEF d
<1>12. d \in [0..n -> Seq(S)]
  BY <1>4, <1>10, <1>11
<1>13. Leaves(q, x, S, d)
  BY <1>8, <1>9, <1>12 DEF Leaves
<1> QED BY <1>13

LEMMA WithoutTyped ==
  ASSUME NEW S, NEW q \in Seq(S), NEW x
  PROVE  Without(q, x) \in Seq(S)
<1>1. PICK w : Leaves(q, x, S, w)
  BY LeavesExist
<1>2. Len(q) \in 0..Len(q)
  OBVIOUS
<1> QED BY <1>1, <1>2 DEF Leaves

LEMMA WithoutNone == \A x : Without(<<>>, x) = <<>>
<1> TAKE x
<1>1. PICK z : z = <<>>
  OBVIOUS
<1>2. z \in Seq({}) /\ Len(z) = 0
  BY <1>1
<1>3. PICK w : Leaves(z, x, {}, w)
  BY <1>2, LeavesExist
<1> QED BY <1>1, <1>2, <1>3 DEF Leaves

LEMMA WithoutAppend ==
  ASSUME NEW S, NEW q \in Seq(S), NEW b \in S, NEW x
  PROVE  Without(Append(q, b), x) = Leave(Without(q, x), x, b)
<1>1. PICK more, n : more = Append(q, b) /\ n = Len(q)
  OBVIOUS
<1>2. /\ more \in Seq(S) /\ Len(more) = n + 1 /\ n \in Nat /\ more[n + 1] = b
      /\ \A k \in 1..n : more[k] = q[k]
  BY <1>1, AppendProperties
<1>3. PICK c : Leaves(q, x, S, c)
  BY LeavesExist
<1>4. PICK d : Leaves(more, x, S, d)
  BY <1>2, LeavesExist
<1>5. c[0] = <<>> /\ (\A k \in 1..n : c[k] = Leave(c[k - 1], x, q[k])) /\ Without(q, x) = c[n]
  BY <1>1, <1>3 DEF Leaves
<1>6. /\ d[0] = <<>> /\ (\A k \in 1..(n + 1) : d[k] = Leave(d[k - 1], x, more[k]))
      /\ Without(more, x) = d[n + 1]
  BY <1>2, <1>4 DEF Leaves
<1>7. \A k \in 0..n : c[k] = d[k]
  <2>1. \A k \in 1..n : k \in 1..(n + 1)
    BY <1>2
  <2>2. \A k \in 1..n : c[k - 1] = d[k - 1] => c[k] = d[k]
    BY <1>2, <1>5, <1>6, <2>1
  <2>3. c[0] = d[0] /\ n \in Nat
    BY <1>2, <1>5, <1>6
  <2> QED BY <2>2, <2>3, RecursionUnique, SMTT(60)
<1>8. d[n + 1] = Leave(d[n], x, b)
  <2>1. n + 1 \in 1..(n + 1) /\ (n + 1) - 1 = n
    BY <1>2
  <2> QED BY <1>2, <1>6, <2>1
<1>9. c[n] = d[n]
  BY <1>2, <1>7
<1> QED BY <1>1, <1>2, <1>5, <1>6, <1>8, <1>9

\* An erase of a member that stays.
LEMMA WithoutFront ==
  ASSUME NEW S, NEW q \in Seq(S), NEW x, q # <<>>, Last(q) # x
  PROVE  Without(q, x) # <<>> /\ Front(Without(q, x)) = Without(Front(q), x)
<1>1. Front(q) \in Seq(S) /\ Last(q) \in S /\ q = Append(Front(q), Last(q))
  BY FrontIs
<1>2. Without(q, x) = Leave(Without(Front(q), x), x, Last(q))
  BY <1>1, WithoutAppend
<1>3. Without(q, x) = Append(Without(Front(q), x), Last(q))
  BY <1>2 DEF Leave
<1>4. Without(Front(q), x) \in Seq(S)
  BY <1>1, WithoutTyped
<1> QED BY <1>1, <1>3, <1>4, FrontAppend

-----------------------------------------------------------------------------
(* What the client means and what the server makes of it.                  *)

Wide == {"a", "A", "space", "IAC"}
Sayings == Seq(Seq(Wide))

Intents ==
  {h \in [lines : Seq(Sayings), answers : Seq(Outputs), verb : Seq(Wide), arg : Seq(Wide),
          inArg : BOOLEAN, torn : BOOLEAN] : h.inArg \/ h.arg = <<>>}

LEMMA IntentsAre ==
  ASSUME NEW h \in Intents
  PROVE  /\ h = [lines |-> h.lines, answers |-> h.answers, verb |-> h.verb, arg |-> h.arg,
                 inArg |-> h.inArg, torn |-> h.torn]
         /\ h.lines \in Seq(Sayings) /\ h.answers \in Seq(Outputs) /\ h.verb \in Seq(Wide)
         /\ h.arg \in Seq(Wide) /\ h.inArg \in BOOLEAN /\ h.torn \in BOOLEAN
         /\ h.inArg \/ h.arg = <<>>
  BY DEF Intents

LEMMA IntentOf ==
  ASSUME NEW l \in Seq(Sayings), NEW o \in Seq(Outputs), NEW v \in Seq(Wide), NEW a \in Seq(Wide),
         NEW i \in BOOLEAN, NEW r \in BOOLEAN, i \/ a = <<>>
  PROVE  [lines |-> l, answers |-> o, verb |-> v, arg |-> a, inArg |-> i, torn |-> r] \in Intents
  BY DEF Intents

\* The lines of one client as the server has them.
LinesLess(lines) == [i \in DOMAIN lines |-> Stripped(lines[i])]

\* The server has the words of the client less the escaped bytes, and has sent
\* its answers and the echoes.
SameWords(h, r) ==
  /\ r.inArg = h.inArg /\ ~r.torn
  /\ r.verb = Without(h.verb, "IAC") /\ r.arg = Without(h.arg, "IAC")
  /\ r.lines = LinesLess(h.lines)

Views(h, r) == Without(r.answers, Echo) = h.answers /\ (h.torn \/ SameWords(h, r))

LEMMA StrippedIs ==
  ASSUME NEW v, NEW a
  PROVE  /\ Stripped(<<>>) = <<>>
         /\ Stripped(<<v>>) = IF Without(v, "IAC") = <<>> THEN <<>> ELSE <<Without(v, "IAC")>>
         /\ Stripped(<<v, a>>) = <<Without(v, "IAC"), Without(a, "IAC")>>
<1>1. Stripped(<<>>) = <<>>
  BY DEF Stripped
<1>2. Stripped(<<v>>) = IF Without(v, "IAC") = <<>> THEN <<>> ELSE <<Without(v, "IAC")>>
  BY DEF Stripped
<1>3. Stripped(<<v, a>>) = <<Without(v, "IAC"), Without(a, "IAC")>>
  BY DEF Stripped
<1> QED BY <1>1, <1>2, <1>3

LEMMA LinesLessAppend ==
  ASSUME NEW l \in Seq(Sayings), NEW c \in Sayings
  PROVE  LinesLess(Append(l, c)) = Append(LinesLess(l), Stripped(c))
  BY DEF LinesLess

\* What becomes of the words of a line.
LEMMA ViewText ==
  ASSUME NEW h \in Intents, NEW r \in Senses, Views(h, r), NEW t \in {"a", "space"},
         NEW h2, h2 = Hears(t, h), NEW r2, r2 = Receives(t, r)
  PROVE  h2 \in Intents /\ Views(h2, r2)
<1>1. /\ h.lines \in Seq(Sayings) /\ h.answers \in Seq(Outputs) /\ h.verb \in Seq(Wide)
      /\ h.arg \in Seq(Wide) /\ h.inArg \in BOOLEAN /\ h.torn \in BOOLEAN
      /\ h.inArg \/ h.arg = <<>>
  BY IntentsAre
<1>2. r2 \in Senses /\ r.inArg \in BOOLEAN
  BY SensesAre, ReceivesTyped, TokensListed
<1>3. /\ h.inArg => h2 = [h EXCEPT !.arg = Append(h.arg, t)]
      /\ ~h.inArg /\ t = "a" => h2 = [h EXCEPT !.verb = Append(h.verb, "A")]
      /\ ~h.inArg /\ t = "space" => h2 = [h EXCEPT !.inArg = TRUE]
  BY <1>1, Asking DEF Hears
<1>4. /\ r.inArg => r2 = [r EXCEPT !.arg = Append(r.arg, t)]
      /\ ~r.inArg /\ t = "a" => r2 = [r EXCEPT !.verb = Append(r.verb, "A")]
      /\ ~r.inArg /\ t = "space" => r2 = [r EXCEPT !.inArg = TRUE]
  BY <1>2, ReceivesA, ReceivesSpace
<1>5. r2.answers = r.answers /\ h2.answers = h.answers /\ h2.torn = h.torn
  BY <1>1, <1>2, <1>3, <1>4, IntentsAre, SensesAre, SMTT(60)
<1>6. h2 \in Intents
  <2>1. Append(h.arg, t) \in Seq(Wide) /\ Append(h.verb, "A") \in Seq(Wide)
    BY <1>1 DEF Wide
  <2> QED BY <1>1, <1>3, <2>1 DEF Intents
<1>7. ASSUME SameWords(h, r) PROVE SameWords(h2, r2)
  <2>1. /\ Without(Append(h.arg, t), "IAC") = Append(Without(h.arg, "IAC"), t)
        /\ Without(Append(h.verb, "A"), "IAC") = Append(Without(h.verb, "IAC"), "A")
    BY <1>1, WithoutAppend DEF Leave, Wide
  <2>2. /\ r.inArg = h.inArg /\ ~r.torn /\ r.lines = LinesLess(h.lines)
        /\ r.verb = Without(h.verb, "IAC") /\ r.arg = Without(h.arg, "IAC")
    BY <1>7 DEF SameWords
  <2>3. CASE h.inArg
    <3>1. /\ h2.arg = Append(h.arg, t) /\ h2.verb = h.verb /\ h2.inArg = h.inArg /\ h2.lines = h.lines
      BY <1>3, <2>3, IntentsAre
    <3>2. /\ r2.arg = Append(r.arg, t) /\ r2.verb = r.verb /\ r2.inArg = r.inArg /\ r2.lines = r.lines
          /\ r2.torn = r.torn
      BY <1>4, <2>2, <2>3, SensesAre
    <3> QED BY <2>1, <2>2, <3>1, <3>2 DEF SameWords
  <2>4. CASE ~h.inArg /\ t = "a"
    <3>1. /\ h2.arg = h.arg /\ h2.verb = Append(h.verb, "A") /\ h2.inArg = h.inArg /\ h2.lines = h.lines
      BY <1>3, <2>4, IntentsAre
    <3>2. /\ r2.arg = r.arg /\ r2.verb = Append(r.verb, "A") /\ r2.inArg = r.inArg /\ r2.lines = r.lines
          /\ r2.torn = r.torn
      BY <1>4, <2>2, <2>4, SensesAre
    <3> QED BY <2>1, <2>2, <3>1, <3>2 DEF SameWords
  <2>5. CASE ~h.inArg /\ t = "space"
    <3>1. h2.arg = h.arg /\ h2.verb = h.verb /\ h2.inArg = TRUE /\ h2.lines = h.lines
      BY <1>3, <2>5, IntentsAre
    <3>2. /\ r2.arg = r.arg /\ r2.verb = r.verb /\ r2.inArg = TRUE /\ r2.lines = r.lines
          /\ r2.torn = r.torn
      BY <1>4, <2>2, <2>5, SensesAre
    <3> QED BY <2>2, <3>1, <3>2 DEF SameWords
  <2> QED BY <1>1, <2>3, <2>4, <2>5
<1> QED BY <1>5, <1>6, <1>7 DEF Views

\* An escaped byte: the client has it, the server echoes it.
LEMMA ViewEscaped ==
  ASSUME NEW h \in Intents, NEW r \in Senses, Views(h, r),
         NEW h2, h2 = Hears("data", h), NEW r2, r2 = Receives("data", r)
  PROVE  h2 \in Intents /\ Views(h2, r2)
<1>1. /\ h.verb \in Seq(Wide) /\ h.arg \in Seq(Wide) /\ h.inArg \in BOOLEAN /\ "IAC" \in Wide
  BY IntentsAre DEF Wide
<1>2. /\ h.inArg => h2 = [h EXCEPT !.arg = Append(h.arg, "IAC")]
      /\ ~h.inArg => h2 = [h EXCEPT !.verb = Append(h.verb, "IAC")]
  BY <1>1, Asking DEF Hears
<1>3. r2 = [r EXCEPT !.answers = Append(r.answers, Echo)]
  BY Asking, ReceivesQuestion
<1>4. /\ h2.answers = h.answers /\ h2.torn = h.torn /\ h2.inArg = h.inArg /\ h2.lines = h.lines
      /\ h2.arg = (IF h.inArg THEN Append(h.arg, "IAC") ELSE h.arg)
      /\ h2.verb = (IF h.inArg THEN h.verb ELSE Append(h.verb, "IAC"))
  BY <1>1, <1>2, IntentsAre
<1>5. /\ r2.answers = Append(r.answers, Echo) /\ r2.torn = r.torn /\ r2.inArg = r.inArg
      /\ r2.lines = r.lines /\ r2.arg = r.arg /\ r2.verb = r.verb
  BY <1>3, SensesAre
<1>6. h2 \in Intents
  <2>1. Append(h.arg, "IAC") \in Seq(Wide) /\ Append(h.verb, "IAC") \in Seq(Wide)
    BY <1>1
  <2> QED BY <1>1, <1>2, <2>1 DEF Intents
<1>7. Without(r2.answers, Echo) = h2.answers
  <2>1. r.answers \in Seq(Outputs) /\ Echo \in Outputs
    BY SensesAre, AnswersTyped, Asking
  <2>2. Without(Append(r.answers, Echo), Echo) = Without(r.answers, Echo)
    BY <2>1, WithoutAppend DEF Leave
  <2> QED BY <1>4, <1>5, <2>2 DEF Views
<1>8. /\ Without(Append(h.arg, "IAC"), "IAC") = Without(h.arg, "IAC")
      /\ Without(Append(h.verb, "IAC"), "IAC") = Without(h.verb, "IAC")
  BY <1>1, WithoutAppend DEF Leave
<1>9. SameWords(h, r) => SameWords(h2, r2)
  BY <1>4, <1>5, <1>8 DEF SameWords
<1> QED BY <1>4, <1>6, <1>7, <1>9 DEF Views

\* An erase, which must not find an escaped byte.
LEMMA ViewErase ==
  ASSUME NEW h \in Intents, NEW r \in Senses, Views(h, r),
         NEW h2, h2 = Hears("ec", h), NEW r2, r2 = Receives("ec", r)
  PROVE  h2 \in Intents /\ Views(h2, r2)
<1>1. /\ h.verb \in Seq(Wide) /\ h.arg \in Seq(Wide) /\ h.inArg \in BOOLEAN /\ h.torn \in BOOLEAN
      /\ h.inArg \/ h.arg = <<>>
  BY IntentsAre
<1>2. r.inArg \in BOOLEAN /\ r.lines \in Seq(Commands) /\ r.torn \in BOOLEAN /\ h.lines \in Seq(Sayings)
  BY SensesAre, IntentsAre
<1>3. /\ h.inArg /\ h.arg # <<>> =>
           h2 = [h EXCEPT !.arg = Front(h.arg), !.torn = h.torn \/ Last(h.arg) = "IAC"]
      /\ h.inArg /\ h.arg = <<>> => h2 = [h EXCEPT !.inArg = FALSE]
      /\ ~h.inArg /\ h.verb # <<>> =>
           h2 = [h EXCEPT !.verb = Front(h.verb), !.torn = h.torn \/ Last(h.verb) = "IAC"]
      /\ ~h.inArg /\ h.verb = <<>> => h2 = [h EXCEPT !.torn = h.torn \/ h.lines # <<>>]
  BY <1>1, Asking DEF Hears
<1>4. /\ r.inArg /\ r.arg # <<>> => r2 = [r EXCEPT !.arg = Front(r.arg)]
      /\ r.inArg /\ r.arg = <<>> => r2 = [r EXCEPT !.inArg = FALSE]
      /\ ~r.inArg /\ r.verb # <<>> => r2 = [r EXCEPT !.verb = Front(r.verb)]
      /\ ~r.inArg /\ r.verb = <<>> => r2 = [r EXCEPT !.torn = r.torn \/ r.lines # <<>>]
  BY ReceivesErase
<1>5. h2.answers = h.answers /\ (h.torn => h2.torn)
  BY <1>1, <1>3, IntentsAre
<1>6. r2.answers = r.answers
  BY <1>2, <1>4, SensesAre
<1>7. h2 \in Intents
  <2>1. /\ h.arg # <<>> => Front(h.arg) \in Seq(Wide)
        /\ h.verb # <<>> => Front(h.verb) \in Seq(Wide)
    BY <1>1, FrontIs
  <2> QED BY <1>1, <1>3, <2>1 DEF Intents
<1>8. ASSUME SameWords(h, r), ~h2.torn PROVE SameWords(h2, r2)
  <2>1. /\ r.inArg = h.inArg /\ ~r.torn /\ r.lines = LinesLess(h.lines)
        /\ r.verb = Without(h.verb, "IAC") /\ r.arg = Without(h.arg, "IAC")
    BY <1>8 DEF SameWords
  <2>2. CASE h.inArg /\ h.arg # <<>>
    <3>1. /\ h2.arg = Front(h.arg) /\ h2.verb = h.verb /\ h2.inArg = h.inArg /\ h2.lines = h.lines
          /\ h2.torn = (h.torn \/ Last(h.arg) = "IAC")
      BY <1>3, <2>2, IntentsAre
    <3>2. Last(h.arg) # "IAC"
      BY <1>8, <3>1
    <3>3. r.arg # <<>> /\ Front(r.arg) = Without(Front(h.arg), "IAC")
      BY <1>1, <2>1, <2>2, <3>2, WithoutFront
    <3>4. /\ r2.arg = Front(r.arg) /\ r2.verb = r.verb /\ r2.inArg = r.inArg /\ r2.lines = r.lines
          /\ r2.torn = r.torn
      BY <1>4, <2>1, <2>2, <3>3, SensesAre
    <3> QED BY <2>1, <3>1, <3>3, <3>4 DEF SameWords
  <2>3. CASE h.inArg /\ h.arg = <<>>
    <3>1. h2.arg = h.arg /\ h2.verb = h.verb /\ h2.inArg = FALSE /\ h2.lines = h.lines
      BY <1>3, <2>3, IntentsAre
    <3>2. r.arg = <<>>
      BY <2>1, <2>3, WithoutNone
    <3>3. r2.arg = r.arg /\ r2.verb = r.verb /\ r2.inArg = FALSE /\ r2.lines = r.lines /\ r2.torn = r.torn
      BY <1>4, <2>1, <2>3, <3>2, SensesAre
    <3> QED BY <2>1, <3>1, <3>3 DEF SameWords
  <2>4. CASE ~h.inArg /\ h.verb # <<>>
    <3>1. /\ h2.arg = h.arg /\ h2.verb = Front(h.verb) /\ h2.inArg = h.inArg /\ h2.lines = h.lines
          /\ h2.torn = (h.torn \/ Last(h.verb) = "IAC")
      BY <1>3, <2>4, IntentsAre
    <3>2. Last(h.verb) # "IAC"
      BY <1>8, <3>1
    <3>3. r.verb # <<>> /\ Front(r.verb) = Without(Front(h.verb), "IAC")
      BY <1>1, <2>1, <2>4, <3>2, WithoutFront
    <3>4. /\ r2.arg = r.arg /\ r2.verb = Front(r.verb) /\ r2.inArg = r.inArg /\ r2.lines = r.lines
          /\ r2.torn = r.torn
      BY <1>4, <2>1, <2>4, <3>3, SensesAre
    <3> QED BY <2>1, <3>1, <3>3, <3>4 DEF SameWords
  <2>5. CASE ~h.inArg /\ h.verb = <<>>
    <3>1. /\ h2.arg = h.arg /\ h2.verb = h.verb /\ h2.inArg = h.inArg /\ h2.lines = h.lines
          /\ h2.torn = (h.torn \/ h.lines # <<>>)
      BY <1>3, <2>5, IntentsAre
    <3>2. h.lines = <<>>
      BY <1>8, <3>1
    <3>3. r.verb = <<>> /\ r.lines = <<>>
      <4>1. LinesLess(<<>>) = <<>>
        BY DEF LinesLess
      <4> QED BY <2>1, <2>5, <3>2, <4>1, WithoutNone
    <3>4. /\ r2.arg = r.arg /\ r2.verb = r.verb /\ r2.inArg = r.inArg /\ r2.lines = r.lines /\ ~r2.torn
      BY <1>4, <2>1, <2>5, <3>3, SensesAre
    <3> QED BY <2>1, <3>1, <3>4 DEF SameWords
  <2> QED BY <1>1, <2>2, <2>3, <2>4, <2>5
<1> QED BY <1>5, <1>6, <1>7, <1>8 DEF Views

\* The end of a line, which the server has without its escaped bytes.
LEMMA ViewLine ==
  ASSUME NEW h \in Intents, NEW r \in Senses, Views(h, r),
         NEW h2, h2 = Hears("line", h), NEW r2, r2 = Receives("line", r)
  PROVE  h2 \in Intents /\ Views(h2, r2)
<1> DEFINE c == IF h.inArg THEN <<h.verb, h.arg>> ELSE IF h.verb = <<>> THEN <<>> ELSE <<h.verb>>
           d == IF r.inArg THEN <<r.verb, r.arg>> ELSE IF r.verb = <<>> THEN <<>> ELSE <<r.verb>>
<1>1. /\ h.lines \in Seq(Sayings) /\ h.verb \in Seq(Wide) /\ h.arg \in Seq(Wide)
      /\ h.inArg \in BOOLEAN /\ h.torn \in BOOLEAN /\ h.answers \in Seq(Outputs)
  BY IntentsAre
<1>2. h2 = [h EXCEPT !.lines = Append(h.lines, c), !.verb = <<>>, !.arg = <<>>, !.inArg = FALSE]
  BY Asking DEF Hears
<1>3. r2 = [r EXCEPT !.lines = Append(r.lines, d), !.verb = <<>>, !.arg = <<>>, !.inArg = FALSE]
  BY ReceivesLine
<1>4. c \in Sayings
  BY <1>1 DEF Sayings
<1>5. SameWords(h, r) => d = Stripped(c)
  <2>1. /\ Stripped(<<>>) = <<>>
        /\ Stripped(<<h.verb>>) = IF Without(h.verb, "IAC") = <<>> THEN <<>>
                                  ELSE <<Without(h.verb, "IAC")>>
        /\ Stripped(<<h.verb, h.arg>>) = <<Without(h.verb, "IAC"), Without(h.arg, "IAC")>>
    BY StrippedIs
  <2>2. Without(<<>>, "IAC") = <<>>
    BY WithoutNone
  <2> QED BY <1>1, <2>1, <2>2 DEF SameWords
<1> HIDE DEF c, d
<1>6. /\ h2.lines = Append(h.lines, c) /\ h2.verb = <<>> /\ h2.arg = <<>> /\ h2.inArg = FALSE
      /\ h2.answers = h.answers /\ h2.torn = h.torn
  BY <1>2, IntentsAre
<1>7. /\ r2.lines = Append(r.lines, d) /\ r2.verb = <<>> /\ r2.arg = <<>> /\ r2.inArg = FALSE
      /\ r2.answers = r.answers /\ r2.torn = r.torn
  BY <1>3, SensesAre
<1>8. h2 \in Intents
  <2>1. Append(h.lines, c) \in Seq(Sayings) /\ <<>> \in Seq(Wide)
    BY <1>1, <1>4
  <2> QED BY <1>1, <1>2, <2>1 DEF Intents
<1>9. SameWords(h, r) => SameWords(h2, r2)
  <2>1. LinesLess(Append(h.lines, c)) = Append(LinesLess(h.lines), Stripped(c))
    BY <1>1, <1>4, LinesLessAppend
  <2> QED BY <1>5, <1>6, <1>7, <2>1, WithoutNone DEF SameWords
<1> QED BY <1>6, <1>7, <1>8, <1>9 DEF Views

\* An answer is not an echo: the first byte or the third tells them apart.
LEMMA NoEcho ==
  ASSUME NEW t \in DOMAIN Answers
  PROVE  Answers[t] \o <<"CR", "LF">> # Echo
<1> DEFINE B == {"IAC", "HELLO", "DONT", "WONT", "echo", "CR", "LF"}
<1>1. /\ DOMAIN Answers = {"ayt", "will", "do", "do0"} /\ Answers["ayt"] = <<"HELLO">>
      /\ Answers["will"] = <<"IAC", "IAC", "DONT", "echo">>
      /\ Answers["do"] = <<"IAC", "IAC", "WONT", "echo">>
      /\ Answers["do0"] = <<"IAC", "IAC", "WONT">>
  BY DEF Answers
<1>2. PICK v, w : v = Answers[t] /\ w = v \o <<"CR", "LF">>
  OBVIOUS
<1>3. v \in Seq(B) /\ <<"CR", "LF">> \in Seq(B)
  BY <1>1, <1>2, SMTT(60)
<1>4. /\ Len(w) = Len(v) + 2 /\ \A i \in 1..Len(v) : w[i] = v[i]
  <2> HIDE DEF B
  <2> QED BY <1>2, <1>3, ConcatIs
<1>5. Len(Echo) = 4 /\ Echo[3] = "CR"
  BY DEF Echo
<1>6. Len(v) = 1 \/ (Len(v) \in {3, 4} /\ v[3] \in {"DONT", "WONT"})
  <2>1. /\ Len(<<"HELLO">>) = 1
        /\ Len(<<"IAC", "IAC", "DONT", "echo">>) = 4 /\ <<"IAC", "IAC", "DONT", "echo">>[3] = "DONT"
        /\ Len(<<"IAC", "IAC", "WONT", "echo">>) = 4 /\ <<"IAC", "IAC", "WONT", "echo">>[3] = "WONT"
        /\ Len(<<"IAC", "IAC", "WONT">>) = 3 /\ <<"IAC", "IAC", "WONT">>[3] = "WONT"
    OBVIOUS
  <2>2. v \in {<<"HELLO">>, <<"IAC", "IAC", "DONT", "echo">>, <<"IAC", "IAC", "WONT", "echo">>,
              <<"IAC", "IAC", "WONT">>}
    BY <1>1, <1>2
  <2> QED BY <2>1, <2>2
<1> QED BY <1>2, <1>4, <1>5, <1>6

\* A question.
LEMMA ViewAnswer ==
  ASSUME NEW h \in Intents, NEW r \in Senses, Views(h, r), NEW t \in DOMAIN Answers,
         NEW h2, h2 = Hears(t, h), NEW r2, r2 = Receives(t, r)
  PROVE  h2 \in Intents /\ Views(h2, r2)
<1> DEFINE o == Answers[t] \o <<"CR", "LF">>
<1>1. /\ DOMAIN Answers = {"ayt", "will", "do", "do0"} /\ t \in DOMAIN Replies /\ Replies[t] = Answers[t]
  BY Asking
<1>2. o \in Outputs /\ o # Echo
  BY <1>1, AnswersTyped, NoEcho
<1>3. h2 = [h EXCEPT !.answers = Append(h.answers, o)]
  BY <1>1 DEF Hears
<1>4. r2 = [r EXCEPT !.answers = Append(r.answers, o)]
  BY <1>1, ReceivesQuestion
<1> HIDE DEF o
<1>5. h.answers \in Seq(Outputs) /\ r.answers \in Seq(Outputs)
  BY IntentsAre, SensesAre
<1>6. h2 \in Intents
  <2>1. Append(h.answers, o) \in Seq(Outputs)
    BY <1>2, <1>5
  <2> QED BY <1>3, <2>1 DEF Intents
<1>7. /\ h2.answers = Append(h.answers, o) /\ h2.torn = h.torn /\ h2.inArg = h.inArg
      /\ h2.lines = h.lines /\ h2.arg = h.arg /\ h2.verb = h.verb
  BY <1>3, IntentsAre
<1>8. /\ r2.answers = Append(r.answers, o) /\ r2.torn = r.torn /\ r2.inArg = r.inArg
      /\ r2.lines = r.lines /\ r2.arg = r.arg /\ r2.verb = r.verb
  BY <1>4, SensesAre
<1>9. Without(Append(r.answers, o), Echo) = Append(Without(r.answers, Echo), o)
  BY <1>2, <1>5, WithoutAppend DEF Leave
<1> QED BY <1>6, <1>7, <1>8, <1>9 DEF Views, SameWords

LEMMA ViewStep ==
  ASSUME NEW h \in Intents, NEW r \in Senses, Views(h, r), NEW t \in Tokens
  PROVE  Hears(t, h) \in Intents /\ Views(Hears(t, h), Receives(t, r))
<1>1. CASE t \in {"a", "space"}
  BY <1>1, ViewText
<1>2. CASE t = "data"
  BY <1>2, ViewEscaped
<1>3. CASE t = "ec"
  BY <1>3, ViewErase
<1>4. CASE t = "line"
  BY <1>4, ViewLine
<1>5. CASE t \in DOMAIN Answers
  BY <1>5, ViewAnswer
<1>6. CASE t \in {"nop", "wont", "el", "ga"}
  <2>1. Hears(t, h) = h
    BY <1>6, Asking DEF Hears
  <2>2. Receives(t, r) = r
    BY <1>6, ReceivesNothing
  <2> QED BY <2>1, <2>2
<1> QED BY <1>1, <1>2, <1>3, <1>4, <1>5, <1>6, TokensListed, Asking

\* Any token leaves a client a meaning.
LEMMA HearsTyped ==
  ASSUME NEW h \in Intents, NEW t \in Tokens
  PROVE  Hears(t, h) \in Intents
<1>1. /\ h.lines \in Seq(Sayings) /\ h.answers \in Seq(Outputs) /\ h.verb \in Seq(Wide)
      /\ h.arg \in Seq(Wide) /\ h.inArg \in BOOLEAN /\ h.torn \in BOOLEAN
      /\ h.inArg \/ h.arg = <<>>
  BY IntentsAre
<1>2. /\ \A b \in Wide : Append(h.arg, b) \in Seq(Wide) /\ Append(h.verb, b) \in Seq(Wide)
      /\ {"a", "A", "space", "IAC"} = Wide
  BY <1>1 DEF Wide
<1>3. CASE t \in {"a", "space", "data"}
  <2>1. \/ h.inArg /\ \E b \in Wide : Hears(t, h) = [h EXCEPT !.arg = Append(h.arg, b)]
        \/ ~h.inArg /\ \E b \in Wide : Hears(t, h) = [h EXCEPT !.verb = Append(h.verb, b)]
        \/ ~h.inArg /\ Hears(t, h) = [h EXCEPT !.inArg = TRUE]
    BY <1>1, <1>2, <1>3, Asking DEF Hears
  <2> QED BY <1>1, <1>2, <2>1 DEF Intents
<1>4. CASE t = "ec"
  <2>1. \/ h.arg # <<>> /\ \E b \in BOOLEAN : Hears(t, h) = [h EXCEPT !.arg = Front(h.arg), !.torn = b]
        \/ h.arg = <<>> /\ Hears(t, h) = [h EXCEPT !.inArg = FALSE]
        \/ h.verb # <<>> /\ \E b \in BOOLEAN : Hears(t, h) = [h EXCEPT !.verb = Front(h.verb), !.torn = b]
        \/ \E b \in BOOLEAN : Hears(t, h) = [h EXCEPT !.torn = b]
    <3>1. /\ (h.torn \/ Last(h.arg) = "IAC") \in BOOLEAN /\ (h.torn \/ Last(h.verb) = "IAC") \in BOOLEAN
          /\ (h.torn \/ h.lines # <<>>) \in BOOLEAN
      OBVIOUS
    <3>2. /\ h.arg # <<>> =>
               Hears(t, h) = [h EXCEPT !.arg = Front(h.arg), !.torn = h.torn \/ Last(h.arg) = "IAC"]
          /\ h.inArg /\ h.arg = <<>> => Hears(t, h) = [h EXCEPT !.inArg = FALSE]
          /\ ~h.inArg /\ h.verb # <<>> =>
               Hears(t, h) = [h EXCEPT !.verb = Front(h.verb), !.torn = h.torn \/ Last(h.verb) = "IAC"]
          /\ ~h.inArg /\ h.verb = <<>> => Hears(t, h) = [h EXCEPT !.torn = h.torn \/ h.lines # <<>>]
      BY <1>1, <1>4, Asking DEF Hears
    <3> QED BY <1>1, <3>1, <3>2, Zenon
  <2>2. /\ h.arg # <<>> => Front(h.arg) \in Seq(Wide)
        /\ h.verb # <<>> => Front(h.verb) \in Seq(Wide)
    BY <1>1, FrontIs
  <2> QED BY <1>1, <2>1, <2>2 DEF Intents
<1>5. CASE t = "line"
  <2> DEFINE c == IF h.inArg THEN <<h.verb, h.arg>> ELSE IF h.verb = <<>> THEN <<>> ELSE <<h.verb>>
  <2>1. Hears(t, h) = [h EXCEPT !.lines = Append(h.lines, c), !.verb = <<>>, !.arg = <<>>, !.inArg = FALSE]
    BY <1>5, Asking DEF Hears
  <2>2. c \in Sayings
    BY <1>1 DEF Sayings
  <2> HIDE DEF c
  <2>3. Append(h.lines, c) \in Seq(Sayings) /\ <<>> \in Seq(Wide)
    BY <1>1, <2>2
  <2> QED BY <1>1, <2>1, <2>3 DEF Intents
<1>6. CASE t \in DOMAIN Answers
  <2>1. PICK o : o = Answers[t] \o <<"CR", "LF">>
    OBVIOUS
  <2>2. Hears(t, h) = [h EXCEPT !.answers = Append(h.answers, o)]
    BY <1>6, <2>1, Asking DEF Hears
  <2>3. o \in Outputs
    BY <1>6, <2>1, Asking, AnswersTyped
  <2>4. Append(h.answers, o) \in Seq(Outputs)
    BY <1>1, <2>3
  <2> QED BY <1>1, <2>2, <2>4 DEF Intents
<1>7. CASE t \in {"nop", "wont", "el", "ga"}
  BY <1>7, Asking DEF Hears
<1> QED BY <1>3, <1>4, <1>5, <1>6, <1>7, TokensListed, Asking

LEMMA SilenceMeant == Silence \in Intents /\ Views(Silence, Silence)
<1>1. <<>> \in Seq(Sayings) /\ <<>> \in Seq(Outputs) /\ <<>> \in Seq(Wide)
  OBVIOUS
<1>2. Silence \in Intents
  BY <1>1, IntentOf DEF Silence
<1>3. /\ Silence.lines = <<>> /\ Silence.answers = <<>> /\ Silence.verb = <<>> /\ Silence.arg = <<>>
      /\ ~Silence.inArg /\ ~Silence.torn
  BY DEF Silence
<1>4. LinesLess(<<>>) = <<>>
  BY DEF LinesLess
<1> QED BY <1>2, <1>3, <1>4, WithoutNone DEF Views, SameWords

\* The recursion of Meaning has a solution.
LEMMA MeaningDefined ==
  ASSUME NEW tokens \in Seq(Tokens)
  PROVE  /\ Meaning(tokens) \in [0..Len(tokens) -> Intents]
         /\ Meaning(tokens)[0] = Silence
         /\ \A k \in 1..Len(tokens) : Meaning(tokens)[k] = Hears(tokens[k], Meaning(tokens)[k - 1])
<1> DEFINE n == Len(tokens)
           step == [k \in 1..n |-> [s \in Intents |-> Hears(tokens[k], s)]]
           E(f) == [k \in 0..n |-> IF k = 0 THEN Silence ELSE Hears(tokens[k], f[k - 1])]
<1>0. n \in Nat
  OBVIOUS
<1>1. \A k \in 1..n : tokens[k] \in Tokens
  OBVIOUS
<1>2. step \in [1..n -> [Intents -> Intents]] /\ Silence \in Intents
  BY <1>1, HearsTyped, SilenceMeant
<1>3. PICK f : Solves(f, n, Intents, Silence, step)
  <2> HIDE DEF step, n
  <2> QED BY <1>0, <1>2, RecursionDefines
<1>4. /\ f \in [0..n -> Intents] /\ f[0] = Silence
      /\ \A k \in 1..n : f[k] = Hears(tokens[k], f[k - 1])
  <2>1. f \in [0..n -> Intents] /\ f[0] = Silence /\ \A k \in 1..n : f[k] = step[k][f[k - 1]]
    BY <1>3 DEF Solves
  <2>2. ASSUME NEW k \in 1..n PROVE f[k] = Hears(tokens[k], f[k - 1])
    <3>1. f[k - 1] \in Intents
      BY <2>1
    <3> QED BY <2>1, <3>1
  <2> QED BY <2>1, <2>2
<1>5. ASSUME NEW e, NEW h, e = E(h)
      PROVE  e[0] = Silence /\ \A k \in 1..n : e[k] = Hears(tokens[k], h[k - 1])
  <2>1. \A k \in 0..n : e[k] = IF k = 0 THEN Silence ELSE Hears(tokens[k], h[k - 1])
    BY <1>5
  <2>2. \A k \in 1..n : k \in 0..n /\ k # 0
    BY <1>0
  <2>3. 0 \in 0..n
    BY <1>0
  <2> HIDE DEF E
  <2> QED BY <2>1, <2>2, <2>3, Zenon
<1>6. f = E(f)
  <2> DEFINE e == E(f)
  <2>1. e = [k \in 0..n |-> e[k]] /\ f = [k \in 0..n |-> f[k]]
    BY <1>4
  <2>2. e[0] = f[0] /\ \A k \in 1..n : e[k] = f[k]
    <3>1. e = E(f)
      OBVIOUS
    <3> HIDE DEF E, e
    <3> QED BY <1>4, <1>5, <3>1
  <2>3. \A k \in 0..n : e[k] = f[k]
    <3> HIDE DEF e
    <3> QED BY <1>0, <2>2
  <2> HIDE DEF e
  <2>4. e = f
    BY <2>1, <2>3
  <2> QED BY <2>4 DEF e
<1>7. Meaning(tokens) = E(Meaning(tokens))
  <2>1. Meaning(tokens) = CHOOSE e : e = E(e)
    BY DEF Meaning, Silence
  <2> HIDE DEF E
  <2> QED BY <1>6, <2>1, Zenon
<1> DEFINE g == Meaning(tokens)
<1>8. g[0] = Silence /\ \A k \in 1..n : g[k] = Hears(tokens[k], g[k - 1])
  <2> HIDE DEF E
  <2> QED BY <1>5, <1>7
<1>9. \A k \in 0..n : g[k] = f[k]
  <2>1. \A k \in 1..n : g[k - 1] = f[k - 1] => g[k] = f[k]
    BY <1>4, <1>8
  <2>2. g[0] = f[0]
    BY <1>4, <1>8
  <2> HIDE DEF g, n
  <2> QED BY <1>0, <2>1, <2>2, RecursionUnique, SMTT(60)
<1>10. g = [k \in 0..n |-> g[k]]
  BY <1>7
<1> QED BY <1>4, <1>8, <1>9, <1>10

\* At every token the server has the client's words less the escaped bytes.
LEMMA Viewed ==
  ASSUME NEW tokens \in Seq(Tokens), NEW k \in 0..Len(tokens)
  PROVE  /\ Meaning(tokens)[k] \in Intents /\ Reception(tokens)[k] \in Senses
         /\ Views(Meaning(tokens)[k], Reception(tokens)[k])
<1> DEFINE n == Len(tokens)
           m == Meaning(tokens)
           c == Reception(tokens)
           P == {i \in 0..n : Views(m[i], c[i])}
<1>1. /\ m \in [0..n -> Intents] /\ m[0] = Silence
      /\ \A i \in 1..n : m[i] = Hears(tokens[i], m[i - 1])
  BY MeaningDefined
<1>2. /\ c \in [0..n -> Senses] /\ c[0] = Silence
      /\ \A i \in 1..n : c[i] = Receives(tokens[i], c[i - 1])
  BY ReceptionDefined
<1>3. n \in Nat /\ \A i \in 1..n : tokens[i] \in Tokens /\ i - 1 \in 0..n /\ i \in 0..n
  OBVIOUS
<1> HIDE DEF n, m, c
<1>4. 0 \in P
  BY <1>1, <1>2, <1>3, SilenceMeant
<1>5. ASSUME NEW i \in 1..n, i - 1 \in P PROVE i \in P
  <2>1. m[i - 1] \in Intents /\ c[i - 1] \in Senses /\ Views(m[i - 1], c[i - 1]) /\ tokens[i] \in Tokens
    BY <1>1, <1>2, <1>3, <1>5
  <2>2. Views(Hears(tokens[i], m[i - 1]), Receives(tokens[i], c[i - 1]))
    BY <2>1, ViewStep
  <2> QED BY <1>1, <1>2, <1>3, <2>2
<1>6. \A i \in 0..n : i \in P
  <2> HIDE DEF P
  <2> QED BY <1>3, <1>4, <1>5, Induction
<1> QED BY <1>1, <1>2, <1>6 DEF n, m, c

\* So it is after the bytes that are parsed.
LEMMA HeardIs ==
  ASSUME TelnetInv
  PROVE  Views(Heard, Received)
<1>1. said \in Seq(Tokens) /\ taken - Len(buf) \in 0..Len(Stream)
  BY Known
<1>2. Parsed \in 0..Len(said)
  <2>1. taken - Len(buf) \in Nat
    BY <1>1, Known
  <2> QED BY <1>1, <2>1, WholeExists DEF IsWhole, Parsed
<1> QED BY <1>1, <1>2, Viewed DEF Heard, Received

LEMMA SaidLess == TelnetInv => CommandsAreSaid
<1> SUFFICES ASSUME TelnetInv PROVE CommandsAreSaid
  OBVIOUS
<1>1. Heard.torn \/ SameWords(Heard, Received)
  BY HeardIs DEF Views
<1>2. Received.torn \/ handled \o Waiting = Received.lines
  BY DEF TelnetInv, LinesReceived
<1> QED BY <1>1, <1>2 DEF SameWords, LinesLess, CommandsAreSaid

LEMMA AnsweredLess == TelnetInv => AnswersInOrder
<1> SUFFICES ASSUME TelnetInv PROVE AnswersInOrder
  OBVIOUS
<1>1. Without(Received.answers, Echo) = Heard.answers
  BY HeardIs DEF Views
<1>2. at # "failed" => output = Received.answers
  BY DEF TelnetInv, AnswersGiven
<1> QED BY <1>1, <1>2 DEF AnswersInOrder

-----------------------------------------------------------------------------
(* What is true of every run.                                              *)

LEMMA NextInv == TelnetInv /\ [Next]_vars => TelnetInv'
<1> SUFFICES ASSUME TelnetInv, [Next]_vars PROVE TelnetInv'
  OBVIOUS
<1>1. CASE Tick \/ RecvEnd \/ RecvFails \/ NothingMore \/ ParsingEnds \/ Deliver \/ Close \/ Break
  BY <1>1, QuietSteps
<1>2. CASE Recv
  BY <1>2, RecvStep
<1>3. CASE Parse
  BY <1>3, ParseStep
<1>4. CASE GetLine
  BY <1>4, GetLineStep
<1>5. CASE Say
  BY <1>5, SayStep
<1>6. CASE UNCHANGED vars
  <2>1. UNCHANGED <<said, arrived, peer, taken, buf, readBuf, command, output, handled, at>>
    BY <1>6 DEF vars, network, parser
  <2>2. /\ TypeOK /\ LineThere /\ FailureExcused
        /\ buf = SubSeq(Stream, taken - Len(buf) + 1, taken)
    BY Fitting
  <2>3. TypeOK' /\ LineThere' /\ FailureExcused' /\ Stream' = Stream
    BY <2>1, <2>2 DEF TypeOK, LineThere, FailureExcused, Stream
  <2> QED BY <2>1, <2>2, <2>3, Quiet DEF parser
<1> QED BY <1>1, <1>2, <1>3, <1>4, <1>5, <1>6 DEF Next, Session

\* The invariant of the control connection: wherever the stream is cut, the
\* parser is in step with what the client has said.
THEOREM TelnetSafe == Spec => []TelnetInv
<1>1. Init => TelnetInv
  BY InitInv
<1>2. TelnetInv /\ [Next]_vars => TelnetInv'
  BY NextInv
<1> QED BY <1>1, <1>2, PTL DEF Spec

\* The variables of Telnet and TelnetCommand keep their types.
THEOREM TelnetTyped == Spec => []TypeOK
<1>1. TelnetInv => TypeOK
  BY DEF TelnetInv
<1> QED BY <1>1, TelnetSafe, PTL

\* What Telnet::Read and GetBuf hand to ParseCommand are the commands the client
\* has said, each once and in order, for every stream and every cut of it, less
\* the bytes 255, which TelnetCommand::Parse drops out of them.
THEOREM CommandsSaid == Spec => []CommandsAreSaid
<1> QED BY SaidLess, TelnetSafe, PTL

\* TelnetCommand::Parse answers every question once and in its turn, and echoes
\* escaped bytes besides.
THEOREM QuestionsAnswered == Spec => []AnswersInOrder
<1> QED BY AnsweredLess, TelnetSafe, PTL

\* No session fails in Telnet::Read for the way its bytes were cut.
THEOREM FailuresExcused == Spec => []FailureExcused
<1>1. TelnetInv => FailureExcused
  BY DEF TelnetInv
<1> QED BY <1>1, TelnetSafe, PTL
=============================================================================
