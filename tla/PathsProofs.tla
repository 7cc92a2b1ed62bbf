----------------------------- MODULE PathsProofs -----------------------------
(***************************************************************************)
(* Proofs about module Paths: for every set of names, every depth of the   *)
(* tree and every set of strings the client may send, a command acts on    *)
(* the node that its argument names.                                       *)
(***************************************************************************)
EXTENDS Paths, SequenceLemmas

\* What a string is made of.
Chars == Words \cup {"/"}

LEMMA WordsAre ==
  /\ Names \subseteq Words /\ {".", "..", "~"} \subseteq Words
  /\ "/" \notin Words /\ "." \notin Names /\ ".." \notin Names /\ "/" \notin Names
  /\ Seq(Names) \subseteq Seq(Words) /\ Seq(Words) \subseteq Seq(Chars)
<1>1. Names \subseteq Words /\ Words \subseteq Chars /\ {".", "..", "~"} \subseteq Words
  BY DEF Words, Chars
<1>2. "/" \notin Words /\ "." \notin Names /\ ".." \notin Names /\ "/" \notin Names
  BY PathsAssumption DEF Words
<1> QED BY <1>1, <1>2

-----------------------------------------------------------------------------
(* Components.                                                             *)

\* The next element of a string.
Part(q, x) == IF x = "/" THEN q ELSE Append(q, x)

LEMMA PartTyped ==
  ASSUME NEW q \in Seq(Words), NEW x \in Chars
  PROVE  Part(q, x) \in Seq(Words)
  BY DEF Part, Chars

\* The recursion of Components has the solution c.
Splits(str, c) ==
  /\ c \in [0..Len(str) -> Seq(Words)]
  /\ c[0] = <<>> /\ \A k \in 1..Len(str) : c[k] = Part(c[k - 1], str[k])
  /\ Components(str) = c[Len(str)]

LEMMA SplitsExist ==
  ASSUME NEW str \in Seq(Chars)
  PROVE  \E c : Splits(str, c)
<1> DEFINE n == Len(str)
           step == [k \in 1..n |-> [q \in Seq(Words) |-> Part(q, str[k])]]
           E(f) == [k \in 0..n |-> IF k = 0 THEN <<>> ELSE Part(f[k - 1], str[k])]
<1>0. n \in Nat
  OBVIOUS
<1>1. \A k \in 1..n : \A q \in Seq(Words) : Part(q, str[k]) \in Seq(Words)
  <2>1. \A k \in 1..n : str[k] \in Chars
    OBVIOUS
  <2> QED BY <2>1, PartTyped
<1>2. step \in [1..n -> [Seq(Words) -> Seq(Words)]] /\ <<>> \in Seq(Words)
  BY <1>1
<1>3. PICK f : Solves(f, n, Seq(Words), <<>>, step)
  <2> HIDE DEF step, n
  <2> QED BY <1>0, <1>2, RecursionDefines
<1>4. /\ f \in [0..n -> Seq(Words)] /\ f[0] = <<>>
      /\ \A k \in 1..n : f[k] = Part(f[k - 1], str[k])
  <2>1. f \in [0..n -> Seq(Words)] /\ f[0] = <<>> /\ \A k \in 1..n : f[k] = step[k][f[k - 1]]
    BY <1>3 DEF Solves
  <2>2. ASSUME NEW k \in 1..n PROVE f[k] = Part(f[k - 1], str[k])
    <3>1. f[k - 1] \in Seq(Words)
      BY <2>1
    <3> QED BY <2>1, <3>1
  <2> QED BY <2>1, <2>2
<1>5. ASSUME NEW e, NEW h, e = E(h)
      PROVE  e[0] = <<>> /\ \A k \in 1..n : e[k] = Part(h[k - 1], str[k])
  <2>1. \A k \in 0..n : e[k] = IF k = 0 THEN <<>> ELSE Part(h[k - 1], str[k])
    BY <1>5
  <2>2. \A k \in 1..n : k \in 0..n /\ k # 0
    BY <1>0
  <2>3. 0 \in 0..n
    BY <1>0
  <2> HIDE DEF E
  <2> QED BY <2>1, <2>2, <2>3, Zenon
<1>6. f = E(f)
  <2> DEFINE e == E(f)
  <2>1. e = [k \in 0..n |-> e[k]] /\ f = [k \in 0..n |-> f[k]]
    BY <1>4
  <2>2. e[0] = f[0] /\ \A k \in 1..n : e[k] = f[k]
    <3>1. e = E(f)
      OBVIOUS
    <3> HIDE DEF E, e
    <3> QED BY <1>4, <1>5, <3>1
  <2>3. \A k \in 0..n : e[k] = f[k]
    <3> HIDE DEF e
    <3> QED BY <1>0, <2>2
  <2> HIDE DEF e
  <2>4. e = f
    BY <2>1, <2>3
  <2> QED BY <2>4 DEF e
<1> DEFINE d == CHOOSE e : e = E(e)
<1>7. d = E(d)
  <2> HIDE DEF E
  <2> QED BY <1>6, Zenon
<1>8. d[0] = <<>> /\ \A k \in 1..n : d[k] = Part(d[k - 1], str[k])
  <2> HIDE DEF E, d
  <2> QED BY <1>5, <1>7
<1>9. Components(str) = d[Len(str)]
  BY DEF Components, Part
<1>10. d = [k \in 0..n |-> d[k]]
  BY <1>7
<1>11. \A k \in 0..n : d[k] = f[k]
  <2>1. \A k \in 1..n : d[k - 1] = f[k - 1] => d[k] = f[k]
    BY <1>4, <1>8
  <2>2. d[0] = f[0]
    BY <1>4, <1>8
  <2> HIDE DEF d, n
  <2> QED BY <1>0, <2>1, <2>2, RecursionUnique, SMTT(60)
<1> HIDE DEF d
<1>12. d \in [0..n -> Seq(Words)]
  BY <1>4, <1>10, <1>11
<1>13. Splits(str, d)
  BY <1>8, <1>9, <1>12 DEF Splits
<1> QED BY <1>13

\* A string has components, the empty one has none, and an element more is one
\* more or a slash.
LEMMA ComponentsTyped ==
  ASSUME NEW str \in Seq(Chars)
  PROVE  Components(str) \in Seq(Words)
<1>1. PICK c : Splits(str, c)
  BY SplitsExist
<1>2. Len(str) \in 0..Len(str)
  OBVIOUS
<1> QED BY <1>1, <1>2 DEF Splits

LEMMA ComponentsNone == Components(<<>>) = <<>>
<1>1. PICK z : z = <<>>
  OBVIOUS
<1>2. z \in Seq(Chars) /\ Len(z) = 0
  BY <1>1
<1>3. PICK c : Splits(z, c)
  BY <1>2, SplitsExist
<1> QED BY <1>1, <1>2, <1>3 DEF Splits

LEMMA ComponentsAppend ==
  ASSUME NEW str \in Seq(Chars), NEW x \in Chars
  PROVE  Append(str, x) \in Seq(Chars) /\ Components(Append(str, x)) = Part(Components(str), x)
<1>1. PICK more, n : more = Append(str, x) /\ n = Len(str)
  OBVIOUS
<1>2. /\ more \in Seq(Chars) /\ Len(more) = n + 1 /\ n \in Nat /\ more[n + 1] = x
      /\ \A k \in 1..n : more[k] = str[k]
  BY <1>1, AppendProperties
<1>3. PICK c : Splits(str, c)
  BY SplitsExist
<1>4. PICK d : Splits(more, d)
  BY <1>2, SplitsExist
<1>5. c[0] = <<>> /\ (\A k \in 1..n : c[k] = Part(c[k - 1], str[k])) /\ Components(str) = c[n]
  BY <1>1, <1>3 DEF Splits
<1>6. /\ d[0] = <<>> /\ (\A k \in 1..(n + 1) : d[k] = Part(d[k - 1], more[k]))
      /\ Components(more) = d[n + 1]
  BY <1>2, <1>4 DEF Splits
<1>7. \A k \in 0..n : c[k] = d[k]
  <2>1. \A k \in 1..n : k \in 1..(n + 1)
    BY <1>2
  <2>2. \A k \in 1..n : c[k - 1] = d[k - 1] => c[k] = d[k]
    BY <1>2, <1>5, <1>6, <2>1
  <2>3. c[0] = d[0] /\ n \in Nat
    BY <1>2, <1>5, <1>6
  <2> QED BY <2>2, <2>3, RecursionUnique, SMTT(60)
<1>8. d[n + 1] = Part(d[n], x)
  <2>1. n + 1 \in 1..(n + 1) /\ (n + 1) - 1 = n
    BY <1>2
  <2> QED BY <1>2, <1>6, <2>1
<1>9. c[n] = d[n]
  BY <1>2, <1>7
<1> QED BY <1>1, <1>2, <1>5, <1>6, <1>8, <1>9

\* What is in front of the first slash is the first component.
LEMMA ComponentsHead ==
  ASSUME NEW str \in Seq(Chars), str # <<>>, str[1] # "/"
  PROVE  Components(str) # <<>> /\ Head(Components(str)) = str[1]
<1>1. PICK c, n : Splits(str, c) /\ n = Len(str)
  BY SplitsExist
<1>2. /\ c \in [0..n -> Seq(Words)] /\ c[0] = <<>> /\ (\A k \in 1..n : c[k] = Part(c[k - 1], str[k]))
      /\ Components(str) = c[n] /\ n \in Nat /\ n # 0
  BY <1>1 DEF Splits
<1> DEFINE P == {k \in 0..n : k = 0 \/ (Len(c[k]) # 0 /\ c[k][1] = str[1])}
<1>3. 0 \in P
  BY <1>2
<1>4. ASSUME NEW k \in 1..n, k - 1 \in P PROVE k \in P
  <2>1. c[k - 1] \in Seq(Words) /\ k \in 0..n /\ k # 0 /\ k - 1 \in 0..n
    BY <1>2
  <2>2. PICK q, x, r : q = c[k - 1] /\ x = str[k] /\ r = c[k]
    OBVIOUS
  <2>3. r = Part(q, x) /\ q \in Seq(Words)
    BY <1>2, <2>1, <2>2
  <2>4. CASE x = "/"
    <3>1. k # 1
      BY <2>2, <2>4
    <3>2. Len(q) # 0 /\ q[1] = str[1]
      BY <1>4, <2>1, <2>2, <3>1
    <3> QED BY <2>1, <2>2, <2>3, <2>4, <3>2 DEF Part
  <2>5. CASE x # "/"
    <3>1. r = Append(q, x)
      BY <2>3, <2>5 DEF Part
    <3>2. Len(r) = Len(q) + 1 /\ Len(q) \in Nat /\ r[Len(q) + 1] = x /\ \A i \in 1..Len(q) : r[i] = q[i]
      BY <2>3, <3>1, AppendProperties
    <3>3. CASE k = 1
      <4>1. Len(q) = 0 /\ x = str[1]
        BY <1>2, <2>2, <3>3
      <4>2. Len(r) = 1 /\ r[1] = str[1]
        BY <3>2, <4>1
      <4> QED BY <2>1, <2>2, <4>2
    <3>4. CASE k # 1
      <4>1. Len(q) # 0 /\ q[1] = str[1]
        BY <1>4, <2>1, <2>2, <3>4
      <4>2. Len(r) # 0 /\ r[1] = str[1]
        BY <3>2, <4>1
      <4> QED BY <2>1, <2>2, <4>2
    <3> QED BY <3>3, <3>4
  <2> QED BY <2>4, <2>5
<1>5. \A k \in 0..n : k \in P
  <2>1. \A k \in 1..n : k - 1 \in P => k \in P
    BY <1>4
  <2> HIDE DEF P
  <2> QED BY <1>2, <1>3, <2>1, Induction
<1>6. n \in P
  BY <1>2, <1>5
<1>7. Len(c[n]) # 0 /\ c[n][1] = str[1] /\ c[n] \in Seq(Words)
  BY <1>2, <1>6
<1> QED BY <1>2, <1>7

-----------------------------------------------------------------------------
(* MakePath.                                                               *)

\* The recursion of MakePath has the solution r.
Makes(pv, r) ==
  /\ r \in [0..Len(pv) -> Seq(Chars)]
  /\ r[0] = <<>> /\ \A k \in 1..Len(pv) : r[k] = r[k - 1] \o <<"/", pv[k]>>
  /\ pv # <<>> => MakePath(pv) = r[Len(pv)]

LEMMA MakesExist ==
  ASSUME NEW pv \in Seq(Words)
  PROVE  \E r : Makes(pv, r)
<1> DEFINE n == Len(pv)
           step == [k \in 1..n |-> [q \in Seq(Chars) |-> q \o <<"/", pv[k]>>]]
           E(f) == [k \in 0..n |-> IF k = 0 THEN <<>> ELSE f[k - 1] \o <<"/", pv[k]>>]
<1>0. n \in Nat
  OBVIOUS
<1>1. \A k \in 1..n : \A q \in Seq(Chars) : q \o <<"/", pv[k]>> \in Seq(Chars)
  <2>1. \A k \in 1..n : <<"/", pv[k]>> \in Seq(Chars)
    <3>1. "/" \in Chars /\ \A k \in 1..n : pv[k] \in Chars
      BY DEF Chars
    <3> QED BY <3>1
  <2> QED BY <2>1, ConcatIs
<1>2. step \in [1..n -> [Seq(Chars) -> Seq(Chars)]] /\ <<>> \in Seq(Chars)
  BY <1>1
<1>3. PICK f : Solves(f, n, Seq(Chars), <<>>, step)
  <2> HIDE DEF step, n
  <2> QED BY <1>0, <1>2, RecursionDefines
<1>4. /\ f \in [0..n -> Seq(Chars)] /\ f[0] = <<>>
      /\ \A k \in 1..n : f[k] = f[k - 1] \o <<"/", pv[k]>>
  <2>1. f \in [0..n -> Seq(Chars)] /\ f[0] = <<>> /\ \A k \in 1..n : f[k] = step[k][f[k - 1]]
    BY <1>3 DEF Solves
  <2>2. ASSUME NEW k \in 1..n PROVE f[k] = f[k - 1] \o <<"/", pv[k]>>
    <3>1. f[k - 1] \in Seq(Chars)
      BY <2>1
    <3> QED BY <2>1, <3>1
  <2> QED BY <2>1, <2>2
<1>5. ASSUME NEW e, NEW h, e = E(h)
      PROVE  e[0] = <<>> /\ \A k \in 1..n : e[k] = h[k - 1] \o <<"/", pv[k]>>
  <2>1. \A k \in 0..n : e[k] = IF k = 0 THEN <<>> ELSE h[k - 1] \o <<"/", pv[k]>>
    BY <1>5
  <2>2. \A k \in 1..n : k \in 0..n /\ k # 0
    BY <1>0
  <2>3. 0 \in 0..n
    BY <1>0
  <2> HIDE DEF E
  <2> QED BY <2>1, <2>2, <2>3, Zenon
<1>6. f = E(f)
  <2> DEFINE e == E(f)
  <2>1. e = [k \in 0..n |-> e[k]] /\ f = [k \in 0..n |-> f[k]]
    BY <1>4
  <2>2. e[0] = f[0] /\ \A k \in 1..n : e[k] = f[k]
    <3>1. e = E(f)
      OBVIOUS
    <3> HIDE DEF E, e
    <3> QED BY <1>4, <1>5, <3>1
  <2>3. \A k \in 0..n : e[k] = f[k]
    <3> HIDE DEF e
    <3> QED BY <1>0, <2>2
  <2> HIDE DEF e
  <2>4. e = f
    BY <2>1, <2>3
  <2> QED BY <2>4 DEF e
<1> DEFINE d == CHOOSE e : e = E(e)
<1>7. d = E(d)
  <2> HIDE DEF E
  <2> QED BY <1>6, Zenon
<1>8. d[0] = <<>> /\ \A k \in 1..n : d[k] = d[k - 1] \o <<"/", pv[k]>>
  <2> HIDE DEF E, d
  <2> QED BY <1>5, <1>7
<1>9. pv # <<>> => MakePath(pv) = d[Len(pv)]
  BY DEF MakePath
<1>10. d = [k \in 0..n |-> d[k]]
  BY <1>7
<1>11. \A k \in 0..n : d[k] = f[k]
  <2>1. \A k \in 1..n : d[k - 1] = f[k - 1] => d[k] = f[k]
    BY <1>4, <1>8
  <2>2. d[0] = f[0]
    BY <1>4, <1>8
  <2> HIDE DEF d, n
  <2> QED BY <1>0, <2>1, <2>2, RecursionUnique, SMTT(60)
<1> HIDE DEF d
<1>12. d \in [0..n -> Seq(Chars)]
  BY <1>4, <1>10, <1>11
<1>13. Makes(pv, d)
  BY <1>8, <1>9, <1>12 DEF Makes
<1> QED BY <1>13

\* A slash and a word more.
LEMMA ComponentsLonger ==
  ASSUME NEW q \in Seq(Chars), NEW w \in Words, NEW t, t = q \o <<"/", w>>
  PROVE  /\ t \in Seq(Chars) /\ Components(t) = Append(Components(q), w)
         /\ Len(t) = Len(q) + 2 /\ t[1] = IF Len(q) = 0 THEN "/" ELSE q[1]
<1>1. PICK p, r : p = Append(q, "/") /\ r = Append(p, w)
  OBVIOUS
<1>2. "/" \in Chars /\ w \in Chars /\ w # "/"
  BY WordsAre DEF Chars
<1>3. p \in Seq(Chars) /\ Components(p) = Components(q)
  BY <1>1, <1>2, ComponentsAppend DEF Part
<1>4. r \in Seq(Chars) /\ Components(r) = Append(Components(p), w)
  BY <1>1, <1>2, <1>3, ComponentsAppend DEF Part
<1>5. Len(p) = Len(q) + 1 /\ p[Len(q) + 1] = "/" /\ (\A i \in 1..Len(q) : p[i] = q[i]) /\ Len(q) \in Nat
  BY <1>1, <1>2, AppendProperties
<1>6. Len(r) = Len(p) + 1 /\ r[Len(p) + 1] = w /\ \A i \in 1..Len(p) : r[i] = p[i]
  BY <1>1, <1>2, <1>3, AppendProperties
<1>9. /\ t \in Seq(Chars) /\ Len(t) = Len(q) + 2 /\ \A i \in 1..Len(q) : t[i] = q[i]
      /\ t[Len(q) + 1] = "/" /\ t[Len(q) + 2] = w
  BY <1>2, PairBehind
<1>10. \A i \in 1..Len(t) : t[i] = r[i]
  <2> SUFFICES ASSUME NEW i \in 1..Len(t) PROVE t[i] = r[i]
    OBVIOUS
  <2>1. i \in 1..Len(q) \/ i = Len(q) + 1 \/ i = Len(q) + 2
    BY <1>5, <1>9
  <2> QED BY <1>5, <1>6, <1>9, <2>1
<1>11. Len(t) = Len(r)
  BY <1>5, <1>6, <1>9
<1>12. t = r
  BY <1>4, <1>9, <1>10, <1>11, SameSeq
<1>13. t[1] = IF Len(q) = 0 THEN "/" ELSE q[1]
  BY <1>5, <1>9
<1>14. t \in Seq(Chars) /\ Len(t) = Len(q) + 2
  BY <1>9
<1>15. Components(t) = Append(Components(q), w)
  BY <1>3, <1>4, <1>12
<1> QED BY <1>13, <1>14, <1>15

\* A path that is made has a slash in front and the components it is made of.
LEMMA MadeIs ==
  ASSUME NEW pv \in Seq(Words)
  PROVE  /\ MakePath(pv) \in Seq(Chars) /\ MakePath(pv) # <<>> /\ Head(MakePath(pv)) = "/"
         /\ Components(MakePath(pv)) = pv
<1>1. CASE pv = <<>>
  <2>1. PICK z, q : z = <<>> /\ q = Append(z, "/")
    OBVIOUS
  <2>2. z \in Seq(Chars) /\ "/" \in Chars
    BY <2>1 DEF Chars
  <2>3. q \in Seq(Chars) /\ Components(q) = <<>>
    BY <2>1, <2>2, ComponentsAppend, ComponentsNone DEF Part
  <2>4. q = <<"/">>
    BY <2>1
  <2>5. MakePath(pv) = q
    BY <1>1, <2>4 DEF MakePath
  <2>6. q # <<>> /\ Head(q) = "/"
    BY <2>4
  <2> QED BY <1>1, <2>3, <2>5, <2>6
<1>2. CASE pv # <<>>
  <2>1. PICK r, n : Makes(pv, r) /\ n = Len(pv)
    BY MakesExist
  <2>2. /\ r \in [0..n -> Seq(Chars)] /\ r[0] = <<>> /\ \A k \in 1..n : r[k] = r[k - 1] \o <<"/", pv[k]>>
        /\ MakePath(pv) = r[n] /\ n \in Nat /\ n # 0
    BY <1>2, <2>1 DEF Makes
  <2> DEFINE P == {k \in 0..n : /\ Components(r[k]) = SubSeq(pv, 1, k)
                                /\ k # 0 => Len(r[k]) # 0 /\ r[k][1] = "/"}
  <2>3. 0 \in P
    <3>1. SubSeq(pv, 1, 0) = <<>>
      BY OneOrTwo
    <3> QED BY <2>2, <3>1, ComponentsNone
  <2>4. ASSUME NEW k \in 1..n, k - 1 \in P PROVE k \in P
    <3>1. PICK q, w, t : q = r[k - 1] /\ w = pv[k] /\ t = r[k]
      OBVIOUS
    <3>2. k - 1 \in 0..n /\ k \in 0..n /\ k # 0 /\ k \in 1..Len(pv) /\ k - 1 \in 0..Len(pv)
      BY <2>1, <2>2
    <3>3. q \in Seq(Chars) /\ w \in Words /\ t = q \o <<"/", w>>
      <4>1. q \in Seq(Chars)
        BY <2>2, <3>1, <3>2
      <4>2. w \in Words
        BY <3>1, <3>2
      <4>3. t = q \o <<"/", w>>
        BY <2>2, <3>1
      <4> QED BY <4>1, <4>2, <4>3
    <3>4. /\ Components(t) = Append(Components(q), w) /\ Len(t) = Len(q) + 2
          /\ t[1] = IF Len(q) = 0 THEN "/" ELSE q[1]
      BY <3>3, ComponentsLonger
    <3>5. Components(q) = SubSeq(pv, 1, k - 1) /\ (k - 1 # 0 => Len(q) # 0 /\ q[1] = "/")
      BY <2>4, <3>1
    <3>6. SubSeq(pv, 1, k) = Append(SubSeq(pv, 1, k - 1), w)
      BY <3>1, <3>2, PrefixGrows
    <3>7. Len(q) \in Nat
      BY <3>3
    <3>8. Len(t) # 0 /\ t[1] = "/"
      <4>1. CASE Len(q) = 0
        BY <3>4, <4>1
      <4>2. CASE Len(q) # 0
        <5>1. k - 1 # 0
          BY <2>2, <3>1, <4>2
        <5> QED BY <3>4, <3>5, <3>7, <4>2, <5>1
      <4> QED BY <4>1, <4>2
    <3> QED BY <3>1, <3>2, <3>4, <3>5, <3>6, <3>8
  <2>5. n \in P
    <3>1. \A k \in 1..n : k - 1 \in P => k \in P
      BY <2>4
    <3> HIDE DEF P
    <3>2. \A k \in 0..n : k \in P
      BY <2>2, <2>3, <3>1, Induction
    <3> QED BY <2>2, <3>2
  <2>6. SubSeq(pv, 1, n) = pv
    BY <2>1
  <2>7. r[n] \in Seq(Chars) /\ Len(r[n]) # 0 /\ r[n][1] = "/" /\ Components(r[n]) = pv
    BY <2>2, <2>5, <2>6
  <2> QED BY <2>2, <2>7
<1> QED BY <1>1, <1>2

-----------------------------------------------------------------------------
(* Reached.                                                                *)

LEMMA EnterTyped ==
  ASSUME NEW ds, NEW node \in Seq(Chars), NEW w \in Words
  PROVE  Enter(ds, node, w) \in Seq(Chars)
<1>1. Nowhere \in Seq(Chars) /\ w \in Chars
  BY DEF Nowhere, Chars
<1>2. node # <<>> => Front(node) \in Seq(Chars)
  BY FrontIs
<1>3. Append(node, w) \in Seq(Chars)
  BY <1>1, AppendProperties
<1> QED BY <1>1, <1>2, <1>3 DEF Enter

\* The recursion of Reached has the solution d.
Goes(ds, from, words, d) ==
  /\ d \in [0..Len(words) -> Seq(Chars)]
  /\ d[0] = from /\ \A k \in 1..Len(words) : d[k] = Enter(ds, d[k - 1], words[k])
  /\ Reached(ds, from, words) = d[Len(words)]

LEMMA WalkExists ==
  ASSUME NEW ds, NEW from \in Seq(Chars), NEW words \in Seq(Words)
  PROVE  \E d : Goes(ds, from, words, d)
<1> DEFINE n == Len(words)
           step == [k \in 1..n |-> [q \in Seq(Chars) |-> Enter(ds, q, words[k])]]
           E(f) == [k \in 0..n |-> IF k = 0 THEN from ELSE Enter(ds, f[k - 1], words[k])]
<1>0. n \in Nat
  OBVIOUS
<1>1. \A k \in 1..n : \A q \in Seq(Chars) : Enter(ds, q, words[k]) \in Seq(Chars)
  <2>1. \A k \in 1..n : words[k] \in Words
    OBVIOUS
  <2> QED BY <2>1, EnterTyped
<1>2. step \in [1..n -> [Seq(Chars) -> Seq(Chars)]] /\ from \in Seq(Chars)
  BY <1>1
<1>3. PICK f : Solves(f, n, Seq(Chars), from, step)
  <2> HIDE DEF step, n
  <2> QED BY <1>0, <1>2, RecursionDefines
<1>4. /\ f \in [0..n -> Seq(Chars)] /\ f[0] = from
      /\ \A k \in 1..n : f[k] = Enter(ds, f[k - 1], words[k])
  <2>1. f \in [0..n -> Seq(Chars)] /\ f[0] = from /\ \A k \in 1..n : f[k] = step[k][f[k - 1]]
    BY <1>3 DEF Solves
  <2>2. ASSUME NEW k \in 1..n PROVE f[k] = Enter(ds, f[k - 1], words[k])
    <3>1. f[k - 1] \in Seq(Chars)
      BY <2>1
    <3> QED BY <2>1, <3>1
  <2> QED BY <2>1, <2>2
<1>5. ASSUME NEW e, NEW h, e = E(h)
      PROVE  e[0] = from /\ \A k \in 1..n : e[k] = Enter(ds, h[k - 1], words[k])
  <2>1. \A k \in 0..n : e[k] = IF k = 0 THEN from ELSE Enter(ds, h[k - 1], words[k])
    BY <1>5
  <2>2. \A k \in 1..n : k \in 0..n /\ k # 0
    BY <1>0
  <2>3. 0 \in 0..n
    BY <1>0
  <2> HIDE DEF E
  <2> QED BY <2>1, <2>2, <2>3, Zenon
<1>6. f = E(f)
  <2> DEFINE e == E(f)
  <2>1. e = [k \in 0..n |-> e[k]] /\ f = [k \in 0..n |-> f[k]]
    BY <1>4
  <2>2. e[0] = f[0] /\ \A k \in 1..n : e[k] = f[k]
    <3>1. e = E(f)
      OBVIOUS
    <3> HIDE DEF E, e
    <3> QED BY <1>4, <1>5, <3>1
  <2>3. \A k \in 0..n : e[k] = f[k]
    <3> HIDE DEF e
    <3> QED BY <1>0, <2>2
  <2> HIDE DEF e
  <2>4. e = f
    BY <2>1, <2>3
  <2> QED BY <2>4 DEF e
<1> DEFINE d == CHOOSE e : e = E(e)
<1>7. d = E(d)
  <2> HIDE DEF E
  <2> QED BY <1>6, Zenon
<1>8. d[0] = from /\ \A k \in 1..n : d[k] = Enter(ds, d[k - 1], words[k])
  <2> HIDE DEF E, d
  <2> QED BY <1>5, <1>7
<1>9. Reached(ds, from, words) = d[Len(words)]
  BY DEF Reached
<1>10. d = [k \in 0..n |-> d[k]]
  BY <1>7
<1>11. \A k \in 0..n : d[k] = f[k]
  <2>1. \A k \in 1..n : d[k - 1] = f[k - 1] => d[k] = f[k]
    BY <1>4, <1>8
  <2>2. d[0] = f[0]
    BY <1>4, <1>8
  <2> HIDE DEF d, n
  <2> QED BY <1>0, <2>1, <2>2, RecursionUnique, ZenonT(60)
<1> HIDE DEF d
<1>12. d \in [0..n -> Seq(Chars)]
  BY <1>4, <1>10, <1>11
<1>13. Goes(ds, from, words, d)
  BY <1>8, <1>9, <1>12 DEF Goes
<1> QED BY <1>13

LEMMA ReachedTyped ==
  ASSUME NEW ds, NEW from \in Seq(Chars), NEW words \in Seq(Words)
  PROVE  Reached(ds, from, words) \in Seq(Chars)
<1>1. PICK d : Goes(ds, from, words, d)
  BY WalkExists
<1>2. Len(words) \in 0..Len(words)
  OBVIOUS
<1> QED BY <1>1, <1>2 DEF Goes

\* A walk of no word stays, and a word more at its end is a step more.
LEMMA ReachedNone ==
  ASSUME NEW ds, NEW from \in Seq(Chars)
  PROVE  Reached(ds, from, <<>>) = from
<1>1. PICK z : z = <<>>
  OBVIOUS
<1>2. z \in Seq(Words) /\ Len(z) = 0
  BY <1>1
<1>3. PICK d : Goes(ds, from, z, d)
  BY <1>2, WalkExists
<1> QED BY <1>1, <1>2, <1>3 DEF Goes

LEMMA ReachedAppend ==
  ASSUME NEW ds, NEW from \in Seq(Chars), NEW words \in Seq(Words), NEW w \in Words
  PROVE  Reached(ds, from, Append(words, w)) = Enter(ds, Reached(ds, from, words), w)
<1>1. PICK more, n : more = Append(words, w) /\ n = Len(words)
  OBVIOUS
<1>2. /\ more \in Seq(Words) /\ Len(more) = n + 1 /\ n \in Nat /\ more[n + 1] = w
      /\ \A k \in 1..n : more[k] = words[k]
  BY <1>1, AppendProperties
<1>3. PICK c : Goes(ds, from, words, c)
  BY WalkExists
<1>4. PICK d : Goes(ds, from, more, d)
  BY <1>2, WalkExists
<1>5. /\ c[0] = from /\ (\A k \in 1..n : c[k] = Enter(ds, c[k - 1], words[k]))
      /\ Reached(ds, from, words) = c[n]
  BY <1>1, <1>3 DEF Goes
<1>6. /\ d[0] = from /\ (\A k \in 1..(n + 1) : d[k] = Enter(ds, d[k - 1], more[k]))
      /\ Reached(ds, from, more) = d[n + 1]
  BY <1>2, <1>4 DEF Goes
<1>7. \A k \in 0..n : c[k] = d[k]
  <2>1. \A k \in 1..n : k \in 1..(n + 1)
    BY <1>2
  <2>2. \A k \in 1..n : c[k - 1] = d[k - 1] => c[k] = d[k]
    BY <1>2, <1>5, <1>6, <2>1
  <2>3. c[0] = d[0] /\ n \in Nat
    BY <1>2, <1>5, <1>6
  <2> QED BY <2>2, <2>3, RecursionUnique, ZenonT(60)
<1>8. d[n + 1] = Enter(ds, d[n], w)
  <2>1. n + 1 \in 1..(n + 1) /\ (n + 1) - 1 = n
    BY <1>2
  <2> QED BY <1>2, <1>6, <2>1
<1>9. c[n] = d[n]
  BY <1>2, <1>7
<1> QED BY <1>1, <1>5, <1>6, <1>8, <1>9

LEMMA ReachedOne ==
  ASSUME NEW ds, NEW from \in Seq(Chars), NEW w \in Words
  PROVE  Reached(ds, from, <<w>>) = Enter(ds, from, w)
<1>1. PICK z : z = <<>>
  OBVIOUS
<1>2. z \in Seq(Words) /\ Append(z, w) = <<w>> /\ Reached(ds, from, z) = from
  BY <1>1, ReachedNone
<1>3. Reached(ds, from, Append(z, w)) = Enter(ds, Reached(ds, from, z), w)
  BY <1>2, ReachedAppend
<1> QED BY <1>2, <1>3

\* The first word is the first step.
LEMMA ReachedTail ==
  ASSUME NEW ds, NEW from \in Seq(Chars), NEW words \in Seq(Words), words # <<>>
  PROVE  Reached(ds, from, words) = Reached(ds, Enter(ds, from, Head(words)), Tail(words))
<1>1. PICK n, t, next : n = Len(words) - 1 /\ t = Tail(words) /\ next = Enter(ds, from, Head(words))
  OBVIOUS
<1>2. n \in Nat /\ Len(words) = n + 1 /\ t \in Seq(Words) /\ Len(t) = n /\ \A k \in 1..n : t[k] = words[k + 1]
  BY <1>1
<1>3. Head(words) \in Words /\ Head(words) = words[1]
  OBVIOUS
<1>4. next \in Seq(Chars)
  BY <1>1, <1>3, EnterTyped
<1>5. PICK c : Goes(ds, from, words, c)
  BY WalkExists
<1>6. PICK d : Goes(ds, next, t, d)
  BY <1>2, <1>4, WalkExists
<1>7. /\ c[0] = from /\ (\A k \in 1..(n + 1) : c[k] = Enter(ds, c[k - 1], words[k]))
      /\ Reached(ds, from, words) = c[n + 1]
  BY <1>2, <1>5 DEF Goes
<1>8. /\ d[0] = next /\ (\A k \in 1..n : d[k] = Enter(ds, d[k - 1], t[k]))
      /\ Reached(ds, next, t) = d[n]
  BY <1>2, <1>6 DEF Goes
<1> DEFINE f == [k \in 0..n |-> c[k + 1]]
<1>9. \A k \in 0..n : f[k] = c[k + 1]
  OBVIOUS
<1> HIDE DEF f
<1>10. f[0] = d[0]
  <2>1. 0 \in 0..n /\ 0 + 1 = 1 /\ 1 \in 1..(n + 1) /\ 1 - 1 = 0
    BY <1>2
  <2> QED BY <1>1, <1>3, <1>7, <1>8, <1>9, <2>1
<1>11. \A k \in 1..n : f[k - 1] = d[k - 1] => f[k] = d[k]
  <2> SUFFICES ASSUME NEW k \in 1..n, f[k - 1] = d[k - 1] PROVE f[k] = d[k]
    OBVIOUS
  <2>1. k - 1 \in 0..n /\ k \in 0..n /\ (k - 1) + 1 = k /\ k + 1 \in 1..(n + 1) /\ (k + 1) - 1 = k
    BY <1>2
  <2>2. f[k - 1] = c[k] /\ f[k] = c[k + 1]
    BY <1>9, <2>1
  <2>3. c[k + 1] = Enter(ds, c[k], words[k + 1])
    BY <1>7, <2>1
  <2> QED BY <1>2, <1>8, <2>2, <2>3
<1>12. \A k \in 0..n : f[k] = d[k]
  <2>1. n \in Nat
    BY <1>2
  <2> QED BY <2>1, <1>10, <1>11, RecursionUnique, SMTT(60)
<1>13. c[n + 1] = d[n]
  <2>1. n \in 0..n
    BY <1>2
  <2> QED BY <1>9, <1>12, <2>1
<1> QED BY <1>1, <1>7, <1>8, <1>13

\* The directories: the root, and with a directory the one it is in.
Tree(ds) ==
  /\ ds \subseteq Seq(Names) /\ <<>> \in ds
  /\ \A n \in ds : n # <<>> => Front(n) \in ds

LEMMA EnterTree ==
  ASSUME NEW ds, Tree(ds), NEW node \in Seq(Chars), NEW w \in Words
  PROVE  /\ Nowhere \notin ds
         /\ node \notin ds => Enter(ds, node, w) = Nowhere
         /\ node \in ds /\ w = "." => Enter(ds, node, w) = node
         /\ node \in ds /\ w = ".." =>
              Enter(ds, node, w) = IF node = <<>> THEN Nowhere ELSE Front(node)
         /\ node \in ds /\ w \notin {".", ".."} => Enter(ds, node, w) = Append(node, w)
<1>1. Nowhere \notin ds
  <2>1. ASSUME Nowhere \in Seq(Names) PROVE FALSE
    <3>1. PICK z : z = Nowhere
      OBVIOUS
    <3>2. z \in Seq(Names) /\ Len(z) = 1 /\ z[1] = "/"
      BY <2>1, <3>1 DEF Nowhere
    <3>3. z[1] \in Names
      BY <3>2
    <3> QED BY <3>2, <3>3, WordsAre
  <2> QED BY <2>1 DEF Tree
<1> QED BY <1>1 DEF Enter

\* A walk that has left the directories does not come back.
LEMMA ReachedStray ==
  ASSUME NEW ds, Tree(ds), NEW from \in Seq(Chars), from \notin ds, NEW words \in Seq(Words)
  PROVE  Reached(ds, from, words) \notin ds
<1>1. PICK d, n : Goes(ds, from, words, d) /\ n = Len(words)
  BY WalkExists
<1>2. /\ d \in [0..n -> Seq(Chars)] /\ d[0] = from
      /\ (\A k \in 1..n : d[k] = Enter(ds, d[k - 1], words[k]))
      /\ Reached(ds, from, words) = d[n] /\ n \in Nat
  BY <1>1 DEF Goes
<1> DEFINE P == {k \in 0..n : d[k] \notin ds}
<1>3. 0 \in P
  BY <1>2
<1>4. ASSUME NEW k \in 1..n, k - 1 \in P PROVE k \in P
  <2>1. k \in 0..n /\ k - 1 \in 0..n /\ d[k - 1] \notin ds
    BY <1>2, <1>4
  <2>2. d[k - 1] \in Seq(Chars) /\ words[k] \in Words
    BY <1>1, <1>2, <2>1
  <2>3. Enter(ds, d[k - 1], words[k]) = Nowhere /\ Nowhere \notin ds
    BY <2>1, <2>2, EnterTree
  <2>4. d[k] \notin ds
    BY <1>2, <2>3
  <2> QED BY <2>1, <2>4
<1>5. n \in P
  <2>1. \A k \in 1..n : k - 1 \in P => k \in P
    BY <1>4
  <2> HIDE DEF P
  <2>2. \A k \in 0..n : k \in P
    BY <1>2, <1>3, <2>1, Induction
  <2> QED BY <1>2, <2>2
<1> QED BY <1>2, <1>5

\* A walk along names is at the node they are, as long as it is anywhere.
LEMMA ReachedNode ==
  ASSUME NEW ds, Tree(ds), NEW q \in Seq(Names)
  PROVE  q \in ds \/ Reached(ds, <<>>, q) \in ds => Reached(ds, <<>>, q) = q
<1>1. PICK start : start = <<>>
  OBVIOUS
<1>2. start \in Seq(Chars) /\ q \in Seq(Words)
  BY <1>1, WordsAre
<1>3. PICK d, n : Goes(ds, start, q, d) /\ n = Len(q)
  BY <1>2, WalkExists
<1>4. /\ d \in [0..n -> Seq(Chars)] /\ d[0] = start
      /\ (\A k \in 1..n : d[k] = Enter(ds, d[k - 1], q[k]))
      /\ Reached(ds, start, q) = d[n] /\ n \in Nat
  BY <1>3 DEF Goes
<1> DEFINE P == {k \in 0..n : SubSeq(q, 1, k) \in ds \/ d[k] \in ds => d[k] = SubSeq(q, 1, k)}
<1>5. 0 \in P
  <2>1. SubSeq(q, 1, 0) = <<>>
    BY OneOrTwo
  <2> QED BY <1>1, <1>4, <2>1
<1>6. ASSUME NEW k \in 1..n, k - 1 \in P PROVE k \in P
  <2>1. PICK u, v, e, w : u = SubSeq(q, 1, k) /\ v = SubSeq(q, 1, k - 1) /\ e = d[k - 1] /\ w = q[k]
    OBVIOUS
  <2>2. k \in 0..n /\ k - 1 \in 0..n /\ k \in 1..Len(q) /\ k - 1 \in 0..Len(q)
    BY <1>3, <1>4
  <2>3. w \in Names /\ w \in Words /\ w \notin {".", ".."}
    <3>1. w \in Names
      BY <2>1, <2>2
    <3> QED BY <3>1, WordsAre
  <2>4. e \in Seq(Chars) /\ d[k] = Enter(ds, e, w)
    BY <1>4, <2>1, <2>2
  <2>5. v \in ds \/ e \in ds => e = v
    BY <1>6, <2>1
  <2>6. u = Append(v, w) /\ v \in Seq(Names)
    <3>1. u = Append(v, w)
      BY <2>1, <2>2, PrefixGrows
    <3>2. v \in Seq(Names)
      BY <2>1, <2>2, PrefixIs
    <3> QED BY <3>1, <3>2
  <2>7. e \in ds => d[k] = u
    <3>1. e \in ds => d[k] = Append(e, w)
      BY <2>3, <2>4, EnterTree
    <3> QED BY <2>5, <2>6, <3>1
  <2>8. e \notin ds => d[k] \notin ds
    BY <2>3, <2>4, EnterTree
  <2>9. u \in ds => v \in ds
    <3>1. u # <<>> /\ Front(u) = v
      BY <2>3, <2>6, FrontAppend
    <3> QED BY <3>1 DEF Tree
  <2>10. u \in ds \/ d[k] \in ds => d[k] = u
    BY <2>5, <2>7, <2>8, <2>9
  <2> QED BY <2>1, <2>2, <2>10
<1>7. n \in P
  <2>1. \A k \in 1..n : k - 1 \in P => k \in P
    BY <1>6
  <2> HIDE DEF P
  <2>2. \A k \in 0..n : k \in P
    BY <1>4, <1>5, <2>1, Induction
  <2> QED BY <1>4, <2>2
<1>8. SubSeq(q, 1, n) = q
  BY <1>3
<1> QED BY <1>1, <1>4, <1>7, <1>8

\* A walk to a file's directory, and from there to the file.
LEMMA ReachedFile ==
  ASSUME NEW ds, NEW from \in Seq(Chars), NEW words \in Seq(Words), words # <<>>
  PROVE  /\ Front(words) \in Seq(Words) /\ Last(words) \in Words
         /\ Reached(ds, Reached(ds, from, Front(words)), <<Last(words)>>) = Reached(ds, from, words)
<1>1. PICK u, w, x : u = Front(words) /\ w = Last(words) /\ x = Reached(ds, from, Front(words))
  OBVIOUS
<1>2. u \in Seq(Words) /\ w \in Words /\ words = Append(u, w)
  BY <1>1, FrontIs
<1>3. x \in Seq(Chars)
  BY <1>1, <1>2, ReachedTyped
<1>4. Reached(ds, x, <<w>>) = Enter(ds, x, w)
  BY <1>2, <1>3, ReachedOne
<1>5. Reached(ds, from, words) = Enter(ds, x, w)
  BY <1>1, <1>2, ReachedAppend
<1> QED BY <1>1, <1>2, <1>4, <1>5

-----------------------------------------------------------------------------
(* Strings without a "~" of their own.                                     *)

LEMMA SplitTyped ==
  ASSUME NEW str \in Seq(Chars)
  PROVE  SplitPath(str) \in Seq(Words)
<1>1. PICK c : c = Components(str)
  OBVIOUS
<1>2. c \in Seq(Words)
  BY <1>1, ComponentsTyped
<1>3. c # <<>> => Tail(c) \in Seq(Words)
  BY <1>2
<1> QED BY <1>1, <1>2, <1>3 DEF SplitPath

\* What "~/" in front says of a string's first elements.
LEMMA TwoInFront ==
  ASSUME NEW str \in Seq(Chars), Len(str) > 1
  PROVE  SubSeq(str, 1, 2) = <<"~", "/">> <=> str[1] = "~" /\ str[2] = "/"
<1>1. SubSeq(str, 1, 2) = <<str[1], str[2]>>
  BY OneOrTwo
<1> QED BY <1>1

\* SplitPath and SplitProperPath do what a shell does, as Meant has it.
LEMMA PlainPaths ==
  ASSUME NEW str \in Seq(Chars), Plain(str)
  PROVE  /\ SplitPath(str) = IF Plain(str) /\ str # <<>> /\ Head(str) = "~"
                             THEN Tail(Components(str)) ELSE Components(str)
         /\ SplitProperPath(str) = IF Rooted(str) THEN <<>> ELSE SplitPath(mPath)
<1>1. PICK c, h, start, here : /\ c = Components(str) /\ h = Head(str) /\ start = SubSeq(str, 1, 2)
                               /\ here = SplitPath(mPath)
  OBVIOUS
<1>2. Len(str) \in Nat /\ (str # <<>> <=> Len(str) > 0) /\ (str # <<>> => h = str[1])
  BY <1>1
<1>3. c # <<>> /\ Head(c) = "~" => Len(str) > 1 /\ start = <<"~", "/">>
  BY <1>1 DEF Plain
<1>4. Len(str) > 1 => (start = <<"~", "/">> <=> str[1] = "~" /\ str[2] = "/")
  BY <1>1, TwoInFront
<1>5. str # <<>> /\ h = "~" => c # <<>> /\ Head(c) = "~"
  BY <1>1, <1>2, ComponentsHead
<1>6. c # <<>> /\ Head(c) = "~" <=> str # <<>> /\ h = "~"
  BY <1>2, <1>3, <1>4, <1>5
<1>7. SplitPath(str) = IF c # <<>> /\ Head(c) = "~" THEN Tail(c) ELSE c
  BY <1>1 DEF SplitPath
<1>8. SplitProperPath(str) =
        IF str # <<>> /\ (h = "/" \/ (Len(str) > 1 /\ start = <<"~", "/">>)) THEN <<>> ELSE here
  BY <1>1 DEF SplitProperPath
<1>9. Rooted(str) <=> str # <<>> /\ (h = "/" \/ h = "~")
  BY <1>1 DEF Rooted
<1>10. SplitProperPath(str) = IF Rooted(str) THEN <<>> ELSE here
  BY <1>2, <1>3, <1>4, <1>5, <1>8, <1>9
<1> QED BY <1>1, <1>6, <1>7, <1>10

-----------------------------------------------------------------------------
(* The directory the session is in.                                        *)

LEMMA DiskIsTree ==
  ASSUME TypeOK
  PROVE  Tree(dirs) /\ files \subseteq Seq(Names) /\ Nodes \subseteq Seq(Names)
<1>1. Nodes \subseteq Seq(Names)
  <2> SUFFICES ASSUME NEW n \in 0..MaxDepth, NEW q \in [1..n -> Names] PROVE q \in Seq(Names)
    BY DEF Nodes
  <2>1. n \in Nat
    BY PathsAssumption
  <2> QED BY <2>1
<1> QED BY <1>1 DEF TypeOK, Tree

LEMMA PwdIs ==
  ASSUME TypeOK, PwdIsMade
  PROVE  /\ Components(mPath) \in Seq(Names)
         /\ SplitPath(mPath) \in Seq(Names)
         /\ Plain(mPath) => SplitPath(mPath) = Components(mPath)
         /\ IsDir(mPath) => Components(mPath) \in dirs /\ Resolve(mPath) = Components(mPath)
<1>1. PICK p : p = Components(mPath)
  OBVIOUS
<1>2. p \in Seq(Names) /\ p \in Seq(Words) /\ mPath = MakePath(p)
  BY <1>1, WordsAre DEF PwdIsMade
<1>3. mPath \in Seq(Chars) /\ mPath # <<>> /\ Head(mPath) = "/"
  BY <1>2, MadeIs
<1>4. Plain(mPath) => SplitPath(mPath) = p
  <2> SUFFICES ASSUME p # <<>>, Head(p) = "~", Plain(mPath) PROVE FALSE
    BY <1>1 DEF SplitPath
  <2>1. Len(mPath) > 1 /\ SubSeq(mPath, 1, 2) = <<"~", "/">>
    BY <1>1 DEF Plain
  <2>2. mPath[1] = "~"
    BY <1>3, <2>1, TwoInFront
  <2>3. mPath[1] = "/"
    BY <1>3
  <2> QED BY <2>2, <2>3
<1>5. SplitPath(mPath) \in Seq(Names)
  <2>1. p # <<>> => Tail(p) \in Seq(Names)
    BY <1>2
  <2> QED BY <1>1, <1>2, <2>1 DEF SplitPath
<1>6. IsDir(mPath) => p \in dirs /\ Resolve(mPath) = p
  <2>1. Resolve(mPath) = Reached(dirs, <<>>, p)
    BY <1>1 DEF Resolve
  <2>2. Tree(dirs)
    BY DiskIsTree
  <2>3. Reached(dirs, <<>>, p) \in dirs => Reached(dirs, <<>>, p) = p
    BY <1>2, <2>2, ReachedNode
  <2> QED BY <2>1, <2>3 DEF IsDir
<1> QED BY <1>1, <1>2, <1>4, <1>5, <1>6

\* Two words behind a directory's path: what the kernel finds there.
LEMMA ResolveLonger ==
  ASSUME TypeOK, NEW q \in Seq(Names), NEW w \in Words
  PROVE  /\ MakePath(q) \o <<"/", w>> \in Seq(Chars)
         /\ Components(MakePath(q) \o <<"/", w>>) = Append(q, w)
         /\ Resolve(MakePath(q) \o <<"/", w>>) = Enter(dirs, Reached(dirs, <<>>, q), w)
         /\ q \in dirs => Resolve(MakePath(q) \o <<"/", w>>) = Enter(dirs, q, w)
<1>1. PICK m, t, z : m = MakePath(q) /\ t = m \o <<"/", w>> /\ z = <<>>
  OBVIOUS
<1>2. q \in Seq(Words) /\ z \in Seq(Chars)
  BY <1>1, WordsAre
<1>3. m \in Seq(Chars) /\ Components(m) = q
  BY <1>1, <1>2, MadeIs
<1>4. t \in Seq(Chars) /\ Components(t) = Append(q, w)
  <2>1. t = m \o <<"/", w>>
    BY <1>1
  <2> QED BY <1>3, <2>1, ComponentsLonger
<1>5. Reached(dirs, z, Append(q, w)) = Enter(dirs, Reached(dirs, z, q), w)
  BY <1>2, ReachedAppend
<1>6. Resolve(t) = Enter(dirs, Reached(dirs, <<>>, q), w)
  BY <1>1, <1>4, <1>5 DEF Resolve
<1>7. q \in dirs => Reached(dirs, <<>>, q) = q
  BY DiskIsTree, ReachedNode
<1> QED BY <1>1, <1>4, <1>6, <1>7

LEMMA StepDown ==
  ASSUME TypeOK, NEW q \in Seq(Names), NEW w \in Words, w \notin {".", ".."}
  PROVE  /\ IsDir(MakePath(q) \o <<"/", w>>) => q \in dirs /\ Append(q, w) \in dirs
         /\ q \in dirs => Enter(dirs, q, w) = Append(q, w)
         /\ q \in dirs => (IsDir(MakePath(q) \o <<"/", w>>) <=> Append(q, w) \in dirs)
<1>1. PICK t, x : t = MakePath(q) \o <<"/", w>> /\ x = Reached(dirs, <<>>, q)
  OBVIOUS
<1>2. Resolve(t) = Enter(dirs, x, w) /\ (q \in dirs => Resolve(t) = Enter(dirs, q, w))
  BY <1>1, ResolveLonger
<1>3. Tree(dirs)
  BY DiskIsTree
<1>4. q \in Seq(Chars) /\ q \in Seq(Words)
  BY WordsAre
<1>5. x \in Seq(Chars)
  <2>1. PICK z : z = <<>>
    OBVIOUS
  <2>2. z \in Seq(Chars)
    BY <2>1
  <2>3. Reached(dirs, z, q) \in Seq(Chars)
    BY <1>4, <2>2, ReachedTyped
  <2> QED BY <1>1, <2>1, <2>3
<1>6. q \in dirs => Enter(dirs, q, w) = Append(q, w)
  BY <1>3, <1>4, EnterTree
<1>7. x \notin dirs => Enter(dirs, x, w) \notin dirs
  BY <1>3, <1>5, EnterTree
<1>8. x \in dirs => x = q
  BY <1>1, <1>3, ReachedNode
<1>9. IsDir(t) <=> Resolve(t) \in dirs
  BY DEF IsDir
<1> QED BY <1>1, <1>2, <1>6, <1>7, <1>8, <1>9

\* A walk starts in a directory, and with the right words.
LEMMA StartWalk ==
  ASSUME TypeOK, PwdIsMade, NEW str \in Seq(Chars)
  PROVE  /\ SplitPath(str) \in Seq(Words) /\ SplitProperPath(str) \in Seq(Names)
         /\ IsDir(mPath) /\ Plain(mPath) =>
              /\ SplitProperPath(str) \in dirs
              /\ Plain(str) => Reached(dirs, SplitProperPath(str), SplitPath(str)) = Meant(str)
<1>1. PICK here, start, words, z : here = SplitPath(mPath) /\ start = SplitProperPath(str)
                                /\ words = SplitPath(str) /\ z = <<>>
  OBVIOUS
<1>2. here \in Seq(Names) /\ z \in Seq(Names)
  BY <1>1, PwdIs
<1>3. start = z \/ start = here
  BY <1>1 DEF SplitProperPath
<1>4. words \in Seq(Words)
  BY <1>1, SplitTyped
<1>5. ASSUME IsDir(mPath), Plain(mPath)
      PROVE  here \in dirs /\ z \in dirs /\ Resolve(mPath) = here
  BY <1>1, <1>5, PwdIs DEF TypeOK
<1>6. ASSUME IsDir(mPath), Plain(mPath), Plain(str)
      PROVE  Reached(dirs, start, words) = Meant(str)
  <2>1. words = IF Plain(str) /\ str # <<>> /\ Head(str) = "~"
                THEN Tail(Components(str)) ELSE Components(str)
    BY <1>1, <1>6, PlainPaths
  <2>2. start = IF Rooted(str) THEN <<>> ELSE Resolve(mPath)
    BY <1>1, <1>5, <1>6, PlainPaths
  <2> QED BY <2>1, <2>2 DEF Meant
<1> QED BY <1>1, <1>2, <1>3, <1>4, <1>5, <1>6

-----------------------------------------------------------------------------
(* The inductive invariant.                                                *)

LEMMA PathsStart == Init => PathsInv
<1> SUFFICES ASSUME Init PROVE PathsInv
  OBVIOUS
<1>1. PICK z, root : z = <<>> /\ root = <<"/">>
  OBVIOUS
<1>2. z \in Seq(Names) /\ z \in Seq(Words) /\ root \in Seq(Chars)
  BY <1>1 DEF Chars
<1>3. z \in Nodes
  <2>1. z \in [1..0 -> Names] /\ 0 \in 0..MaxDepth
    BY <1>1, PathsAssumption
  <2> QED BY <2>1 DEF Nodes
<1>4. MakePath(z) = root
  BY <1>1 DEF MakePath
<1>5. Components(root) = z
  BY <1>2, <1>4, MadeIs
<1>6. dirs = {z} /\ files = {} /\ empty = {} /\ dangling = {} /\ mPath = root
  BY <1>1 DEF Init
<1>7. TypeOK
  <2>1. mPath \in Seq(Words \cup {"/"})
    BY <1>2, <1>6 DEF Chars
  <2>2. /\ dirs \subseteq Nodes /\ files \subseteq Nodes /\ <<>> \in dirs /\ dirs \cap files = {}
        /\ \A n \in dirs \cup files : n # <<>> => Front(n) \in dirs
    BY <1>1, <1>3, <1>6
  <2> QED BY <1>1, <1>2, <2>1, <2>2 DEF Init, TypeOK, Replies
<1>8. PwdIsMade
  BY <1>2, <1>4, <1>5, <1>6 DEF PwdIsMade
<1>9. Control /\ OnTheWay /\ InTheListing
  BY DEF Init, Control, OnTheWay, InTheListing
<1> QED BY <1>7, <1>8, <1>9 DEF PathsInv

\* What a command's own walk leaves alone.
LEMMA Frame ==
  ASSUME UNCHANGED <<dirs, mPath>>
  PROVE  /\ IsDir(mPath)' <=> IsDir(mPath)
         /\ Plain(mPath)' <=> Plain(mPath)
         /\ Meant(arg)' = Meant(arg')
         /\ PwdIsMade' <=> PwdIsMade
  BY DEF IsDir, Resolve, Meant, PwdIsMade

\* A walk that begins.
LEMMA Begins ==
  ASSUME TypeOK, PwdIsMade, NEW str \in Seq(Chars), WantsFile(str) \/ WantsDirectory(str)
  PROVE  /\ todo' \in Seq(Words) /\ path' \in Seq(Names)
         /\ name' \in {<<>>} \cup {<<w>> : w \in Words}
         /\ at' \in {"walk", "lost"}
         /\ WantsDirectory(str) => at' = "walk" /\ name' = <<>>
         /\ at' = "walk" /\ IsDir(mPath) /\ Plain(mPath) =>
              /\ path' \in dirs
              /\ Plain(str) => Reached(dirs, Reached(dirs, path', todo'), name') = Meant(str)
<1>1. PICK start, words, z : start = SplitProperPath(str) /\ words = SplitPath(str) /\ z = <<>>
  OBVIOUS
<1>2. words \in Seq(Words) /\ start \in Seq(Names)
  BY <1>1, StartWalk
<1>3. IsDir(mPath) /\ Plain(mPath) =>
        start \in dirs /\ (Plain(str) => Reached(dirs, start, words) = Meant(str))
  BY <1>1, StartWalk
<1>4. z \in Seq(Names) /\ z \in Seq(Words) /\ start \in Seq(Chars)
  BY <1>1, <1>2, WordsAre
<1>5. CASE WantsDirectory(str)
  <2>1. at' = "walk" /\ todo' = words /\ path' = start /\ name' = z
    BY <1>1, <1>5 DEF WantsDirectory
  <2>2. Reached(dirs, start, words) \in Seq(Chars)
    BY <1>2, <1>4, ReachedTyped
  <2>3. Reached(dirs, Reached(dirs, start, words), z) = Reached(dirs, start, words)
    BY <1>1, <2>2, ReachedNone
  <2> QED BY <1>1, <1>2, <1>3, <2>1, <2>3
<1>6. CASE WantsFile(str) /\ ~WantsDirectory(str)
  <2>1. CASE words = z
    <3>1. at' = "lost" /\ todo' = z /\ path' = z /\ name' = z
      BY <1>1, <1>6, <2>1 DEF WantsFile, NoWalk
    <3> QED BY <1>1, <1>4, <1>6, <3>1
  <2>2. CASE words # z
    <3>1. at' = "walk" /\ todo' = Front(words) /\ path' = start /\ name' = <<Last(words)>>
      BY <1>1, <1>6, <2>2 DEF WantsFile
    <3>2. /\ Front(words) \in Seq(Words) /\ Last(words) \in Words
          /\ Reached(dirs, Reached(dirs, start, Front(words)), <<Last(words)>>)
               = Reached(dirs, start, words)
      BY <1>1, <1>2, <1>4, <2>2, ReachedFile
    <3>3. name' \in {<<>>} \cup {<<w>> : w \in Words}
      BY <3>1, <3>2
    <3> QED BY <1>2, <1>3, <1>6, <3>1, <3>2, <3>3
  <2> QED BY <2>1, <2>2
<1> QED BY <1>5, <1>6

\* Every string a command walks along.
LEMMA StringsAre ==
  ASSUME NEW str \in Arguments \cup {<<>>}
  PROVE  str \in Seq(Chars) /\ Listed(str) \in Seq(Chars)
<1>1. PICK z, d : z = <<>> /\ d = <<".">>
  OBVIOUS
<1>2. z \in Seq(Chars) /\ d \in Seq(Chars)
  BY <1>1 DEF Chars, Words
<1>3. str \in Seq(Chars)
  BY <1>1, <1>2, PathsAssumption DEF Chars
<1> QED BY <1>1, <1>2, <1>3 DEF Listed

LEMMA RequestKeeps ==
  ASSUME PathsInv, Request
  PROVE  PathsInv'
<1>1. TypeOK /\ PwdIsMade /\ Control
  BY DEF PathsInv
<1>2. /\ at = "idle" /\ verb' \in Verbs /\ arg' \in Arguments /\ reply' = "none"
      /\ UNCHANGED <<dirs, files, empty, dangling, mPath, again, entries, disturbed>>
  BY DEF Request, disk, fileVars
<1>3. PICK str : str = IF verb' = "LIST" THEN Listed(arg') ELSE arg'
  OBVIOUS
<1>4. str \in Seq(Chars)
  BY <1>2, <1>3, StringsAre
<1>5. /\ verb' = "CWD" => WantsDirectory(str)
      /\ WantsFile(str) \/ WantsDirectory(str)
  BY <1>3 DEF Request
<1>6. /\ todo' \in Seq(Words) /\ path' \in Seq(Names)
      /\ name' \in {<<>>} \cup {<<w>> : w \in Words}
      /\ at' \in {"walk", "lost"}
  BY <1>1, <1>4, <1>5, Begins
<1>7. verb' = "CWD" => at' = "walk" /\ name' = <<>>
  BY <1>1, <1>4, <1>5, Begins
<1>8. at' = "walk" /\ IsDir(mPath) /\ Plain(mPath) =>
        /\ path' \in dirs
        /\ Plain(str) => Reached(dirs, Reached(dirs, path', todo'), name') = Meant(str)
  BY <1>1, <1>4, <1>5, Begins
<1>9. TypeOK'
  BY <1>1, <1>2, <1>6 DEF TypeOK, Replies
<1>10. Control'
  BY <1>1, <1>2, <1>6, <1>7 DEF Control, Verbs
<1>11. /\ IsDir(mPath)' <=> IsDir(mPath)
       /\ Plain(mPath)' <=> Plain(mPath)
       /\ Meant(arg)' = Meant(arg')
       /\ PwdIsMade'
  BY <1>1, <1>2, Frame
<1>12. OnTheWay'
  BY <1>2, <1>3, <1>6, <1>7, <1>8, <1>11 DEF OnTheWay
<1>13. InTheListing'
  BY <1>2, <1>6 DEF InTheListing
<1> QED BY <1>9, <1>10, <1>11, <1>12, <1>13 DEF PathsInv

LEMMA WalkKeeps ==
  ASSUME PathsInv, TryChangePath
  PROVE  PathsInv'
<1>1. TypeOK /\ PwdIsMade /\ Control /\ OnTheWay /\ InTheListing
  BY DEF PathsInv
<1>2. /\ at = "walk"
      /\ UNCHANGED <<dirs, files, empty, dangling, mPath, verb, arg, again, entries, reply, disturbed>>
      /\ Here \/ Up \/ Down \/ Arrive
  BY DEF TryChangePath, Here, Up, Down, Arrive, Walking, disk, fileVars
<1>3. /\ IsDir(mPath)' <=> IsDir(mPath)
      /\ Plain(mPath)' <=> Plain(mPath)
      /\ Meant(arg)' = Meant(arg)
      /\ PwdIsMade'
  BY <1>1, <1>2, Frame
<1>4. verb # "none" /\ (verb = "CWD" => name = <<>>) /\ todo \in Seq(Words) /\ path \in Seq(Names)
  BY <1>1, <1>2 DEF Control, TypeOK
<1>5. ASSUME todo' \in Seq(Words), path' \in Seq(Names), name' \in {name, <<>>},
             at' \in {"walk", "act", "lost"}, at' = "act" => todo' = <<>>
      PROVE  TypeOK' /\ Control' /\ InTheListing'
  <2>1. TypeOK'
    BY <1>1, <1>2, <1>5 DEF TypeOK
  <2>2. Control'
    BY <1>1, <1>2, <1>4, <1>5 DEF Control
  <2>3. InTheListing'
    BY <1>1, <1>2, <1>5 DEF InTheListing
  <2> QED BY <2>1, <2>2, <2>3
<1> DEFINE Free == ~disturbed /\ IsDir(mPath) /\ Plain(mPath)
<1>6. Free => path \in dirs
  BY <1>1, <1>2 DEF OnTheWay
<1>7. Free /\ verb # "LIST" /\ Plain(arg) => Reached(dirs, Reached(dirs, path, todo), name) = Meant(arg)
  BY <1>1, <1>2 DEF OnTheWay
<1>8. ASSUME at' \in {"walk", "act"}, name' = name,
             Free => path' \in dirs /\ Reached(dirs, path', todo') = Reached(dirs, path, todo)
      PROVE  OnTheWay'
  BY <1>2, <1>3, <1>7, <1>8 DEF OnTheWay
<1>9. ASSUME at' = "lost", Free => Reached(dirs, path, todo) \notin dirs
      PROVE  OnTheWay'
  <2>1. ASSUME Free, verb = "CWD", Plain(arg) PROVE Meant(arg) \notin dirs
    <3>1. PICK x, z : x = Reached(dirs, path, todo) /\ z = <<>>
      OBVIOUS
    <3>2. x \in Seq(Chars) /\ z \in Seq(Words)
      BY <1>4, <3>1, ReachedTyped, WordsAre
    <3>3. Reached(dirs, x, z) = x
      BY <3>1, <3>2, ReachedNone
    <3> QED BY <1>4, <1>7, <1>9, <2>1, <3>1, <3>3
  <2> QED BY <1>2, <1>3, <1>9, <2>1 DEF OnTheWay
<1>10. path \in Seq(Chars) /\ Tree(dirs)
  BY <1>1, <1>4, WordsAre, DiskIsTree
<1>11. CASE Arrive
  <2>1. at' = "act" /\ todo' = <<>> /\ todo' = todo /\ path' = path /\ name' = name
    BY <1>11 DEF Arrive, walkVars
  <2>2. TypeOK' /\ Control' /\ InTheListing'
    BY <1>4, <1>5, <2>1
  <2>3. OnTheWay'
    BY <1>6, <1>8, <2>1
  <2> QED BY <1>3, <2>2, <2>3 DEF PathsInv
<1>12. ASSUME todo # <<>>
       PROVE  /\ Head(todo) \in Words /\ Tail(todo) \in Seq(Words)
              /\ Reached(dirs, path, todo) = Reached(dirs, Enter(dirs, path, Head(todo)), Tail(todo))
  <2>1. Reached(dirs, path, todo) = Reached(dirs, Enter(dirs, path, Head(todo)), Tail(todo))
    BY <1>4, <1>10, <1>12, ReachedTail
  <2> QED BY <1>4, <1>12, <2>1
<1>13. CASE Here
  <2>1. todo # <<>> /\ Head(todo) = "." /\ todo' = Tail(todo) /\ path' = path /\ name' = name /\ at' = "walk"
    BY <1>2, <1>13 DEF Here, Walking
  <2>2. TypeOK' /\ Control' /\ InTheListing'
    BY <1>4, <1>5, <1>12, <2>1
  <2>3. Free => Enter(dirs, path, Head(todo)) = path
    BY <1>6, <1>10, <1>12, <2>1, EnterTree
  <2>4. OnTheWay'
    BY <1>6, <1>8, <1>12, <2>1, <2>3
  <2> QED BY <1>3, <2>2, <2>4 DEF PathsInv
<1>14. CASE Up
  <2>1. todo # <<>> /\ Head(todo) = ".."
    BY <1>14 DEF Up, Walking
  <2>2. Free => Enter(dirs, path, Head(todo)) = IF path = <<>> THEN Nowhere ELSE Front(path)
    BY <1>6, <1>10, <1>12, <2>1, EnterTree
  <2>3. CASE path # <<>>
    <3>1. todo' = Tail(todo) /\ path' = Front(path) /\ name' = name /\ at' = "walk"
      BY <1>2, <1>14, <2>3 DEF Up
    <3>2. Front(path) \in Seq(Names)
      BY <1>4, <2>3, FrontIs
    <3>3. TypeOK' /\ Control' /\ InTheListing'
      BY <1>5, <1>12, <2>1, <3>1, <3>2
    <3>4. Free => Front(path) \in dirs
      BY <1>6, <1>10, <2>3 DEF Tree
    <3>5. OnTheWay'
      BY <1>8, <1>12, <2>1, <2>2, <2>3, <3>1, <3>4
    <3> QED BY <1>3, <3>3, <3>5 DEF PathsInv
  <2>4. CASE path = <<>>
    <3>1. at' = "lost" /\ todo' = <<>> /\ path' = <<>> /\ name' = <<>>
      BY <1>14, <2>4 DEF Up, NoWalk
    <3>2. TypeOK' /\ Control' /\ InTheListing'
      BY <1>5, <3>1
    <3>3. Free => Reached(dirs, path, todo) \notin dirs
      <4>1. Nowhere \notin dirs /\ Nowhere \in Seq(Chars)
        BY <1>10, <1>12, <2>1, EnterTree DEF Nowhere, Chars
      <4>2. Reached(dirs, Nowhere, Tail(todo)) \notin dirs
        BY <1>10, <1>12, <2>1, <4>1, ReachedStray
      <4> QED BY <1>12, <2>1, <2>2, <2>4, <4>2
    <3>4. OnTheWay'
      BY <1>9, <3>1, <3>3
    <3> QED BY <1>3, <3>2, <3>4 DEF PathsInv
  <2> QED BY <2>3, <2>4
<1>15. CASE Down
  <2>1. todo # <<>> /\ Head(todo) \notin {".", ".."}
    BY <1>15 DEF Down
  <2>2. PICK w, t, next : /\ w = Head(todo) /\ t = Tail(todo)
                          /\ next = MakePath(path) \o <<"/", w>>
    OBVIOUS
  <2>3. w \in Words /\ w \notin {".", ".."} /\ t \in Seq(Words)
    BY <1>12, <2>1, <2>2
  <2>4. /\ IsDir(next) => Append(path, w) \in dirs
        /\ path \in dirs => Enter(dirs, path, w) = Append(path, w)
        /\ path \in dirs => (IsDir(next) <=> Append(path, w) \in dirs)
    BY <1>1, <1>4, <2>2, <2>3, StepDown
  <2>5. Reached(dirs, path, todo) = Reached(dirs, Enter(dirs, path, w), t)
    BY <1>12, <2>1, <2>2
  <2>6. CASE IsDir(next)
    <3>1. todo' = t /\ path' = Append(path, w) /\ name' = name /\ at' = "walk"
      BY <1>2, <1>15, <2>2, <2>6 DEF Down
    <3>2. path' \in dirs /\ path' \in Seq(Names)
      BY <1>10, <2>4, <2>6, <3>1 DEF Tree
    <3>3. TypeOK' /\ Control' /\ InTheListing'
      BY <1>5, <2>3, <3>1, <3>2
    <3>4. OnTheWay'
      BY <1>6, <1>8, <2>4, <2>5, <3>1, <3>2
    <3> QED BY <1>3, <3>3, <3>4 DEF PathsInv
  <2>7. CASE ~IsDir(next)
    <3>1. at' = "lost" /\ todo' = <<>> /\ path' = <<>> /\ name' = <<>>
      BY <1>15, <2>2, <2>7 DEF Down, NoWalk
    <3>2. TypeOK' /\ Control' /\ InTheListing'
      BY <1>5, <3>1
    <3>3. Free => Reached(dirs, path, todo) \notin dirs
      <4>1. PICK x : x = Enter(dirs, path, w)
        OBVIOUS
      <4>2. Free => x \notin dirs
        BY <1>6, <2>4, <2>7, <4>1
      <4>3. x \in Seq(Chars)
        BY <1>10, <2>3, <4>1, EnterTyped
      <4>4. x \notin dirs => Reached(dirs, x, t) \notin dirs
        BY <1>10, <2>3, <4>3, ReachedStray
      <4> QED BY <2>5, <4>1, <4>2, <4>4
    <3>4. OnTheWay'
      BY <1>9, <3>1, <3>3
    <3> QED BY <1>3, <3>2, <3>4 DEF PathsInv
  <2> QED BY <2>6, <2>7
<1> QED BY <1>2, <1>11, <1>13, <1>14, <1>15

\* The path of a file: behind its directory's, or behind nothing.
LEMMA TargetIs ==
  ASSUME TypeOK
  PROVE  /\ at # "act" => Target = <<>> /\ ~Named(Target) /\ Node \notin files /\ ~IsFile(Target)
         /\ at = "act" => Target = MakePath(path) \o <<"/">> \o name
         /\ at = "act" /\ path \in dirs => Node = Reached(dirs, path, name)
<1>1. PICK z : z = <<>>
  OBVIOUS
<1>2. z \in Seq(Chars) /\ z \in Seq(Words) /\ z \in Seq(Names)
  BY <1>1, WordsAre
<1>3. Components(z) = z /\ Reached(dirs, z, z) = z
  BY <1>1, <1>2, ComponentsNone, ReachedNone
<1>4. ASSUME at # "act"
      PROVE  Target = <<>> /\ ~Named(Target) /\ Node \notin files /\ ~IsFile(Target)
  <2>1. Target = z
    BY <1>1, <1>4 DEF Target
  <2>2. Resolve(z) = z
    BY <1>1, <1>3 DEF Resolve
  <2>3. z \notin files
    BY <1>1 DEF TypeOK
  <2> QED BY <1>1, <1>3, <2>1, <2>2, <2>3 DEF Named, IsFile, Node
<1>5. at = "act" => Target = MakePath(path) \o <<"/">> \o name
  BY DEF Target
<1>6. ASSUME at = "act", path \in dirs PROVE Node = Reached(dirs, path, name)
  <2>1. PICK m, s : m = MakePath(path) /\ s = <<"/">>
    OBVIOUS
  <2>2. path \in Seq(Names) /\ path \in Seq(Words) /\ path \in Seq(Chars)
    BY WordsAre DEF TypeOK
  <2>3. m \in Seq(Chars) /\ Components(m) = path
    BY <2>1, <2>2, MadeIs
  <2>4. s \in Seq(Chars) /\ "/" \in Chars
    BY <2>1 DEF Chars
  <2>5. Target = (m \o s) \o name
    BY <1>5, <1>6, <2>1
  <2>6. name = z \/ \E w \in Words : name = <<w>>
    BY <1>1 DEF TypeOK
  <2>7. CASE name = z
    <3>1. m \o s \in Seq(Chars) /\ m \o s = Append(m, "/")
      BY <2>1, <2>3, <2>4
    <3>2. (m \o s) \o z = m \o s
      BY <1>1, <3>1, ConcatEmptySeq
    <3>3. Components(Append(m, "/")) = path
      BY <2>3, <2>4, ComponentsAppend DEF Part
    <3>4. Node = Reached(dirs, <<>>, path)
      BY <2>5, <2>7, <3>1, <3>2, <3>3 DEF Node, Resolve
    <3>5. Reached(dirs, <<>>, path) = path
      BY <1>6, <2>2, DiskIsTree, ReachedNode
    <3>6. Reached(dirs, path, z) = path
      BY <1>1, <2>2, ReachedNone
    <3> QED BY <2>7, <3>4, <3>5, <3>6
  <2>8. ASSUME NEW w \in Words, name = <<w>> PROVE Node = Reached(dirs, path, name)
    <3>1. w \in Chars
      BY <2>8 DEF Chars
    <3>2. (m \o <<"/">>) \o <<w>> = m \o <<"/", w>>
      BY <2>3, <2>4, <3>1, ConcatTwo
    <3>4. Target = MakePath(path) \o <<"/", w>>
      BY <2>1, <2>5, <2>8, <3>2
    <3>5. Resolve(MakePath(path) \o <<"/", w>>) = Enter(dirs, path, w)
      BY <1>6, <2>2, <2>8, ResolveLonger
    <3>6. Reached(dirs, path, <<w>>) = Enter(dirs, path, w)
      BY <2>2, <2>8, ReachedOne
    <3> QED BY <2>8, <3>4, <3>5, <3>6 DEF Node
  <2> QED BY <2>6, <2>7, <2>8
<1> QED BY <1>4, <1>5, <1>6

LEMMA ContinueKeeps ==
  ASSUME PathsInv, Continue
  PROVE  PathsInv'
<1>1. TypeOK /\ PwdIsMade /\ Control /\ OnTheWay /\ InTheListing
  BY DEF PathsInv
<1>2. Known /\ UNCHANGED <<dirs, files, empty, dangling, mPath, verb, arg, entries, reply, disturbed>>
  BY DEF Continue, disk, fileVars
<1>3. /\ IsDir(mPath)' <=> IsDir(mPath)
      /\ Plain(mPath)' <=> Plain(mPath)
      /\ Meant(arg)' = Meant(arg)
      /\ PwdIsMade'
  BY <1>1, <1>2, Frame
<1>4. verb # "none" /\ arg \in Arguments \cup {<<>>}
  BY <1>1, <1>2 DEF Control, Known, TypeOK
<1>5. arg \in Seq(Chars) /\ Listed(arg) \in Seq(Chars)
  BY <1>4, StringsAre
<1>6. ASSUME NEW str \in Seq(Chars), WantsFile(str) \/ WantsDirectory(str), again' = TRUE,
             verb # "CWD", verb # "LIST" => str = arg
      PROVE  PathsInv'
  <2>1. /\ todo' \in Seq(Words) /\ path' \in Seq(Names)
        /\ name' \in {<<>>} \cup {<<w>> : w \in Words}
        /\ at' \in {"walk", "lost"}
    BY <1>1, <1>6, Begins
  <2>2. at' = "walk" /\ IsDir(mPath) /\ Plain(mPath) =>
          /\ path' \in dirs
          /\ Plain(str) => Reached(dirs, Reached(dirs, path', todo'), name') = Meant(str)
    BY <1>1, <1>6, Begins
  <2>3. TypeOK'
    BY <1>1, <1>2, <1>6, <2>1 DEF TypeOK
  <2>4. Control'
    BY <1>1, <1>2, <1>4, <1>6, <2>1 DEF Control, Known
  <2>5. OnTheWay'
    BY <1>2, <1>3, <1>6, <2>1, <2>2 DEF OnTheWay
  <2>6. InTheListing'
    BY <1>1, <1>2, <2>1 DEF InTheListing, Known
  <2> QED BY <1>3, <2>3, <2>4, <2>5, <2>6 DEF PathsInv
<1>7. CASE verb = "RETR" /\ WantsFile(arg) /\ again' = TRUE
  BY <1>5, <1>6, <1>7
<1>8. CASE verb = "LIST" /\ WantsDirectory(Listed(arg)) /\ again' = TRUE
  BY <1>5, <1>6, <1>8
<1>9. CASE verb = "LIST" /\ IsFile(Target) /\ at' = "entry" /\ UNCHANGED <<walkVars, again>>
  <2>1. UNCHANGED <<todo, path, name, again>>
    BY <1>9 DEF walkVars
  <2>2. TypeOK'
    BY <1>1, <1>2, <1>9, <2>1 DEF TypeOK
  <2>3. Control'
    BY <1>1, <1>2, <1>4, <1>9, <2>1 DEF Control, Known
  <2>4. at = "act" /\ Target = MakePath(path) \o <<"/">> \o name
    BY <1>1, <1>9, TargetIs
  <2>5. IsFile(MakePath(path) \o <<"/">> \o name)
    BY <1>9, <2>4
  <2>6. IsFile(MakePath(path) \o <<"/">> \o name)'
    BY <1>2, <2>1, <2>5 DEF Resolve, IsFile
  <2>7. OnTheWay'
    BY <1>2, <1>3, <1>9, <2>6 DEF OnTheWay
  <2>8. InTheListing'
    BY <1>1, <1>2, <1>9 DEF InTheListing, Known
  <2> QED BY <1>3, <2>2, <2>3, <2>7, <2>8 DEF PathsInv
<1> QED BY <1>7, <1>8, <1>9 DEF Continue

\* A name behind a directory is one of its entries.
LEMMA EntryIs ==
  ASSUME TypeOK, path \in dirs, NEW w \in Names
  PROVE  /\ IsDir(MakePath(path) \o <<"/", w>>) <=> Append(path, w) \in dirs
         /\ IsFile(MakePath(path) \o <<"/", w>>) <=> Append(path, w) \in files \ dangling
<1>1. path \in Seq(Names) /\ w \in Words /\ w \notin {".", ".."} /\ path \in Seq(Chars) /\ Tree(dirs)
  BY WordsAre, DiskIsTree DEF TypeOK
<1>2. Resolve(MakePath(path) \o <<"/", w>>) = Enter(dirs, path, w)
  BY <1>1, ResolveLonger
<1>3. Enter(dirs, path, w) = Append(path, w)
  BY <1>1, EnterTree
<1> QED BY <1>2, <1>3 DEF IsDir, IsFile

LEMMA OpenKeeps ==
  ASSUME PathsInv, OpenDirectory
  PROVE  PathsInv'
<1>1. TypeOK /\ PwdIsMade /\ Control /\ OnTheWay /\ InTheListing
  BY DEF PathsInv
<1>2. /\ verb = "LIST" /\ at = "act" /\ at' = "entries" /\ IsDir(MakePath(path))
      /\ entries' = NamesIn(Resolve(MakePath(path)))
      /\ UNCHANGED <<dirs, files, empty, dangling, mPath, verb, arg, todo, path, name, again, reply, disturbed>>
  BY DEF OpenDirectory, Known, disk, fileVars, walkVars
<1>3. PwdIsMade'
  BY <1>1, <1>2, Frame
<1>4. TypeOK'
  BY <1>1, <1>2 DEF TypeOK, NamesIn
<1>5. Control'
  BY <1>1, <1>2 DEF Control
<1>6. OnTheWay'
  BY <1>2 DEF OnTheWay
<1>7. path \in Seq(Names) /\ path \in Seq(Words) /\ Tree(dirs)
  BY <1>1, WordsAre, DiskIsTree DEF TypeOK
<1>8. Resolve(MakePath(path)) = Reached(dirs, <<>>, path)
  BY <1>7, MadeIs DEF Resolve
<1>9. path \in dirs /\ Resolve(MakePath(path)) = path
  BY <1>2, <1>7, <1>8, ReachedNode DEF IsDir
<1>10. InTheListing'
  BY <1>1, <1>2, <1>9 DEF InTheListing, NamesIn
<1> QED BY <1>3, <1>4, <1>5, <1>6, <1>10 DEF PathsInv

LEMMA ShowKeeps ==
  ASSUME PathsInv, ShowEntry
  PROVE  PathsInv'
<1>1. TypeOK /\ PwdIsMade /\ Control /\ OnTheWay /\ InTheListing
  BY DEF PathsInv
<1>2. /\ at = "entries"
      /\ UNCHANGED <<dirs, files, empty, dangling, mPath, verb, arg, todo, path, name, again, at, disturbed>>
  BY DEF ShowEntry, disk, fileVars, walkVars
<1>3. PICK w \in entries :
        LET str == MakePath(path) \o <<"/", w>> IN
          /\ entries' = entries \ {w}
          /\ reply' = IF IsDir(str) \/ IsFile(str) THEN reply ELSE "garbled"
  BY DEF ShowEntry
<1>4. PwdIsMade'
  BY <1>1, <1>2, Frame
<1>5. TypeOK'
  BY <1>1, <1>2, <1>3 DEF TypeOK, Replies
<1>6. Control'
  BY <1>1, <1>2 DEF Control
<1>7. OnTheWay'
  BY <1>2 DEF OnTheWay
<1>8. verb # "none"
  BY <1>1, <1>2 DEF Control
<1>9. w \in Names
  BY <1>1, <1>3 DEF TypeOK
<1>10. ASSUME ~disturbed
      PROVE  /\ path \in dirs /\ entries' \subseteq NamesIn(path)
             /\ reply' = "garbled" => \E x \in Names : Append(path, x) \in dangling
  <2>1. path \in dirs /\ entries \subseteq NamesIn(path)
    BY <1>1, <1>2, <1>10, <1>8 DEF InTheListing
  <2>2. Append(path, w) \in dirs \cup files
    BY <1>3, <2>1 DEF NamesIn
  <2>3. ~(IsDir(MakePath(path) \o <<"/", w>>) \/ IsFile(MakePath(path) \o <<"/", w>>))
          => Append(path, w) \in dangling
    BY <1>1, <1>9, <2>1, <2>2, EntryIs
  <2>4. reply = "garbled" => \E x \in Names : Append(path, x) \in dangling
    BY <1>1, <1>2, <1>10, <1>8 DEF InTheListing
  <2> QED BY <1>3, <1>9, <2>1, <2>3, <2>4
<1>11. InTheListing'
  BY <1>2, <1>10 DEF InTheListing, NamesIn
<1> QED BY <1>4, <1>5, <1>6, <1>7, <1>11 DEF PathsInv

\* What is on the disk is in a directory that is on the disk: the directories
\* ds, the files fs, of which es hold nothing and ls are links.
DiskOK(ds, fs, es, ls) ==
  /\ ds \subseteq Nodes /\ fs \subseteq Nodes
  /\ <<>> \in ds /\ ds \cap fs = {}
  /\ \A n \in ds \cup fs : n # <<>> => Front(n) \in ds
  /\ es \subseteq fs \ ls /\ ls \subseteq fs

LEMMA NodeComes ==
  ASSUME NEW ds, NEW fs, NEW es, NEW ls, DiskOK(ds, fs, es, ls), NEW n \in Nodes,
         n \notin ds \cup fs, Front(n) \in ds
  PROVE  /\ DiskOK(ds \cup {n}, fs, es, ls)
         /\ DiskOK(ds, fs \cup {n}, es, ls) /\ DiskOK(ds, fs \cup {n}, es, ls \cup {n})
         /\ DiskOK(ds, fs \cup {n}, es \cup {n}, ls \ {n})
  BY DEF DiskOK

LEMMA NodeGoes ==
  ASSUME NEW ds, NEW fs, NEW es, NEW ls, DiskOK(ds, fs, es, ls), NEW n
  PROVE  /\ DiskOK(ds, fs \ {n}, es \ {n}, ls \ {n})
         /\ n # <<>> /\ (\A m \in ds \cup fs : m = <<>> \/ Front(m) # n) => DiskOK(ds \ {n}, fs, es, ls)
  BY DEF DiskOK

LEMMA FileChanges ==
  ASSUME NEW ds, NEW fs, NEW es, NEW ls, DiskOK(ds, fs, es, ls), NEW n \in fs
  PROVE  /\ DiskOK(ds, fs, es, ls \ {n}) /\ DiskOK(ds, fs, es \ {n}, ls)
         /\ n \notin ls => DiskOK(ds, fs, es \cup {n}, ls)
         /\ DiskOK(ds, fs \cup {n}, es \cup {n}, ls \ {n})
<1>1. fs \cup {n} = fs
  OBVIOUS
<1> QED BY <1>1 DEF DiskOK

LEMMA DisturbKeeps ==
  ASSUME PathsInv, Disturb
  PROVE  PathsInv'
<1>1. TypeOK /\ PwdIsMade /\ Control /\ OnTheWay /\ DiskOK(dirs, files, empty, dangling)
  BY DEF PathsInv, TypeOK, DiskOK
<1>2. /\ at \notin {"gone", "segv"} /\ disturbed' = (disturbed \/ at # "idle")
      /\ UNCHANGED <<mPath, verb, arg, todo, path, name, again, entries, at, reply>>
  BY DEF Disturb, walkVars
<1>3. DiskOK(dirs', files', empty', dangling')
  <2>1. PICK n \in Nodes \ {<<>>} :
          \/ /\ n \notin dirs \cup files /\ Front(n) \in dirs
             /\ \/ dirs' = dirs \cup {n} /\ UNCHANGED fileVars
                \/ files' = files \cup {n} /\ UNCHANGED <<dirs, empty, dangling>>
                \/ files' = files \cup {n} /\ dangling' = dangling \cup {n} /\ UNCHANGED <<dirs, empty>>
          \/ /\ n \in files /\ files' = files \ {n}
             /\ empty' = empty \ {n} /\ dangling' = dangling \ {n} /\ UNCHANGED dirs
          \/ /\ n \in files \ dangling /\ empty' \in {empty \ {n}, empty \cup {n}}
             /\ UNCHANGED <<dirs, files, dangling>>
          \/ n \in dangling /\ dangling' = dangling \ {n} /\ UNCHANGED <<dirs, files, empty>>
          \/ n \in dirs /\ Childless(n) /\ dirs' = dirs \ {n} /\ UNCHANGED fileVars
    BY DEF Disturb
  <2>2. CASE n \notin dirs \cup files /\ Front(n) \in dirs /\ dirs' = dirs \cup {n} /\ UNCHANGED fileVars
    <3>1. DiskOK(dirs \cup {n}, files, empty, dangling)
      BY <1>1, <2>2, NodeComes
    <3> QED BY <2>2, <3>1 DEF fileVars
  <2>3. CASE /\ n \notin dirs \cup files /\ Front(n) \in dirs /\ files' = files \cup {n}
             /\ UNCHANGED <<dirs, empty>> /\ dangling' \in {dangling, dangling \cup {n}}
    <3>1. /\ DiskOK(dirs, files \cup {n}, empty, dangling)
          /\ DiskOK(dirs, files \cup {n}, empty, dangling \cup {n})
      BY <1>1, <2>3, NodeComes
    <3> QED BY <2>3, <3>1
  <2>4. CASE /\ files' = files \ {n} /\ empty' = empty \ {n} /\ dangling' = dangling \ {n}
             /\ UNCHANGED dirs
    <3>1. DiskOK(dirs, files \ {n}, empty \ {n}, dangling \ {n})
      BY <1>1, NodeGoes
    <3> QED BY <2>4, <3>1
  <2>5. CASE Childless(n) /\ dirs' = dirs \ {n} /\ UNCHANGED fileVars
    <3>1. n # <<>> /\ \A m \in dirs \cup files : m = <<>> \/ Front(m) # n
      BY <2>1, <2>5 DEF Childless
    <3>2. DiskOK(dirs \ {n}, files, empty, dangling)
      BY <1>1, <3>1, NodeGoes
    <3> QED BY <2>5, <3>2 DEF fileVars
  <2>6. CASE /\ n \in files \ dangling /\ empty' \in {empty \ {n}, empty \cup {n}}
             /\ UNCHANGED <<dirs, files, dangling>>
    <3>1. n \in files /\ n \notin dangling
      BY <2>6
    <3>2. DiskOK(dirs, files, empty \ {n}, dangling) /\ DiskOK(dirs, files, empty \cup {n}, dangling)
      BY <1>1, <3>1, FileChanges
    <3> QED BY <2>6, <3>2
  <2>7. CASE n \in dangling /\ dangling' = dangling \ {n} /\ UNCHANGED <<dirs, files, empty>>
    <3>1. n \in files
      BY <1>1, <2>7 DEF DiskOK
    <3> QED BY <1>1, <2>7, <3>1, FileChanges
  <2> QED BY <2>1, <2>2, <2>3, <2>4, <2>5, <2>6, <2>7
<1>4. TypeOK'
  BY <1>1, <1>2, <1>3 DEF TypeOK, DiskOK
<1>5. PwdIsMade'
  BY <1>1, <1>2 DEF PwdIsMade
<1>6. Control'
  BY <1>1, <1>2 DEF Control
<1>7. OnTheWay' /\ InTheListing'
  <2>1. ~disturbed' => at' = "idle" /\ verb' = "none"
    BY <1>1, <1>2 DEF TypeOK, Control
  <2> QED BY <2>1 DEF OnTheWay, InTheListing
<1> QED BY <1>4, <1>5, <1>6, <1>7 DEF PathsInv

LEMMA FinishKeeps ==
  ASSUME PathsInv, Finish
  PROVE  PathsInv'
<1>1. TypeOK /\ PwdIsMade /\ Control /\ DiskOK(dirs, files, empty, dangling)
  BY DEF PathsInv, TypeOK, DiskOK
<1>2. /\ verb' = "none" /\ arg' = <<>> /\ todo' = <<>> /\ path' = <<>> /\ name' = <<>>
      /\ again' = FALSE /\ disturbed' = FALSE /\ entries' = {}
  <2>1. entries = {}
    BY <1>1 DEF Finish, ChangeDirectory, Delete, MkDir, RmDir, Download, Upload, ListFile,
                ListNothing, OpenFails, ListDirectory, Known, Control
  <2> QED BY <2>1 DEF Finish, NoWalk
<1>3. ASSUME DiskOK(dirs', files', empty', dangling'),
             mPath' = mPath \/ (at = "act" /\ mPath' = MakePath(path)),
             \/ \E r \in Replies \ {"garbled"} : Says(r)
             \/ Says("garbled")
             \/ at' = "segv" /\ reply' = reply
      PROVE  PathsInv'
  <2>1. PICK z : z = <<>>
    OBVIOUS
  <2>2. z \in Seq(Words) /\ z \in Seq(Names)
    BY <2>1
  <2>3. at' \in {"idle", "gone", "segv"} /\ reply' \in Replies
    BY <1>1, <1>3 DEF Says, Replies, TypeOK
  <2>4. mPath' \in Seq(Words \cup {"/"}) /\ PwdIsMade'
    <3>1. CASE mPath' = mPath
      BY <1>1, <3>1 DEF TypeOK, PwdIsMade
    <3>2. CASE mPath' = MakePath(path)
      <4>1. path \in Seq(Names) /\ path \in Seq(Words)
        BY <1>1, WordsAre DEF TypeOK
      <4>2. Components(mPath') = path /\ mPath' \in Seq(Words \cup {"/"})
        BY <3>2, <4>1, MadeIs DEF Chars
      <4> QED BY <3>2, <4>1, <4>2 DEF PwdIsMade
    <3> QED BY <1>3, <3>1, <3>2
  <2>5. TypeOK'
    BY <1>1, <1>2, <1>3, <2>1, <2>2, <2>3, <2>4 DEF TypeOK, DiskOK
  <2>6. Control' /\ OnTheWay'
    BY <1>2, <2>3 DEF Control, OnTheWay
  <2>7. InTheListing'
    BY <1>2, <2>3 DEF InTheListing
  <2> QED BY <2>4, <2>5, <2>6, <2>7 DEF PathsInv
<1>4. {"done", "refused", "450", "425"} \subseteq Replies \ {"garbled"}
  BY DEF Replies
<1>5. CASE ChangeDirectory
  <2>1. DiskOK(dirs', files', empty', dangling')
    BY <1>1, <1>5 DEF ChangeDirectory, disk, fileVars
  <2> QED BY <1>3, <1>4, <1>5, <2>1 DEF ChangeDirectory
<1>6. CASE Delete
  <2>1. DiskOK(dirs, files \ {Node}, empty \ {Node}, dangling \ {Node})
    BY <1>1, NodeGoes
  <2>2. DiskOK(dirs', files', empty', dangling')
    BY <1>1, <1>6, <2>1 DEF Delete, fileVars
  <2> QED BY <1>3, <1>4, <1>6, <2>2 DEF Delete
<1>7. CASE MkDir
  <2>1. Vacant(Target) => DiskOK(dirs \cup {Node}, files, empty, dangling)
    BY <1>1, NodeComes DEF Vacant, Node
  <2>2. DiskOK(dirs', files', empty', dangling')
    BY <1>1, <1>7, <2>1 DEF MkDir, fileVars
  <2> QED BY <1>3, <1>4, <1>7, <2>2 DEF MkDir
<1>8. CASE RmDir
  <2>1. Node \in dirs \ {<<>>} /\ Childless(Node) => DiskOK(dirs \ {Node}, files, empty, dangling)
    BY <1>1, NodeGoes DEF Childless
  <2>2. DiskOK(dirs', files', empty', dangling')
    BY <1>1, <1>8, <2>1 DEF RmDir, fileVars
  <2> QED BY <1>3, <1>4, <1>8, <2>2 DEF RmDir
<1>9. CASE Download
  <2>1. Vacant(Target) \/ Node \in files =>
          DiskOK(dirs, files \cup {Node}, empty \cup {Node}, dangling \ {Node})
    <3>1. CASE Vacant(Target)
      BY <1>1, <3>1, NodeComes DEF Vacant, Node
    <3>2. CASE Node \in files
      BY <1>1, <3>2, FileChanges
    <3> QED BY <3>1, <3>2
  <2>2. DiskOK(dirs', files', empty', dangling')
    BY <1>1, <1>9, <2>1 DEF Download, fileVars
  <2> QED BY <1>3, <1>4, <1>9, <2>2 DEF Download
<1>10. CASE Upload \/ ListFile \/ ListNothing \/ OpenFails \/ ListDirectory
  <2>1. DiskOK(dirs', files', empty', dangling') /\ mPath' = mPath
    BY <1>1, <1>10 DEF Upload, ListFile, ListNothing, OpenFails, ListDirectory, disk, fileVars
  <2>2. \/ Says("done") \/ Says("refused") \/ Says("450") \/ Says("garbled")
        \/ at' = "segv" /\ reply' = reply
    BY <1>10 DEF Upload, ListFile, ListNothing, OpenFails, ListDirectory
  <2> QED BY <1>3, <1>4, <2>1, <2>2
<1> QED BY <1>5, <1>6, <1>7, <1>8, <1>9, <1>10 DEF Finish

LEMMA PathsStep == PathsInv /\ [Next]_vars => PathsInv'
<1> SUFFICES ASSUME PathsInv, [Next]_vars PROVE PathsInv'
  OBVIOUS
<1>1. CASE Request
  BY <1>1, RequestKeeps
<1>2. CASE TryChangePath
  BY <1>2, WalkKeeps
<1>3. CASE Continue
  BY <1>3, ContinueKeeps
<1>4. CASE OpenDirectory
  BY <1>4, OpenKeeps
<1>5. CASE ShowEntry
  BY <1>5, ShowKeeps
<1>6. CASE Finish
  BY <1>6, FinishKeeps
<1>7. CASE Disturb
  BY <1>7, DisturbKeeps
<1>8. CASE UNCHANGED vars
  <2>1. UNCHANGED <<dirs, files, empty, dangling, mPath, verb, arg, todo, path, name, again, entries,
                    at, reply, disturbed>>
    BY <1>8 DEF vars, disk, fileVars, walkVars
  <2>2. TypeOK' /\ PwdIsMade' /\ Control' /\ InTheListing'
    BY <2>1 DEF PathsInv, TypeOK, PwdIsMade, Control, InTheListing, NamesIn
  <2>3. /\ IsDir(mPath)' <=> IsDir(mPath)
        /\ Plain(mPath)' <=> Plain(mPath)
        /\ Meant(arg)' = Meant(arg)
    BY <2>1, Frame
  <2>4. IsFile(MakePath(path) \o <<"/">> \o name)' <=> IsFile(MakePath(path) \o <<"/">> \o name)
    BY <2>1 DEF Resolve, IsFile
  <2>5. OnTheWay'
    BY <2>1, <2>3, <2>4 DEF PathsInv, OnTheWay
  <2> QED BY <2>2, <2>5 DEF PathsInv
<1> QED BY <1>1, <1>2, <1>3, <1>4, <1>5, <1>6, <1>7, <1>8 DEF Next

\* For every tree and every string a client may send, the invariant holds: PWD
\* prints a path that ChangeDirectory has made, and a walk that nobody disturbs
\* is in a directory and on its way to what its argument names.
THEOREM PathsSafe == Spec => []PathsInv
<1>1. Init => PathsInv
  BY PathsStart
<1>2. PathsInv /\ [Next]_vars => PathsInv'
  BY PathsStep
<1> QED BY <1>1, <1>2, PTL DEF Spec

\* The variables have their types: the disk is a tree with no file and
\* directory of the same name, and a walk is along names only.
THEOREM PathsTyped == Spec => []TypeOK
<1>1. PathsInv => TypeOK
  BY DEF PathsInv
<1> QED BY <1>1, PathsSafe, PTL

-----------------------------------------------------------------------------
(* What a command's last step does.                                        *)

\* A command ends in Finish only, and dies there only.
LEMMA EndsInFinish ==
  ASSUME TypeOK, [Next]_vars, (at' = "segv" /\ at # "segv") \/ Ends
  PROVE  Finish
<1>1. CASE Request
  BY <1>1 DEF Request, WantsDirectory, WantsFile, Ends
<1>2. CASE TryChangePath
  BY <1>2 DEF TryChangePath, Here, Up, Down, Arrive, Walking, Ends
<1>3. CASE Continue \/ OpenDirectory \/ ShowEntry
  BY <1>3 DEF Continue, WantsDirectory, WantsFile, OpenDirectory, ShowEntry, Ends
<1>4. CASE Disturb
  BY <1>4 DEF Disturb, Ends
<1>5. CASE UNCHANGED vars
  BY <1>5 DEF vars, Ends
<1> QED BY <1>1, <1>2, <1>3, <1>4, <1>5 DEF Next

\* ListingExcused, one step of it: why the process dies of a null DIR*, and why
\* a listing is wrong.
LEMMA ListingStep ==
  ASSUME PathsInv, [Next]_vars
  PROVE  /\ at # "segv" /\ at' = "segv" =>
              IsDir(MakePath(path)) \/ disturbed \/ ~IsDir(mPath) \/ ~Plain(mPath)
         /\ Ends /\ reply' = "garbled" =>
              disturbed \/ \E w \in Names : Append(path, w) \in dangling
<1>1. TypeOK /\ Control /\ OnTheWay /\ InTheListing
  BY DEF PathsInv
<1>2. ASSUME at # "segv", at' = "segv", ~disturbed, IsDir(mPath), Plain(mPath)
      PROVE  IsDir(MakePath(path))
  <2>1. Finish
    BY <1>1, <1>2, EndsInFinish
  <2>2. OpenFails
    BY <1>2, <2>1 DEF Finish, Says, ChangeDirectory, Delete, MkDir, RmDir, Download, Upload, ListFile,
                      ListNothing, ListDirectory
  <2>3. path \in dirs
    BY <1>1, <1>2, <2>2 DEF OnTheWay, OpenFails
  <2>4. path \in Seq(Names) /\ path \in Seq(Words) /\ Tree(dirs)
    BY <1>1, WordsAre, DiskIsTree DEF TypeOK
  <2>5. Components(MakePath(path)) = path /\ Reached(dirs, <<>>, path) = path
    BY <2>3, <2>4, MadeIs, ReachedNode
  <2> QED BY <2>3, <2>5 DEF Resolve, IsDir
<1>3. ASSUME Ends, reply' = "garbled", ~disturbed
      PROVE  \E w \in Names : Append(path, w) \in dangling
  <2>1. Finish
    BY <1>1, <1>3, EndsInFinish
  <2>2. ListFile \/ ListDirectory
    BY <1>3, <2>1 DEF Finish, Ends, Says, ChangeDirectory, Delete, MkDir, RmDir, Download, Upload,
                      ListNothing, OpenFails
  <2>3. ~ListFile
    <3>1. at = "entry" => IsFile(MakePath(path) \o <<"/">> \o name)
      BY <1>1, <1>3 DEF OnTheWay
    <3> QED BY <1>3, <3>1 DEF ListFile, Says
  <2>4. reply = "garbled" /\ at = "entries" /\ verb # "none"
    BY <1>1, <1>3, <2>2, <2>3 DEF ListDirectory, Says, Control
  <2> QED BY <1>1, <1>3, <2>4 DEF InTheListing
<1> QED BY <1>2, <1>3

\* A LIST reads from a null DIR* only if opendir() refuses a directory that is
\* there, others changed the disk meanwhile, or the session's own directory is
\* gone or hidden by a "~"; and it shows what is not there only if others
\* changed the disk meanwhile, or for a link that leads nowhere.
THEOREM ListingIsExcused == Spec => ListingExcused
<1> DEFINE Excused ==
      /\ at' = "segv" => IsDir(MakePath(path)) \/ disturbed \/ ~IsDir(mPath) \/ ~Plain(mPath)
      /\ Ends /\ reply' = "garbled" =>
           disturbed \/ \E w \in Names : Append(path, w) \in dangling
<1>1. PathsInv /\ [Next]_vars => [Excused]_vars
  <2> SUFFICES ASSUME PathsInv, Next PROVE Excused
    OBVIOUS
  <2>1. at # "segv"
    BY DEF Next, Request, TryChangePath, Here, Up, Down, Arrive, Walking, Continue, OpenDirectory, ShowEntry,
           Known, Disturb, Finish, ChangeDirectory, Delete, MkDir, RmDir, Download, Upload, ListFile,
           ListNothing, OpenFails, ListDirectory
  <2> QED BY <2>1, ListingStep
<1> QED BY <1>1, PathsSafe, PTL DEF Spec, ListingExcused

\* A command that ends: what its argument names, and the node it acts on.
LEMMA EndsWhereMeant ==
  ASSUME PathsInv, [Next]_vars, Undisturbed, verb # "LIST"
  PROVE  /\ Finish
         /\ at \in {"act", "lost"}
         /\ at = "act" => Node = Meant(arg) /\ path \in dirs
         /\ at = "act" /\ verb = "CWD" => path = Meant(arg)
         /\ at = "lost" /\ verb = "CWD" => Meant(arg) \notin dirs
<1>1. TypeOK /\ OnTheWay /\ Control /\ Ends /\ ~disturbed /\ Plain(arg) /\ Plain(mPath) /\ IsDir(mPath)
  BY DEF PathsInv, Undisturbed
<1>2. Finish
  BY <1>1, EndsInFinish
<1>3. at = "lost" /\ verb = "CWD" => Meant(arg) \notin dirs
  BY <1>1 DEF OnTheWay
<1>4. ASSUME at = "act" PROVE Node = Meant(arg) /\ path \in dirs /\ (verb = "CWD" => path = Meant(arg))
  <2>1. path \in dirs /\ Reached(dirs, Reached(dirs, path, todo), name) = Meant(arg)
    BY <1>1, <1>4 DEF OnTheWay
  <2>2. todo = <<>> /\ (verb = "CWD" => name = <<>>)
    BY <1>1, <1>4 DEF Control
  <2>3. path \in Seq(Chars)
    BY <1>1, WordsAre DEF TypeOK
  <2>4. Reached(dirs, path, <<>>) = path
    BY <2>3, ReachedNone
  <2>5. Reached(dirs, path, name) = Meant(arg)
    BY <2>1, <2>2, <2>4
  <2>6. Node = Reached(dirs, path, name)
    BY <1>1, <1>4, <2>1, TargetIs
  <2>7. verb = "CWD" => path = Meant(arg)
    BY <2>2, <2>4, <2>5
  <2> QED BY <2>1, <2>5, <2>6, <2>7
<1>5. at \in {"act", "lost"}
  <2>1. at \notin {"entry", "entries"}
    BY <1>1 DEF Control
  <2> QED BY <1>2, <2>1 DEF Finish, ChangeDirectory, Delete, MkDir, RmDir, Download, Upload, ListFile,
                            ListNothing, OpenFails, ListDirectory, Known
<1> QED BY <1>2, <1>3, <1>4, <1>5

\* CWD goes where its argument leads from the directory that PWD prints, and
\* PWD prints where it went; it is refused if that is no directory.
THEOREM CwdFollows == Spec => CwdFollowsPwd
<1> DEFINE Follows ==
      IF Meant(arg) \in dirs
      THEN reply' = "done" /\ Resolve(mPath') = Meant(arg)
      ELSE reply' = "refused" /\ mPath' = mPath
<1>1. ASSUME PathsInv, [Next]_vars, Undisturbed, at' = "idle", verb = "CWD" PROVE Follows
  <2>1. Finish
    BY <1>1, EndsWhereMeant
  <2>2. ChangeDirectory
    <3>1. at \in {"act", "lost"}
      BY <1>1, EndsWhereMeant
    <3> QED BY <1>1, <2>1, <3>1 DEF Finish, Delete, MkDir, RmDir, Download, Upload, ListFile, ListNothing,
                              OpenFails, ListDirectory
  <2>3. CASE at = "act"
    <3>1. path = Meant(arg) /\ path \in dirs
      BY <1>1, <2>3, EndsWhereMeant
    <3>2. mPath' = MakePath(path) /\ reply' = "done"
      BY <1>1, <2>2, <2>3 DEF ChangeDirectory, Says
    <3>3. path \in Seq(Names) /\ path \in Seq(Words) /\ Tree(dirs)
      BY <1>1, WordsAre, DiskIsTree DEF PathsInv, TypeOK
    <3>4. Components(MakePath(path)) = path /\ Reached(dirs, <<>>, path) = path
      BY <3>1, <3>3, MadeIs, ReachedNode
    <3>5. Resolve(mPath') = path
      BY <3>2, <3>4 DEF Resolve
    <3> QED BY <3>1, <3>2, <3>5
  <2>4. CASE at = "lost"
    <3>1. Meant(arg) \notin dirs
      BY <1>1, <2>4, EndsWhereMeant
    <3>2. reply' = "refused" /\ mPath' = mPath
      BY <1>1, <2>2, <2>4 DEF ChangeDirectory, Says
    <3> QED BY <3>1, <3>2
  <2> QED BY <2>2, <2>3, <2>4 DEF ChangeDirectory, Known
<1>2. PathsInv /\ [Next]_vars => [Undisturbed /\ at' = "idle" /\ verb = "CWD" => Follows]_vars
  <2> HIDE DEF Follows
  <2> QED BY <1>1
<1> QED BY <1>2, PathsSafe, PTL DEF Spec, CwdFollowsPwd

\* DELE, MKD, RMD and STOR that say so have changed the one node that their
\* argument names from the directory PWD prints, also when a STOR says 425;
\* otherwise the disk is as it was.  Without a reply it is one or the other.
THEOREM ChangesTheNamed == Spec => ChangesWhatItNames
<1> DEFINE Changed ==
      CASE at' = "idle" /\ reply' \in {"done", "425"} -> Does(Meant(arg))
        [] at' = "idle" /\ reply' \notin {"done", "425"} -> UNCHANGED disk
        [] at' = "gone" -> Does(Meant(arg)) \/ UNCHANGED disk
<1>1. ASSUME PathsInv, [Next]_vars, Undisturbed, verb \in {"DELE", "MKD", "RMD", "STOR"}
      PROVE  Changed
  <2>1. Finish /\ at \in {"act", "lost"} /\ (at = "act" => Node = Meant(arg))
    BY <1>1, EndsWhereMeant
  <2>2. /\ at = "lost" => ~Named(Target) /\ Node \notin files
        /\ dirs \cap files = {}
    BY <1>1, TargetIs DEF PathsInv, TypeOK
  <2>3. /\ verb = "DELE" => Delete
        /\ verb = "MKD" => MkDir
        /\ verb = "RMD" => RmDir
        /\ verb = "STOR" => Download
    BY <1>1, <2>1 DEF Finish, ChangeDirectory, Delete, MkDir, RmDir, Download, Upload, ListFile, ListNothing,
                      OpenFails, ListDirectory
  <2>4. ASSUME NEW r, Says(r), r \in {"done", "425"}, Does(Meant(arg)) PROVE Changed
    BY <2>4 DEF Says
  <2>5. ASSUME NEW r, Says(r), r \in {"refused", "450"}, UNCHANGED disk PROVE Changed
    BY <2>5 DEF Says
  <2> HIDE DEF Changed
  <2>6. CASE verb = "DELE"
    <3>1. Delete
      BY <2>3, <2>6
    <3>2. CASE /\ Node \in files /\ files' = files \ {Node}
               /\ empty' = empty \ {Node} /\ dangling' = dangling \ {Node}
               /\ Says("done")
      <4>1. Node = Meant(arg)
        BY <2>1, <2>2, <3>2
      <4>2. Does(Meant(arg))
        BY <2>6, <3>1, <3>2, <4>1 DEF Does, Delete
      <4> QED BY <2>4, <3>2, <4>2
    <3>3. CASE UNCHANGED fileVars /\ Says("refused")
      BY <2>5, <3>1, <3>3 DEF Delete, disk
    <3> QED BY <3>1, <3>2, <3>3 DEF Delete
  <2>7. CASE verb = "MKD"
    <3>1. MkDir
      BY <2>3, <2>7
    <3>2. CASE at = "act" /\ Vacant(Target) /\ dirs' = dirs \cup {Node} /\ Says("done")
      <4>1. Node \notin dirs \cup files
        BY <3>2 DEF Vacant, Node
      <4>2. Does(Meant(arg))
        BY <2>1, <2>7, <3>1, <3>2, <4>1 DEF Does, MkDir
      <4> QED BY <2>4, <3>2, <4>2
    <3>3. CASE UNCHANGED dirs /\ Says("refused")
      BY <2>5, <3>1, <3>3 DEF MkDir, disk
    <3> QED BY <3>1, <3>2, <3>3 DEF MkDir
  <2>8. CASE verb = "RMD"
    <3>1. RmDir
      BY <2>3, <2>8
    <3>2. CASE at = "act" /\ Node \in dirs \ {<<>>} /\ dirs' = dirs \ {Node} /\ Says("done")
      <4>1. Does(Meant(arg))
        BY <2>1, <2>8, <3>1, <3>2 DEF Does, RmDir
      <4> QED BY <2>4, <3>2, <4>1
    <3>3. CASE UNCHANGED dirs /\ Says("refused")
      BY <2>5, <3>1, <3>3 DEF RmDir, disk
    <3> QED BY <3>1, <3>2, <3>3 DEF RmDir
  <2>9. CASE verb = "STOR"
    <3>1. Download
      BY <2>3, <2>9
    <3>2. CASE /\ Vacant(Target) \/ Node \in files
               /\ files' = files \cup {Node}
               /\ empty' = empty \cup {Node} /\ dangling' = dangling \ {Node}
               /\ Says("done") \/ Says("425")
      <4>1. at = "act"
        BY <2>1, <2>2, <3>2 DEF Vacant
      <4>2. Node \notin dirs
        BY <2>2, <3>2 DEF Vacant, Node
      <4>3. Does(Meant(arg))
        BY <2>1, <2>9, <3>1, <3>2, <4>1, <4>2 DEF Does, Download
      <4> QED BY <2>4, <3>2, <4>3
    <3>3. CASE UNCHANGED fileVars /\ Says("450")
      BY <2>5, <3>1, <3>3 DEF Download, disk
    <3> QED BY <3>1, <3>2, <3>3 DEF Download
  <2> QED BY <1>1, <2>6, <2>7, <2>8, <2>9
<1>2. PathsInv /\ [Next]_vars =>
        [Undisturbed /\ verb \in {"DELE", "MKD", "RMD", "STOR"} => Changed]_vars
  <2> HIDE DEF Changed
  <2> QED BY <1>1
<1> QED BY <1>2, PathsSafe, PTL DEF Spec, ChangesWhatItNames
=============================================================================
