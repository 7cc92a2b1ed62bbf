--------------------------- MODULE SequenceLemmas ---------------------------
(***************************************************************************)
(* Lemmas that the proofs about strings, tokens and buffers share: about   *)
(* induction, about functions that are defined by recursion over 0..n, and *)
(* about sequences.  Induction is stated for a set of numbers and recursion*)
(* for a step that is a function, so that a prover of first-order logic    *)
(* can use them.                                                           *)
(***************************************************************************)
EXTENDS Integers, SequencesExt, SequenceTheorems, WellFoundedInduction, TLAPS

\* A set of natural numbers that is not empty has a least member.
LEMMA LeastNumber ==
  ASSUME NEW T \in SUBSET Nat, T # {}
  PROVE  \E m \in T : \A k \in T : m <= k
<1> DEFINE R == OpToRel(<, Nat)
<1>1. \E x \in T : \A y \in T : <<y, x>> \notin R
  <2>1. IsWellFoundedOn(R, Nat)
    BY NatLessThanWellFounded
  <2> HIDE DEF R
  <2> QED BY <2>1, WFMin, Zenon
<1>2. \A x, y \in Nat : <<y, x>> \notin R => x <= y
  BY DEF OpToRel
<1> QED BY <1>1, <1>2

\* Induction: a set that holds 0 and, with each number below n, the next one.
LEMMA Induction ==
  ASSUME NEW n \in Nat, NEW P,
         0 \in P, \A i \in 1..n : i - 1 \in P => i \in P
  PROVE  \A i \in 0..n : i \in P
<1> SUFFICES ASSUME NEW x \in 0..n, x \notin P PROVE FALSE
  OBVIOUS
<1> DEFINE T == {i \in 0..n : i \notin P}
<1>1. PICK m \in T : \A k \in T : m <= k
  <2>1. T \in SUBSET Nat /\ x \in T
    OBVIOUS
  <2> HIDE DEF T
  <2> QED BY <2>1, LeastNumber
<1>2. m \in 1..n /\ m - 1 \in 0..n
  BY <1>1
<1> QED BY <1>1, <1>2

\* The function on 0..n with a first value and a step.
Solves(f, n, S, start, step) ==
  f \in [0..n -> S] /\ f[0] = start /\ \A i \in 1..n : f[i] = step[i][f[i - 1]]

\* It exists, and its values are where the step's are.
LEMMA RecursionDefines ==
  ASSUME NEW n \in Nat, NEW S, NEW start \in S, NEW step \in [1..n -> [S -> S]]
  PROVE  \E f : Solves(f, n, S, start, step)
<1> DEFINE Defines(f, k) == f[0] = start /\ \A i \in 1..k : f[i] = step[i][f[i - 1]]
           P == {k \in 0..n : \E f \in [0..k -> S] : Defines(f, k)}
<1>1. 0 \in P
  <2> DEFINE f == [i \in 0..0 |-> start]
  <2>1. f \in [0..0 -> S] /\ Defines(f, 0)
    OBVIOUS
  <2> HIDE DEF f, Defines
  <2> QED BY <2>1
<1>2. ASSUME NEW k \in 1..n, k - 1 \in P PROVE k \in P
  <2>1. PICK f \in [0..(k - 1) -> S] : Defines(f, k - 1)
    BY <1>2
  <2> DEFINE g == [i \in 0..k |-> IF i = k THEN step[k][f[k - 1]] ELSE f[i]]
  <2>2. g \in [0..k -> S]
    OBVIOUS
  <2>3. \A i \in 1..k : g[i] = step[i][g[i - 1]]
    BY <2>1
  <2>4. Defines(g, k)
    BY <2>1, <2>3
  <2> HIDE DEF g, Defines
  <2> QED BY <2>2, <2>4
<1>3. n \in P
  <2>1. \A k \in 1..n : k - 1 \in P => k \in P
    BY <1>2
  <2> HIDE DEF P
  <2>2. \A k \in 0..n : k \in P
    BY <1>1, <2>1, Induction
  <2> QED BY <2>2
<1> QED BY <1>3 DEF Solves

\* Two functions with the same first value and the same step are the same.
LEMMA RecursionUnique ==
  ASSUME NEW n \in Nat, NEW f, NEW g,
         f[0] = g[0], \A i \in 1..n : f[i - 1] = g[i - 1] => f[i] = g[i]
  PROVE  \A i \in 0..n : f[i] = g[i]
<1> DEFINE P == {i \in 0..n : f[i] = g[i]}
<1>1. 0 \in P /\ \A i \in 1..n : i - 1 \in P => i \in P
  OBVIOUS
<1>2. \A i \in 0..n : i \in P
  <2> HIDE DEF P
  <2> QED BY <1>1, Induction
<1> QED BY <1>2

-----------------------------------------------------------------------------
(* Sequences.                                                              *)

LEMMA ConcatIs ==
  ASSUME NEW S, NEW v \in Seq(S), NEW w \in Seq(S)
  PROVE  /\ v \o w \in Seq(S) /\ Len(v \o w) = Len(v) + Len(w)
         /\ \A i \in 1..Len(v) : (v \o w)[i] = v[i]
         /\ \A i \in 1..Len(w) : (v \o w)[Len(v) + i] = w[i]
  OBVIOUS

LEMMA ConcatOne ==
  ASSUME NEW S, NEW v \in Seq(S), NEW a \in S, NEW w \in Seq(S), NEW t, t = v \o (<<a>> \o w)
  PROVE  /\ t \in Seq(S) /\ Len(t) = Len(v) + 1 + Len(w)
         /\ \A i \in 1..Len(v) : t[i] = v[i]
         /\ t[Len(v) + 1] = a
         /\ \A i \in 1..Len(w) : t[Len(v) + 1 + i] = w[i]
  OBVIOUS

LEMMA SuffixIs ==
  ASSUME NEW S, NEW t \in Seq(S), NEW n \in 0..Len(t)
  PROVE  LET u == SubSeq(t, n + 1, Len(t)) IN
         /\ u \in Seq(S) /\ Len(u) = Len(t) - n
         /\ \A i \in 1..(Len(t) - n) : u[i] = t[n + i]
  OBVIOUS

LEMMA PrefixIs ==
  ASSUME NEW S, NEW t \in Seq(S), NEW n \in 0..Len(t)
  PROVE  LET u == SubSeq(t, 1, n) IN
         /\ u \in Seq(S) /\ Len(u) = n
         /\ \A i \in 1..n : u[i] = t[i]
  OBVIOUS

\* A piece of a sequence.
LEMMA PieceIs ==
  ASSUME NEW S, NEW z \in Seq(S), NEW b \in 0..Len(z), NEW a \in 0..b
  PROVE  LET u == SubSeq(z, a + 1, b) IN
         /\ u \in Seq(S) /\ Len(u) = b - a
         /\ \A i \in 1..(b - a) : u[i] = z[a + i]
<1>1. a + 1 \in Int /\ b \in Int /\ \A i \in (a + 1)..b : z[i] \in S
  OBVIOUS
<1>2. LET u == SubSeq(z, a + 1, b) IN
      /\ u \in Seq(S) /\ Len(u) = (IF a + 1 <= b THEN b - (a + 1) + 1 ELSE 0)
      /\ \A i \in 1..(b - (a + 1) + 1) : u[i] = z[a + 1 + i - 1]
  BY <1>1, SubSeqProperties
<1> QED BY <1>1, <1>2

LEMMA SameSeq ==
  ASSUME NEW S, NEW T, NEW v \in Seq(S), NEW w \in Seq(T), Len(v) = Len(w),
         \A i \in 1..Len(v) : v[i] = w[i]
  PROVE  v = w
  OBVIOUS

LEMMA FrontIs ==
  ASSUME NEW S, NEW q \in Seq(S), q # <<>>
  PROVE  /\ Front(q) \in Seq(S) /\ Len(Front(q)) = Len(q) - 1 /\ Len(q) \in Nat \ {0}
         /\ \A i \in 1..(Len(q) - 1) : Front(q)[i] = q[i]
         /\ Last(q) = q[Len(q)] /\ Last(q) \in S /\ q = Append(Front(q), Last(q))
<1>1. Len(q) \in Nat \ {0} /\ q[Len(q)] \in S
  BY EmptySeq
<1>2. /\ Front(q) \in Seq(S) /\ Len(Front(q)) = Len(q) - 1
      /\ \A i \in 1..(Len(q) - 1) : Front(q)[i] = q[i]
  <2>1. Len(q) - 1 \in 0..Len(q)
    BY <1>1
  <2> QED BY <2>1, PrefixIs DEF Front
<1> QED BY <1>1, <1>2 DEF Last

LEMMA FrontAppend ==
  ASSUME NEW S, NEW v \in Seq(S), NEW w \in S
  PROVE  Append(v, w) \in Seq(S) /\ Append(v, w) # <<>> /\ Front(Append(v, w)) = v /\ Last(Append(v, w)) = w
<1>1. PICK u : u = Append(v, w)
  OBVIOUS
<1>2. u \in Seq(S) /\ Len(u) = Len(v) + 1 /\ u[Len(v) + 1] = w /\ (\A i \in 1..Len(v) : u[i] = v[i]) /\ Len(v) \in Nat
  BY <1>1, AppendProperties
<1>3. u # <<>>
  BY <1>2
<1>4. Len(Front(u)) = Len(v) /\ Front(u) \in Seq(S) /\ \A i \in 1..Len(v) : Front(u)[i] = v[i]
  <2>1. Front(u) \in Seq(S) /\ Len(Front(u)) = Len(u) - 1 /\ \A i \in 1..(Len(u) - 1) : Front(u)[i] = u[i]
    BY <1>2, <1>3, FrontIs
  <2> QED BY <1>2, <2>1
<1>5. Front(u) = v
  BY <1>4, SameSeq
<1>6. Last(u) = w
  BY <1>2 DEF Last
<1> QED BY <1>1, <1>2, <1>3, <1>5, <1>6

\* The front of a sequence up to an element.
LEMMA PrefixGrows ==
  ASSUME NEW S, NEW q \in Seq(S), NEW k \in 1..Len(q)
  PROVE  SubSeq(q, 1, k) = Append(SubSeq(q, 1, k - 1), q[k])
<1>1. PICK u, v, x : u = SubSeq(q, 1, k) /\ v = SubSeq(q, 1, k - 1) /\ x = Append(v, q[k])
  OBVIOUS
<1>2. k \in 0..Len(q) /\ k - 1 \in 0..Len(q) /\ q[k] \in S /\ k \in Nat
  OBVIOUS
<1>3. u \in Seq(S) /\ Len(u) = k /\ \A i \in 1..k : u[i] = q[i]
  BY <1>1, <1>2, PrefixIs
<1>4. v \in Seq(S) /\ Len(v) = k - 1 /\ \A i \in 1..(k - 1) : v[i] = q[i]
  BY <1>1, <1>2, PrefixIs
<1>5. x \in Seq(S) /\ Len(x) = k /\ x[k] = q[k] /\ \A i \in 1..(k - 1) : x[i] = v[i]
  <2>1. /\ x \in Seq(S) /\ Len(x) = Len(v) + 1 /\ x[Len(v) + 1] = q[k]
        /\ \A i \in 1..Len(v) : x[i] = v[i]
    BY <1>1, <1>2, <1>4, AppendProperties
  <2> QED BY <1>2, <1>4, <2>1
<1>6. \A i \in 1..Len(u) : u[i] = x[i]
  BY <1>2, <1>3, <1>4, <1>5
<1>7. u = x
  BY <1>3, <1>5, <1>6, SameSeq
<1> QED BY <1>1, <1>7

\* What follows a piece makes it longer.
LEMMA PiecesJoin ==
  ASSUME NEW S, NEW z \in Seq(S), NEW c \in 0..Len(z), NEW b \in 0..c, NEW a \in 0..b
  PROVE  SubSeq(z, a + 1, b) \o SubSeq(z, b + 1, c) = SubSeq(z, a + 1, c)
<1>1. PICK u, v, w : u = SubSeq(z, a + 1, b) /\ v = SubSeq(z, b + 1, c) /\ w = SubSeq(z, a + 1, c)
  OBVIOUS
<1>2. /\ a \in Nat /\ b \in Nat /\ c \in Nat /\ a <= b /\ b <= c
      /\ b \in 0..Len(z) /\ a \in 0..c
  OBVIOUS
<1>3. u \in Seq(S) /\ Len(u) = b - a /\ \A i \in 1..(b - a) : u[i] = z[a + i]
  BY <1>1, <1>2, PieceIs
<1>4. v \in Seq(S) /\ Len(v) = c - b /\ \A i \in 1..(c - b) : v[i] = z[b + i]
  BY <1>1, <1>2, PieceIs
<1>5. w \in Seq(S) /\ Len(w) = c - a /\ \A i \in 1..(c - a) : w[i] = z[a + i]
  BY <1>1, <1>2, PieceIs
<1>6. PICK x : x = u \o v
  OBVIOUS
<1>7. /\ x \in Seq(S) /\ Len(x) = Len(u) + Len(v) /\ \A i \in 1..Len(u) : x[i] = u[i]
      /\ \A i \in 1..Len(v) : x[Len(u) + i] = v[i]
  <2>1. u \in Seq(S) /\ v \in Seq(S)
    BY <1>3, <1>4
  <2> QED BY <1>6, <2>1, ConcatIs
<1>8. \A i \in 1..(c - a) : x[i] = w[i]
  <2> SUFFICES ASSUME NEW i \in 1..(c - a) PROVE x[i] = w[i]
    OBVIOUS
  <2>1. CASE i <= b - a
    BY <1>2, <1>3, <1>5, <1>7, <2>1
  <2>2. CASE i > b - a
    <3>1. PICK k : k = i - (b - a)
      OBVIOUS
    <3>2. k \in 1..(c - b) /\ Len(u) + k = i /\ b + k = a + i
      BY <1>2, <1>3, <2>2, <3>1
    <3>3. x[i] = v[k] /\ v[k] = z[a + i]
      BY <1>4, <1>7, <3>2
    <3> QED BY <1>5, <3>3
  <2> QED BY <1>2, <2>1, <2>2
<1>9. Len(x) = Len(w)
  BY <1>2, <1>3, <1>4, <1>5, <1>7
<1>10. x = w
  BY <1>5, <1>7, <1>8, <1>9, SameSeq
<1> QED BY <1>1, <1>6, <1>10

\* The first byte of a piece, and the rest.
LEMMA PieceHead ==
  ASSUME NEW S, NEW z \in Seq(S), NEW b \in 0..Len(z), NEW a \in 0..(b - 1)
  PROVE  LET u == SubSeq(z, a + 1, b) IN
         u # <<>> /\ Head(u) = z[a + 1] /\ Tail(u) = SubSeq(z, (a + 1) + 1, b) /\ Len(Tail(u)) = Len(u) - 1
<1>1. PICK u, v : u = SubSeq(z, a + 1, b) /\ v = SubSeq(z, (a + 1) + 1, b)
  OBVIOUS
<1>2. a \in 0..b /\ a + 1 \in 0..b /\ a \in Nat /\ b \in Nat /\ 1 \in 1..(b - a) /\ b - a > 0
  OBVIOUS
<1>3. u \in Seq(S) /\ Len(u) = b - a /\ \A i \in 1..(b - a) : u[i] = z[a + i]
  BY <1>1, <1>2, PieceIs
<1>4. v \in Seq(S) /\ Len(v) = b - (a + 1) /\ \A i \in 1..(b - (a + 1)) : v[i] = z[(a + 1) + i]
  BY <1>1, <1>2, PieceIs
<1>5. u # <<>> /\ Head(u) = u[1]
  BY <1>2, <1>3
<1>6. PICK t : t = Tail(u)
  OBVIOUS
<1>7. t \in Seq(S) /\ Len(t) = Len(u) - 1 /\ \A i \in 1..(Len(u) - 1) : t[i] = u[i + 1]
  BY <1>3, <1>5, <1>6
<1>8. Len(t) = Len(v)
  BY <1>2, <1>3, <1>4, <1>7
<1>9. \A i \in 1..Len(t) : t[i] = v[i]
  <2> SUFFICES ASSUME NEW i \in 1..Len(t) PROVE t[i] = v[i]
    OBVIOUS
  <2>1. i \in 1..(b - (a + 1)) /\ i + 1 \in 1..(b - a) /\ a + (i + 1) = (a + 1) + i
        /\ i \in 1..(Len(u) - 1)
    BY <1>2, <1>3, <1>7
  <2> QED BY <1>3, <1>4, <1>7, <2>1
<1>10. t = v
  BY <1>4, <1>7, <1>8, <1>9, SameSeq
<1> QED BY <1>1, <1>2, <1>3, <1>5, <1>6, <1>7, <1>10

\* A piece of a sequence that another one is part of.
LEMMA Window ==
  ASSUME NEW S, NEW z \in Seq(S), NEW c \in Seq(S), NEW o \in Nat, NEW j \in 0..Len(c),
         o + Len(c) <= Len(z), \A i \in 1..Len(c) : z[o + i] = c[i]
  PROVE  SubSeq(z, o + 1, o + j) = SubSeq(c, 1, j)
<1> DEFINE u == SubSeq(z, o + 1, o + j)
           v == SubSeq(c, 1, j)
<1>1. v \in Seq(S) /\ Len(v) = j /\ \A i \in 1..j : v[i] = c[i]
  BY PrefixIs
<1>2. Len(c) \in Nat /\ Len(z) \in Nat /\ j \in Nat /\ \A i \in 1..j : i \in 1..Len(c)
  OBVIOUS
<1>3. \A i \in (o + 1)..(o + j) : z[i] \in S
  BY <1>2
<1>4. o + 1 \in Int /\ o + j \in Int /\ (o + j) - (o + 1) + 1 = j /\ (~(o + 1 <= o + j) => j = 0)
      /\ \A i \in 1..j : o + 1 + i - 1 = o + i
  BY <1>2
<1>5. /\ u \in Seq(S) /\ Len(u) = (IF o + 1 <= o + j THEN (o + j) - (o + 1) + 1 ELSE 0)
      /\ \A i \in 1..((o + j) - (o + 1) + 1) : u[i] = z[o + 1 + i - 1]
  BY <1>3, <1>4, SubSeqProperties
<1> HIDE DEF u, v
<1>6. Len(u) = j /\ \A i \in 1..j : u[i] = z[o + i]
  BY <1>4, <1>5
<1>7. u = v
  BY <1>1, <1>2, <1>5, <1>6, SameSeq
<1> QED BY <1>7 DEF u, v

\* Pieces of no element, of one and of two.
LEMMA OneOrTwo ==
  ASSUME NEW S, NEW c \in Seq(S)
  PROVE  /\ SubSeq(c, 1, 0) = <<>>
         /\ Len(c) >= 1 => SubSeq(c, 1, 1) = <<c[1]>>
         /\ Len(c) >= 2 => SubSeq(c, 1, 2) = <<c[1], c[2]>>
<1>1. Len(c) \in Nat
  OBVIOUS
<1>2. SubSeq(c, 1, 0) = <<>>
  <2>1. SubSeq(c, 1, 0) \in Seq(S) /\ Len(SubSeq(c, 1, 0)) = 0
    BY <1>1, PrefixIs
  <2> QED BY <2>1
<1>3. ASSUME Len(c) >= 1 PROVE SubSeq(c, 1, 1) = <<c[1]>>
  <2>1. PICK u, v : u = SubSeq(c, 1, 1) /\ v = <<c[1]>>
    OBVIOUS
  <2>2. 1 \in 0..Len(c) /\ 1 \in 1..Len(c)
    BY <1>1, <1>3
  <2>3. u \in Seq(S) /\ Len(u) = 1 /\ \A i \in 1..1 : u[i] = c[i]
    BY <2>1, <2>2, PrefixIs
  <2>4. v \in Seq(S) /\ Len(v) = 1 /\ v[1] = c[1]
    BY <2>1, <2>2
  <2>5. \A i \in 1..Len(u) : u[i] = v[i]
    BY <2>3, <2>4
  <2>6. u = v
    BY <2>3, <2>4, <2>5, SameSeq
  <2> QED BY <2>1, <2>6
<1>4. ASSUME Len(c) >= 2 PROVE SubSeq(c, 1, 2) = <<c[1], c[2]>>
  <2>1. PICK u, v : u = SubSeq(c, 1, 2) /\ v = <<c[1], c[2]>>
    OBVIOUS
  <2>2. 2 \in 0..Len(c) /\ 1 \in 1..Len(c) /\ 2 \in 1..Len(c)
    BY <1>1, <1>4
  <2>3. u \in Seq(S) /\ Len(u) = 2 /\ \A i \in 1..2 : u[i] = c[i]
    BY <2>1, <2>2, PrefixIs
  <2>4. v \in Seq(S) /\ Len(v) = 2 /\ v[1] = c[1] /\ v[2] = c[2]
    BY <2>1, <2>2
  <2>5. \A i \in 1..Len(u) : u[i] = v[i]
    BY <2>3, <2>4
  <2>6. u = v
    BY <2>3, <2>4, <2>5, SameSeq
  <2> QED BY <2>1, <2>6
<1> QED BY <1>2, <1>3, <1>4

LEMMA Appended ==
  ASSUME NEW S, NEW a \in S, NEW b \in S
  PROVE  Append(<<a>>, b) = <<a, b>>
<1>1. PICK u, v, w : u = <<a>> /\ v = Append(u, b) /\ w = <<a, b>>
  OBVIOUS
<1>2. u \in Seq(S) /\ Len(u) = 1 /\ u[1] = a
  BY <1>1
<1>3. v \in Seq(S) /\ Len(v) = 2 /\ v[1] = a /\ v[2] = b
  BY <1>1, <1>2, AppendProperties
<1>4. w \in Seq(S) /\ Len(w) = 2 /\ w[1] = a /\ w[2] = b
  BY <1>1
<1>5. v = w
  BY <1>3, <1>4, SameSeq
<1> QED BY <1>1, <1>5

LEMMA Joined ==
  ASSUME NEW S, NEW a \in S, NEW b \in S, NEW c \in S, NEW d \in S
  PROVE  /\ <<a, b>> \o <<c>> = <<a, b, c>> /\ (<<a, b>> \o <<c>>) \o <<d>> = <<a, b, c, d>>
         /\ <<a, b>> \o <<>> = <<a, b>>
<1>1. <<a, b>> \in Seq(S) /\ <<c>> \in Seq(S) /\ <<d>> \in Seq(S) /\ <<a, b, c>> \in Seq(S)
  OBVIOUS
<1>2. <<a, b>> \o <<c>> = <<a, b, c>>
  <2>1. PICK t : t = <<a, b>> \o <<c>>
    OBVIOUS
  <2>2. t \in Seq(S) /\ Len(t) = 3 /\ t[1] = a /\ t[2] = b /\ t[3] = c
    BY <1>1, <2>1
  <2>3. t = <<t[1], t[2], t[3]>>
    BY <2>2
  <2> QED BY <2>1, <2>2, <2>3
<1>3. <<a, b, c>> \o <<d>> = <<a, b, c, d>>
  <2>1. PICK t : t = <<a, b, c>> \o <<d>>
    OBVIOUS
  <2>2. t \in Seq(S) /\ Len(t) = 4 /\ t[1] = a /\ t[2] = b /\ t[3] = c /\ t[4] = d
    BY <1>1, <2>1
  <2>3. t = <<t[1], t[2], t[3], t[4]>>
    BY <2>2
  <2> QED BY <2>1, <2>2, <2>3
<1>4. <<a, b>> \o <<>> = <<a, b>>
  BY <1>1, ConcatEmptySeq
<1> QED BY <1>2, <1>3, <1>4

LEMMA PairBehind ==
  ASSUME NEW S, NEW m \in Seq(S), NEW a \in S, NEW b \in S
  PROVE  /\ m \o <<a, b>> \in Seq(S) /\ Len(m \o <<a, b>>) = Len(m) + 2
         /\ (m \o <<a, b>>)[Len(m) + 1] = a /\ (m \o <<a, b>>)[Len(m) + 2] = b
         /\ \A i \in 1..Len(m) : (m \o <<a, b>>)[i] = m[i]
<1>1. PICK w, y : w = <<a, b>> /\ y = m \o w
  OBVIOUS
<1>2. w \in Seq(S) /\ Len(w) = 2 /\ w[1] = a /\ w[2] = b
  BY <1>1
<1>3. y \in Seq(S) /\ Len(y) = Len(m) + Len(w) /\ \A i \in 1..Len(m) : y[i] = m[i]
  BY <1>1, <1>2, ConcatIs
<1>4. \A i \in 1..Len(w) : y[Len(m) + i] = w[i]
  BY <1>1, <1>2, ConcatIs
<1>5. 1 \in 1..Len(w) /\ 2 \in 1..Len(w)
  BY <1>2
<1>6. y[Len(m) + 1] = a /\ y[Len(m) + 2] = b
  BY <1>2, <1>4, <1>5
<1>7. y = m \o <<a, b>>
  BY <1>1
<1> QED BY <1>2, <1>3, <1>6, <1>7

LEMMA ConcatTwo ==
  ASSUME NEW S, NEW m \in Seq(S), NEW a \in S, NEW b \in S
  PROVE  (m \o <<a>>) \o <<b>> = m \o <<a, b>>
<1>1. PICK u, v, w, p, x, y : /\ u = <<a>> /\ v = <<b>> /\ w = <<a, b>> /\ p = m \o u
                              /\ x = p \o v /\ y = m \o w
  OBVIOUS
<1>2. /\ u \in Seq(S) /\ Len(u) = 1 /\ u[1] = a /\ v \in Seq(S) /\ Len(v) = 1 /\ v[1] = b
      /\ w \in Seq(S) /\ Len(w) = 2 /\ w[1] = a /\ w[2] = b
  BY <1>1
<1>3. /\ p \in Seq(S) /\ Len(p) = Len(m) + 1 /\ p[Len(m) + 1] = a /\ \A i \in 1..Len(m) : p[i] = m[i]
  BY <1>1
<1>4. /\ x \in Seq(S) /\ Len(x) = Len(m) + 2 /\ x[Len(m) + 1] = a /\ x[Len(m) + 2] = b
      /\ \A i \in 1..Len(m) : x[i] = m[i]
  <2>1. x \in Seq(S) /\ Len(x) = Len(p) + 1 /\ x[Len(p) + 1] = b /\ \A i \in 1..Len(p) : x[i] = p[i]
    BY <1>1, <1>3
  <2> QED BY <1>3, <2>1
<1>5. /\ y \in Seq(S) /\ Len(y) = Len(m) + 2 /\ y[Len(m) + 1] = a /\ y[Len(m) + 2] = b
      /\ \A i \in 1..Len(m) : y[i] = m[i]
  BY <1>1, PairBehind
<1>6. \A i \in 1..Len(x) : x[i] = y[i]
  <2> SUFFICES ASSUME NEW i \in 1..Len(x) PROVE x[i] = y[i]
    OBVIOUS
  <2>1. i \in 1..Len(m) \/ i = Len(m) + 1 \/ i = Len(m) + 2
    BY <1>4
  <2> QED BY <1>4, <1>5, <2>1
<1>7. x = y
  BY <1>4, <1>5, <1>6, SameSeq
<1> QED BY <1>1, <1>7
=============================================================================
