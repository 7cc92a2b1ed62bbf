--------------------------- MODULE TransferProofs ---------------------------
(***************************************************************************)
(* Proofs about module Transfer: the types, and that the bytes of every    *)
(* transfer are copied reliably, for every size of the buffers, every      *)
(* capacity of the connection and every file.                              *)
(***************************************************************************)
EXTENDS Transfer, SequenceTheorems, TLAPS

(* Stretches of the stream.                                                *)

LEMMA StretchFacts ==
  ASSUME NEW a \in Nat, NEW b \in Nat, a <= b
  PROVE  /\ Stretch(a, b) \in Seq(Nat)
         /\ Len(Stretch(a, b)) = b - a
         /\ \A i \in 1..(b - a) : Stretch(a, b)[i] = a + i
  BY DEF Stretch

LEMMA EmptyFrom == ASSUME NEW a \in Nat PROVE From(a, <<>>)
  BY DEF From, Stretch

\* A part of the stream that ends inside it is a sequence of its bytes.
LEMMA FromTyped ==
  ASSUME NEW a \in Nat, NEW q \in Seq(Nat), From(a, q), a + Len(q) <= MaxSize
  PROVE  q \in Seq(Bytes)
<1>1. \A i \in 1..Len(q) : q[i] \in Bytes
  BY TransferAssumption DEF From, Stretch, Bytes
<1>2. QED
  BY <1>1

LEMMA Join ==
  ASSUME NEW a \in Nat, NEW q \in Seq(Nat), NEW r \in Seq(Nat),
         From(a, q), From(a + Len(q), r)
  PROVE  /\ q \o r \in Seq(Nat)
         /\ Len(q \o r) = Len(q) + Len(r)
         /\ From(a, q \o r)
<1> DEFINE c == Stretch(a, a + Len(q) + Len(r))
<1>1. /\ q \o r \in Seq(Nat)
      /\ Len(q \o r) = Len(q) + Len(r)
      /\ \A i \in 1..(Len(q) + Len(r)) :
           (q \o r)[i] = IF i <= Len(q) THEN q[i] ELSE r[i - Len(q)]
  BY ConcatProperties
<1>2. \A i \in 1..Len(q) : q[i] = a + i
  BY DEF From, Stretch
<1>3. \A i \in 1..Len(r) : r[i] = a + Len(q) + i
  BY DEF From, Stretch
<1>4. /\ c \in Seq(Nat) /\ Len(c) = Len(q) + Len(r)
      /\ \A i \in 1..(Len(q) + Len(r)) : c[i] = a + i
  BY DEF Stretch
<1>5. ASSUME NEW i \in 1..Len(q \o r) PROVE (q \o r)[i] = c[i]
  <2>1. CASE i <= Len(q)
    BY <1>1, <1>2, <1>4, <1>5, <2>1
  <2>2. CASE ~(i <= Len(q))
    <3>1. i - Len(q) \in 1..Len(r)
      BY <1>1, <1>5, <2>2
    <3>2. r[i - Len(q)] = a + Len(q) + (i - Len(q))
      BY <1>3, <3>1
    <3>3. QED
      BY <1>1, <1>4, <1>5, <2>2, <3>2
  <2>3. QED
    BY <2>1, <2>2
<1>6. q \o r = c
  BY <1>1, <1>4, <1>5, SeqEqual
<1>7. QED
  BY <1>1, <1>6 DEF From

LEMMA Cut ==
  ASSUME NEW a \in Nat, NEW q \in Seq(Nat), From(a, q), NEW n \in 0..Len(q)
  PROVE  /\ Take(q, n) \in Seq(Nat) /\ Len(Take(q, n)) = n
         /\ From(a, Take(q, n))
         /\ Drop(q, n) \in Seq(Nat) /\ Len(Drop(q, n)) = Len(q) - n
         /\ From(a + n, Drop(q, n))
<1>1. \A i \in 1..Len(q) : q[i] = a + i
  BY DEF From, Stretch
<1>2. /\ Take(q, n) \in Seq(Nat) /\ Len(Take(q, n)) = n
      /\ \A i \in 1..n : Take(q, n)[i] = a + i
  BY <1>1 DEF Take
<1>3. /\ Drop(q, n) \in Seq(Nat) /\ Len(Drop(q, n)) = Len(q) - n
      /\ \A i \in 1..(Len(q) - n) : Drop(q, n)[i] = a + n + i
  BY <1>1 DEF Drop
<1>4. /\ Stretch(a, a + n) \in Seq(Nat) /\ Len(Stretch(a, a + n)) = n
      /\ \A i \in 1..n : Stretch(a, a + n)[i] = a + i
  BY DEF Stretch
<1>5. /\ Stretch(a + n, a + Len(q)) \in Seq(Nat)
      /\ Len(Stretch(a + n, a + Len(q))) = Len(q) - n
      /\ \A i \in 1..(Len(q) - n) : Stretch(a + n, a + Len(q))[i] = a + n + i
  BY DEF Stretch
<1>6. Take(q, n) = Stretch(a, a + n)
  BY <1>2, <1>4, SeqEqual
<1>7. Drop(q, n) = Stretch(a + n, a + Len(q))
  BY <1>3, <1>5, SeqEqual
<1>8. QED
  BY <1>2, <1>3, <1>6, <1>7 DEF From

\* Of two parts from the beginning the shorter is a prefix of the longer.
LEMMA Beginnings ==
  ASSUME NEW q \in Seq(Nat), NEW r \in Seq(Nat), From(0, q), From(0, r), Len(q) <= Len(r)
  PROVE  IsPrefix(q, r)
<1>1. Take(r, Len(q)) = Stretch(0, Len(q)) /\ Take(q, Len(q)) = Stretch(0, Len(q))
  <2>1. From(0, Take(r, Len(q))) /\ Len(Take(r, Len(q))) = Len(q)
    BY Cut
  <2>2. From(0, Take(q, Len(q))) /\ Len(Take(q, Len(q))) = Len(q)
    BY Cut
  <2>3. QED
    BY <2>1, <2>2 DEF From
<1>2. QED
  BY <1>1 DEF IsPrefix, Take

-----------------------------------------------------------------------------
(* The invariant.                                                          *)

\* What the invariant says of the numbers and the sequences, spelled out.
LEMMA Numbers ==
  ASSUME TypeOK
  PROVE  /\ BufSize \in Nat \ {0} /\ Capacity \in Nat \ {0} /\ StdioSize \in Nat
         /\ MaxSize \in Nat /\ MaxSpace \in Nat
         /\ size \in Nat /\ size <= MaxSize /\ offset \in Nat /\ offset <= size
         /\ taken \in Nat /\ got \in Nat /\ got <= size
         /\ total \in Nat /\ space \in Nat
         /\ secBuf \in Seq(Nat) /\ Len(secBuf) \in Nat
         /\ buf \in Seq(Nat) /\ Len(buf) \in Nat
         /\ handed \in Seq(Nat) /\ Len(handed) \in Nat
         /\ stdio \in Seq(Nat) /\ Len(stdio) \in Nat
         /\ disk \in Seq(Nat) /\ Len(disk) \in Nat
<1>1. ASSUME NEW q \in Seq(Bytes) PROVE q \in Seq(Nat) /\ Len(q) \in Nat
  <2>1. Bytes \subseteq Nat
    BY TransferAssumption DEF Bytes
  <2>2. q \in Seq(Nat)
    BY <2>1, SeqMonotonic
  <2>3. QED
    BY <2>2, LenProperties
<1>2. QED
  BY <1>1, TransferAssumption DEF TypeOK

LEMMA InitInv == Init => TInv
<1> SUFFICES ASSUME Init PROVE TInv
  OBVIOUS
<1>1. From(0, <<>>)
  BY EmptyFrom
<1>2. <<>> \in Seq(Bytes) /\ Len(<<>>) = 0
  OBVIOUS
<1>3. TypeOK
  <2>1. size \in 0..MaxSize /\ space \in 0..MaxSpace
    BY TransferAssumption DEF Init
  <2>2. \A q \in {secBuf, buf, handed, stdio, disk} : q \in Seq(Bytes)
    BY <1>2 DEF Init
  <2>3. /\ offset \in 0..size /\ taken \in 0..Len(handed) /\ got \in 0..size
        /\ Len(secBuf) <= BufSize /\ Len(buf) <= BufSize
        /\ total \in 0..BufSize /\ Len(stdio) <= StdioSize
        /\ Len(handed) - taken <= Capacity
    BY <1>2, <2>1, TransferAssumption DEF Init
  <2>4. QED
    BY <2>1, <2>2, <2>3 DEF Init, TypeOK, Outcomes
<1>4. SendInv /\ ReceiveInv /\ AtInv
  BY <1>1, <1>2 DEF Init, SendInv, ReceiveInv, AtInv
<1>5. QED
  BY <1>3, <1>4 DEF TInv

LEMMA ReadBufferInv == ASSUME TInv, ReadBuffer PROVE TInv'
<1>1. TypeOK /\ SendInv /\ ReceiveInv /\ AtInv
  BY DEF TInv
<1>2. PICK n \in 0..Available :
        /\ faulty' = (faulty \/ n < Available)
        /\ buf' = secBuf \o Stretch(offset, offset + n)
        /\ offset' = offset + n
  BY DEF ReadBuffer
<1>3. /\ n \in Nat
      /\ n + Len(secBuf) <= BufSize
      /\ offset + n <= size
  <2>1. Available = BufSize - Len(secBuf) \/ Available = size - offset
    BY DEF Available, Least
  <2>2. Available <= BufSize - Len(secBuf) /\ Available <= size - offset
    BY <1>1, Numbers, SMTT(60) DEF Available, Least, TypeOK
  <2>3. Available \in Int
    BY <1>1, <2>1, Numbers DEF TypeOK
  <2>4. QED
    BY <1>1, <2>2, <2>3, Numbers DEF TypeOK
<1> DEFINE more == Stretch(offset, offset + n)
<1>4. more \in Seq(Nat) /\ Len(more) = n /\ From(offset, more)
  <2>1. offset \in Nat /\ offset + n \in Nat /\ offset <= offset + n
    BY <1>1, <1>3, Numbers, SMTT(60)
  <2>2. more \in Seq(Nat) /\ Len(more) = (offset + n) - offset
    BY <2>1, StretchFacts
  <2>3. Len(more) = n
    BY <1>3, <2>1, <2>2
  <2>4. QED
    BY <2>2, <2>3 DEF From
<1>5. /\ outcome = "open" /\ kind # "store" /\ at = "select" /\ buf = <<>>
      /\ Len(handed) + Len(secBuf) = offset
      /\ From(Len(handed), secBuf)
  <2>1. outcome = "open" /\ kind # "store" /\ at = "select"
    BY DEF ReadBuffer
  <2>2. buf = <<>> /\ Len(buf) = 0
    BY <1>1, <2>1 DEF SendInv
  <2>3. QED
    BY <1>1, <2>1, <2>2, Numbers DEF SendInv
<1>6. /\ buf' \in Seq(Nat) /\ Len(buf') = Len(secBuf) + n
      /\ From(Len(handed), buf')
  <2>1. /\ secBuf \in Seq(Nat) /\ Len(handed) \in Nat
        /\ From(Len(handed) + Len(secBuf), more)
    BY <1>1, <1>4, <1>5, Numbers
  <2>2. /\ secBuf \o more \in Seq(Nat)
        /\ Len(secBuf \o more) = Len(secBuf) + Len(more)
        /\ From(Len(handed), secBuf \o more)
    BY <1>4, <1>5, <2>1, Join
  <2>3. QED
    BY <1>2, <1>4, <2>2
<1>7. buf' \in Seq(Bytes)
  <2>1. Len(handed) \in Nat /\ Len(handed) + Len(buf') <= MaxSize
    BY <1>1, <1>3, <1>5, <1>6, Numbers, SMTT(60)
  <2>2. QED
    BY <1>6, <2>1, FromTyped
<1>8. /\ secBuf' = <<>> /\ Len(secBuf') = 0
      /\ UNCHANGED <<kind, clientVars, handed, receiveVars>>
      /\ \/ buf' = <<>> /\ at' = "closing" /\ outcome' \in {"226", "dropped"}
         \/ buf' # <<>> /\ at' = "send" /\ outcome' = "open"
      /\ faulty' \in BOOLEAN
  BY <1>1, <1>2, <1>5 DEF ReadBuffer, Concludes, TypeOK
<1>9. TypeOK'
  <2>1. secBuf' \in Seq(Bytes)
    BY <1>8
  <2>2. Len(buf') <= BufSize /\ offset' \in 0..size
    <3>1. Len(secBuf) \in Nat /\ offset \in Nat /\ size \in Nat
      BY <1>1, Numbers
    <3>2. QED
      BY <1>2, <1>3, <1>6, <3>1
  <2>3. QED
    BY <1>1, <1>7, <1>8, <2>1, <2>2, Numbers
       DEF TypeOK, clientVars, receiveVars, Outcomes
<1>10. SendInv'
  <2>1. From(Len(handed) + Len(buf'), <<>>)
    BY <1>1, <1>6, EmptyFrom, Numbers
  <2>2. Len(handed) + Len(buf') + Len(secBuf') = offset'
    <3>1. Len(secBuf) \in Nat /\ offset \in Nat /\ Len(handed) \in Nat
      BY <1>1, Numbers
    <3>2. offset' = offset + n /\ Len(secBuf') = 0 /\ n \in Nat
      BY <1>2, <1>3, <1>8
    <3>3. Len(handed) + Len(secBuf) = offset /\ Len(buf') = Len(secBuf) + n
      BY <1>5, <1>6
    <3>4. QED
      BY <3>1, <3>2, <3>3
  <2>3. UNCHANGED <<kind, handed>> /\ kind # "store"
    BY <1>5, <1>8
  <2>4. offset' \in Nat
    BY <1>1, <1>2, <1>3, Numbers, SMTT(60)
  <2>5. outcome' = "open" => at' = "send" /\ buf' # <<>>
    BY <1>8
  <2>6. QED
    BY <1>1, <1>6, <1>8, <2>1, <2>2, <2>3, <2>4, <2>5 DEF SendInv, From
<1>11. ReceiveInv'
  <2>1. UNCHANGED <<kind, receiveVars>> /\ kind # "store"
    BY <1>5, <1>8
  <2>2. QED
    BY <1>1, <2>1 DEF ReceiveInv, receiveVars, From
<1>12. AtInv'
  BY <1>5, <1>8 DEF AtInv
<1>13. QED
  BY <1>9, <1>10, <1>11, <1>12 DEF TInv

\* Transmit moves bytes from the front of m_buf to the end of what was handed.
LEMMA TransmitInv == ASSUME TInv, Transmit PROVE TInv'
<1>1. TypeOK /\ SendInv /\ ReceiveInv /\ AtInv
  BY DEF TInv
<1> DEFINE n == Least(Len(buf), Room)
<1>2. /\ Len(buf) \in Nat /\ Len(handed) \in Nat /\ Len(secBuf) \in Nat
      /\ buf \in Seq(Nat) /\ handed \in Seq(Nat)
      /\ offset \in Nat /\ size \in Nat /\ offset <= size /\ size <= MaxSize
      /\ taken \in Nat /\ taken <= Len(handed)
      /\ MaxSize \in Nat /\ BufSize \in Nat /\ Capacity \in Nat
  BY <1>1, Numbers DEF TypeOK
<1>3. /\ Room = Capacity - (Len(handed) - taken) /\ Room > 0
      /\ at \in {"send", "sending"}
      /\ handed' = handed \o Take(buf, n) /\ buf' = Drop(buf, n)
      /\ at' \in IF buf' = <<>> THEN {"select"} ELSE {"sending", "send"}
      /\ UNCHANGED <<kind, clientVars, offset, secBuf, receiveVars, outcome, faulty>>
  BY DEF Transmit, Room
<1>4. n \in 0..Len(buf) /\ n <= Room
  BY <1>2, <1>3 DEF Least
<1>5. outcome = "open" /\ kind # "store"
  BY <1>1, <1>3 DEF AtInv, TypeOK
<1>6. /\ From(0, handed) /\ From(Len(handed), buf)
      /\ From(Len(handed) + Len(buf), secBuf)
      /\ Len(handed) + Len(buf) + Len(secBuf) = offset
      /\ buf # <<>> /\ secBuf = <<>>
  BY <1>1, <1>3, <1>5 DEF SendInv
<1>7. /\ Take(buf, n) \in Seq(Nat) /\ Len(Take(buf, n)) = n
      /\ From(Len(handed), Take(buf, n))
      /\ Drop(buf, n) \in Seq(Nat) /\ Len(Drop(buf, n)) = Len(buf) - n
      /\ From(Len(handed) + n, Drop(buf, n))
  BY <1>2, <1>4, <1>6, Cut
<1>8. /\ handed' \in Seq(Nat) /\ Len(handed') = Len(handed) + n
      /\ From(0, handed')
  <2>1. From(0 + Len(handed), Take(buf, n))
    BY <1>2, <1>7
  <2> DEFINE r == Take(buf, n)
  <2>2. r \in Seq(Nat) /\ Len(r) = n /\ From(0 + Len(handed), r)
    BY <1>7, <2>1
  <2> HIDE DEF r
  <2>3. /\ handed \o r \in Seq(Nat) /\ Len(handed \o r) = Len(handed) + Len(r)
        /\ From(0, handed \o r)
    BY <1>2, <1>6, <2>2, Join
  <2>4. QED
    BY <1>3, <2>2, <2>3 DEF r
<1>9. buf' \in Seq(Nat) /\ Len(buf') = Len(buf) - n /\ From(Len(handed'), buf')
  BY <1>3, <1>7, <1>8
<1>10. Len(handed') + Len(buf') = Len(handed) + Len(buf)
  BY <1>2, <1>4, <1>8, <1>9
<1>11. TypeOK'
  <2>1. handed' \in Seq(Bytes)
    <3>1. 0 + Len(handed') <= MaxSize
      BY <1>2, <1>4, <1>6, <1>8
    <3>2. QED
      BY <1>8, <3>1, FromTyped
  <2>2. buf' \in Seq(Bytes)
    <3>1. Len(handed') + Len(buf') <= MaxSize /\ Len(handed') \in Nat
      BY <1>2, <1>4, <1>6, <1>8, <1>10
    <3>2. QED
      BY <1>9, <3>1, FromTyped
  <2>3. Len(buf') <= BufSize
    <3>1. Len(buf) <= BufSize
      BY <1>1 DEF TypeOK
    <3>2. QED
      BY <1>2, <1>4, <1>9, <3>1
  <2>4. taken \in 0..Len(handed') /\ Len(handed') - taken <= Capacity
    BY <1>2, <1>3, <1>4, <1>8
  <2>5. QED
    BY <1>1, <1>3, <2>1, <2>2, <2>3, <2>4 DEF TypeOK, clientVars, receiveVars
<1>12. SendInv'
  <2>1. UNCHANGED <<kind, offset, secBuf, outcome>>
    BY <1>3
  <2>2. From(Len(handed') + Len(buf'), secBuf)
    BY <1>6, <1>10
  <2>3. Len(handed') + Len(buf') + Len(secBuf) = offset
    BY <1>6, <1>10
  <2>4. buf' = <<>> <=> at' = "select"
    BY <1>3
  <2>5. QED
    BY <1>2, <1>5, <1>6, <1>8, <1>9, <2>1, <2>2, <2>3, <2>4 DEF SendInv, From
<1>13. ReceiveInv'
  BY <1>1, <1>3, <1>5 DEF ReceiveInv, receiveVars, From
<1>14. AtInv'
  BY <1>1, <1>3, <1>5 DEF AtInv
<1>15. QED
  BY <1>11, <1>12, <1>13, <1>14 DEF TInv

\* The rest of m_buf is all there is between the connection and the file.
LEMMA StoreInv == ASSUME TInv, Store PROVE TInv'
<1>1. TypeOK /\ SendInv /\ ReceiveInv /\ AtInv
  BY DEF TInv
<1>2. outcome = "open" /\ kind # "store" /\ at = "send"
  BY <1>1 DEF Store, AtInv
<1>3. /\ Len(buf) \in Nat /\ Len(handed) \in Nat /\ Len(secBuf) \in Nat /\ offset \in Nat
      /\ buf \in Seq(Bytes) /\ Len(buf) <= BufSize /\ BufSize \in Nat
  BY <1>1, Numbers DEF TypeOK
<1>4. /\ From(0, handed) /\ From(Len(handed), buf) /\ buf # <<>> /\ secBuf = <<>>
      /\ Len(handed) + Len(buf) + Len(secBuf) = offset
  BY <1>1, <1>2 DEF SendInv
<1>5. UNCHANGED <<kind, clientVars, offset, handed, receiveVars, faulty>>
  BY DEF Store
<1>6. ReceiveInv'
  BY <1>1, <1>2, <1>5 DEF ReceiveInv, receiveVars, From
<1>7. CASE kind = "file"
  <2>1. secBuf' = buf /\ buf' = <<>> /\ at' = "select" /\ outcome' = "open"
    BY <1>2, <1>7 DEF Store
  <2>2. TypeOK'
    <3>1. buf' \in Seq(Bytes) /\ Len(buf') = 0
      BY <2>1
    <3>2. \A q \in {secBuf', buf', handed', stdio', disk'} : q \in Seq(Bytes)
      BY <1>1, <1>3, <1>5, <2>1, <3>1 DEF TypeOK, receiveVars
    <3>3. Len(secBuf') <= BufSize /\ Len(buf') <= BufSize
      BY <1>3, <2>1, <3>1
    <3>4. UNCHANGED <<kind, size, taken, peer, offset, handed, got, total, stdio, space,
                      faulty>>
      BY <1>5 DEF clientVars, receiveVars
    <3>5. outcome' \in Outcomes /\ at' \in {"select", "send"}
      BY <2>1 DEF Outcomes
    <3>6. QED
      BY <1>1, <3>2, <3>3, <3>4, <3>5 DEF TypeOK
  <2>3. SendInv'
    <3>1. Len(buf') = 0 /\ From(Len(handed), buf') /\ From(Len(handed) + Len(buf'), secBuf')
      BY <1>3, <1>4, <2>1, EmptyFrom
    <3>2. Len(handed) + Len(buf') + Len(secBuf') = offset
      BY <1>3, <1>4, <2>1, <3>1
    <3>3. From(0, handed')
      BY <1>4, <1>5
    <3>4. QED
      BY <1>2, <1>3, <1>5, <2>1, <3>1, <3>2, <3>3 DEF SendInv
  <2>4. AtInv'
    BY <2>1 DEF AtInv
  <2>5. QED
    BY <1>6, <2>2, <2>3, <2>4 DEF TInv
<1>8. CASE kind = "listing"
  <2>1. at' = "closing" /\ outcome' = "terminate" /\ UNCHANGED <<secBuf, buf>>
    BY <1>8 DEF Store
  <2>2. TypeOK'
    BY <1>1, <1>5, <2>1 DEF TypeOK, clientVars, receiveVars, Outcomes
  <2>3. SendInv'
    BY <1>1, <1>2, <1>5, <2>1 DEF SendInv, From
  <2>4. AtInv'
    BY <2>1 DEF AtInv
  <2>5. QED
    BY <1>6, <2>2, <2>3, <2>4 DEF TInv
<1>9. QED
  BY <1>1, <1>2, <1>7, <1>8 DEF TypeOK

\* A step that moves no byte.
LEMMA QuietInv ==
  ASSUME TInv, UNCHANGED <<kind, size, taken, sendVars, got, stdio, disk, space, faulty>>,
         total' \in 0..BufSize, peer' \in {"up", "closed", "reset"},
         at' \in {"select", "send", "sending", "receive", "closing", "over"},
         outcome' \in Outcomes, AtInv',
         outcome' = "open" =>
           outcome = "open" /\ (kind # "store" => (at' = "select" <=> at = "select"))
  PROVE  TInv'
<1>1. TypeOK /\ SendInv /\ ReceiveInv /\ AtInv
  BY DEF TInv
<1>2. TypeOK'
  BY <1>1 DEF TypeOK, sendVars
<1>3. SendInv'
  BY <1>1 DEF SendInv, sendVars, From
<1>4. ReceiveInv'
  BY <1>1 DEF ReceiveInv, From
<1>5. QED
  BY <1>2, <1>3, <1>4 DEF TInv

LEMMA QuietSteps ==
  ASSUME TInv,
         \/ SendFails \/ StartReceive \/ ReceiveStops \/ ReceiveEnd \/ ReceiveFails
         \/ Abandon \/ ClientCloses \/ ConnectionBreaks
  PROVE  TInv'
<1>1. TypeOK /\ AtInv
  BY DEF TInv
<1>2. UNCHANGED <<kind, size, taken, sendVars, got, stdio, disk, space, faulty>>
  BY DEF SendFails, StartReceive, ReceiveStops, ReceiveEnd, ReceiveFails, Abandon,
         ClientCloses, ConnectionBreaks, clientVars, receiveVars
<1>3. total' \in 0..BufSize
  BY <1>1, TransferAssumption DEF TypeOK, SendFails, StartReceive, ReceiveStops, ReceiveEnd,
         ReceiveFails, Abandon, ClientCloses, ConnectionBreaks, receiveVars
<1>4. peer' \in {"up", "closed", "reset"}
  BY <1>1 DEF TypeOK, SendFails, StartReceive, ReceiveStops, ReceiveEnd, ReceiveFails,
         Abandon, ClientCloses, ConnectionBreaks, clientVars
<1>5. /\ at' \in {"select", "send", "sending", "receive", "closing", "over"}
      /\ outcome' \in Outcomes
      /\ AtInv'
      /\ outcome' = "open" =>
           outcome = "open" /\ (kind # "store" => (at' = "select" <=> at = "select"))
  BY <1>1 DEF TypeOK, AtInv, Outcomes, Concludes, SendFails, StartReceive, ReceiveStops,
         ReceiveEnd, ReceiveFails, Abandon, ClientCloses, ConnectionBreaks
<1>6. QED
  BY <1>2, <1>3, <1>4, <1>5, QuietInv

\* A part of the buffer of the FILE*, with what fwrite() is given, goes to the
\* disk; the rest stays or, when the disk is full, is lost.
LEMMA WriteInv ==
  ASSUME TypeOK, ReceiveInv,
         NEW all \in Seq(Nat), From(Len(disk), all), Len(disk) + Len(all) <= MaxSize,
         NEW n \in 0..Len(all), disk' = disk \o Take(all, n)
  PROVE  /\ disk' \in Seq(Bytes) /\ Len(disk') = Len(disk) + n /\ From(0, disk')
         /\ Drop(all, n) \in Seq(Bytes) /\ Len(Drop(all, n)) = Len(all) - n
         /\ From(Len(disk'), Drop(all, n))
<1>1. disk \in Seq(Nat) /\ Len(disk) \in Nat /\ Len(all) \in Nat /\ MaxSize \in Nat
  BY Numbers, LenProperties
<1>2. From(0, disk)
  BY DEF ReceiveInv
<1> DEFINE r == Take(all, n)
<1>3. /\ r \in Seq(Nat) /\ Len(r) = n /\ From(Len(disk), r)
      /\ Drop(all, n) \in Seq(Nat) /\ Len(Drop(all, n)) = Len(all) - n
      /\ From(Len(disk) + n, Drop(all, n))
  BY <1>1, Cut
<1> HIDE DEF r
<1>4. r \in Seq(Nat) /\ From(0 + Len(disk), r)
  BY <1>1, <1>3
<1>5. /\ disk \o r \in Seq(Nat) /\ Len(disk \o r) = Len(disk) + Len(r)
      /\ From(0, disk \o r)
  BY <1>1, <1>2, <1>4, Join
<1>6. disk' \in Seq(Nat) /\ Len(disk') = Len(disk) + n /\ From(0, disk')
  BY <1>3, <1>5 DEF r
<1>7. disk' \in Seq(Bytes)
  <2>1. 0 + Len(disk') <= MaxSize
    BY <1>1, <1>6
  <2>2. QED
    BY <1>6, <2>1, FromTyped
<1>8. Drop(all, n) \in Seq(Bytes)
  <2>1. Len(disk) + n \in Nat /\ Len(disk) + n + Len(Drop(all, n)) <= MaxSize
    BY <1>1, <1>3
  <2>2. QED
    BY <1>3, <2>1, FromTyped
<1>9. QED
  BY <1>3, <1>6, <1>7, <1>8

\* What a write leaves: the sizes are right and nothing else has moved.
LEMMA ReceivedInv ==
  ASSUME TInv, UNCHANGED <<kind, size, taken, peer, sendVars>>,
         disk' \in Seq(Bytes), stdio' \in Seq(Bytes),
         From(0, disk'), From(Len(disk'), stdio'),
         Len(stdio') <= StdioSize, Len(disk') + Len(stdio') <= got',
         outcome' = "open" /\ kind = "store" => Len(disk') + Len(stdio') = got',
         got' \in 0..size, total' \in 0..BufSize, space' \in 0..MaxSpace,
         at' \in {"select", "send", "sending", "receive", "closing", "over"},
         outcome' \in Outcomes, faulty' \in BOOLEAN, AtInv',
         outcome' = "open" => outcome = "open" /\ kind = "store"
  PROVE  TInv'
<1>1. TypeOK /\ SendInv
  BY DEF TInv
<1>2. TypeOK'
  <2>1. \A q \in {secBuf', buf', handed', stdio', disk'} : q \in Seq(Bytes)
    BY <1>1 DEF TypeOK, sendVars
  <2>2. UNCHANGED <<kind, size, taken, peer, offset, secBuf, buf, handed>>
    BY DEF sendVars
  <2>3. QED
    BY <1>1, <2>1, <2>2 DEF TypeOK
<1>3. SendInv'
  BY <1>1 DEF SendInv, sendVars, From
<1>4. ReceiveInv'
  BY DEF ReceiveInv
<1>5. QED
  BY <1>2, <1>3, <1>4 DEF TInv

LEMMA ReceiveStepInv == ASSUME TInv, Receive PROVE TInv'
<1>1. TypeOK /\ SendInv /\ ReceiveInv /\ AtInv
  BY DEF TInv
<1>2. /\ at = "receive" /\ total < BufSize /\ got < size
      /\ got' = got + Requested /\ total' = total + Requested
      /\ UNCHANGED <<kind, size, taken, peer, sendVars>>
  BY DEF Receive, clientVars
<1>3. /\ BufSize \in Nat /\ MaxSize \in Nat /\ MaxSpace \in Nat /\ StdioSize \in Nat
      /\ got \in Nat /\ size \in Nat /\ size <= MaxSize /\ total \in Nat
      /\ space \in Nat /\ space <= MaxSpace
      /\ disk \in Seq(Nat) /\ stdio \in Seq(Nat)
      /\ Len(disk) \in Nat /\ Len(stdio) \in Nat
  BY <1>1, Numbers DEF TypeOK
<1>4. Requested \in Nat /\ got + Requested <= size /\ total + Requested <= BufSize
  BY <1>2, <1>3 DEF Requested, Least
<1>5. outcome = "open" /\ kind = "store"
  BY <1>1, <1>2 DEF AtInv
<1>6. /\ Len(disk) + Len(stdio) = got /\ From(Len(disk), stdio)
  BY <1>1, <1>5 DEF ReceiveInv
<1> DEFINE new == Stretch(got, got + Requested)
           all == stdio \o new
<1>7. new \in Seq(Nat) /\ Len(new) = Requested /\ From(got, new)
  <2>1. new \in Seq(Nat) /\ Len(new) = (got + Requested) - got
    <3>1. got + Requested \in Nat /\ got <= got + Requested
      BY <1>3, <1>4
    <3>2. QED
      BY <1>3, <3>1, StretchFacts
  <2>2. Len(new) = Requested
    BY <1>3, <1>4, <2>1
  <2>3. QED
    BY <2>1, <2>2 DEF From
<1>8. /\ all \in Seq(Nat) /\ Len(all) = Len(stdio) + Requested
      /\ From(Len(disk), all)
  <2>1. From(Len(disk) + Len(stdio), new)
    BY <1>6, <1>7
  <2> HIDE DEF new
  <2>2. QED
    BY <1>3, <1>6, <1>7, <2>1, Join
<1>9. Writes(all) \/ WritesShort(all)
  BY DEF Receive
<1> HIDE DEF all
<1>10. Len(disk) + Len(all) = got' /\ got' <= MaxSize /\ got' \in 0..size
  <2>1. got' = got + Requested /\ Len(all) = Len(stdio) + Requested
    BY <1>2, <1>8
  <2>2. Len(disk) + Len(stdio) = got
    BY <1>6
  <2>3. /\ got \in Nat /\ size \in Nat /\ MaxSize \in Nat /\ Requested \in Nat
        /\ Len(stdio) \in Nat /\ Len(disk) \in Nat
        /\ got + Requested <= size /\ size <= MaxSize
    BY <1>3, <1>4
  <2>4. Len(disk) + Len(all) = got'
    BY <2>1, <2>2, <2>3
  <2>5. got' <= MaxSize /\ got' \in 0..size
    BY <2>1, <2>3
  <2>6. QED
    BY <2>4, <2>5
<1>11. total' \in 0..BufSize
  BY <1>2, <1>3, <1>4
<1>12. CASE Writes(all)
  <2>1. PICK n \in 0..Least(Len(all), space) :
          /\ Len(all) - n <= StdioSize
          /\ disk' = disk \o Take(all, n) /\ stdio' = Drop(all, n)
          /\ space' = space - n
    BY <1>12 DEF Writes
  <2>2. UNCHANGED <<at, outcome, faulty>>
    BY <1>12 DEF Writes
  <2>3. n \in 0..Len(all) /\ n <= space /\ Len(all) \in Nat
    BY <1>3, <1>4, <1>8, <2>1 DEF Least
  <2>4. /\ disk' \in Seq(Bytes) /\ Len(disk') = Len(disk) + n /\ From(0, disk')
        /\ Drop(all, n) \in Seq(Bytes) /\ Len(Drop(all, n)) = Len(all) - n
        /\ From(Len(disk'), Drop(all, n))
    BY <1>1, <1>8, <1>10, <2>1, <2>3, WriteInv
  <2>5. space' \in 0..MaxSpace /\ Len(stdio') <= StdioSize
    BY <1>3, <2>1, <2>3, <2>4
  <2>6. Len(disk') + Len(stdio') = got' /\ got' \in Nat
    BY <1>3, <1>10, <2>1, <2>3, <2>4
  <2>7. AtInv' /\ at' = at /\ outcome' = outcome /\ faulty' = faulty
    BY <1>1, <1>2, <2>2 DEF AtInv
  <2>8. QED
    BY <1>1, <1>2, <1>5, <1>10, <1>11, <2>1, <2>4, <2>5, <2>6, <2>7, ReceivedInv DEF TypeOK
<1>13. CASE WritesShort(all)
  <2>1. PICK n \in 0..space : disk' = disk \o Take(all, n) /\ space' = space - n
    BY <1>13 DEF WritesShort
  <2>2. /\ stdio' = <<>> /\ faulty' = TRUE /\ Len(all) > space
        /\ at' = "closing" /\ outcome' \in {"552", "dropped"}
    BY <1>13 DEF WritesShort, Concludes
  <2>3. n \in 0..Len(all) /\ Len(all) \in Nat
    BY <1>3, <1>4, <1>8, <2>1, <2>2
  <2>4. disk' \in Seq(Bytes) /\ Len(disk') = Len(disk) + n /\ From(0, disk')
    BY <1>1, <1>8, <1>10, <2>1, <2>3, WriteInv
  <2>5. /\ stdio' \in Seq(Bytes) /\ Len(stdio') = 0 /\ From(Len(disk'), stdio')
    <3>1. Len(disk') \in Nat
      BY <1>3, <2>3, <2>4
    <3>2. QED
      BY <2>2, <3>1, EmptyFrom
  <2>6. Len(stdio') <= StdioSize /\ space' \in 0..MaxSpace
    BY <1>3, <2>1, <2>5
  <2>7. Len(disk') + Len(stdio') <= got'
    BY <1>3, <1>10, <2>3, <2>4, <2>5
  <2>8. AtInv' /\ outcome' # "open" /\ outcome' \in Outcomes
    BY <2>2, <1>2, <1>5 DEF AtInv, Outcomes
  <2>9. QED
    BY <1>2, <1>10, <1>11, <2>2, <2>4, <2>5, <2>6, <2>7, <2>8, ReceivedInv
<1>14. QED
  BY <1>9, <1>12, <1>13

LEMMA CloseInv == ASSUME TInv, Close PROVE TInv'
<1>1. TypeOK /\ SendInv /\ ReceiveInv /\ AtInv
  BY DEF TInv
<1> DEFINE n == Least(Len(stdio), space)
<1>2. /\ at = "closing" /\ at' = "over"
      /\ disk' = disk \o Take(stdio, n) /\ space' = space - n
      /\ stdio' = <<>>
      /\ UNCHANGED <<kind, size, taken, peer, sendVars, got, total, outcome>>
  BY DEF Close, clientVars
<1>3. faulty' \in BOOLEAN
  BY <1>1 DEF Close, TypeOK
<1>4. /\ stdio \in Seq(Nat) /\ Len(stdio) \in Nat /\ Len(disk) \in Nat
      /\ space \in Nat /\ space <= MaxSpace /\ MaxSpace \in Nat
      /\ got \in Nat /\ size \in Nat /\ got <= size /\ size <= MaxSize /\ MaxSize \in Nat
      /\ StdioSize \in Nat
  BY <1>1, Numbers DEF TypeOK
<1>5. n \in 0..Len(stdio) /\ n <= space
  BY <1>4 DEF Least
<1>6. From(Len(disk), stdio) /\ Len(disk) + Len(stdio) <= got
  BY <1>1 DEF ReceiveInv
<1>7. disk' \in Seq(Bytes) /\ Len(disk') = Len(disk) + n /\ From(0, disk')
  <2>1. Len(disk) + Len(stdio) <= MaxSize
    BY <1>4, <1>6
  <2>2. QED
    BY <1>1, <1>2, <1>4, <1>5, <1>6, <2>1, WriteInv
<1>8. stdio' \in Seq(Bytes) /\ Len(stdio') = 0 /\ From(Len(disk'), stdio')
  <2>1. Len(disk') \in Nat
    BY <1>4, <1>5, <1>7
  <2>2. QED
    BY <1>2, <2>1, EmptyFrom
<1>9. /\ Len(stdio') <= StdioSize /\ space' \in 0..MaxSpace
      /\ Len(disk') + Len(stdio') <= got'
  BY <1>2, <1>4, <1>5, <1>6, <1>7, <1>8
<1>10. outcome' # "open" /\ outcome' \in Outcomes /\ AtInv'
  BY <1>1, <1>2 DEF AtInv, TypeOK
<1>11. got' \in 0..size /\ total' \in 0..BufSize
  BY <1>1, <1>2 DEF TypeOK
<1>12. QED
  BY <1>2, <1>3, <1>7, <1>8, <1>9, <1>10, <1>11, ReceivedInv

LEMMA ClientInv == ASSUME TInv, ClientSends \/ ClientReads PROVE TInv'
<1>1. TypeOK /\ SendInv /\ ReceiveInv /\ AtInv
  BY DEF TInv
<1>2. UNCHANGED <<kind, peer, sendVars, receiveVars, at, outcome, faulty>>
  BY DEF ClientSends, ClientReads
<1>3. /\ Capacity \in Nat /\ MaxSize \in Nat /\ size \in Nat /\ size <= MaxSize
      /\ taken \in Nat /\ Len(handed) \in Nat /\ taken <= Len(handed)
      /\ Len(handed) - taken <= Capacity
      /\ offset \in 0..size /\ got \in 0..size
  BY <1>1, Numbers DEF TypeOK
<1>4. /\ size' \in 0..MaxSize /\ offset \in 0..size' /\ got \in 0..size'
      /\ taken' \in 0..Len(handed) /\ Len(handed) - taken' <= Capacity
  BY <1>3 DEF ClientSends, ClientReads
<1>5. TypeOK'
  BY <1>1, <1>2, <1>4 DEF TypeOK, sendVars, receiveVars
<1>6. SendInv' /\ ReceiveInv' /\ AtInv'
  BY <1>1, <1>2 DEF SendInv, ReceiveInv, AtInv, From, sendVars, receiveVars
<1>7. QED
  BY <1>5, <1>6 DEF TInv

LEMMA StepInv == ASSUME TInv, [Next]_vars PROVE TInv'
<1>1. CASE ReadBuffer \/ Transmit \/ Store
  BY <1>1, ReadBufferInv, TransmitInv, StoreInv
<1>2. CASE Receive \/ Close \/ ClientSends \/ ClientReads
  BY <1>2, ReceiveStepInv, CloseInv, ClientInv
<1>3. CASE \/ SendFails \/ StartReceive \/ ReceiveStops \/ ReceiveEnd \/ ReceiveFails
           \/ Abandon \/ ClientCloses \/ ConnectionBreaks
  BY <1>3, QuietSteps
<1>4. CASE UNCHANGED vars
  BY <1>4 DEF TInv, TypeOK, SendInv, ReceiveInv, AtInv, From, vars, clientVars, sendVars,
              receiveVars
<1>5. QED
  BY <1>1, <1>2, <1>3, <1>4 DEF Next, Tick, Client

\* For every size of the buffers and every file: what the kernel, m_buf and
\* m_secBuf hold is the part of the file read so far, and what the disk and the
\* FILE* hold is what was received so far (Data.cpp:127 and 163).
THEOREM TransferInductive == Spec => []TInv
<1>1. TInv /\ [Next]_vars => TInv'
  BY StepInv
<1>2. QED
  BY <1>1, InitInv, PTL DEF Spec

\* No Read, Store or recv() of a transfer goes past a buffer (Data.cpp:129, 160
\* and 171, DataBufferFile.cpp:23 and 35).
THEOREM TransferTyped == Spec => []TypeOK
<1>1. TInv => TypeOK
  BY DEF TInv
<1>2. QED
  BY <1>1, TransferInductive, PTL

-----------------------------------------------------------------------------
(* The promise.                                                            *)

\* The copy of either direction is the beginning of the stream.
LEMMA CopyOf ==
  ASSUME NEW k, NEW d \in Seq(Nat), NEW s \in Seq(Nat), NEW h \in Seq(Nat), NEW c,
         From(0, d), From(Len(d), s), From(0, h),
         c = IF k = "store" THEN d \o s ELSE h
  PROVE  /\ c \in Seq(Nat) /\ From(0, c)
         /\ Len(c) = IF k = "store" THEN Len(d) + Len(s) ELSE Len(h)
<1>1. From(0 + Len(d), s)
  OBVIOUS
<1>2. d \o s \in Seq(Nat) /\ Len(d \o s) = Len(d) + Len(s) /\ From(0, d \o s)
  BY <1>1, Join
<1>3. QED
  BY <1>2

LEMMA SourceIs ==
  ASSUME NEW n \in Nat
  PROVE  /\ Stretch(0, n) \in Seq(Nat) /\ Len(Stretch(0, n)) = n
         /\ From(0, Stretch(0, n))
  BY DEF Stretch, From

LEMMA BytesAreNumbers == ASSUME NEW q \in Seq(Bytes) PROVE q \in Seq(Nat) /\ Len(q) \in Nat
<1>1. Bytes \subseteq Nat
  BY TransferAssumption DEF Bytes
<1>2. q \in Seq(Nat)
  BY <1>1, SeqMonotonic
<1>3. QED
  BY <1>2, LenProperties

LEMMA CopiedIs ==
  ASSUME TInv
  PROVE  /\ Copied \in Seq(Nat) /\ From(0, Copied)
         /\ Len(Copied) = IF kind = "store" THEN Len(disk) + Len(stdio) ELSE Len(handed)
         /\ Len(Copied) \in Nat
         /\ Source \in Seq(Nat) /\ Len(Source) = size /\ From(0, Source) /\ size \in Nat
<1>1. /\ disk \in Seq(Nat) /\ stdio \in Seq(Nat) /\ handed \in Seq(Nat) /\ size \in Nat
      /\ From(0, disk) /\ From(Len(disk), stdio) /\ From(0, handed)
  BY Numbers DEF TInv, SendInv, ReceiveInv
<1>2. /\ Copied \in Seq(Nat) /\ From(0, Copied)
      /\ Len(Copied) = IF kind = "store" THEN Len(disk) + Len(stdio) ELSE Len(handed)
  BY <1>1, CopyOf DEF Copied
<1>3. Len(Copied) \in Nat
  BY <1>2, LenProperties
<1>4. Source \in Seq(Nat) /\ Len(Source) = size /\ From(0, Source)
  BY <1>1, SourceIs DEF Source
<1>5. QED
  BY <1>1, <1>2, <1>3, <1>4

LEMMA CopiedIsNext ==
  ASSUME TInv'
  PROVE  /\ Copied' \in Seq(Nat) /\ From(0, Copied')
         /\ Len(Copied') = IF kind' = "store" THEN Len(disk') + Len(stdio') ELSE Len(handed')
         /\ Len(Copied') \in Nat
         /\ Source' \in Seq(Nat) /\ Len(Source') = size' /\ From(0, Source')
         /\ size' \in Nat
         /\ Len(Copied') <= size'
<1>1. /\ disk' \in Seq(Bytes) /\ stdio' \in Seq(Bytes) /\ handed' \in Seq(Bytes)
      /\ From(0, disk') /\ From(Len(disk'), stdio') /\ From(0, handed')
  BY DEF TInv, TypeOK, SendInv, ReceiveInv, From
<1>2. /\ disk' \in Seq(Nat) /\ stdio' \in Seq(Nat) /\ handed' \in Seq(Nat)
      /\ Len(disk') \in Nat /\ Len(stdio') \in Nat /\ Len(handed') \in Nat
  BY <1>1, BytesAreNumbers
<1>3. /\ Copied' \in Seq(Nat) /\ From(0, Copied')
      /\ Len(Copied') = IF kind' = "store" THEN Len(disk') + Len(stdio') ELSE Len(handed')
  BY <1>1, <1>2, CopyOf DEF Copied
<1>4. Len(Copied') \in Nat
  BY <1>3, LenProperties
<1>5. size' \in Nat
  BY TransferAssumption DEF TInv, TypeOK
<1>6. Source' \in Seq(Nat) /\ Len(Source') = size' /\ From(0, Source')
  BY <1>5, SourceIs DEF Source
<1>7. Len(Copied') <= size'
  <2>1. /\ Len(handed') + Len(buf') + Len(secBuf') <= offset' /\ offset' \in 0..size'
        /\ Len(disk') + Len(stdio') <= got' /\ got' \in 0..size'
    BY DEF TInv, TypeOK, SendInv, ReceiveInv
  <2>2. Len(buf') \in Nat /\ Len(secBuf') \in Nat
    <3>1. buf' \in Seq(Bytes) /\ secBuf' \in Seq(Bytes)
      BY DEF TInv, TypeOK
    <3>2. QED
      BY <3>1, BytesAreNumbers
  <2>3. QED
    BY <1>2, <1>3, <1>5, <2>1, <2>2
<1>8. QED
  BY <1>3, <1>4, <1>5, <1>6, <1>7

\* A copy that has not become shorter has grown at its end.
LEMMA Grows ==
  ASSUME TInv, TInv', size' = size
  PROVE  /\ IsPrefix(Copied', Source)
         /\ Len(Copied) <= Len(Copied') => IsPrefix(Copied, Copied')
         /\ Len(Copied) = size => Copied = Source
<1>1. Source' = Source
  BY DEF Source
<1>2. IsPrefix(Copied', Source)
  BY <1>1, CopiedIs, CopiedIsNext, Beginnings
<1>3. Len(Copied) <= Len(Copied') => IsPrefix(Copied, Copied')
  BY CopiedIs, CopiedIsNext, Beginnings
<1>4. Len(Copied) = size => Copied = Source
  BY CopiedIs DEF From
<1>5. QED
  BY <1>2, <1>3, <1>4

LEMMA PromiseInit == ASSUME Init PROVE Promise!Init
<1>1. size \in Nat
  BY TransferAssumption DEF Init
<1>2. Source \in Seq(Nat)
  BY <1>1, SourceIs DEF Source
<1>3. Copied = <<>>
  BY DEF Init, Copied
<1>4. Verdict = "open" /\ (at = "over") = FALSE /\ faulty = FALSE
  BY DEF Init, Verdict
<1>5. (kind # "store" \/ peer # "up") \in BOOLEAN
  OBVIOUS
<1>6. QED
  BY <1>2, <1>3, <1>4, <1>5 DEF Promise!Init

\* A step that changes neither the copy nor what the client was told.
LEMMA PromiseStutters ==
  ASSUME UNCHANGED <<kind, size, peer, handed, disk, stdio, outcome, faulty>>,
         at # "over", at' # "over"
  PROVE  UNCHANGED Promise!vars
<1>1. UNCHANGED <<Source, Copied, Verdict>>
  BY DEF Source, Copied, Verdict
<1>2. QED
  BY <1>1 DEF Promise!vars

\* A step that hands bytes over and tells nothing.
LEMMA PromiseAdvances ==
  ASSUME TInv, TInv', UNCHANGED <<kind, size, peer>>, outcome = "open", outcome' = "open",
         Len(Copied) <= Len(Copied'), faulty => faulty'
  PROVE  Promise!Advance
<1>1. Verdict = "open" /\ Verdict' = "open" /\ at # "over" /\ at' # "over"
  BY DEF Verdict, TInv, AtInv
<1>2. IsPrefix(Copied, Copied') /\ IsPrefix(Copied', Source)
  BY Grows
<1>3. Source' = Source
  BY DEF Source
<1>4. QED
  BY <1>1, <1>2, <1>3 DEF Promise!Advance, Promise!Excused,
                             Promise!IsPrefix, IsPrefix

\* The reply 226, or a reply or an end of the session that tells of no success.
LEMMA PromiseConcludes ==
  ASSUME TInv, TInv', UNCHANGED <<kind, size, peer>>, outcome = "open", at' # "over",
         faulty => faulty',
         \/ /\ outcome' = "226"
            /\ kind # "store" \/ peer # "up"
            /\ Len(Copied) = size \/ faulty'
            /\ UNCHANGED <<handed, disk, stdio>>
         \/ /\ outcome' \in {"552", "dropped", "terminate"}
            /\ Len(Copied') + StdioSize >= Len(Copied)
            /\ Len(Copied') = Len(Copied) \/ faulty'
  PROVE  Promise!Next
<1>1. Verdict = "open" /\ at # "over"
  BY DEF Verdict, TInv, AtInv
<1>2. Source' = Source
  BY DEF Source
<1>3. CASE /\ outcome' = "226"
           /\ kind # "store" \/ peer # "up"
           /\ Len(Copied) = size \/ faulty'
           /\ UNCHANGED <<handed, disk, stdio>>
  <2>1. Verdict' = "complete" /\ Copied' = Copied
    BY <1>3 DEF Verdict, Copied
  <2>2. Copied = Source \/ faulty'
    BY <1>3, Grows
  <2>3. Promise!Complete
    BY <1>1, <1>2, <1>3, <2>1, <2>2 DEF Promise!Complete, Promise!Excused
  <2>4. QED
    BY <2>3 DEF Promise!Next
<1>4. CASE /\ outcome' \in {"552", "dropped", "terminate"}
           /\ Len(Copied') + StdioSize >= Len(Copied)
           /\ Len(Copied') = Len(Copied) \/ faulty'
  <2>1. Verdict' = "failed"
    BY <1>4 DEF Verdict
  <2>2. IsPrefix(Copied', Source)
    BY Grows
  <2>3. Copied' = Copied \/ faulty'
    BY <1>4, CopiedIs, CopiedIsNext DEF From
  <2>4. Promise!GiveUp
    BY <1>1, <1>2, <1>4, <2>1, <2>2, <2>3 DEF Promise!GiveUp, Promise!Keeps,
                                    Promise!Excused, Promise!IsPrefix, IsPrefix
  <2>5. QED
    BY <2>4 DEF Promise!Next
<1>5. QED
  BY <1>3, <1>4

\* The tick of a transfer towards the client.
LEMMA PromiseSends ==
  ASSUME TInv, TInv', ReadBuffer \/ Transmit \/ Store \/ SendFails
  PROVE  [Promise!Next]_(Promise!vars)
<1>1. AtInv /\ SendInv /\ TypeOK
  BY DEF TInv
<1>2. kind # "store" /\ outcome = "open"
  BY <1>1 DEF ReadBuffer, Transmit, Store, SendFails, AtInv
<1>3. UNCHANGED <<kind, size, peer, disk, stdio>> /\ at' # "over" /\ at # "over"
  BY <1>1, <1>2 DEF ReadBuffer, Transmit, Store, SendFails, clientVars, receiveVars, Concludes,
                    AtInv
<1>4. /\ Len(Copied) = Len(handed) /\ Len(Copied') = Len(handed')
      /\ Len(handed) \in Nat /\ Len(handed') \in Nat
  BY <1>2, <1>3, CopiedIs, CopiedIsNext
<1>5. CASE ReadBuffer
  <2>1. handed' = handed
    BY <1>5 DEF ReadBuffer
  <2>2. PICK n \in 0..Available :
          /\ faulty' = (faulty \/ n < Available)
          /\ buf' = secBuf \o Stretch(offset, offset + n)
    BY <1>5 DEF ReadBuffer
  <2> DEFINE same == Len(Copied') = Len(Copied) /\ (faulty => faulty')
  <2>2a. same /\ Len(Copied) \in Nat /\ StdioSize \in Nat
    BY <1>4, <2>1, <2>2, TransferAssumption
  <2>3. CASE outcome' = "open"
    <3>1. Len(Copied) <= Len(Copied')
      BY <2>2a
    <3>2. Promise!Advance
      BY <1>2, <1>3, <2>3, <2>2a, <3>1, PromiseAdvances
    <3>3. QED
      BY <3>2 DEF Promise!Next
  <2>4. CASE outcome' = "dropped"
    <3>1. Len(Copied') + StdioSize >= Len(Copied) /\ Len(Copied') = Len(Copied)
      BY <2>2a
    <3>2. Promise!Next
      BY <1>2, <1>3, <2>4, <2>2a, <3>1, PromiseConcludes
    <3>3. QED
      BY <3>2
  <2>5. CASE outcome' = "226"
    <3>1. buf' = <<>>
      BY <1>2, <1>5, <2>5 DEF ReadBuffer
    <3>2. /\ secBuf \in Seq(Nat) /\ Len(secBuf) \in Nat /\ BufSize \in Nat \ {0}
          /\ size \in Nat /\ offset \in Nat /\ offset <= size
      BY <1>1, Numbers
    <3>3. /\ n \in Nat /\ Stretch(offset, offset + n) \in Seq(Nat)
          /\ Len(Stretch(offset, offset + n)) = n
      <4>1. Available \in Int
        BY <3>2 DEF Available, Least
      <4>2. n \in Nat
        BY <4>1
      <4>3. /\ Stretch(offset, offset + n) \in Seq(Nat)
            /\ Len(Stretch(offset, offset + n)) = (offset + n) - offset
        <5>1. offset + n \in Nat /\ offset <= offset + n
          BY <3>2, <4>2
        <5>2. QED
          BY <3>2, <5>1, StretchFacts
      <4>4. QED
        BY <3>2, <4>2, <4>3
    <3>4. secBuf = <<>> /\ Len(secBuf) = 0 /\ n = 0
      <4>1. Len(secBuf \o Stretch(offset, offset + n)) = Len(secBuf) + n
        BY <3>2, <3>3, ConcatProperties
      <4>2. Len(secBuf) + n = 0
        BY <2>2, <3>1, <4>1
      <4>3. Len(secBuf) = 0 /\ n = 0
        BY <3>2, <3>3, <4>2
      <4>4. QED
        BY <3>2, <4>3, EmptySeq
    <3>5. buf = <<>> /\ Len(handed) = offset
      <4>1. at = "select"
        BY <1>5 DEF ReadBuffer
      <4>2. buf = <<>> /\ Len(buf) = 0 /\ Len(handed) + Len(buf) + Len(secBuf) = offset
        BY <1>1, <1>2, <4>1 DEF SendInv
      <4>3. QED
        BY <1>4, <3>2, <3>4, <4>2
    <3>6. offset = size \/ faulty'
      <4>1. CASE Available = 0
        <5>1. Available = BufSize - 0 \/ Available = size - offset
          BY <3>4 DEF Available, Least
        <5>2. QED
          BY <3>2, <4>1, <5>1
      <4>2. CASE Available # 0
        <5>1. 0 <= Available
          BY <3>4
        <5>2. Available \in Int
          BY <3>2 DEF Available, Least
        <5>3. 0 < Available
          BY <4>2, <5>1, <5>2
        <5>4. QED
          BY <2>2, <3>4, <5>3
      <4>3. QED
        BY <4>1, <4>2
    <3>7. Len(Copied) = size \/ faulty'
      BY <1>4, <3>5, <3>6
    <3>8. faulty => faulty'
      BY <2>2
    <3>9. QED
      BY <1>2, <1>3, <2>1, <2>5, <3>7, <3>8, PromiseConcludes
  <2>6. outcome' \in {"open", "226", "dropped"}
    BY <1>2, <1>5 DEF ReadBuffer, Concludes
  <2>7. QED
    BY <2>3, <2>4, <2>5, <2>6
<1>6. CASE Transmit
  <2>1. UNCHANGED <<outcome, faulty>> /\ handed' = handed \o Take(buf, Least(Len(buf), Room))
    BY <1>6 DEF Transmit
  <2>2. Len(handed) <= Len(handed')
    <3>1. /\ buf \in Seq(Nat) /\ Len(buf) \in Nat /\ handed \in Seq(Nat)
          /\ From(Len(handed), buf)
      BY <1>1, <1>2, Numbers DEF SendInv
    <3>2. Room > 0 /\ Room \in Int
      BY <1>1, <1>6, Numbers DEF Transmit, Room
    <3>3. Least(Len(buf), Room) \in 0..Len(buf)
      BY <3>1, <3>2 DEF Least
    <3>4. /\ Take(buf, Least(Len(buf), Room)) \in Seq(Nat)
          /\ Len(Take(buf, Least(Len(buf), Room))) \in Nat
      BY <1>4, <3>1, <3>3, Cut
    <3>5. Len(handed') = Len(handed) + Len(Take(buf, Least(Len(buf), Room)))
      BY <2>1, <3>1, <3>4, ConcatProperties
    <3>6. QED
      BY <1>4, <3>4, <3>5
  <2>3. QED
    BY <1>2, <1>3, <1>4, <2>1, <2>2, PromiseAdvances DEF Promise!Next
<1>7. CASE Store \/ SendFails
  <2>1. UNCHANGED <<handed, faulty>>
    BY <1>7 DEF Store, SendFails, sendVars
  <2>2. outcome' = outcome \/ outcome' \in {"terminate", "dropped"}
    BY <1>7 DEF Store, SendFails
  <2>3. CASE outcome' = outcome
    BY <1>3, <2>1, <2>3, PromiseStutters
  <2>4. CASE outcome' \in {"terminate", "dropped"}
    BY <1>2, <1>3, <1>4, <2>1, <2>4, PromiseConcludes, TransferAssumption
  <2>5. QED
    BY <2>2, <2>3, <2>4
<1>8. QED
  BY <1>5, <1>6, <1>7

\* The tick of a transfer from the client.
LEMMA PromiseReceives ==
  ASSUME TInv, TInv', StartReceive \/ ReceiveStops \/ Receive \/ ReceiveEnd \/ ReceiveFails
  PROVE  [Promise!Next]_(Promise!vars)
<1>1. AtInv /\ ReceiveInv /\ TypeOK
  BY DEF TInv
<1>2. kind = "store" /\ outcome = "open"
  BY <1>1 DEF StartReceive, ReceiveStops, Receive, ReceiveEnd, ReceiveFails, AtInv
<1>3. UNCHANGED <<kind, size, peer, handed>> /\ at # "over" /\ at' # "over"
  BY <1>1, <1>2 DEF StartReceive, ReceiveStops, Receive, ReceiveEnd, ReceiveFails, clientVars,
                    sendVars, Concludes, AtInv, Writes, WritesShort
<1>4. /\ Len(Copied) = Len(disk) + Len(stdio) /\ Len(Copied') = Len(disk') + Len(stdio')
      /\ Len(disk) + Len(stdio) = got
      /\ Len(Copied) \in Nat /\ Len(Copied') \in Nat
      /\ StdioSize \in Nat /\ size \in Nat
  BY <1>1, <1>2, <1>3, CopiedIs, CopiedIsNext, TransferAssumption DEF ReceiveInv
<1>5. CASE StartReceive \/ ReceiveStops
  BY <1>3, <1>5, PromiseStutters DEF StartReceive, ReceiveStops, receiveVars
<1>6. CASE ReceiveEnd \/ ReceiveFails
  <2>1. UNCHANGED <<disk, stdio, faulty>>
    BY <1>6 DEF ReceiveEnd, ReceiveFails, receiveVars
  <2>2. Len(Copied') = Len(Copied)
    BY <1>4, <2>1
  <2>3. CASE outcome' = "226"
    <3>1. got = size /\ peer # "up"
      BY <1>6, <2>3 DEF ReceiveEnd, ReceiveFails
    <3>2. QED
      BY <1>2, <1>3, <1>4, <2>1, <2>3, <3>1, PromiseConcludes
  <2>4. CASE outcome' = "dropped"
    <3>1. Len(Copied') + StdioSize >= Len(Copied) /\ Len(Copied') = Len(Copied)
      BY <1>4, <2>2
    <3>2. QED
      BY <1>2, <1>3, <2>1, <2>4, <3>1, PromiseConcludes
  <2>5. QED
    BY <1>6, <2>3, <2>4 DEF ReceiveEnd, ReceiveFails, Concludes
<1>7. CASE Receive
  <2> DEFINE all == stdio \o Stretch(got, got + Requested)
  <2>1. Writes(all) \/ WritesShort(all)
    BY <1>7 DEF Receive
  <2>2. CASE Writes(all)
    <3>1. UNCHANGED <<outcome, faulty>>
      BY <2>2 DEF Writes
    <3>2. Len(disk') + Len(stdio') = got'
      BY <1>2, <1>3, <3>1 DEF TInv, ReceiveInv
    <3>3. got <= got'
      <4>1. got \in Nat /\ size \in Nat /\ total \in Nat /\ BufSize \in Nat
        BY <1>1, Numbers
      <4>2. got < size /\ total < BufSize /\ got' = got + Requested
        BY <1>7 DEF Receive
      <4>3. Requested \in Nat
        BY <4>1, <4>2 DEF Requested, Least
      <4>4. QED
        BY <4>1, <4>2, <4>3
    <3>4. Len(Copied) <= Len(Copied')
      BY <1>4, <3>2, <3>3
    <3>5. Promise!Advance
      BY <1>2, <1>3, <3>1, <3>4, PromiseAdvances
    <3>6. QED
      BY <3>5 DEF Promise!Next
  <2>3. CASE WritesShort(all)
    <3>1. PICK n \in 0..space : disk' = disk \o Take(all, n)
      BY <2>3 DEF WritesShort
    <3>2. faulty' = TRUE /\ outcome' \in {"552", "dropped"}
      BY <2>3 DEF WritesShort, Concludes
    <3>3. Len(disk) <= Len(disk')
      <4>1. /\ disk \in Seq(Nat) /\ Len(disk) \in Nat /\ stdio \in Seq(Nat)
            /\ Len(stdio) \in Nat /\ space \in Nat
            /\ got \in Nat /\ size \in Nat /\ total \in Nat /\ BufSize \in Nat
        BY <1>1, Numbers
      <4>2. Requested \in Nat
        BY <1>7, <4>1 DEF Receive, Requested, Least
      <4>3. /\ Stretch(got, got + Requested) \in Seq(Nat)
            /\ Len(Stretch(got, got + Requested)) \in Nat
        <5>1. got + Requested \in Nat /\ got <= got + Requested
          BY <4>1, <4>2
        <5>2. QED
          BY <4>1, <5>1, StretchFacts, LenProperties
      <4>4. all \in Seq(Nat) /\ Len(all) \in Nat
        BY <4>1, <4>3, ConcatProperties, LenProperties
      <4> HIDE DEF all
      <4>5. n \in Nat /\ n <= Len(all)
        BY <2>3, <4>1, <4>4 DEF WritesShort
      <4>6. Take(all, n) \in Seq(Nat) /\ Len(Take(all, n)) = n
        BY <4>4, <4>5 DEF Take
      <4>7. Len(disk') = Len(disk) + n
        BY <3>1, <4>1, <4>6, ConcatProperties
      <4>8. QED
        BY <4>1, <4>5, <4>7
    <3>4. Len(Copied') + StdioSize >= Len(Copied)
      <4>1. stdio' = <<>> /\ Len(stdio) <= StdioSize
        BY <1>1, <2>3 DEF WritesShort, TypeOK
      <4>2. Len(stdio') = 0 /\ Len(stdio) \in Nat /\ Len(disk) \in Nat
        BY <1>1, <4>1, Numbers
      <4>3. QED
        BY <1>4, <3>3, <4>1, <4>2
    <3>5. QED
      BY <1>2, <1>3, <3>2, <3>4, PromiseConcludes
  <2>4. QED
    BY <2>1, <2>2, <2>3
<1>8. QED
  BY <1>5, <1>6, <1>7

LEMMA PromiseAbandons == ASSUME TInv, TInv', Abandon PROVE Promise!Next
<1>1. /\ outcome = "open" /\ outcome' = "dropped" /\ at' # "over"
      /\ UNCHANGED <<kind, size, peer, disk, stdio, handed, faulty>>
  BY DEF Abandon, clientVars, sendVars, receiveVars
<1>2. Len(Copied') = Len(Copied) /\ Len(Copied) \in Nat /\ StdioSize \in Nat
  BY <1>1, CopiedIs, TransferAssumption DEF Copied
<1>3. Len(Copied') + StdioSize >= Len(Copied) /\ Len(Copied') = Len(Copied)
  BY <1>2
<1>4. QED
  BY <1>1, <1>3, PromiseConcludes

\* fclose() loses at most what the FILE* held back.
LEMMA PromiseCloses == ASSUME TInv, TInv', Close PROVE Promise!Next
<1>1. TypeOK /\ ReceiveInv /\ AtInv
  BY DEF TInv
<1> DEFINE n == Least(Len(stdio), space)
<1>2. /\ at = "closing" /\ at' = "over" /\ stdio' = <<>> /\ Len(stdio') = 0
      /\ UNCHANGED <<kind, size, peer, handed, outcome>>
      /\ disk' = disk \o Take(stdio, n)
      /\ faulty' = (faulty \/ n < Len(stdio))
  BY DEF Close, clientVars, sendVars
<1>3. /\ Len(disk) \in Nat /\ Len(stdio) \in Nat /\ Len(stdio) <= StdioSize
      /\ disk \in Seq(Nat) /\ stdio \in Seq(Nat) /\ space \in Nat /\ StdioSize \in Nat
  BY <1>1, Numbers DEF TypeOK
<1>4. n \in 0..Len(stdio)
  BY <1>3 DEF Least
<1>5. Len(disk') = Len(disk) + n
  <2>1. Take(stdio, n) \in Seq(Nat) /\ Len(Take(stdio, n)) = n
    BY <1>1, <1>3, <1>4, Cut DEF ReceiveInv
  <2>2. QED
    BY <1>2, <1>3, <2>1, ConcatProperties
<1>6. /\ IsPrefix(Copied', Source)
      /\ Len(Copied') + StdioSize >= Len(Copied)
      /\ Len(Copied') <= Len(Copied)
      /\ Len(Copied') = Len(Copied) \/ faulty'
  <2>1. IsPrefix(Copied', Source)
    BY <1>2, Grows
  <2>2. CASE kind = "store"
    <3>1. Len(Copied) = Len(disk) + Len(stdio) /\ Len(Copied') = Len(disk) + n
      BY <1>2, <1>3, <1>4, <1>5, <2>2, CopiedIs, CopiedIsNext
    <3>2. n < Len(stdio) => faulty'
      BY <1>2
    <3>3. n = Len(stdio) \/ n < Len(stdio)
      BY <1>3, <1>4
    <3>4. Len(Copied') = Len(Copied) \/ faulty'
      BY <3>1, <3>2, <3>3
    <3>5. QED
      BY <1>3, <1>4, <2>1, <3>1, <3>4
  <2>3. CASE kind # "store"
    <3>1. Len(Copied') = Len(Copied) /\ Len(Copied) \in Nat
      BY <1>2, <2>3, CopiedIs DEF Copied
    <3>2. QED
      BY <1>3, <2>1, <3>1
  <2>4. QED
    BY <2>2, <2>3
<1>6a. Copied' = Copied \/ faulty'
  BY <1>6, CopiedIs, CopiedIsNext DEF From
<1>7. Verdict # "open" /\ Verdict' = Verdict
  BY <1>1, <1>2 DEF Verdict, AtInv
<1>8. Source' = Source
  BY <1>2 DEF Source
<1>9. Promise!CloseBoth
  BY <1>2, <1>6, <1>6a, <1>7, <1>8 DEF Promise!CloseBoth, Promise!Keeps, Promise!Excused,
                                Promise!IsPrefix, IsPrefix
<1>10. QED
  BY <1>9 DEF Promise!Next

LEMMA PromiseClient == ASSUME TInv, TInv', Client PROVE [Promise!Next]_(Promise!vars)
<1>1. UNCHANGED <<kind, handed, disk, stdio, at, outcome, faulty>>
  BY DEF Client, ClientSends, ClientReads, ClientCloses, ConnectionBreaks, sendVars,
         receiveVars
<1>2. UNCHANGED <<Copied, Verdict>>
  BY <1>1 DEF Copied, Verdict
<1>3. CASE ClientSends
  <2>1. kind = "store" /\ peer = "up" /\ peer' = peer /\ size' = size + 1
    BY <1>3 DEF ClientSends
  <2>2. /\ Source \in Seq(Nat) /\ Source' \in Seq(Nat) /\ From(0, Source) /\ From(0, Source')
        /\ Len(Source) = size /\ Len(Source') = size' /\ size \in Nat
    BY CopiedIs, CopiedIsNext
  <2>3. IsPrefix(Source, Source')
    BY <2>1, <2>2, Beginnings
  <2>4. Promise!Extend
    BY <1>1, <1>2, <2>1, <2>3 DEF Promise!Extend, Promise!IsPrefix, IsPrefix
  <2>5. QED
    BY <2>4 DEF Promise!Next
<1>4. CASE ClientReads
  <2>1. UNCHANGED <<size, peer>>
    BY <1>4 DEF ClientReads
  <2>2. Source' = Source
    BY <2>1 DEF Source
  <2>3. QED
    BY <1>1, <1>2, <2>1, <2>2 DEF Promise!vars
<1>5. CASE ClientCloses \/ ConnectionBreaks
  <2>1. UNCHANGED size /\ peer' # "up"
    BY <1>5 DEF ClientCloses, ConnectionBreaks
  <2>2. Source' = Source
    BY <2>1 DEF Source
  <2>3. Promise!End
    BY <1>1, <1>2, <2>1, <2>2 DEF Promise!End
  <2>4. QED
    BY <2>3 DEF Promise!Next
<1>6. QED
  BY <1>3, <1>4, <1>5 DEF Client

LEMMA PromiseStep == ASSUME TInv, TInv', [Next]_vars PROVE [Promise!Next]_(Promise!vars)
<1>1. CASE Tick
  BY <1>1, PromiseSends, PromiseReceives, PromiseCloses DEF Tick
<1>2. CASE Abandon
  BY <1>2, PromiseAbandons
<1>3. CASE Client
  BY <1>3, PromiseClient
<1>4. CASE UNCHANGED vars
  <2>1. UNCHANGED <<Source, Copied, Verdict, kind, peer, at, faulty>>
    BY <1>4 DEF Source, Copied, Verdict, vars, clientVars, sendVars, receiveVars
  <2>2. QED
    BY <2>1 DEF Promise!vars
<1>5. QED
  BY <1>1, <1>2, <1>3, <1>4 DEF Next

\* For every size of m_buf, m_secBuf, the FILE*'s buffer and the connection's
\* queues, and for every file: the bytes sent are the file from its beginning,
\* the bytes stored what the client sent from its beginning, and 226 follows
\* the last one unless the disk has failed (Data.cpp:127 and 163).
THEOREM CopyIsReliable == Spec => CopiesReliably
<1>1. Init => Promise!Init
  BY PromiseInit
<1>2. TInv /\ TInv' /\ [Next]_vars => [Promise!Next]_(Promise!vars)
  BY PromiseStep
<1>3. QED
  BY <1>1, <1>2, TransferInductive, PTL DEF Spec, CopiesReliably, Promise!Spec

\* What the replies promise follows from the rules of ReliableCopy: 226
\* (Session.cpp:769) is said of a whole copy, and remains true of it, unless
\* the disk has failed.
THEOREM ToldIsWhole == Spec => []Promise!WholeIfTold
<1>1. Promise!Init => Promise!WholeIfTold
  BY DEF Promise!Init, Promise!WholeIfTold
<1>2. Promise!WholeIfTold /\ [Promise!Next]_(Promise!vars) => Promise!WholeIfTold'
  <2> SUFFICES ASSUME Promise!WholeIfTold, [Promise!Next]_(Promise!vars) PROVE Promise!WholeIfTold'
    OBVIOUS
  <2>1. CASE Promise!Extend \/ Promise!End \/ Promise!Advance \/ Promise!GiveUp
    BY <2>1 DEF Promise!Extend, Promise!End, Promise!Advance, Promise!GiveUp, Promise!WholeIfTold
  <2>2. CASE Promise!Complete
    BY <2>2 DEF Promise!Complete, Promise!WholeIfTold
  <2>3. CASE Promise!CloseBoth
    BY <2>3 DEF Promise!CloseBoth, Promise!Keeps, Promise!Excused, Promise!WholeIfTold
  <2>4. CASE UNCHANGED Promise!vars
    BY <2>4 DEF Promise!vars, Promise!WholeIfTold
  <2>5. QED
    BY <2>1, <2>2, <2>3, <2>4 DEF Promise!Next
<1>3. QED
  BY <1>1, <1>2, CopyIsReliable, PTL DEF CopiesReliably, Promise!Spec
=============================================================================
