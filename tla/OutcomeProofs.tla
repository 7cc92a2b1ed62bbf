---------------------------- MODULE OutcomeProofs ----------------------------
(***************************************************************************)
(* Proved of the server for every set of sessions and every bound.  First  *)
(* RemovalsRegistered: the ServerCrash of SessionController::Remove for a  *)
(* session that is not registered cannot be reached.  The induction is on  *)
(* RInv of module Server; of a tick it needs only how the tick goes on,    *)
(* whatever the handler did.  Then what holds between two rounds: select() *)
(* gets open descriptors only, every line is answered, a Data object is    *)
(* backed by an announced transfer with its connection and its file, and,  *)
(* if nobody sends LIST, an announced transfer is concluded.  That         *)
(* induction is on SInv, with IInv and RInv: a session whose tick was cut  *)
(* short is doomed, and is gone before the next select().                  *)
(***************************************************************************)
EXTENDS ServerProofs

-----------------------------------------------------------------------------
(* How a step of a tick goes on.                                           *)

\* The tick goes on, ends, or ends the process.
Onward ==
  /\ removeList' = removeList
  /\ pc' \in TickLabels \cup {"visit"} \cup (Ends \ {"unregistered"})

Moved(s) == Onward \/ RequestRemoval(s)

\* The step made no Session object and destroyed none.
SameMembers == \A u \in Sessions : mState'[u] = "absent" <=> mState[u] = "absent"

LEMMA GoesMoves ==
  ASSUME NEW label \in TickLabels \cup {"visit"} \cup (Ends \ {"unregistered"}),
         Goes(label)
  PROVE  Onward
  BY DEF Goes, Onward

LEMMA ReplyMoves ==
  ASSUME NEW s,
         \/ Write(s) \/ SendSyntaxError(s) \/ SendBye(s)
         \/ Undelivered(s) \/ Announce(s) \/ Conclude(s)
  PROVE  Moved(s)
  <1>1. \/ RequestRemoval(s)
        \/ Goes("data") \/ Goes("visit") \/ Goes("reset") \/ Goes("terminate")
        \/ Goes("sigpipe")
    BY DEF Write, SendSyntaxError, SendBye, Undelivered, Announce, Conclude, Delivered,
       Signalled
  <1>2. QED BY <1>1, GoesMoves DEF Moved, TickLabels, Ends

LEMMA LoginMoves ==
  ASSUME SessionTypeOK, NEW s \in Sessions,
         SendGreeting(s) \/ AwaitLogin(s) \/ AwaitPassword(s)
  PROVE  Moved(s) /\ SameMembers /\ pc \in TickLabels
  <1>1. /\ pc \in TickLabels
        /\ mState[s] # "absent"
    BY DEF SendGreeting, AwaitLogin, AwaitPassword, TickLabels
  <1>2. \/ Delivered(s, "data") \/ Undelivered(s) \/ SendBye(s) \/ SendSyntaxError(s)
    BY DEF SendGreeting, AwaitLogin, AwaitPassword, Login
  <1>3. Moved(s)
    BY <1>2, ReplyMoves DEF Write
  <1>4. \/ UNCHANGED mState
        \/ \E next \in {"login", "password", "ready"} : mState' = [mState EXCEPT ![s] = next]
    BY DEF SendGreeting, AwaitLogin, AwaitPassword, Login
  <1>5. SameMembers
    BY <1>1, <1>4 DEF SessionTypeOK, SameMembers
  <1>6. QED BY <1>1, <1>3, <1>5

LEMMA ReadMoves ==
  ASSUME NEW s \in Sessions, Read(s) \/ ReadFails(s)
  PROVE  Moved(s) /\ SameMembers /\ pc \in TickLabels
  <1>1. RequestRemoval(s) \/ Goes("sigpipe") \/ Goes("data") \/ Goes("command")
    BY DEF Read, ReadFails, Signalled
  <1>2. UNCHANGED mState /\ pc \in TickLabels
    BY DEF Read, ReadFails, TickLabels
  <1>3. QED BY <1>1, <1>2, GoesMoves DEF Moved, SameMembers, TickLabels, Ends

LEMMA ReadyMoves ==
  ASSUME NEW s \in Sessions, AwaitReady(s)
  PROVE  Moved(s) /\ SameMembers /\ pc \in TickLabels
  <1>1. \/ RequestRemoval(s)
        \/ Write(s) \/ SendSyntaxError(s) \/ SendBye(s) \/ Undelivered(s)
        \/ Delivered(s, "data")
        \/ Goes("open") \/ Goes("segv") \/ Goes("terminate")
    <2>1. CASE \/ HandleQuit(s) \/ HandlePlain(s) \/ HandleUnknown(s) \/ HandleStru(s)
               \/ HandleMode(s) \/ HandleType(s)
               \/ ChangeDirectory(s) \/ HandleDele(s) \/ HandleMkd(s) \/ HandleRmd(s)
      BY <2>1 DEF HandleQuit, HandlePlain, HandleUnknown, HandleMode, HandleType, HandleStru,
         ChangeDirectory, HandleDele, HandleMkd, HandleRmd, HandleChecked
    <2>2. CASE HandlePort(s) \/ HandlePasv(s)
      BY <2>2 DEF HandlePort, HandlePasv
    <2>3. CASE HandleRetr(s) \/ HandleStor(s)
      BY <2>3 DEF HandleRetr, HandleStor, NoTransferStarted, StartTransfer
    <2>4. CASE HandleList(s) \/ HandleAbor(s)
      BY <2>4 DEF HandleList, HandleAbor
    <2>5. QED BY <2>1, <2>2, <2>3, <2>4 DEF AwaitReady
  <1>2. UNCHANGED mState
    <2>1. CASE \/ HandleQuit(s) \/ HandlePlain(s) \/ HandleUnknown(s) \/ HandleStru(s)
               \/ HandleMode(s) \/ HandleType(s)
               \/ ChangeDirectory(s) \/ HandleDele(s) \/ HandleMkd(s) \/ HandleRmd(s)
      BY <2>1 DEF HandleQuit, HandlePlain, HandleUnknown, HandleMode, HandleType, HandleStru,
         ChangeDirectory, HandleDele, HandleMkd, HandleRmd, HandleChecked, Untouched
    <2>2. CASE \/ HandlePort(s) \/ HandlePasv(s) \/ HandleRetr(s) \/ HandleStor(s)
               \/ HandleList(s) \/ HandleAbor(s)
      BY <2>2 DEF HandlePort, HandlePasv, HandleRetr, HandleStor, HandleList, HandleAbor,
         NoTransferStarted, StartTransfer, Untouched
    <2>3. QED BY <2>1, <2>2 DEF AwaitReady
  <1>3. pc = "command"
    BY DEF AwaitReady, HandleQuit, HandlePlain, HandleUnknown, HandleMode, HandleType,
       HandleStru, ChangeDirectory, HandleDele, HandleMkd, HandleRmd, HandleChecked,
       HandlePort, HandlePasv, HandleRetr, HandleStor, HandleList, HandleAbor, Handling
  <1>4. Moved(s)
    BY <1>1, ReplyMoves, GoesMoves DEF Moved, Write, TickLabels, Ends
  <1>5. QED BY <1>2, <1>3, <1>4 DEF SameMembers, TickLabels

LEMMA OpenMoves ==
  ASSUME NEW s \in Sessions, OpenDataConnection(s)
  PROVE  Moved(s) /\ SameMembers /\ pc \in TickLabels
  <1>1. \/ Announce(s) \/ Delivered(s, "data") \/ Undelivered(s) \/ RequestRemoval(s)
    BY DEF OpenDataConnection, Accept, AcceptFails, Connect, ConnectRefused, ConnectFails
  <1>2. UNCHANGED mState /\ pc \in TickLabels
    BY DEF OpenDataConnection, Accept, AcceptFails, Connect, ConnectRefused, ConnectFails,
       TickLabels
  <1>3. QED BY <1>1, <1>2, ReplyMoves DEF Moved, SameMembers, Write

LEMMA DataMoves ==
  ASSUME NEW s \in Sessions, DataTick(s)
  PROVE  Moved(s) /\ SameMembers /\ pc \in TickLabels
  <1>1. \/ RequestRemoval(s) \/ Conclude(s)
        \/ Goes("visit") \/ Goes("terminate") \/ Goes("sending") \/ Goes("sigpipe")
        \/ Goes("data")
    BY DEF DataTick, NoTransfer, ResetTransfer, SendFinished, SendStored, SendBlocks,
       SendBuffer, SendFails, ReceiveNothing, ReceiveData, ReceiveEnd, ReceiveFails, Signalled
  <1>2. UNCHANGED mState /\ pc \in TickLabels
    BY DEF DataTick, NoTransfer, ResetTransfer, SendFinished, SendStored, SendBlocks,
       SendBuffer, SendFails, ReceiveNothing, ReceiveData, ReceiveEnd, ReceiveFails,
       Untouched, Sending, Receiving, TickLabels
  <1>3. QED BY <1>1, <1>2, ReplyMoves, GoesMoves DEF Moved, SameMembers, TickLabels, Ends

\* Whatever a step of a tick does, it asks at most for the removal of its own
\* session, which ends the tick.
LEMMA TickMoves ==
  ASSUME SessionTypeOK, NEW s \in Sessions, Tick(s)
  PROVE  Moved(s) /\ SameMembers /\ pc \in TickLabels
  BY LoginMoves, ReadMoves, ReadyMoves, OpenMoves, DataMoves DEF Tick

-----------------------------------------------------------------------------
(* A step of the server that is in a tick.                                 *)

\* The members of the list, and the requests, as sequences.
LEMMA Sequences ==
  ASSUME TypeOK
  PROVE  /\ list \in Seq(Sessions) /\ removeList \in Seq(Sessions)
         /\ Len(list) \in Nat /\ DOMAIN list = 1..Len(list)
         /\ Len(removeList) \in Nat /\ DOMAIN removeList = 1..Len(removeList)
         /\ it \in 0..Len(list)
         /\ \A i \in DOMAIN list : list[i] \in Sessions
  BY DEF TypeOK, ServerTypeOK, SessionTypeOK

LEMMA TickKeepsQueue ==
  ASSUME TypeOK, RInv, NEW s \in Sessions, Current(s), Tick(s), UNCHANGED serverVars
  PROVE  RInv'
  <1>1. Moved(s) /\ SameMembers /\ pc \in TickLabels
    BY TickMoves DEF TypeOK
  <1>2. list' = list /\ it' = it /\ Registered' = Registered
    BY DEF serverVars, Registered
  <1>3. it \in DOMAIN list /\ list[it] = s /\ it \in 1..it
    BY Sequences DEF Current
  <1>4. Registered' = {u \in Sessions : mState'[u] # "absent"}
    BY <1>1, <1>2 DEF RInv, RemovalsRegistered, SameMembers
  <1>5. \A i, j \in DOMAIN list' : list'[i] = list'[j] => i = j
    BY <1>2 DEF RInv, RemovalsRegistered
  <1>6. CASE Onward
    <2>1. pc' \in TickLabels \cup {"visit"} \cup Ends /\ pc' # "unregistered"
      BY <1>6 DEF Onward, TickLabels
    <2>2. removeList' = removeList
      BY <1>6 DEF Onward
    <2>3. RemovalsRegistered'
      BY <1>2, <1>4, <1>5, <2>1, <2>2 DEF RInv, RemovalsRegistered
    <2>4. Queued'
      BY <1>1, <1>2, <2>1, <2>2 DEF RInv, Queued
    <2>5. QED BY <2>3, <2>4 DEF RInv
  <1>7. CASE RequestRemoval(s)
    <2>1. pc' = "visit" /\ removeList' = Append(removeList, s)
      BY <1>7 DEF RequestRemoval
    <2>2. /\ DOMAIN removeList' = 1..(Len(removeList) + 1)
          /\ \A i \in DOMAIN removeList : removeList'[i] = removeList[i]
          /\ removeList'[Len(removeList) + 1] = s
      BY <2>1, Sequences, AppendProperties
    \* The requests that wait are for sessions before this one.
    <2>3. \A i \in DOMAIN removeList : removeList[i] # s
      <3> SUFFICES ASSUME NEW i \in DOMAIN removeList PROVE removeList[i] # s
        OBVIOUS
      <3>1. PICK j \in 1..it : list[j] = removeList[i] /\ j < it
        BY <1>1 DEF RInv, Queued
      <3>2. j \in DOMAIN list /\ j # it
        BY <3>1, Sequences
      <3>3. QED BY <1>3, <3>1, <3>2 DEF RInv, RemovalsRegistered
    <2>4. \A i \in DOMAIN removeList' : i \in DOMAIN removeList \/ i = Len(removeList) + 1
      BY <2>2, Sequences
    <2>5. \A i, j \in DOMAIN removeList' : removeList'[i] = removeList'[j] => i = j
      BY <2>2, <2>3, <2>4 DEF RInv, RemovalsRegistered
    <2>6. \A i \in DOMAIN removeList' : \E j \in 1..it : list[j] = removeList'[i]
      BY <1>3, <2>2, <2>4 DEF RInv, Queued
    <2>7. \A i \in DOMAIN removeList' : removeList'[i] \in Registered
      BY <2>6, Sequences DEF Registered
    <2>8. RemovalsRegistered'
      BY <1>2, <1>4, <1>5, <2>1, <2>5, <2>7 DEF RemovalsRegistered
    <2>9. Queued'
      BY <1>2, <2>1, <2>6 DEF Queued, TickLabels
    <2>10. QED BY <2>8, <2>9 DEF RInv
  <1>8. QED BY <1>1, <1>6, <1>7 DEF Moved

-----------------------------------------------------------------------------
(* The walk over the sessions, and the removals after it.                  *)

LEMMA RoundKeepsQueue ==
  ASSUME TypeOK, RInv, Loop \/ Select \/ Visit \/ EndRound \/ NoListen \/ ListenCrashes
  PROVE  RInv'
  <1>1. mState' = mState /\ list' = list /\ removeList' = removeList
    BY DEF Loop, Select, Visit, EndRound, NoListen, ListenCrashes, Goes, serverVars
  <1>2. pc' # "unregistered"
    BY DEF Loop, Select, Visit, EndRound, NoListen, ListenCrashes, Goes
  <1>3. RemovalsRegistered'
    BY <1>1, <1>2 DEF RInv, RemovalsRegistered, Registered
  <1>4. CASE Visit
    <2>1. it' = it + 1 /\ pc = "visit" /\ pc' \in {"control", "visit"}
      BY <1>4 DEF Visit, Goes
    <2>2. \A j \in 1..it : j \in 1..it' /\ j < it'
      BY <2>1, Sequences
    <2>3. Queued'
      BY <1>1, <2>1, <2>2 DEF RInv, Queued, TickLabels
    <2>4. QED BY <1>3, <2>3 DEF RInv
  <1>5. CASE Loop \/ Select \/ EndRound \/ NoListen \/ ListenCrashes
    <2>1. removeList = <<>>
      BY <1>5 DEF Loop, Select, EndRound, NoListen, ListenCrashes, RInv, Queued,
         TickLabels, Ends
    <2>2. Queued'
      BY <1>1, <2>1 DEF Queued
    <2>3. QED BY <1>3, <2>2 DEF RInv
  <1>6. QED BY <1>4, <1>5

\* m_list.remove takes one member out: the others stay, in their order.
LEMMA RemoveAtElements ==
  ASSUME NEW S, NEW q \in Seq(S), NEW i \in DOMAIN q
  PROVE  /\ DOMAIN RemoveAt(q, i) = 1..(Len(q) - 1)
         /\ \A k \in 1..(Len(q) - 1) : RemoveAt(q, i)[k] = IF k < i THEN q[k] ELSE q[k + 1]
  <1>1. Len(q) \in Nat /\ i \in 1..Len(q) /\ DOMAIN q = 1..Len(q)
    OBVIOUS
  <1> DEFINE front == SubSeq(q, 1, i - 1)
             back == SubSeq(q, i + 1, Len(q))
  <1>2. /\ front \in Seq(S) /\ Len(front) = i - 1
        /\ \A k \in 1..(i - 1) : front[k] = q[k]
    <2>1. i - 1 \in Int /\ 1 \in Int /\ \A k \in 1..(i - 1) : q[k] \in S
      BY <1>1, ElementOfSeq
    <2>2. /\ SubSeq(q, 1, i - 1) \in Seq(S)
          /\ Len(SubSeq(q, 1, i - 1)) = IF 1 <= i - 1 THEN i - 1 - 1 + 1 ELSE 0
          /\ \A k \in 1..(i - 1 - 1 + 1) : SubSeq(q, 1, i - 1)[k] = q[1 + k - 1]
      BY <2>1, SubSeqProperties
    <2>3. QED BY <1>1, <2>2
  <1>3. /\ back \in Seq(S) /\ Len(back) = Len(q) - i
        /\ \A k \in 1..(Len(q) - i) : back[k] = q[i + k]
    <2>1. /\ i + 1 \in Int /\ Len(q) \in Int
          /\ \A k \in (i + 1)..Len(q) : q[k] \in S
      BY <1>1, ElementOfSeq
    <2>2. /\ SubSeq(q, i + 1, Len(q)) \in Seq(S)
          /\ Len(SubSeq(q, i + 1, Len(q))) =
               IF i + 1 <= Len(q) THEN Len(q) - (i + 1) + 1 ELSE 0
          /\ \A k \in 1..(Len(q) - (i + 1) + 1) :
               SubSeq(q, i + 1, Len(q))[k] = q[i + 1 + k - 1]
      BY <2>1, SubSeqProperties
    <2>3. QED BY <1>1, <2>2
  <1>4. RemoveAt(q, i) = front \o back
    BY DEF RemoveAt
  <1> HIDE DEF front, back
  <1>5. /\ front \o back \in Seq(S)
        /\ Len(front \o back) = Len(front) + Len(back)
        /\ \A k \in 1..(Len(front) + Len(back)) : (front \o back)[k] =
             IF k <= Len(front) THEN front[k] ELSE back[k - Len(front)]
    BY <1>2, <1>3, ConcatProperties
  <1>6. Len(front) + Len(back) = Len(q) - 1
    BY <1>1, <1>2, <1>3
  <1>7. DOMAIN (front \o back) = 1..(Len(q) - 1)
    BY <1>5, <1>6
  <1>8. ASSUME NEW k \in 1..(Len(q) - 1)
        PROVE  (front \o back)[k] = IF k < i THEN q[k] ELSE q[k + 1]
    <2>1. CASE k < i
      BY <1>1, <1>2, <1>5, <1>6, <2>1
    <2>2. CASE ~(k < i)
      <3>1. k - (i - 1) \in 1..(Len(q) - i) /\ i + (k - (i - 1)) = k + 1 /\ ~(k <= i - 1)
        BY <1>1, <2>2
      <3>2. QED BY <1>2, <1>3, <1>5, <1>6, <2>2, <3>1, SMTT(60)
    <2>3. QED BY <2>1, <2>2
  <1>9. QED BY <1>4, <1>7, <1>8

LEMMA DrainKeepsQueue ==
  ASSUME TypeOK, RInv, Drain
  PROVE  RInv'
  <1> DEFINE s == Head(removeList)
  <1>1. /\ pc = "visit" /\ it = Len(list) /\ removeList # <<>>
        /\ removeList' = Tail(removeList)
    BY DEF Drain
  <1>2. /\ s = removeList[1] /\ 1 \in DOMAIN removeList
        /\ DOMAIN removeList' = 1..(Len(removeList) - 1)
        /\ \A i \in DOMAIN removeList' :
             i + 1 \in DOMAIN removeList /\ i + 1 # 1 /\ removeList'[i] = removeList[i + 1]
    BY <1>1, Sequences, HeadTailProperties
  <1>3. s \in Registered /\ s \in Sessions
    BY <1>2, Sequences DEF RInv, RemovalsRegistered
  \* The other requests are for other sessions.
  <1>4. /\ \A i \in DOMAIN removeList' : removeList'[i] # s /\ removeList'[i] \in Registered
        /\ \A i, j \in DOMAIN removeList' : removeList'[i] = removeList'[j] => i = j
    <2>1. \A i \in DOMAIN removeList' : removeList'[i] # s /\ removeList'[i] \in Registered
      BY <1>2 DEF RInv, RemovalsRegistered
    <2>2. ASSUME NEW i \in DOMAIN removeList', NEW j \in DOMAIN removeList',
                 removeList'[i] = removeList'[j]
          PROVE  i = j
      <3>1. i + 1 = j + 1 /\ i \in Int /\ j \in Int
        BY <1>2, <2>2 DEF RInv, RemovalsRegistered
      <3>2. QED BY <3>1
    <2>3. QED BY <2>1, <2>2
  <1> HIDE DEF s
  <1>5. PICK m \in DOMAIN list : /\ list[m] = s /\ list' = RemoveAt(list, m)
                                 /\ it' = it - 1 /\ Destroy(s) /\ UNCHANGED pc
    BY <1>3 DEF Drain, s
  <1>6. mState' = [mState EXCEPT ![s] = "absent"]
    BY <1>5 DEF Destroy
  <1>7. /\ DOMAIN list' = 1..(Len(list) - 1)
        /\ \A k \in DOMAIN list' : list'[k] = IF k < m THEN list[k] ELSE list[k + 1]
    BY <1>5, Sequences, RemoveAtElements
  \* Where a member of the new list was in the old one, and the other way round.
  <1> DEFINE Old(k) == IF k < m THEN k ELSE k + 1
             New(k) == IF k < m THEN k ELSE k - 1
  <1>8. \A k \in DOMAIN list' :
          Old(k) \in DOMAIN list /\ Old(k) # m /\ list'[k] = list[Old(k)]
    BY <1>5, <1>7, Sequences
  <1>9. \A k \in DOMAIN list \ {m} : New(k) \in DOMAIN list' /\ list'[New(k)] = list[k]
    <2> TAKE k \in DOMAIN list \ {m}
    <2>1. k \in Nat /\ m \in Nat /\ Len(list) \in Nat /\ 1 <= k /\ k <= Len(list)
          /\ 1 <= m /\ m <= Len(list) /\ k # m
      BY <1>5, Sequences
    <2>2. CASE k < m
      BY <1>7, <2>1, <2>2
    <2>3. CASE ~(k < m)
      <3>1. k - 1 \in 1..(Len(list) - 1) /\ ~(k - 1 < m) /\ k - 1 + 1 = k
        BY <2>1, <2>3
      <3>2. QED BY <1>7, <2>3, <3>1
    <2>4. QED BY <2>2, <2>3
  <1>10. \A i, j \in DOMAIN list' : list'[i] = list'[j] => i = j
    <2> SUFFICES ASSUME NEW i \in DOMAIN list', NEW j \in DOMAIN list', list'[i] = list'[j]
                 PROVE  i = j
      OBVIOUS
    <2>1. Old(i) = Old(j)
      BY <1>8 DEF RInv, RemovalsRegistered
    <2>2. i \in Int /\ j \in Int /\ m \in Int
      BY <1>5, <1>7, Sequences
    <2>3. QED BY <2>1, <2>2
  <1> HIDE DEF Old, New
  <1>11. Registered' = Registered \ {s}
    <2>1. \A k \in DOMAIN list' : list'[k] \in Registered /\ list'[k] # s
      BY <1>5, <1>8 DEF RInv, RemovalsRegistered, Registered
    <2>2. \A k \in DOMAIN list : list[k] # s => \E j \in DOMAIN list' : list'[j] = list[k]
      BY <1>5, <1>9
    <2>3. QED BY <2>1, <2>2 DEF Registered
  <1>12. Registered' = {u \in Sessions : mState'[u] # "absent"}
    BY <1>3, <1>6, <1>11 DEF RInv, RemovalsRegistered, TypeOK, SessionTypeOK
  <1>13. RemovalsRegistered'
    <2>1. pc' # "unregistered"
      BY <1>1, <1>5
    <2>2. \A i \in DOMAIN removeList' : removeList'[i] \in Registered'
      BY <1>4, <1>11
    <2>3. QED BY <1>4, <1>10, <1>12, <2>1, <2>2 DEF RemovalsRegistered
  <1>14. Queued'
    <2>1. pc' = "visit" /\ pc' \notin TickLabels /\ 1..it' = DOMAIN list'
      BY <1>1, <1>5, <1>7 DEF TickLabels
    <2>2. \A i \in DOMAIN removeList' : \E j \in 1..it' : list'[j] = removeList'[i]
      BY <1>4, <1>11, <2>1 DEF Registered
    <2>3. QED BY <2>1, <2>2 DEF Queued
  <1>15. QED BY <1>13, <1>14 DEF RInv

\* A new session joins the list at its end, when no removal waits.
LEMMA ListenKeepsQueue ==
  ASSUME TypeOK, RInv, NEW s \in Sessions, Listen(s)
  PROVE  RInv'
  <1>1. /\ pc = "listen" /\ mState[s] = "absent"
        /\ mState' = [mState EXCEPT ![s] = "greeting"]
        /\ list' = Append(list, s)
        /\ pc' = "loop" /\ removeList' = removeList
    BY DEF Listen, Knocking, Goes
  <1>2. removeList = <<>>
    BY <1>1 DEF RInv, Queued, TickLabels, Ends
  <1>3. /\ DOMAIN list' = 1..(Len(list) + 1)
        /\ \A i \in DOMAIN list : list'[i] = list[i]
        /\ list'[Len(list) + 1] = s
    BY <1>1, Sequences, AppendProperties
  <1>4. /\ \A i \in DOMAIN list' : i \in DOMAIN list \/ i = Len(list) + 1
        /\ \A i \in DOMAIN list : i \in DOMAIN list'
        /\ Len(list) + 1 \in DOMAIN list'
    BY <1>3, Sequences
  <1>5. s \notin Registered
    BY <1>1 DEF RInv, RemovalsRegistered
  <1>6. \A i, j \in DOMAIN list' : list'[i] = list'[j] => i = j
    BY <1>3, <1>4, <1>5 DEF RInv, RemovalsRegistered, Registered
  <1>7. Registered' = Registered \cup {s}
    BY <1>3, <1>4 DEF Registered
  <1>8. Registered' = {u \in Sessions : mState'[u] # "absent"}
    BY <1>1, <1>7 DEF RInv, RemovalsRegistered, TypeOK, SessionTypeOK
  <1>9. RemovalsRegistered' /\ Queued'
    BY <1>1, <1>2, <1>6, <1>8 DEF RemovalsRegistered, Queued
  <1>10. QED BY <1>9 DEF RInv

-----------------------------------------------------------------------------
(* The induction.                                                          *)

\* Neither a client nor a signal touches the sessions or the requests.
LEMMA EnvironmentKeepsQueue ==
  ASSUME RInv, Interrupt \/ (\E s \in Sessions : Client(s)) \/ UNCHANGED vars
  PROVE  RInv'
  <1>1. /\ mState' = mState /\ list' = list /\ it' = it /\ removeList' = removeList
    BY DEF Interrupt, Client, sessionVars, serverVars, vars
  <1>2. pc' = pc \/ (pc = "select" /\ pc' = "crashed")
    BY DEF Interrupt, Client, sessionVars, vars
  <1>3. RemovalsRegistered'
    BY <1>1, <1>2 DEF RInv, RemovalsRegistered, Registered
  <1>4. Queued'
    BY <1>1, <1>2 DEF RInv, Queued, TickLabels, Ends
  <1>5. QED BY <1>3, <1>4 DEF RInv

LEMMA InitQueued == Init => RInv
  <1> SUFFICES ASSUME Init PROVE RInv
    OBVIOUS
  <1>1. /\ list = <<>> /\ removeList = <<>> /\ pc = "loop"
        /\ mState = [s \in Sessions |-> "absent"]
    BY DEF Init, SessionInit
  <1>2. DOMAIN list = {} /\ DOMAIN removeList = {}
    BY <1>1
  <1>3. QED BY <1>1, <1>2 DEF RInv, RemovalsRegistered, Queued, Registered

LEMMA NextQueued == IInv /\ RInv /\ [Next]_vars => RInv'
  <1> SUFFICES ASSUME TypeOK, RInv, [Next]_vars PROVE RInv'
    BY DEF IInv
  <1>1. CASE Server
    <2>1. CASE SessionStep
      BY <2>1, TickKeepsQueue DEF SessionStep
    <2>2. CASE \E s \in Sessions : Listen(s)
      BY <2>2, ListenKeepsQueue
    <2>3. QED BY <1>1, <2>1, <2>2, RoundKeepsQueue, DrainKeepsQueue DEF Server
  <1>2. CASE Interrupt \/ (\E s \in Sessions : Client(s)) \/ Terminated \/ UNCHANGED vars
    BY <1>2, EnvironmentKeepsQueue DEF Terminated
  <1>3. QED BY <1>1, <1>2 DEF Next

\* A session is asked to be removed at most once, while it is registered, so
\* that SessionController never answers a removal with a ServerCrash, wherever
\* the ticks of however many sessions are cut short by a throw.
THEOREM RemovalsHold == Spec => []RemovalsRegistered
  <1>1. RInv => RemovalsRegistered
    BY DEF RInv
  <1>2. QED BY <1>1, InitQueued, NextQueued, Inductive, PTL DEF Spec

-----------------------------------------------------------------------------
(* What a step of the tick of s has to establish.                          *)

\* The step left the other sessions alone.
Apart(s) ==
  \A u \in Sessions \ {s} :
    /\ mState'[u] = mState[u] /\ answered'[u] = answered[u]
    /\ data'[u] = data[u] /\ due'[u] = due[u] /\ dpeer'[u] = dpeer[u]
    /\ \A kind \in Kinds : fd'[<<u, kind>>] = fd[<<u, kind>>]

\* The tick ends with the session or with the process.
CutShort(s) == pc' \in Ends \/ RequestRemoval(s)

GoesOn(s) ==
  /\ removeList' = removeList
  /\ \/ pc' = "visit" /\ Steady(s)' /\ answered'[s]
     \/ pc' \in TickLabels /\ Ticking(s)'

StepSound(s) ==
  /\ Apart(s)
  /\ fd'[<<s, "ctl">>] = fd[<<s, "ctl">>]
  /\ CutShort(s) \/ GoesOn(s)

\* What the types say of the variables that a step of s changes at s only.
LEMMA Typed ==
  ASSUME IInv
  PROVE  /\ answered \in [Sessions -> BOOLEAN] /\ due \in [Sessions -> BOOLEAN]
         /\ dpeer \in [Sessions -> Peers] /\ DOMAIN mState = Sessions
         /\ data \in [Sessions -> {"none", "upload", "download", "listing"}]
         /\ DOMAIN fd = Handles /\ NoFd \notin Fds /\ BadFd \notin Fds /\ NoFd # BadFd
         /\ Owned
  BY DEF IInv, TypeOK, SessionTypeOK, SocketsTypeOK, Owned, Fds, NoFd, BadFd

\* A reply is sent, or the tick is cut short.
Replied(s, labels) ==
  /\ \A u \in Sessions \ {s} : answered'[u] = answered[u]
  /\ \/ CutShort(s)
     \/ removeList' = removeList /\ pc' \in labels /\ answered'[s]

LEMMA ReplyGiven ==
  ASSUME IInv, NEW s \in Sessions
  PROVE  /\ \A label : Delivered(s, label) => Replied(s, {label})
         /\ Undelivered(s) => Replied(s, {}) /\ CutShort(s)
         /\ Write(s) => Replied(s, {"data"})
         /\ SendSyntaxError(s) => Replied(s, {"visit"})
         /\ SendBye(s) => Replied(s, {}) /\ CutShort(s)
  <1>1. ASSUME NEW label, Delivered(s, label)
        PROVE  Replied(s, {label})
    BY <1>1, Typed DEF Delivered, Goes, Replied
  <1>2. ASSUME Undelivered(s) PROVE Replied(s, {}) /\ CutShort(s)
    BY <1>2 DEF Undelivered, Signalled, Goes, Replied, CutShort, Ends
  <1>3. ASSUME SendSyntaxError(s) PROVE Replied(s, {"visit"})
    BY <1>1, <1>3 DEF SendSyntaxError, Signalled, Goes, Replied, CutShort, Ends
  <1>4. ASSUME SendBye(s) PROVE Replied(s, {}) /\ CutShort(s)
    BY <1>4, Typed DEF SendBye, Signalled, Goes, Replied, CutShort, Ends
  <1>5. ASSUME Write(s) PROVE Replied(s, {"data"})
    <2>1. Delivered(s, "data") => Replied(s, {"data"})
      BY <1>1
    <2>2. QED BY <1>5, <1>2, <2>1 DEF Write, Replied
  <1>6. QED BY <1>1, <1>2, <1>3, <1>4, <1>5

\* A reply after which the session is steady.
LEMMA RepliedSound ==
  ASSUME NEW s \in Sessions, Replied(s, {"data", "visit"}), Apart(s),
         fd'[<<s, "ctl">>] = fd[<<s, "ctl">>], Steady(s)'
  PROVE  StepSound(s)
  BY DEF Replied, StepSound, GoesOn, Ticking, Steady, TickLabels

\* Nothing that Steady looks at has changed.
SameTransfer == UNCHANGED <<fd, data, due, dpeer>>

LEMMA SameSteady ==
  ASSUME SameTransfer, NEW s \in Sessions, Steady(s)
  PROVE  Steady(s)'
  BY DEF SameTransfer, Steady, Held

-----------------------------------------------------------------------------
(* The steps of a tick.                                                    *)

LEMMA LoginSound ==
  ASSUME IInv, NEW s \in Sessions, Ticking(s),
         SendGreeting(s) \/ AwaitLogin(s) \/ AwaitPassword(s)
  PROVE  StepSound(s)
  <1>1. Steady(s)
    BY DEF SendGreeting, AwaitLogin, AwaitPassword, Ticking
  <1>2. SameTransfer
    BY DEF SendGreeting, AwaitLogin, AwaitPassword, SameTransfer, socketVars,
       descriptors, dataLink, transfer
  <1>3. Delivered(s, "data") \/ Undelivered(s) \/ SendBye(s) \/ SendSyntaxError(s)
    BY DEF SendGreeting, AwaitLogin, AwaitPassword, Login
  <1>4. Replied(s, {"data", "visit"})
    <2>1. Delivered(s, "data") => Replied(s, {"data"})
      BY ReplyGiven
    <2>2. QED BY <1>3, <2>1, ReplyGiven DEF Replied
  <1>5. \/ UNCHANGED mState
        \/ \E next \in {"login", "password", "ready"} : mState' = [mState EXCEPT ![s] = next]
    BY DEF SendGreeting, AwaitLogin, AwaitPassword, Login
  <1>6. Apart(s)
    BY <1>2, <1>4, <1>5, Typed DEF Apart, SameTransfer, Replied
  <1>7. QED BY <1>1, <1>2, <1>4, <1>6, SameSteady, RepliedSound DEF SameTransfer

LEMMA ReadSound ==
  ASSUME IInv, NEW s \in Sessions, Ticking(s), Read(s) \/ ReadFails(s)
  PROVE  StepSound(s)
  <1>1. Steady(s) /\ answered[s]
    BY DEF Read, ReadFails, Ticking
  <1>2. SameTransfer /\ mState' = mState
    BY DEF Read, ReadFails, SameTransfer, socketVars, descriptors, dataLink, transfer
  <1>3. Steady(s)'
    BY <1>1, <1>2, SameSteady
  <1>4. CASE ReadFails(s)
    BY <1>2, <1>4 DEF ReadFails, Signalled, Goes, StepSound, Apart, SameTransfer,
       CutShort, Ends
  <1>5. CASE Read(s)
    <2>1. /\ removeList' = removeList
          /\ \/ pc' = "data" /\ answered' = answered
             \/ pc' = "command" /\ answered' = [answered EXCEPT ![s] = FALSE]
      BY <1>5 DEF Read, Goes
    <2>2. Apart(s)
      BY <1>2, <2>1, Typed DEF Apart, SameTransfer
    <2>3. pc' \in TickLabels /\ Ticking(s)'
      BY <1>1, <1>3, <2>1 DEF Ticking, Steady, TickLabels
    <2>4. QED BY <1>2, <2>1, <2>2, <2>3 DEF StepSound, GoesOn, SameTransfer
  <1>6. QED BY <1>4, <1>5

\* The handlers that leave the transfer of the session as it is.
LEMMA UntouchedSound ==
  ASSUME IInv, NEW s \in Sessions, Ticking(s), pc = "command", Untouched,
         Replied(s, {"data", "visit"})
  PROVE  StepSound(s)
  <1>1. SameTransfer /\ mState' = mState
    BY DEF Untouched, SameTransfer, socketVars, descriptors, dataLink, transfer
  <1>2. Steady(s)'
    BY <1>1, SameSteady DEF Ticking
  <1>3. Apart(s)
    BY <1>1 DEF Apart, SameTransfer, Replied
  <1>4. QED BY <1>1, <1>2, <1>3, RepliedSound DEF SameTransfer

LEMMA AnsweringSound ==
  ASSUME IInv, NEW s \in Sessions, Ticking(s),
         \/ HandleQuit(s) \/ HandlePlain(s) \/ HandleUnknown(s)
         \/ HandleMode(s) \/ HandleType(s) \/ HandleStru(s)
         \/ ChangeDirectory(s) \/ HandleDele(s) \/ HandleMkd(s) \/ HandleRmd(s)
  PROVE  StepSound(s)
  <1>1. /\ pc = "command" /\ Untouched
        /\ \/ Write(s) \/ SendSyntaxError(s) \/ SendBye(s)
           \/ RequestRemoval(s) /\ UNCHANGED answered
    BY DEF HandleQuit, HandlePlain, HandleUnknown, HandleMode, HandleType, HandleStru,
       ChangeDirectory, HandleDele, HandleMkd, HandleRmd, HandleChecked, Handling
  <1>2. Replied(s, {"data", "visit"})
    BY <1>1, ReplyGiven DEF Replied, CutShort
  <1>3. QED BY <1>1, <1>2, UntouchedSound

\* The descriptors of s that are not in kinds, and all of the others, stay.
KeepsBut(s, kinds) ==
  /\ \A u \in Sessions \ {s} : \A k \in Kinds : fd'[<<u, k>>] = fd[<<u, k>>]
  /\ \A k \in Kinds \ kinds : fd'[<<s, k>>] = fd[<<s, k>>]

LEMMA AddressSound ==
  ASSUME IInv, NEW s \in Sessions, Ticking(s), HandlePort(s) \/ HandlePasv(s)
  PROVE  StepSound(s)
  <1>1. /\ pc = "command" /\ Steady(s)
        /\ UNCHANGED <<mState, data, due, dpeer>>
    BY DEF HandlePort, HandlePasv, Handling, transfer, dataLink, Ticking
  <1>2. KeepsBut(s, {"lis"}) /\ (fd'[<<s, "lis">>] # BadFd \/ RequestRemoval(s))
    <2>1. CASE UNCHANGED descriptors
      BY <1>1, <2>1 DEF KeepsBut, descriptors, Steady
    <2>2. CASE Close({<<s, "lis">>})
      <3>1. {<<s, "lis">>} \in SUBSET HandlesOf(s)
        BY DEF HandlesOf, Kinds
      <3>2. QED BY <2>2, <3>1, CloseKeeps, Typed DEF KeepsBut, Kinds
    <2>3. CASE /\ ~Held(s, "lis")
               /\ \/ \E f \in Fds : Lowest(f) /\ Assign(<<s, "lis">>, f)
                  \/ /\ fd' = [fd EXCEPT ![<<s, "lis">>] = BadFd] /\ UNCHANGED open
                     /\ RequestRemoval(s)
      <3>1. KeepsBut(s, {"lis"})
        BY <2>3, AssignKeeps, Typed DEF KeepsBut, Kinds, Held
      <3>2. ASSUME NEW f \in Fds, Assign(<<s, "lis">>, f)
            PROVE  fd'[<<s, "lis">>] # BadFd
        BY <3>2, Typed, HandlesOfSession DEF Assign
      <3>3. QED BY <2>3, <3>1, <3>2
    <2>4. QED BY <2>1, <2>2, <2>3 DEF HandlePort, HandlePasv
  <1>3. Replied(s, {"data", "visit"})
    <2>1. \/ Write(s) \/ SendSyntaxError(s)
          \/ (RequestRemoval(s) \/ Goes("terminate")) /\ UNCHANGED answered
      BY DEF HandlePort, HandlePasv
    <2>2. QED BY <2>1, ReplyGiven DEF Replied, CutShort, Goes, Ends
  <1>4. Apart(s) /\ fd'[<<s, "ctl">>] = fd[<<s, "ctl">>]
    BY <1>1, <1>2, <1>3 DEF Apart, KeepsBut, Kinds, Replied
  <1>5. CASE RequestRemoval(s)
    BY <1>4, <1>5 DEF StepSound, CutShort
  <1>6. CASE fd'[<<s, "lis">>] # BadFd
    <2>1. Steady(s)'
      BY <1>1, <1>2, <1>6 DEF Steady, KeepsBut, Kinds, Held
    <2>2. QED BY <1>3, <1>4, <2>1, RepliedSound
  <1>7. QED BY <1>2, <1>5, <1>6

\* RETR, STOR and LIST: a Data object with its file and without a connection.
LEMMA StartSound ==
  ASSUME IInv, NEW s \in Sessions, Ticking(s), HandleRetr(s) \/ HandleStor(s) \/ HandleList(s)
  PROVE  StepSound(s)
  <1>1. pc = "command" /\ Steady(s) /\ mState' = mState
    BY DEF HandleRetr, HandleStor, HandleList, Handling, Ticking, NoTransferStarted,
       StartTransfer, Untouched
  <1>2. CASE NoTransferStarted(s)
    <2>1. Untouched /\ Replied(s, {"data", "visit"})
      BY <1>2, ReplyGiven DEF NoTransferStarted, Replied
    <2>2. QED BY <1>1, <2>1, UntouchedSound
  <1>3. ASSUME NEW kind \in {"upload", "download"}, NEW buffers, StartTransfer(s, kind, buffers)
        PROVE  StepSound(s)
    <2>1. /\ data[s] = "none" /\ data' = [data EXCEPT ![s] = kind]
          /\ UNCHANGED <<dpeer, due, answered, removeList>>
          /\ pc' = "open"
      BY <1>3 DEF StartTransfer, dataLink, Goes
    <2>2. PICK f \in Fds : Lowest(f) /\ Assign(<<s, "file">>, f)
      BY <1>3 DEF StartTransfer
    <2>3. fd[<<s, "file">>] \notin Fds
      BY <2>1, Typed DEF IInv, Holdings
    <2>4. KeepsBut(s, {"file"}) /\ fd'[<<s, "file">>] # NoFd
      BY <2>2, <2>3, AssignKeeps, Typed, HandlesOfSession DEF KeepsBut, Kinds, Assign
    <2>5. Apart(s)
      BY <1>1, <2>1, <2>4, Typed DEF Apart, KeepsBut
    <2>6. Ticking(s)'
      BY <1>1, <2>1, <2>4, Typed DEF Ticking, Steady, KeepsBut, Kinds, Held
    <2>7. QED BY <2>1, <2>4, <2>5, <2>6 DEF StepSound, GoesOn, KeepsBut, Kinds, TickLabels
  <1>4. CASE HandleList(s)
    <2>1. CASE /\ Write(s) \/ (Goes("segv") /\ UNCHANGED answered)
               /\ UNCHANGED <<descriptors, dataLink, data, left>>
      <3>1. SameTransfer
        BY <1>4, <2>1 DEF HandleList, SameTransfer, descriptors, dataLink
      <3>2. Replied(s, {"data", "visit"})
        BY <2>1, ReplyGiven DEF Replied, Goes, CutShort, Ends
      <3>3. Apart(s)
        BY <1>1, <3>1, <3>2 DEF Apart, SameTransfer, Replied
      <3>4. QED BY <1>1, <3>1, <3>2, <3>3, SameSteady, RepliedSound DEF SameTransfer
    <2>2. CASE /\ Close(DataHandles(s)) /\ NoLink(s)
               /\ data' = [data EXCEPT ![s] = "listing"]
               /\ Goes("open")
               /\ UNCHANGED answered
      <3>1. DataHandles(s) \in SUBSET HandlesOf(s)
        BY DEF DataHandles, HandlesOf, Kinds
      <3>2. KeepsBut(s, {"sock", "file"}) /\ fd'[<<s, "file">>] = NoFd
        <4>1. KeepsBut(s, {"sock", "file"})
          BY <2>2, <3>1, CloseKeeps, Typed DEF KeepsBut, DataHandles
        <4>2. "file" \in Kinds /\ <<s, "file">> \in DataHandles(s)
          BY DEF DataHandles, Kinds
        <4>3. fd'[<<s, "file">>] = NoFd
          BY <2>2, <3>1, <4>2, CloseKeeps, Typed
        <4>4. QED BY <4>1, <4>3
      <3>3. due' = due /\ "LIST" \in Commands
        BY <1>4 DEF HandleList, Handling, Said
      <3>4. Apart(s)
        BY <1>1, <2>2, <3>2, <3>3, Typed DEF Apart, KeepsBut, NoLink
      <3>5. pc' = "open" /\ removeList' = removeList
        BY <2>2 DEF Goes
      <3>6. Ticking(s)'
        BY <1>1, <2>2, <3>2, <3>3, <3>5, Typed DEF Ticking, Steady, KeepsBut, Kinds, Held
      <3>7. QED BY <3>2, <3>4, <3>5, <3>6 DEF StepSound, GoesOn, KeepsBut, Kinds, TickLabels
    <2>3. QED BY <1>4, <2>1, <2>2 DEF HandleList
  <1>5. QED BY <1>2, <1>3, <1>4 DEF HandleRetr, HandleStor

\* Without a Data object a session is steady if nothing is owed.
LEMMA DroppedSteady ==
  ASSUME IInv, NEW s \in Sessions, data'[s] = "none", fd'[<<s, "lis">>] # BadFd,
         due'[s] => "LIST" \in Commands
  PROVE  Steady(s)'
  BY DEF Steady

LEMMA AborSound ==
  ASSUME IInv, NEW s \in Sessions, Ticking(s), HandleAbor(s)
  PROVE  StepSound(s)
  <1>1. pc = "command" /\ Steady(s) /\ mState' = mState
    BY DEF HandleAbor, Handling, Ticking
  <1>2. CASE data[s] = "none" /\ Write(s) /\ UNCHANGED <<descriptors, dataLink, transfer>>
    <2>1. Untouched /\ Replied(s, {"data", "visit"})
      BY <1>2, ReplyGiven DEF HandleAbor, Untouched, socketVars, Replied
    <2>2. QED BY <1>1, <2>1, UntouchedSound
  <1>3. CASE /\ Close(DataHandles(s)) /\ DropData(s)
             /\ \/ Delivered(s, "data") /\ due' = [due EXCEPT ![s] = FALSE]
                \/ Undelivered(s) /\ UNCHANGED due
    <2>1. DataHandles(s) \in SUBSET HandlesOf(s)
      BY DEF DataHandles, HandlesOf, Kinds
    <2>2. KeepsBut(s, {"sock", "file"})
      BY <1>3, <2>1, CloseKeeps, Typed DEF KeepsBut, DataHandles
    <2>3. /\ \A u \in Sessions \ {s} : answered'[u] = answered[u]
          /\ Replied(s, {"data"})
      <3>1. Delivered(s, "data") => Replied(s, {"data"})
        BY ReplyGiven
      <3>2. QED BY <1>3, <3>1, ReplyGiven DEF Replied
    <2>4. Apart(s) /\ fd'[<<s, "ctl">>] = fd[<<s, "ctl">>]
      BY <1>1, <1>3, <2>2, <2>3, Typed DEF Apart, KeepsBut, DropData, NoLink, Kinds
    <2>5. CASE Undelivered(s)
      BY <2>4, <2>5, ReplyGiven DEF StepSound
    <2>6. CASE due' = [due EXCEPT ![s] = FALSE]
      <3>1. Steady(s)'
        BY <1>1, <1>3, <2>2, <2>6, DroppedSteady, Typed DEF DropData, Steady, KeepsBut, Kinds
      <3>2. QED BY <2>3, <2>4, <3>1, RepliedSound DEF Replied
    <2>7. QED BY <1>3, <2>5, <2>6
  <1>4. QED BY <1>2, <1>3 DEF HandleAbor

-----------------------------------------------------------------------------
(* OpenDataConnection and Data::Tick.                                      *)

LEMMA OpenSound ==
  ASSUME IInv, NEW s \in Sessions, Current(s), Ticking(s), OpenDataConnection(s)
  PROVE  StepSound(s)
  <1>1. pc = "open" /\ mState' = mState
    BY DEF OpenDataConnection, Accept, AcceptFails, Connect, ConnectRefused, ConnectFails
  <1>2. /\ data[s] # "none" /\ fd[<<s, "sock">>] \notin Fds /\ fd[<<s, "sock">>] = NoFd
        /\ fd[<<s, "lis">>] # BadFd
        /\ (data[s] = "listing") <=> ~Held(s, "file")
        /\ due[s] => "LIST" \in Commands
    BY <1>1, Typed DEF IInv, Labels, Ticking
  <1>3. /\ {<<s, "lis">>} \in SUBSET HandlesOf(s)
        /\ DataHandles(s) \in SUBSET HandlesOf(s)
        /\ {<<s, "lis">>} \cup DataHandles(s) \in SUBSET HandlesOf(s)
    BY DEF DataHandles, HandlesOf, Kinds
  <1>4. CASE Accept(s) \/ Connect(s)
    <2>1. /\ data' = data /\ dpeer' = [dpeer EXCEPT ![s] = "up"]
          /\ Announce(s)
      BY <1>4 DEF Accept, Connect, FreshLink, Announce
    <2>2. /\ KeepsBut(s, {"sock", "lis"})
          /\ fd'[<<s, "sock">>] \in Fds /\ fd'[<<s, "lis">>] # BadFd
      <3>1. CASE Accept(s)
        <4>1. PICK f \in Fds : Rewire(<<s, "sock">>, f, {<<s, "lis">>})
          BY <3>1 DEF Accept
        <4>2. \A h \in Handles :
                fd'[h] = IF h = <<s, "sock">> THEN f
                         ELSE IF h = <<s, "lis">> THEN NoFd ELSE fd[h]
          BY <4>1 DEF Rewire
        <4>3. KeepsBut(s, {"sock", "lis"})
          BY <4>2 DEF KeepsBut, Handles
        <4>4. QED BY <4>2, <4>3, Typed, HandlesOfSession
      <3>2. CASE Connect(s)
        <4>1. PICK f \in Fds : Lowest(f) /\ Assign(<<s, "sock">>, f)
          BY <3>2 DEF Connect
        <4>2. KeepsBut(s, {"sock"})
          BY <1>2, <4>1, AssignKeeps, Typed DEF KeepsBut, Kinds
        <4>3. fd'[<<s, "sock">>] = f
          BY <4>1, Typed, HandlesOfSession DEF Assign
        <4>4. QED BY <1>2, <4>2, <4>3 DEF KeepsBut, Kinds
      <3>3. QED BY <1>4, <3>1, <3>2
    <2>3. Replied(s, {"data"})
      <3>1. Delivered(s, "data") => Replied(s, {"data"})
        BY ReplyGiven
      <3>2. QED BY <2>1, <3>1, ReplyGiven DEF Announce, Replied
    <2>4. \A u \in Sessions \ {s} : due'[u] = due[u]
      BY <2>1, Typed DEF Announce
    <2>5. Apart(s) /\ fd'[<<s, "ctl">>] = fd[<<s, "ctl">>]
      BY <1>1, <2>1, <2>2, <2>3, <2>4, Typed DEF Apart, KeepsBut, Kinds, Replied
    <2>6. CASE Undelivered(s)
      BY <2>5, <2>6, ReplyGiven DEF StepSound
    <2>7. CASE due' = [due EXCEPT ![s] = TRUE]
      <3>1. due'[s] /\ dpeer'[s] = "up" /\ fd'[<<s, "file">>] = fd[<<s, "file">>]
        BY <2>1, <2>2, <2>7, Typed DEF KeepsBut, Kinds
      <3>2. Steady(s)'
        BY <1>2, <2>1, <2>2, <3>1 DEF Steady, Held
      <3>3. QED BY <2>3, <2>5, <3>2, RepliedSound DEF Replied
    <2>8. QED BY <2>1, <2>6, <2>7 DEF Announce
  <1>5. CASE ConnectFails(s)
    <2>1. /\ UNCHANGED <<data, due, dpeer, answered>> /\ RequestRemoval(s)
          /\ fd' = [fd EXCEPT ![<<s, "sock">>] = BadFd] /\ UNCHANGED open
      BY <1>5 DEF ConnectFails, dataLink, transfer
    <2>2. KeepsBut(s, {"sock"})
      BY <1>2, <2>1, AssignKeeps, Typed DEF KeepsBut, Kinds
    <2>3. QED BY <1>1, <2>1, <2>2 DEF StepSound, Apart, KeepsBut, Kinds, CutShort
  <1>6. CASE AcceptFails(s) \/ ConnectRefused(s)
    <2>1. /\ due' = due
          /\ \/ /\ Delivered(s, "data")
                /\ \/ Close({<<s, "lis">>} \cup DataHandles(s))
                   \/ Close(DataHandles(s))
                /\ DropData(s)
             \/ /\ Undelivered(s)
                /\ \/ Close({<<s, "lis">>})
                   \/ \E f \in Fds : Lowest(f) /\ Assign(<<s, "sock">>, f)
                /\ UNCHANGED <<data, dpeer>>
      BY <1>6 DEF AcceptFails, ConnectRefused
    <2>2. KeepsBut(s, {"lis", "sock", "file"})
      <3>1. ASSUME NEW H \in SUBSET HandlesOf(s), <<s, "ctl">> \notin H, Close(H)
            PROVE  KeepsBut(s, {"lis", "sock", "file"})
        BY <3>1, CloseKeeps, Typed DEF KeepsBut, Kinds
      <3>2. /\ <<s, "ctl">> \notin {<<s, "lis">>}
            /\ <<s, "ctl">> \notin DataHandles(s)
            /\ <<s, "ctl">> \notin {<<s, "lis">>} \cup DataHandles(s)
        BY DEF DataHandles
      <3>3. ASSUME NEW f \in Fds, Lowest(f), Assign(<<s, "sock">>, f)
            PROVE  KeepsBut(s, {"lis", "sock", "file"})
        BY <1>2, <3>3, AssignKeeps, Typed DEF KeepsBut, Kinds
      <3>4. QED BY <1>3, <2>1, <3>1, <3>2, <3>3
    <2>3. Replied(s, {"data"})
      <3>1. Delivered(s, "data") => Replied(s, {"data"})
        BY ReplyGiven
      <3>2. QED BY <2>1, <3>1, ReplyGiven DEF Replied
    <2>4. Apart(s) /\ fd'[<<s, "ctl">>] = fd[<<s, "ctl">>]
      BY <1>1, <2>1, <2>2, <2>3, Typed DEF Apart, KeepsBut, DropData, NoLink, Kinds, Replied
    <2>5. CASE Undelivered(s)
      BY <2>4, <2>5, ReplyGiven DEF StepSound
    <2>6. CASE /\ \/ Close({<<s, "lis">>} \cup DataHandles(s))
                  \/ Close(DataHandles(s))
               /\ DropData(s)
      <3>1. fd'[<<s, "lis">>] # BadFd
        <4>1. <<s, "lis">> \in Handles
          BY HandlesOfSession
        <4>2. fd'[<<s, "lis">>] = NoFd \/ fd'[<<s, "lis">>] = fd[<<s, "lis">>]
          BY <2>6, <4>1 DEF Close
        <4>3. QED BY <1>2, <4>2, Typed
      <3>2. data'[s] = "none"
        BY <2>6, Typed DEF DropData
      <3>3. Steady(s)'
        BY <1>2, <2>1, <3>1, <3>2, DroppedSteady
      <3>4. QED BY <2>3, <2>4, <3>3, RepliedSound DEF Replied
    <2>7. QED BY <2>1, <2>5, <2>6
  <1>7. QED BY <1>4, <1>5, <1>6 DEF OpenDataConnection

\* The callbacks of Data: 226 or 552, and nothing is owed any more.
LEMMA ConcludeSound ==
  ASSUME IInv, NEW s \in Sessions, Conclude(s), fd[<<s, "lis">>] # BadFd,
         UNCHANGED <<fd, data, dpeer, mState>>
  PROVE  StepSound(s)
  <1>1. Replied(s, {"reset"})
    <2>1. Delivered(s, "reset") => Replied(s, {"reset"})
      BY ReplyGiven
    <2>2. QED BY <2>1, ReplyGiven DEF Conclude, Replied
  <1>2. Apart(s)
    BY <1>1, Typed DEF Conclude, Apart, Replied
  <1>3. CASE Undelivered(s)
    BY <1>2, <1>3, ReplyGiven DEF StepSound
  <1>4. CASE due' = [due EXCEPT ![s] = FALSE]
    <2>1. ~due'[s]
      BY <1>4, Typed
    <2>2. CASE removeList' = removeList /\ pc' = "reset" /\ answered'[s]
      BY <1>2, <2>1, <2>2 DEF Ticking, StepSound, GoesOn, TickLabels
    <2>3. QED BY <1>1, <1>2, <2>2 DEF Replied, StepSound
  <1>5. QED BY <1>3, <1>4 DEF Conclude

LEMMA DataSound ==
  ASSUME IInv, NEW s \in Sessions, Ticking(s), DataTick(s)
  PROVE  StepSound(s)
  <1>1. answered[s] /\ fd[<<s, "lis">>] # BadFd /\ mState' = mState
    BY DEF Ticking, DataTick, NoTransfer, ResetTransfer, SendFinished, SendStored,
       SendBlocks, SendBuffer, SendFails, ReceiveNothing, ReceiveData, ReceiveEnd,
       ReceiveFails, Sending, Receiving, Untouched
  <1>2. CASE ResetTransfer(s)
    <2>1. /\ Close(DataHandles(s)) /\ DropData(s) /\ ~due[s]
          /\ UNCHANGED <<due, answered, removeList>> /\ pc' = "visit"
      BY <1>2 DEF ResetTransfer, Goes, Ticking
    <2>2. DataHandles(s) \in SUBSET HandlesOf(s)
      BY DEF DataHandles, HandlesOf, Kinds
    <2>3. KeepsBut(s, {"sock", "file"})
      BY <2>1, <2>2, CloseKeeps, Typed DEF KeepsBut, DataHandles
    <2>4. Apart(s) /\ fd'[<<s, "ctl">>] = fd[<<s, "ctl">>]
      BY <1>1, <2>1, <2>3, Typed DEF Apart, KeepsBut, DropData, NoLink, Kinds
    <2>5. data'[s] = "none" /\ fd'[<<s, "lis">>] # BadFd
      BY <1>1, <2>1, <2>3, Typed DEF DropData, KeepsBut, Kinds
    <2>6. Steady(s)'
      BY <2>1, <2>5, DroppedSteady
    <2>7. QED BY <1>1, <2>1, <2>4, <2>6 DEF StepSound, GoesOn
  <1>3. CASE Conclude(s) /\ UNCHANGED <<fd, data, dpeer>>
    BY <1>1, <1>3, ConcludeSound
  <1>4. CASE /\ SameTransfer /\ answered' = answered
             /\ pc \in {"data", "sending"}
             /\ \/ pc' \in {"visit", "data", "sending"} /\ removeList' = removeList
                \/ CutShort(s)
    <2>1. Apart(s)
      BY <1>1, <1>4 DEF Apart, SameTransfer
    <2>2. Steady(s)'
      BY <1>4, SameSteady DEF Ticking
    <2>3. CASE pc' \in {"visit", "data", "sending"} /\ removeList' = removeList
      <3>1. pc' # "visit" => Ticking(s)'
        BY <1>1, <1>4, <2>2, <2>3 DEF Ticking, Steady, SameTransfer
      <3>2. QED
        BY <1>1, <1>4, <2>1, <2>2, <2>3, <3>1 DEF StepSound, GoesOn, SameTransfer, TickLabels
    <2>4. CASE CutShort(s)
      BY <1>4, <2>1, <2>4 DEF StepSound, SameTransfer
    <2>5. QED BY <1>4, <2>3, <2>4
  <1>5. CASE SendFinished(s) \/ ReceiveEnd(s)
    BY <1>3, <1>5 DEF SendFinished, ReceiveEnd, socketVars, descriptors, dataLink
  <1>6. CASE ReceiveData(s)
    <2>1. UNCHANGED <<fd, data, dpeer>> /\ pc = "data"
      BY <1>6 DEF ReceiveData, Receiving, descriptors
    <2>2. \/ Conclude(s)
          \/ pc' \in {"visit", "data"} /\ UNCHANGED <<removeList, due, answered>>
      BY <1>6 DEF ReceiveData, Goes
    <2>3. QED BY <1>3, <1>4, <2>1, <2>2 DEF SameTransfer
  <1>7. CASE NoTransfer(s) \/ SendStored(s) \/ SendBlocks(s) \/ SendBuffer(s)
             \/ SendFails(s) \/ ReceiveNothing(s) \/ ReceiveFails(s)
    <2>1. SameTransfer /\ answered' = answered /\ pc \in {"data", "sending"}
      BY <1>7 DEF NoTransfer, SendStored, SendBlocks, SendBuffer, SendFails,
         ReceiveNothing, ReceiveFails, Sending, Receiving, Untouched, SameTransfer,
         socketVars, descriptors, dataLink, transfer
    <2>2. \/ pc' \in {"visit", "data", "sending"} /\ removeList' = removeList
          \/ CutShort(s)
      BY <1>7 DEF NoTransfer, SendStored, SendBlocks, SendBuffer, SendFails,
         ReceiveNothing, ReceiveFails, Goes, Signalled, CutShort, Ends
    <2>3. QED BY <1>4, <2>1, <2>2
  <1>8. QED BY <1>2, <1>5, <1>6, <1>7 DEF DataTick

LEMMA TickSound ==
  ASSUME IInv, NEW s \in Sessions, Current(s), Ticking(s), Tick(s)
  PROVE  StepSound(s)
  BY LoginSound, ReadSound, AnsweringSound, AddressSound, StartSound, AborSound,
     OpenSound, DataSound DEF Tick, AwaitReady

-----------------------------------------------------------------------------
(* The steps of the server, and of the world around it.                    *)

\* The session that is ticked has not asked to be removed: the requests that
\* wait are for sessions the round has passed.
LEMMA TickedSound ==
  ASSUME IInv, RInv, SInv, NEW s \in Sessions, Current(s), Tick(s)
  PROVE  ~Stopped /\ ~Doomed(s) /\ StepSound(s)
  <1>1. pc \in TickLabels
    BY TickMoves DEF IInv, TypeOK
  <1>2. ~Doomed(s)
    <2> SUFFICES ASSUME NEW i \in DOMAIN removeList, removeList[i] = s PROVE FALSE
      BY DEF Doomed
    <2>1. PICK j \in 1..it : list[j] = s /\ j < it
      BY <1>1 DEF RInv, Queued
    <2>2. j \in DOMAIN list /\ j # it /\ it \in DOMAIN list /\ list[it] = s
      BY <2>1, Sequences DEF IInv, Current
    <2>3. QED BY <2>1, <2>2 DEF RInv, RemovalsRegistered
  <1>3. ~Stopped
    BY <1>1 DEF Stopped, TickLabels, Ends
  <1>4. Ticking(s)
    BY <1>1, <1>2, <1>3 DEF SInv, Sound
  <1>5. QED BY <1>2, <1>3, <1>4, TickSound

LEMMA SessionStepSound ==
  ASSUME IInv, RInv, SInv, SessionStep
  PROVE  SInv'
  <1>1. PICK s \in Sessions : Current(s) /\ Tick(s) /\ UNCHANGED serverVars
    BY DEF SessionStep
  <1>2. Moved(s) /\ SameMembers /\ pc \in TickLabels
    BY <1>1, TickMoves DEF IInv, TypeOK
  <1>3. /\ list \in Seq(Sessions) /\ it \in DOMAIN list /\ list[it] = s
        /\ list' = list /\ it' = it
    BY <1>1, Sequences DEF IInv, Current, serverVars
  <1>4. ~Stopped
    BY <1>1, TickedSound
  <1>5. StepSound(s)
    BY <1>1, TickedSound
  <1>6. ASSUME NEW u \in Sessions
        PROVE  mState'[u] # "absent" => fd'[<<u, "ctl">>] \in Fds
    BY <1>2, <1>5 DEF SameMembers, StepSound, Apart, Kinds, SInv
  <1>7. ~Stopped' /\ ~Doomed(s)' => Sound(s)'
    <2>1. CASE pc' \in Ends
      BY <2>1 DEF Stopped
    <2>2. CASE RequestRemoval(s)
      <3>1. removeList' = Append(removeList, s) /\ removeList \in Seq(Sessions)
        BY <2>2 DEF RequestRemoval, IInv, TypeOK, SessionTypeOK
      <3>2. Len(removeList) + 1 \in DOMAIN removeList' /\ removeList'[Len(removeList) + 1] = s
        BY <3>1, AppendProperties
      <3>3. Doomed(s)'
        BY <3>2 DEF Doomed
      <3>4. QED BY <3>3
    <2>3. CASE GoesOn(s)
      <3>1. Current(s)'
        BY <1>3 DEF Current
      <3>2. CASE pc' = "visit" /\ Steady(s)' /\ answered'[s]
        BY <3>2 DEF Sound, TickLabels
      <3>3. CASE pc' \in TickLabels /\ Ticking(s)'
        BY <3>1, <3>3 DEF Sound
      <3>4. QED BY <2>3, <3>2, <3>3 DEF GoesOn
    <2>4. QED BY <1>5, <2>1, <2>2, <2>3 DEF StepSound, CutShort
  <1>8. ASSUME NEW u \in Sessions \ {s}, ~Doomed(u)'
         PROVE  Sound(u)'
    <2>1. ~Doomed(u)
      <3>1. CASE removeList' = removeList
        BY <1>8, <3>1 DEF Doomed
      <3>2. CASE RequestRemoval(s)
        <4>1. removeList' = Append(removeList, s) /\ removeList \in Seq(Sessions)
          BY <3>2 DEF RequestRemoval, IInv, TypeOK, SessionTypeOK
        <4>2. \A i \in DOMAIN removeList :
                i \in DOMAIN removeList' /\ removeList'[i] = removeList[i]
          BY <4>1, AppendProperties
        <4>3. QED BY <1>8, <4>2 DEF Doomed
      <3>3. QED BY <1>2, <3>1, <3>2 DEF Moved, Onward
    <2>2. ~Current(u) /\ ~Current(u)'
      BY <1>3 DEF Current
    <2>3. Steady(u) /\ answered[u]
      BY <1>4, <2>1, <2>2 DEF SInv, Sound
    <2>4. Steady(u)' /\ answered'[u]
      BY <1>5, <2>3 DEF StepSound, Apart, Steady, Held, Kinds
    <2>5. QED BY <2>2, <2>4 DEF Sound
  <1>9. ASSUME NEW u \in Sessions, ~Stopped', ~Doomed(u)'
         PROVE  Sound(u)'
    BY <1>7, <1>8, <1>9
  <1>10. QED BY <1>6, <1>9 DEF SInv

\* Nothing happened to the sessions but to the client's end of a connection.
LEMMA StillSound ==
  ASSUME IInv, SInv,
         UNCHANGED <<fd, data, due, answered, mState, removeList>>,
         \A s \in Sessions : dpeer[s] # "none" => dpeer'[s] # "none",
         \/ UNCHANGED <<pc, it, list>>
         \/ pc' \in Ends
         \/ pc \notin TickLabels \cup Ends /\ pc' \in LoopLabels \cup {"control"}
  PROVE  SInv'
  <1> SUFFICES ASSUME NEW s \in Sessions
               PROVE  /\ mState'[s] # "absent" => fd'[<<s, "ctl">>] \in Fds
                      /\ ~Stopped' /\ ~Doomed(s)' => Sound(s)'
    BY DEF SInv
  <1>1. mState'[s] # "absent" => fd'[<<s, "ctl">>] \in Fds
    BY DEF SInv
  <1>2. ASSUME ~Stopped', ~Doomed(s)' PROVE Sound(s)'
    <2>1. ~Stopped /\ ~Doomed(s)
      BY <1>2 DEF Stopped, Doomed, Ends
    <2>2. Sound(s)
      BY <2>1 DEF SInv
    <2>3. Steady(s) => Steady(s)'
      BY DEF Steady, Held
    <2>4. CASE UNCHANGED <<pc, it, list>>
      <3>1. Current(s)' <=> Current(s)
        BY <2>4 DEF Current
      <3>2. Ticking(s) => Ticking(s)'
        BY <2>3, <2>4 DEF Ticking, Held
      <3>3. CASE pc \in TickLabels /\ Current(s)
        <4>1. Ticking(s)
          BY <2>2, <3>3 DEF Sound
        <4>2. Ticking(s)'
          BY <3>2, <4>1
        <4>3. pc' \in TickLabels /\ Current(s)'
          BY <2>4, <3>1, <3>3
        <4>4. QED BY <4>2, <4>3 DEF Sound
      <3>4. CASE ~(pc \in TickLabels /\ Current(s))
        <4>1. Steady(s) /\ answered[s]
          BY <2>2, <3>4 DEF Sound
        <4>2. Steady(s)' /\ answered'[s]
          BY <2>3, <4>1
        <4>3. ~(pc' \in TickLabels /\ Current(s)')
          BY <2>4, <3>1, <3>4
        <4>4. QED BY <4>2, <4>3 DEF Sound
      <3>5. QED BY <3>3, <3>4
    <2>5. CASE pc \notin TickLabels \cup Ends /\ pc' \in LoopLabels \cup {"control"}
      <3>1. Steady(s) /\ answered[s]
        BY <2>2, <2>5 DEF Sound
      <3>2. Steady(s)' /\ answered'[s]
        BY <2>3, <3>1
      <3>3. pc' \in TickLabels => Ticking(s)'
        BY <2>5, <3>2 DEF Ticking, Steady, LoopLabels, TickLabels
      <3>4. QED BY <3>2, <3>3 DEF Sound
    <2>6. CASE pc' \in Ends
      BY <1>2, <2>6 DEF Stopped
    <2>7. QED BY <2>4, <2>5, <2>6
  <1>3. QED BY <1>1, <1>2

LEMMA RoundSound ==
  ASSUME IInv, SInv, Loop \/ Select \/ Visit \/ EndRound \/ NoListen \/ ListenCrashes
  PROVE  SInv'
  <1>1. UNCHANGED <<fd, data, due, answered, mState, removeList, dpeer>>
    BY DEF Loop, Select, Visit, EndRound, NoListen, ListenCrashes, Goes, socketVars,
       descriptors, dataLink, transfer
  <1>2. /\ pc \notin TickLabels \cup Ends
        /\ pc' \in LoopLabels \cup {"control"} \cup Ends
    BY DEF Loop, Select, Visit, EndRound, NoListen, ListenCrashes, Goes, TickLabels,
       LoopLabels, Ends
  <1>3. QED BY <1>1, <1>2, StillSound

\* Neither a client nor a signal, nor the stutter of a process that has ended.
LEMMA EnvironmentSound ==
  ASSUME IInv, SInv, Interrupt \/ (\E s \in Sessions : Client(s)) \/ UNCHANGED vars
  PROVE  SInv'
  <1>1. UNCHANGED <<fd, data, due, answered, mState, removeList, it, list>>
    BY DEF Interrupt, Client, vars, socketVars, descriptors, sessionVars, serverVars,
       transfer, Knock, SendLine, HangUp, ResetControl, Dial, SendData, DrainData,
       CloseData, ResetData
  <1>2. pc' = pc \/ pc' \in Ends
    BY DEF Interrupt, Client, vars, sessionVars, Ends
  <1>3. dpeer' = dpeer \/ \E s \in Sessions, p \in {"closed", "reset"} :
                            dpeer' = [dpeer EXCEPT ![s] = p]
    BY DEF Interrupt, Client, vars, socketVars, dataLink, Knock, SendLine, HangUp,
       ResetControl, Dial, SendData, DrainData, CloseData, ResetData
  <1>4. \A s \in Sessions : dpeer[s] # "none" => dpeer'[s] # "none"
    BY <1>3, Typed
  <1>5. QED BY <1>1, <1>2, <1>4, StillSound

\* A removal that was asked for is done, and the others still wait.
LEMMA DrainSound ==
  ASSUME IInv, RInv, SInv, Drain
  PROVE  SInv'
  <1>1. /\ pc = "visit" /\ removeList # <<>> /\ removeList' = Tail(removeList)
        /\ removeList \in Seq(Sessions)
    BY DEF Drain, IInv, TypeOK, SessionTypeOK
  <1>2. PICK s \in Sessions : s = Head(removeList)
    BY <1>1, HeadTailProperties
  <1>3. /\ s = removeList[1] /\ 1 \in DOMAIN removeList
        /\ \A i \in DOMAIN removeList : i = 1 \/ i - 1 \in DOMAIN removeList'
        /\ \A i \in DOMAIN removeList' : removeList'[i] = removeList[i + 1]
        /\ \A i \in DOMAIN removeList : i \in Int
    BY <1>1, <1>2, HeadTailProperties
  <1>4. Destroy(s) /\ UNCHANGED pc
    <2>1. s \in Registered
      BY <1>3 DEF RInv, RemovalsRegistered
    <2>2. QED BY <1>2, <2>1 DEF Drain
  <1>5. \A u \in Sessions \ {s} : Doomed(u) => Doomed(u)'
    <2> SUFFICES ASSUME NEW u \in Sessions \ {s},
                        NEW i \in DOMAIN removeList, removeList[i] = u
                 PROVE  Doomed(u)'
      BY DEF Doomed
    <2>1. i # 1 /\ i - 1 \in DOMAIN removeList' /\ (i - 1) + 1 = i
      BY <1>3
    <2>2. removeList'[i - 1] = u
      BY <1>3, <2>1
    <2>3. QED BY <2>1, <2>2 DEF Doomed
  <1>6. HandlesOf(s) \in SUBSET HandlesOf(s) /\ Close(HandlesOf(s))
    BY <1>4 DEF Destroy
  <1>7. /\ \A u \in Sessions \ {s} : \A k \in Kinds : fd'[<<u, k>>] = fd[<<u, k>>]
        /\ fd'[<<s, "lis">>] = NoFd
    <2>1. "lis" \in Kinds /\ <<s, "lis">> \in HandlesOf(s)
      BY DEF HandlesOf, Kinds
    <2>2. QED BY <1>6, <2>1, CloseKeeps, Typed
  <1>8. /\ mState' = [mState EXCEPT ![s] = "absent"]
        /\ data' = [data EXCEPT ![s] = "none"]
        /\ due' = [due EXCEPT ![s] = FALSE]
        /\ answered' = [answered EXCEPT ![s] = TRUE]
        /\ dpeer' = [dpeer EXCEPT ![s] = "none"]
    BY <1>4 DEF Destroy, DropData, NoLink
  <1>9. ASSUME NEW u \in Sessions
        PROVE  mState'[u] # "absent" => fd'[<<u, "ctl">>] \in Fds
    BY <1>7, <1>8, Typed DEF SInv, Kinds
  <1>10. pc \notin TickLabels /\ pc' \notin TickLabels /\ ~Stopped
    BY <1>1, <1>4 DEF TickLabels, Stopped, Ends
  <1>11. Sound(s)'
    <2>1. data'[s] = "none" /\ fd'[<<s, "lis">>] # BadFd /\ ~due'[s] /\ answered'[s]
      BY <1>7, <1>8, Typed
    <2>2. Steady(s)'
      BY <2>1, DroppedSteady
    <2>3. QED BY <1>10, <2>1, <2>2 DEF Sound
  <1>12. ASSUME NEW u \in Sessions \ {s}, ~Doomed(u)'
         PROVE  Sound(u)'
    <2>1. Steady(u) /\ answered[u]
      BY <1>5, <1>10, <1>12 DEF SInv, Sound
    <2>2. Steady(u)' /\ answered'[u]
      BY <1>7, <1>8, <2>1, Typed DEF Steady, Held, Kinds
    <2>3. QED BY <1>10, <2>2 DEF Sound
  <1>13. ASSUME NEW u \in Sessions, ~Doomed(u)' PROVE Sound(u)'
    BY <1>11, <1>12, <1>13
  <1>14. QED BY <1>9, <1>13 DEF SInv

LEMMA ListenSound ==
  ASSUME IInv, SInv, NEW s \in Sessions, Listen(s)
  PROVE  SInv'
  <1>1. /\ pc = "listen" /\ pc' = "loop"
        /\ UNCHANGED <<removeList, data, due, answered, dpeer>>
        /\ mState[s] = "absent" /\ mState' = [mState EXCEPT ![s] = "greeting"]
    BY DEF Listen, Knocking, Goes, transfer, dataLink
  <1>2. fd[<<s, "ctl">>] \notin Fds
    BY <1>1, Typed DEF IInv, Holdings
  <1>3. PICK f \in Fds : Lowest(f) /\ Assign(<<s, "ctl">>, f)
    BY DEF Listen
  <1>4. KeepsBut(s, {"ctl"}) /\ fd'[<<s, "ctl">>] \in Fds
    BY <1>2, <1>3, AssignKeeps, Typed, HandlesOfSession DEF KeepsBut, Kinds, Assign
  <1>5. ASSUME NEW u \in Sessions
        PROVE  mState'[u] # "absent" => fd'[<<u, "ctl">>] \in Fds
    BY <1>1, <1>4, Typed DEF SInv, KeepsBut, Kinds
  <1>6. ASSUME NEW u \in Sessions, ~Doomed(u)'
        PROVE  Sound(u)'
    <2>1. Steady(u) /\ answered[u]
      BY <1>1, <1>6 DEF SInv, Sound, Doomed, Stopped, Ends, TickLabels
    <2>2. \A k \in Kinds \ {"ctl"} : fd'[<<u, k>>] = fd[<<u, k>>]
      BY <1>4 DEF KeepsBut
    <2>3. Steady(u)' /\ answered'[u]
      BY <1>1, <2>1, <2>2 DEF Steady, Held, Kinds
    <2>4. QED BY <1>1, <2>3 DEF Sound, TickLabels
  <1>7. QED BY <1>5, <1>6 DEF SInv

-----------------------------------------------------------------------------
(* The induction.                                                          *)

LEMMA InitSound == Init => SInv
  <1> SUFFICES ASSUME Init, NEW s \in Sessions
               PROVE  mState[s] = "absent" /\ Sound(s)
    BY DEF SInv
  <1>1. /\ mState[s] = "absent" /\ data[s] = "none" /\ ~due[s] /\ answered[s]
        /\ pc \notin TickLabels
    BY DEF Init, SessionInit, TickLabels
  <1>2. fd[<<s, "lis">>] # BadFd
    <2>1. <<s, "lis">> \in Handles /\ fd = [h \in Handles |-> NoFd]
      BY HandlesOfSession DEF Init, SocketsInit
    <2>2. QED BY <2>1 DEF NoFd, BadFd
  <1>3. Steady(s)
    BY <1>1, <1>2 DEF Steady
  <1>4. Sound(s)
    BY <1>1, <1>3 DEF Sound
  <1>5. QED BY <1>1, <1>4

LEMMA NextSound == IInv /\ RInv /\ SInv /\ [Next]_vars => SInv'
  <1> SUFFICES ASSUME IInv, RInv, SInv, [Next]_vars PROVE SInv'
    OBVIOUS
  <1>1. CASE Server
    BY <1>1, SessionStepSound, RoundSound, DrainSound, ListenSound DEF Server
  <1>2. CASE Interrupt \/ (\E s \in Sessions : Client(s)) \/ Terminated \/ UNCHANGED vars
    BY <1>2, EnvironmentSound DEF Terminated
  <1>3. QED BY <1>1, <1>2 DEF Next

\* The three invariants together.
Invariants == IInv /\ RInv /\ SInv

LEMMA AllInductive == Spec => []Invariants
  <1>1. Invariants <=> IInv /\ RInv /\ SInv
    BY DEF Invariants
  <1>2. QED BY <1>1, Inductive, InitQueued, NextQueued, InitSound, NextSound, PTL DEF Spec

-----------------------------------------------------------------------------
(* Between two rounds.                                                     *)

\* No removal waits, so that no session is doomed.
LEMMA BetweenRounds ==
  ASSUME Invariants, pc = "select", NEW s \in Sessions
  PROVE  Steady(s) /\ answered[s]
  <1>1. removeList = <<>>
    BY DEF Invariants, RInv, Queued, TickLabels, Ends
  <1>2. ~Doomed(s)
    BY <1>1 DEF Doomed
  <1>3. QED BY <1>2 DEF Invariants, SInv, Sound, Stopped, Ends, TickLabels

\* Whatever the ticks of a round did, select() is called with descriptors that
\* are open, among them the data connection of every Data object: the -1 of a
\* failed socket() goes with the session whose tick it cut short.
THEOREM SelectableHolds == Spec => []SelectableDescriptors
  <1>1. Invariants => SelectableDescriptors
    <2> SUFFICES ASSUME Invariants, pc = "select", NEW s \in Registered
                 PROVE  /\ \A h \in GetFds(s) : fd[h] \in open
                        /\ data[s] # "none" => <<s, "sock">> \in GetFds(s)
      BY DEF SelectableDescriptors
    <2>1. s \in Sessions /\ mState[s] # "absent"
      BY DEF Invariants, RInv, RemovalsRegistered
    <2>2. Steady(s)
      BY <2>1, BetweenRounds
    <2>3. \A h \in Handles : fd[h] \in Fds => fd[h] \in open
      BY DEF Invariants, IInv, DescriptorOwnership, HeldFds, Fds, NoFd, BadFd
    <2>4. fd[<<s, "ctl">>] \in Fds
      BY <2>1 DEF Invariants, SInv
    <2>5. fd[<<s, "lis">>] \in Fds \cup {NoFd}
      BY <2>1, <2>2, HandlesOfSession
         DEF Steady, Invariants, IInv, TypeOK, SocketsTypeOK
    <2>6. data[s] # "none" => fd[<<s, "sock">>] \in Fds
      BY <2>2 DEF Steady
    <2>7. NoFd \notin Fds
      BY DEF NoFd, Fds
    <2>8. QED BY <2>1, <2>3, <2>4, <2>5, <2>6, <2>7, HandlesOfSession DEF GetFds
  <1>2. QED BY <1>1, AllInductive, PTL

\* A client that is still served was told what became of its last line, in
\* whatever handler, callback or catch clause the tick ended.
THEOREM AnsweredHolds == Spec => []CommandAnswered
  <1>1. Invariants => CommandAnswered
    <2>1. Invariants => Registered \subseteq Sessions
      BY DEF Invariants, RInv, RemovalsRegistered
    <2>2. QED BY <2>1, BetweenRounds DEF CommandAnswered
  <1>2. QED BY <1>1, AllInductive, PTL

\* A Data object outlives a round only with a 150 sent and no conclusion, a
\* connection, and its file: none is left over from a transfer that did not
\* start, was concluded or failed on the way.
THEOREM BackedHolds == Spec => []TransferBacked
  <1>1. Invariants => TransferBacked
    BY BetweenRounds DEF TransferBacked, Steady
  <1>2. QED BY <1>1, AllInductive, PTL

\* If nobody sends LIST, a transfer that was announced and not concluded still
\* has the Data object whose callbacks will conclude it.
THEOREM OutcomeHolds ==
  ASSUME "LIST" \notin Commands
  PROVE  Spec => []OutcomeOwed
  <1>1. Invariants => OutcomeOwed
    BY BetweenRounds DEF OutcomeOwed, Steady
  <1>2. QED BY <1>1, AllInductive, PTL

-----------------------------------------------------------------------------
(* What a step may do to a data connection.                                *)

\* In a tick the data connection is touched only where it is opened, where
\* LIST or ABOR drops it, and after the callback that concluded it.
LEMMA SockStays ==
  ASSUME IInv, NEW s \in Sessions, Tick(s), pc # "open",
         ~HandleList(s), ~HandleAbor(s), ~ResetTransfer(s)
  PROVE  fd'[<<s, "sock">>] = fd[<<s, "sock">>]
  <1>1. CASE HandlePort(s) \/ HandlePasv(s)
    <2>1. CASE UNCHANGED descriptors
      BY <2>1 DEF descriptors
    <2>2. CASE Close({<<s, "lis">>})
      BY <2>2, HandlesOfSession DEF Close
    <2>3. CASE \/ \E f \in Fds : Assign(<<s, "lis">>, f)
               \/ fd' = [fd EXCEPT ![<<s, "lis">>] = BadFd]
      BY <2>3, Typed, HandlesOfSession DEF Assign
    <2>4. QED BY <1>1, <2>1, <2>2, <2>3 DEF HandlePort, HandlePasv
  <1>2. CASE HandleRetr(s) \/ HandleStor(s)
    <2>1. CASE NoTransferStarted(s)
      BY <2>1 DEF NoTransferStarted, Untouched, socketVars, descriptors
    <2>2. CASE \E f \in Fds : Assign(<<s, "file">>, f)
      BY <2>2, Typed, HandlesOfSession DEF Assign
    <2>3. QED BY <1>2, <2>1, <2>2 DEF HandleRetr, HandleStor, StartTransfer
  <1>3. CASE SendGreeting(s) \/ Read(s) \/ ReadFails(s) \/ AwaitLogin(s) \/ AwaitPassword(s)
    BY <1>3 DEF SendGreeting, Read, ReadFails, AwaitLogin, AwaitPassword, socketVars,
       descriptors
  <1>4. CASE \/ HandleQuit(s) \/ HandlePlain(s) \/ HandleUnknown(s)
             \/ HandleMode(s) \/ HandleType(s) \/ HandleStru(s)
             \/ ChangeDirectory(s) \/ HandleDele(s) \/ HandleMkd(s) \/ HandleRmd(s)
    BY <1>4 DEF HandleQuit, HandlePlain, HandleUnknown, HandleMode, HandleType,
       HandleStru, ChangeDirectory, HandleDele, HandleMkd, HandleRmd, HandleChecked,
       Untouched, socketVars, descriptors
  <1>5. CASE DataTick(s)
    BY <1>5 DEF DataTick, NoTransfer, SendFinished, SendStored, SendBlocks, SendBuffer,
       SendFails, ReceiveNothing, ReceiveData, ReceiveEnd, ReceiveFails, Untouched,
       socketVars, descriptors
  <1>6. pc = "open" \/ ~OpenDataConnection(s)
    BY DEF OpenDataConnection, Accept, AcceptFails, Connect, ConnectRefused, ConnectFails
  <1>7. QED BY <1>1, <1>2, <1>3, <1>4, <1>5, <1>6 DEF Tick, AwaitReady

\* A connection that goes while its session can be told went with a reply.
LEMMA EndTold ==
  ASSUME "LIST" \notin Commands, Invariants, [Next]_vars, NEW s \in Sessions,
         Sock(s) \in Fds, Sock(s)' # Sock(s), mState'[s] = "ready", peer[s] # "reset"
  PROVE  ~due'[s]
  <1>1. CASE SessionStep
    <2>1. PICK u \in Sessions : Current(u) /\ Tick(u)
      BY <1>1 DEF SessionStep
    <2>2. StepSound(u) /\ (pc = "reset" => ~due[u])
      <3>1. ~Stopped /\ ~Doomed(u) /\ StepSound(u)
        BY <2>1, TickedSound DEF Invariants
      <3>2. pc = "reset" => Ticking(u)
        BY <2>1, <3>1 DEF Invariants, SInv, Sound, TickLabels
      <3>3. QED BY <3>1, <3>2 DEF Ticking
    <2>3. u = s
      BY <2>2 DEF StepSound, Apart, Sock, Kinds
    <2>4. pc # "open"
      BY <2>1, <2>3, Typed DEF Invariants, IInv, Labels, Sock
    <2>5. ~HandleList(s)
      BY DEF HandleList, Handling, Said
    <2>6. CASE ResetTransfer(s)
      BY <2>2, <2>3, <2>6 DEF ResetTransfer
    <2>7. CASE HandleAbor(s)
      <3>1. Sock(s)' = Sock(s) \/ due' = [due EXCEPT ![s] = FALSE]
        BY <2>7 DEF HandleAbor, Undelivered, descriptors, Sock
      <3>2. QED BY <3>1, Typed DEF Invariants
    <2>8. QED BY <2>1, <2>3, <2>4, <2>5, <2>6, <2>7, SockStays DEF Invariants, Sock
  <1>2. CASE Drain
    <2>1. PICK u \in Sessions : Destroy(u) \/ fd' = fd
      BY <1>2 DEF Drain, Invariants, RInv, socketVars, descriptors, IInv, TypeOK, SessionTypeOK
    <2>2. CASE Destroy(u)
      <3>1. HandlesOf(u) \in SUBSET HandlesOf(u) /\ Close(HandlesOf(u))
        BY <2>2 DEF Destroy
      <3>2. u = s
        BY <3>1, CloseKeeps, Typed DEF Invariants, Sock, Kinds
      <3>3. mState'[s] = "absent"
        BY <2>2, <3>2, Typed DEF Destroy, Invariants
      <3>4. QED BY <3>3
    <2>3. QED BY <2>1, <2>2 DEF Sock
  <1>3. CASE \E u \in Sessions : Listen(u)
    <2>1. PICK u \in Sessions, f \in Fds : Assign(<<u, "ctl">>, f)
      BY <1>3 DEF Listen
    <2>2. QED BY <2>1, Typed, HandlesOfSession DEF Assign, Sock, Invariants
  <1>4. CASE \/ Loop \/ Select \/ Visit \/ EndRound \/ NoListen \/ ListenCrashes
             \/ Interrupt \/ (\E u \in Sessions : Client(u)) \/ Terminated \/ UNCHANGED vars
    BY <1>4 DEF Loop, Select, Visit, EndRound, NoListen, ListenCrashes, Interrupt,
       Client, Terminated, vars, socketVars, descriptors, Sock, Knock, SendLine, HangUp,
       ResetControl, Dial, SendData, DrainData, CloseData, ResetData
  <1>5. QED BY <1>1, <1>2, <1>3, <1>4 DEF Next, Server

\* If nobody sends LIST, no data connection is closed or replaced behind the
\* back of a client that was told 150: a reply that concludes the transfer has
\* been sent, or the session goes too.
THEOREM EndIsTold ==
  ASSUME "LIST" \notin Commands
  PROVE  Spec => NoSilentEnd
  <1>1. Invariants /\ [Next]_vars =>
          [\A s \in Sessions :
             Sock(s) \in Fds /\ Sock(s)' # Sock(s) /\ mState'[s] = "ready"
               /\ peer[s] # "reset" => ~due'[s]]_vars
    BY EndTold
  <1>2. QED BY <1>1, AllInductive, PTL DEF Spec, NoSilentEnd
=============================================================================
