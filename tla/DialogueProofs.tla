--------------------------- MODULE DialogueProofs ---------------------------
(***************************************************************************)
(* The server leads the dialogues of module Dialogue, for every set of     *)
(* sessions and every bound: what a step says to a client maps to a step   *)
(* of its dialogue, and a step that says nothing to a stutter.  The        *)
(* invariants of OutcomeProofs make the abstract steps enabled: a reply    *)
(* that concludes finds a transfer that was announced, and Owing that a    *)
(* reply to a line finds the line unanswered.                              *)
(***************************************************************************)
EXTENDS OutcomeProofs

-----------------------------------------------------------------------------
(* What a step of a tick says to the client.                               *)

\* Nothing, or nothing that reaches it.
Silent(s) ==
  /\ UNCHANGED <<mState, answered, due>>
  /\ pc # "reset" /\ pc' # "reset"
  /\ pc' \in {"command", "open"} => pc = "command"

Greeted(s) ==
  /\ pc = "control" /\ mState[s] = "greeting"
  /\ mState' = [mState EXCEPT ![s] = "login"]
  /\ answered' = [answered EXCEPT ![s] = TRUE]
  /\ pc' = "data" /\ due' = due

TookUp(s) ==
  /\ pc = "control" /\ mState[s] # "greeting"
  /\ answered' = [answered EXCEPT ![s] = FALSE]
  /\ pc' = "command" /\ UNCHANGED <<mState, due>>

\* The phase of the login may move, or else the transfer.
Moving(s) ==
  \/ /\ due' = due
     /\ \/ UNCHANGED mState
        \/ mState[s] = "login" /\ mState' = [mState EXCEPT ![s] = "password"]
        \/ /\ mState[s] = "password"
           /\ \E next \in {"login", "ready"} : mState' = [mState EXCEPT ![s] = next]
  \/ /\ UNCHANGED mState
     /\ mState[s] = "ready"
     /\ \E told \in BOOLEAN : due' = [due EXCEPT ![s] = told]

Replies(s) ==
  /\ pc \in {"command", "open"} /\ pc' \in {"data", "visit"}
  /\ answered' = [answered EXCEPT ![s] = TRUE]

Answered(s) == Replies(s) /\ Moving(s)

Concluded(s) ==
  /\ pc = "data" /\ data[s] # "none"
  /\ answered' = [answered EXCEPT ![s] = TRUE]
  /\ due' = [due EXCEPT ![s] = FALSE]
  /\ pc' = "reset" /\ mState' = mState

DataClosed(s) ==
  /\ pc = "reset" /\ pc' = "visit"
  /\ UNCHANGED <<mState, answered, due>>

Says(s) ==
  \/ Silent(s) \/ Greeted(s) \/ TookUp(s) \/ Answered(s)
  \/ Concluded(s) \/ DataClosed(s)

\* A reply is sent, or the tick is cut short and nothing reaches the client.
Unheard == answered' = answered /\ pc' \in Ends \cup {"visit"}

LEMMA ReplyHeard ==
  ASSUME NEW s \in Sessions, pc \in {"command", "open"}
  PROVE  /\ Delivered(s, "data") => Replies(s)
         /\ Undelivered(s) => Unheard
         /\ Write(s) => Replies(s) \/ Unheard
         /\ SendSyntaxError(s) => Replies(s) \/ Unheard
         /\ SendBye(s) => Replies(s) \/ Unheard
  BY DEF Delivered, Undelivered, Write, SendSyntaxError, SendBye, Signalled, Goes,
     RequestRemoval, Replies, Unheard, Ends

LEMMA UnheardSilent ==
  ASSUME NEW s \in Sessions, Unheard, UNCHANGED <<mState, due>>, pc # "reset"
  PROVE  Silent(s)
  BY DEF Unheard, Silent, Ends

LEMMA LoginSays ==
  ASSUME IInv, NEW s \in Sessions, SendGreeting(s) \/ AwaitLogin(s) \/ AwaitPassword(s)
  PROVE  Says(s)
  <1>1. due' = due
    BY DEF SendGreeting, AwaitLogin, AwaitPassword, transfer
  <1>2. CASE SendGreeting(s)
    <2>1. pc = "control" /\ mState[s] = "greeting"
      BY <1>2 DEF SendGreeting
    <2>2. CASE Delivered(s, "data") /\ mState' = [mState EXCEPT ![s] = "login"]
      BY <1>1, <2>1, <2>2 DEF Delivered, Goes, Greeted, Says
    <2>3. CASE Undelivered(s) /\ UNCHANGED mState
      <3>1. Unheard
        BY <2>3 DEF Undelivered, Signalled, Goes, RequestRemoval, Unheard, Ends
      <3>2. QED BY <1>1, <2>1, <2>3, <3>1, UnheardSilent DEF Says
    <2>4. QED BY <1>2, <2>2, <2>3 DEF SendGreeting
  <1>3. CASE AwaitLogin(s) \/ AwaitPassword(s)
    <2>1. pc = "command"
      BY <1>3 DEF AwaitLogin, AwaitPassword
    <2>2. \/ (Replies(s) \/ Unheard) /\ UNCHANGED mState
          \/ /\ Replies(s)
             /\ \/ mState[s] = "login" /\ mState' = [mState EXCEPT ![s] = "password"]
                \/ mState[s] = "login" /\ mState' = [mState EXCEPT ![s] = "login"]
                \/ /\ mState[s] = "password"
                   /\ \E next \in {"login", "ready"} : mState' = [mState EXCEPT ![s] = next]
      BY <1>3, <2>1, ReplyHeard DEF AwaitLogin, AwaitPassword, Login
    <2>3. mState[s] = "login" /\ mState' = [mState EXCEPT ![s] = "login"] => UNCHANGED mState
      BY DEF IInv, TypeOK, SessionTypeOK
    <2>4. CASE Unheard /\ UNCHANGED mState
      BY <1>1, <2>1, <2>4, UnheardSilent DEF Says
    <2>5. CASE Replies(s) /\ ~(Unheard /\ UNCHANGED mState)
      BY <1>1, <2>2, <2>3, <2>5 DEF Moving, Answered, Says
    <2>6. QED BY <2>2, <2>4, <2>5
  <1>4. QED BY <1>2, <1>3

LEMMA ReadSays ==
  ASSUME NEW s \in Sessions, Read(s) \/ ReadFails(s)
  PROVE  Says(s)
  BY DEF Read, ReadFails, Signalled, Goes, RequestRemoval, transfer, Silent, TookUp,
     Says, Ends

\* The handlers that leave the transfer alone.
LEMMA UntouchedSays ==
  ASSUME NEW s \in Sessions,
         \/ HandleQuit(s) \/ HandlePlain(s) \/ HandleUnknown(s)
         \/ HandleMode(s) \/ HandleType(s) \/ HandleStru(s)
         \/ ChangeDirectory(s) \/ HandleDele(s) \/ HandleMkd(s) \/ HandleRmd(s)
         \/ HandlePort(s) \/ HandlePasv(s)
  PROVE  Says(s)
  <1>1. pc = "command" /\ UNCHANGED <<mState, due>>
    BY DEF HandleQuit, HandlePlain, HandleUnknown, HandleMode, HandleType, HandleStru,
       ChangeDirectory, HandleDele, HandleMkd, HandleRmd, HandleChecked, HandlePort,
       HandlePasv, Handling, Untouched, transfer
  <1>2. \/ Write(s) \/ SendSyntaxError(s) \/ SendBye(s)
        \/ (RequestRemoval(s) \/ Goes("terminate")) /\ UNCHANGED answered
    BY DEF HandleQuit, HandlePlain, HandleUnknown, HandleMode, HandleType, HandleStru,
       ChangeDirectory, HandleDele, HandleMkd, HandleRmd, HandleChecked, HandlePort,
       HandlePasv
  <1>3. Replies(s) \/ Unheard
    BY <1>1, <1>2, ReplyHeard DEF RequestRemoval, Goes, Unheard, Ends
  <1>4. Moving(s)
    BY <1>1 DEF Moving
  <1>5. QED BY <1>1, <1>3, <1>4, UnheardSilent DEF Answered, Says

LEMMA TransferSays ==
  ASSUME NEW s \in Sessions,
         HandleRetr(s) \/ HandleStor(s) \/ HandleList(s) \/ HandleAbor(s)
  PROVE  Says(s)
  <1>1. pc = "command" /\ mState[s] = "ready" /\ UNCHANGED mState
    BY DEF HandleRetr, HandleStor, HandleList, HandleAbor, Handling, NoTransferStarted,
       StartTransfer, Untouched
  <1>2. \/ (Write(s) \/ SendSyntaxError(s) \/ Undelivered(s)) /\ due' = due
        \/ (Goes("open") \/ Goes("segv")) /\ UNCHANGED <<due, answered>>
        \/ Delivered(s, "data") /\ due' = [due EXCEPT ![s] = FALSE]
    BY DEF HandleRetr, HandleStor, HandleList, HandleAbor, NoTransferStarted,
       StartTransfer, Untouched, transfer
  <1>3. CASE (Goes("open") \/ Goes("segv")) /\ UNCHANGED <<due, answered>>
    BY <1>1, <1>3 DEF Goes, Silent, Says
  <1>4. CASE Delivered(s, "data") /\ due' = [due EXCEPT ![s] = FALSE]
    BY <1>1, <1>4, ReplyHeard DEF Moving, Answered, Says
  <1>5. CASE (Write(s) \/ SendSyntaxError(s) \/ Undelivered(s)) /\ due' = due
    BY <1>1, <1>5, ReplyHeard, UnheardSilent DEF Moving, Answered, Says
  <1>6. QED BY <1>2, <1>3, <1>4, <1>5

LEMMA OpenSays ==
  ASSUME IInv, NEW s \in Sessions, Current(s), OpenDataConnection(s)
  PROVE  Says(s)
  <1>1. pc = "open" /\ UNCHANGED mState
    BY DEF OpenDataConnection, Accept, AcceptFails, Connect, ConnectRefused, ConnectFails
  <1>2. mState[s] = "ready"
    BY <1>1, ReadyHandles DEF IInv, Labels
  <1>3. \/ Delivered(s, "data") /\ (due' = due \/ due' = [due EXCEPT ![s] = TRUE])
        \/ Undelivered(s) /\ due' = due
        \/ RequestRemoval(s) /\ UNCHANGED <<due, answered>>
    BY DEF OpenDataConnection, Accept, AcceptFails, Connect, ConnectRefused,
       ConnectFails, Announce, transfer
  <1>4. CASE Delivered(s, "data") /\ (due' = due \/ due' = [due EXCEPT ![s] = TRUE])
    BY <1>1, <1>2, <1>4, ReplyHeard DEF Moving, Answered, Says
  <1>5. CASE Unheard /\ due' = due
    BY <1>1, <1>5, UnheardSilent DEF Says
  <1>6. QED BY <1>1, <1>3, <1>4, <1>5, ReplyHeard DEF RequestRemoval, Unheard

LEMMA DataSays ==
  ASSUME NEW s \in Sessions, DataTick(s)
  PROVE  Says(s)
  <1>1. mState' = mState
    BY DEF DataTick, NoTransfer, ResetTransfer, SendFinished, SendStored, SendBlocks,
       SendBuffer, SendFails, ReceiveNothing, ReceiveData, ReceiveEnd, ReceiveFails,
       Untouched
  <1>2. CASE ResetTransfer(s)
    BY <1>1, <1>2 DEF ResetTransfer, Goes, DataClosed, Says
  <1>3. ASSUME pc = "data", data[s] # "none", Conclude(s)
        PROVE  Says(s)
    <2>1. CASE Delivered(s, "reset") /\ due' = [due EXCEPT ![s] = FALSE]
      BY <1>1, <1>3, <2>1 DEF Delivered, Goes, Concluded, Says
    <2>2. CASE Undelivered(s) /\ UNCHANGED due
      <3>1. Unheard
        BY <2>2 DEF Undelivered, Signalled, Goes, RequestRemoval, Unheard, Ends
      <3>2. QED BY <1>1, <1>3, <2>2, <3>1, UnheardSilent DEF Says
    <2>3. QED BY <1>3, <2>1, <2>2 DEF Conclude
  <1>4. ASSUME pc \in {"data", "sending"}, UNCHANGED <<due, answered>>,
               pc' \in {"visit", "data", "sending"} \cup Ends
        PROVE  Says(s)
    BY <1>1, <1>4 DEF Silent, Says, Ends
  <1>5. CASE SendFinished(s) \/ ReceiveEnd(s) \/ ReceiveData(s)
    <2>1. pc = "data" /\ data[s] # "none"
      BY <1>5 DEF SendFinished, ReceiveEnd, ReceiveData, Sending, Receiving
    <2>2. \/ Conclude(s)
          \/ UNCHANGED <<due, answered>> /\ pc' \in {"visit", "data"}
      BY <1>5 DEF SendFinished, ReceiveEnd, ReceiveData, Goes
    <2>3. QED BY <1>3, <1>4, <2>1, <2>2
  <1>6. CASE NoTransfer(s) \/ SendStored(s) \/ SendBlocks(s) \/ SendBuffer(s)
             \/ SendFails(s) \/ ReceiveNothing(s) \/ ReceiveFails(s)
    <2>1. pc \in {"data", "sending"} /\ UNCHANGED <<due, answered>>
      BY <1>6 DEF NoTransfer, SendStored, SendBlocks, SendBuffer, SendFails,
         ReceiveNothing, ReceiveFails, Sending, Receiving, Untouched, transfer
    <2>2. pc' \in {"visit", "data", "sending"} \cup Ends
      BY <1>6 DEF NoTransfer, SendStored, SendBlocks, SendBuffer, SendFails,
         ReceiveNothing, ReceiveFails, Goes, Signalled, RequestRemoval, Ends
    <2>3. QED BY <1>4, <2>1, <2>2
  <1>7. QED BY <1>2, <1>5, <1>6 DEF DataTick

LEMMA TickSays ==
  ASSUME IInv, NEW s \in Sessions, Current(s), Tick(s)
  PROVE  Says(s)
  BY LoginSays, ReadSays, UntouchedSays, TransferSays, OpenSays, DataSays
     DEF Tick, AwaitReady

-----------------------------------------------------------------------------
(* A step of a tick as a step of the dialogue.                             *)

\* What the session that is ticked may rely on.
LEMMA InTick ==
  ASSUME Invariants, NEW s \in Sessions, Current(s), Tick(s), UNCHANGED serverVars
  PROVE  /\ IInv /\ Ticking(s) /\ Says(s) /\ ~Stopped
         /\ mState[s] # "absent" /\ Current(s)'
         /\ \A u \in Sessions \ {s} :
              ~Current(u) /\ ~Current(u)' /\ answered'[u] = answered[u] /\ due'[u] = due[u]
  <1>1. IInv /\ RInv /\ SInv
    BY DEF Invariants
  <1>2. ~Stopped /\ ~Doomed(s) /\ StepSound(s)
    BY <1>1, TickedSound
  <1>3. pc \in TickLabels
    BY <1>1, TickMoves DEF IInv, TypeOK
  <1>4. Ticking(s)
    BY <1>1, <1>2, <1>3 DEF SInv, Sound
  <1>5. s \in Registered
    BY DEF Current, Registered
  <1>6. mState[s] # "absent"
    BY <1>1, <1>5 DEF RInv, RemovalsRegistered
  <1>7. Current(s)' /\ \A u \in Sessions \ {s} : ~Current(u) /\ ~Current(u)'
    BY DEF Current, serverVars
  <1>8. QED BY <1>1, <1>2, <1>4, <1>6, <1>7, TickSays DEF StepSound, Apart

\* Only the dialogue of s may have moved.
Only(s) ==
  /\ Owed' = [Owed EXCEPT ![s] = ~answered'[s]]
  /\ Transfers' = [Transfers EXCEPT ![s] = Transfer(s)']
  /\ Owed[s] = ~answered[s] /\ Transfers[s] = Transfer(s)

LEMMA OnlyOne ==
  ASSUME NEW s \in Sessions,
         \A u \in Sessions \ {s} : answered'[u] = answered[u] /\ Transfer(u)' = Transfer(u)
  PROVE  Only(s)
  <1>1. Owed' = [Owed EXCEPT ![s] = ~answered'[s]]
    BY DEF Owed
  <1>2. Transfers' = [Transfers EXCEPT ![s] = Transfer(s)']
    BY DEF Transfers
  <1>3. QED BY <1>1, <1>2 DEF Only, Owed, Transfers

\* Nothing was said to anybody.
LEMMA NobodyTold ==
  ASSUME UNCHANGED <<mState, answered>>, \A s \in Sessions : Transfer(s)' = Transfer(s)
  PROVE  UNCHANGED <<mState, Owed, Transfers>>
  BY DEF Owed, Transfers

\* The process goes on, or has just ended.
LEMMA NobodyTells ==
  ASSUME UNCHANGED <<mState, Owed, Transfers>>, ~Stopped \/ Stopped'
  PROVE  [Dialogues!Next]_Dialogues!vars
  <1>1. CASE ~Stopped /\ Stopped'
    BY <1>1 DEF Dialogues!Next, Stopped
  <1>2. CASE Stopped' = Stopped
    BY <1>2 DEF Dialogues!vars
  <1>3. QED BY <1>1, <1>2 DEF Stopped

LEMMA TickDialogue ==
  ASSUME Invariants, Owing, NEW s \in Sessions, Current(s), Tick(s), UNCHANGED serverVars
  PROVE  [Dialogues!Next]_Dialogues!vars
  <1>1. /\ IInv /\ Ticking(s) /\ Says(s) /\ ~Stopped
        /\ mState[s] # "absent" /\ Current(s)'
        /\ \A u \in Sessions \ {s} :
              ~Current(u) /\ ~Current(u)' /\ answered'[u] = answered[u] /\ due'[u] = due[u]
    BY InTick
  <1>2. Only(s)
    BY <1>1, OnlyOne DEF Transfer
  <1>3. /\ answered \in [Sessions -> BOOLEAN] /\ due \in [Sessions -> BOOLEAN]
        /\ mState \in [Sessions -> {"absent", "greeting", "login", "password", "ready"}]
    BY <1>1 DEF IInv, TypeOK, SessionTypeOK
  <1>4. CASE Silent(s)
    <2>1. UNCHANGED <<mState, Owed, Transfers>>
      BY <1>1, <1>4, NobodyTold DEF Silent, Transfer
    <2>2. QED BY <1>1, <2>1, NobodyTells
  <1>5. ASSUME Dialogues!SessionStep(s), pc' \in TickLabels \cup {"visit"}
        PROVE  Dialogues!Next
    <2>1. pc \notin Ends /\ pc' \notin Ends
      BY <1>1, <1>5 DEF Stopped, TickLabels, Ends
    <2>2. UNCHANGED Stopped
      BY <2>1 DEF Stopped
    <2>3. QED BY <1>1, <1>5, <2>2 DEF Dialogues!Next
  <1>6. CASE Greeted(s)
    <2>1. Transfer(s)' = Transfer(s) /\ answered'[s] = answered[s]
      BY <1>1, <1>3, <1>6 DEF Greeted, Transfer, Ticking
    <2>2. UNCHANGED <<Owed, Transfers>>
      BY <1>2, <2>1 DEF Only, Owed, Transfers
    <2>3. Dialogues!Greet(s)
      BY <1>6, <2>2 DEF Greeted, Dialogues!Greet, Dialogues!Moves
    <2>4. QED BY <1>5, <1>6, <2>3 DEF Greeted, Dialogues!SessionStep, TickLabels
  <1>7. CASE TookUp(s)
    <2>1. Transfer(s)' = Transfer(s) /\ answered[s] /\ ~answered'[s]
      BY <1>1, <1>3, <1>7 DEF TookUp, Transfer, Ticking
    <2>2. UNCHANGED Transfers /\ ~Owed[s] /\ Owed' = [Owed EXCEPT ![s] = TRUE]
      BY <1>2, <2>1 DEF Only, Transfers
    <2>3. mState[s] \in {"login", "password", "ready"}
      BY <1>1, <1>3, <1>7 DEF TookUp
    <2>4. Dialogues!TakeUp(s)
      BY <1>7, <2>2, <2>3 DEF TookUp, Dialogues!TakeUp
    <2>5. QED BY <1>5, <1>7, <2>4 DEF TookUp, Dialogues!SessionStep, TickLabels
  <1>8. CASE Answered(s)
    <2>1. ~answered[s] /\ answered'[s]
      BY <1>3, <1>8 DEF Answered, Replies, Owing
    <2>2. Owed[s] /\ Owed' = [Owed EXCEPT ![s] = FALSE]
      BY <1>2, <2>1 DEF Only
    <2>3. /\ Transfer(s) = IF due[s] THEN "announced" ELSE "none"
          /\ Transfer(s)' = IF due'[s] THEN "announced" ELSE "none"
      BY <1>8 DEF Answered, Replies, Transfer
    <2>4. CASE /\ due'[s] <=> due[s]
               /\ \/ UNCHANGED mState
                  \/ mState[s] = "login" /\ mState' = [mState EXCEPT ![s] = "password"]
                  \/ /\ mState[s] = "password"
                     /\ \E next \in {"login", "ready"} : mState' = [mState EXCEPT ![s] = next]
      <3>1. UNCHANGED Transfers
        BY <1>2, <2>3, <2>4 DEF Only, Transfers
      <3>2. Dialogues!Answer(s)
        BY <2>2, <2>4 DEF Dialogues!Answer, Dialogues!Moves
      <3>3. QED BY <1>5, <1>8, <3>1, <3>2
                DEF Answered, Replies, Dialogues!SessionStep, TickLabels
    <2>5. CASE ~(due'[s] <=> due[s]) /\ UNCHANGED mState /\ mState[s] = "ready"
      <3>1. \/ Transfer(s) = "none" /\ Transfer(s)' = "announced"
            \/ Transfer(s) = "announced" /\ Transfer(s)' = "none"
        BY <2>3, <2>5
      <3>2. \/ Transfers[s] = "none" /\ Transfers' = [Transfers EXCEPT ![s] = "announced"]
            \/ Transfers[s] = "announced" /\ Transfers' = [Transfers EXCEPT ![s] = "none"]
        BY <1>2, <3>1 DEF Only
      <3>3. Dialogues!Answer(s) /\ Dialogues!AnswerTransfer(s)
        BY <2>2, <2>5, <3>2 DEF Dialogues!Answer, Dialogues!AnswerTransfer
      <3>4. QED BY <1>5, <1>8, <2>5, <3>3
                DEF Answered, Replies, Dialogues!SessionStep, TickLabels
    <2>6. QED BY <1>8, <2>4, <2>5 DEF Answered, Moving
  <1>9. CASE Concluded(s)
    <2>1. due[s] /\ answered[s] /\ answered'[s]
      BY <1>1, <1>3, <1>9 DEF Concluded, Ticking, Steady
    <2>2. Transfer(s) = "announced" /\ Transfer(s)' = "told"
      BY <1>1, <1>9, <2>1 DEF Concluded, Transfer
    <2>3. /\ ~Owed[s] /\ UNCHANGED Owed
          /\ Transfers[s] = "announced" /\ Transfers' = [Transfers EXCEPT ![s] = "told"]
      BY <1>2, <2>1, <2>2 DEF Only, Owed
    <2>4. Dialogues!Conclude(s)
      BY <1>9, <2>3 DEF Concluded, Dialogues!Conclude
    <2>5. QED BY <1>5, <1>9, <2>4 DEF Concluded, Dialogues!SessionStep, TickLabels
  <1>10. CASE DataClosed(s)
    <2>1. ~due'[s] /\ answered'[s] = answered[s]
      BY <1>1, <1>10 DEF DataClosed, Ticking
    <2>2. Transfer(s) = "told" /\ Transfer(s)' = "none"
      BY <1>10, <2>1 DEF DataClosed, Transfer
    <2>3. /\ UNCHANGED Owed
          /\ Transfers[s] = "told" /\ Transfers' = [Transfers EXCEPT ![s] = "none"]
      BY <1>2, <2>1, <2>2 DEF Only, Owed
    <2>4. Dialogues!CloseData(s)
      BY <1>10, <2>3 DEF DataClosed, Dialogues!CloseData
    <2>5. QED BY <1>5, <1>10, <2>4 DEF DataClosed, Dialogues!SessionStep
  <1>11. QED BY <1>1, <1>4, <1>6, <1>7, <1>8, <1>9, <1>10 DEF Says

-----------------------------------------------------------------------------
(* The other steps.                                                        *)

\* A session leaves its dialogue when its removal is done.
LEMMA DrainDialogue ==
  ASSUME Invariants, Drain
  PROVE  [Dialogues!Next]_Dialogues!vars
  <1>1. /\ IInv /\ RInv /\ pc = "visit"
        /\ removeList \in Seq(Sessions) /\ removeList # <<>>
    BY DEF Invariants, IInv, TypeOK, SessionTypeOK, Drain
  <1>2. PICK s \in Sessions : s = Head(removeList) /\ s = removeList[1]
                              /\ 1 \in DOMAIN removeList
    BY <1>1, HeadTailProperties
  <1>3. s \in Registered /\ mState[s] # "absent"
    BY <1>1, <1>2 DEF RInv, RemovalsRegistered
  <1>4. Destroy(s) /\ pc' = "visit"
    BY <1>1, <1>2, <1>3 DEF Drain
  <1>5. /\ mState' = [mState EXCEPT ![s] = "absent"]
        /\ due' = [due EXCEPT ![s] = FALSE]
        /\ answered' = [answered EXCEPT ![s] = TRUE]
    BY <1>4 DEF Destroy
  <1>6. answered \in [Sessions -> BOOLEAN] /\ due \in [Sessions -> BOOLEAN]
    BY <1>1, Typed
  <1>7. /\ Transfer(s)' = "none" /\ answered'[s]
        /\ \A u \in Sessions \ {s} : answered'[u] = answered[u] /\ Transfer(u)' = Transfer(u)
    BY <1>1, <1>4, <1>5, <1>6 DEF Transfer
  <1>8. Only(s)
    BY <1>7, OnlyOne
  <1>9. /\ Owed' = [Owed EXCEPT ![s] = FALSE]
        /\ Transfers' = [Transfers EXCEPT ![s] = "none"]
    BY <1>7, <1>8 DEF Only
  <1>10. Dialogues!Leave(s)
    BY <1>3, <1>5, <1>9 DEF Dialogues!Leave, Dialogues!Moves
  <1>11. ~Stopped /\ UNCHANGED Stopped
    BY <1>1, <1>4 DEF Stopped, Ends
  <1>12. QED BY <1>10, <1>11 DEF Dialogues!Next, Dialogues!SessionStep

LEMMA ListenDialogue ==
  ASSUME NEW s \in Sessions, Listen(s)
  PROVE  [Dialogues!Next]_Dialogues!vars
  <1>1. /\ mState[s] = "absent" /\ mState' = [mState EXCEPT ![s] = "greeting"]
        /\ pc = "listen" /\ pc' = "loop" /\ UNCHANGED <<due, answered>>
    BY DEF Listen, Knocking, Goes, transfer
  <1>2. UNCHANGED <<Owed, Transfers>>
    BY <1>1 DEF Owed, Transfers, Transfer
  <1>3. Dialogues!Connect(s)
    BY <1>1, <1>2 DEF Dialogues!Connect, Dialogues!Moves
  <1>4. ~Stopped /\ UNCHANGED Stopped
    BY <1>1 DEF Stopped, Ends
  <1>5. QED BY <1>3, <1>4 DEF Dialogues!Next, Dialogues!SessionStep

LEMMA RoundDialogue ==
  ASSUME Loop \/ Select \/ Visit \/ EndRound \/ NoListen \/ ListenCrashes
  PROVE  [Dialogues!Next]_Dialogues!vars
  <1>1. UNCHANGED <<mState, due, answered>>
    BY DEF Loop, Select, Visit, EndRound, NoListen, ListenCrashes, transfer
  <1>2. pc # "reset" /\ pc' # "reset" /\ ~Stopped
    BY DEF Loop, Select, Visit, EndRound, NoListen, ListenCrashes, Goes, Stopped, Ends
  <1>3. UNCHANGED <<mState, Owed, Transfers>>
    BY <1>1, <1>2, NobodyTold DEF Transfer
  <1>4. QED BY <1>2, <1>3, NobodyTells

LEMMA EnvironmentDialogue ==
  ASSUME Interrupt \/ (\E s \in Sessions : Client(s)) \/ UNCHANGED vars
  PROVE  [Dialogues!Next]_Dialogues!vars
  <1>1. /\ UNCHANGED <<mState, due, answered, it, list>>
        /\ pc' = pc \/ (pc = "select" /\ pc' = "crashed")
    BY DEF Interrupt, Client, vars, sessionVars, serverVars, transfer
  <1>2. \A s \in Sessions : Current(s)' <=> Current(s)
    BY <1>1 DEF Current
  <1>3. \A s \in Sessions : Transfer(s)' = Transfer(s)
    BY <1>1, <1>2 DEF Transfer
  <1>4. UNCHANGED <<mState, Owed, Transfers>>
    BY <1>1, <1>3, NobodyTold
  <1>5. ~Stopped \/ Stopped'
    BY <1>1 DEF Stopped, Ends
  <1>6. QED BY <1>4, <1>5, NobodyTells

\* Every step of the server is a step of one dialogue, its end, or a stutter.
LEMMA NextDialogue ==
  ASSUME Invariants, Owing, [Next]_vars
  PROVE  [Dialogues!Next]_Dialogues!vars
  <1>1. CASE SessionStep
    BY <1>1, TickDialogue DEF SessionStep
  <1>2. CASE Server /\ ~SessionStep
    BY <1>2, DrainDialogue, ListenDialogue, RoundDialogue DEF Server
  <1>3. CASE Interrupt \/ (\E s \in Sessions : Client(s)) \/ Terminated \/ UNCHANGED vars
    BY <1>3, EnvironmentDialogue DEF Terminated
  <1>4. QED BY <1>1, <1>2, <1>3 DEF Next

\* A line that is being handled has not been answered yet.
LEMMA NextOwing ==
  ASSUME Invariants, Owing, [Next]_vars
  PROVE  Owing'
  <1>1. CASE SessionStep
    <2>1. PICK s \in Sessions : Current(s) /\ Tick(s) /\ UNCHANGED serverVars
      BY <1>1 DEF SessionStep
    <2>2. /\ Says(s) /\ answered \in [Sessions -> BOOLEAN]
          /\ \A u \in Sessions \ {s} : ~Current(u)'
      BY <2>1, InTick, Typed
    <2>3. pc' \in {"command", "open"} => ~answered'[s]
      <3>1. CASE Silent(s)
        BY <2>1, <3>1 DEF Silent, Owing
      <3>2. CASE TookUp(s)
        BY <2>2, <3>2 DEF TookUp
      <3>3. QED BY <2>2, <3>1, <3>2
                DEF Says, Greeted, Answered, Replies, Concluded, DataClosed
    <2>4. QED BY <2>2, <2>3 DEF Owing
  <1>2. CASE Interrupt \/ (\E s \in Sessions : Client(s)) \/ Terminated \/ UNCHANGED vars
    <2>1. UNCHANGED <<answered, it, list>> /\ pc' \in {pc, "crashed"}
      BY <1>2 DEF Interrupt, Client, Terminated, vars, sessionVars, serverVars
    <2>2. QED BY <2>1 DEF Owing, Current
  <1>3. CASE Server /\ ~SessionStep
    <2>1. pc' \notin {"command", "open"}
      BY <1>3 DEF Server, Loop, Select, Visit, Drain, EndRound, NoListen, Listen,
         ListenCrashes, Goes
    <2>2. QED BY <2>1 DEF Owing
  <1>4. QED BY <1>1, <1>2, <1>3 DEF Next

LEMMA InitDialogue == Init => Owing /\ Dialogues!Init
  <1> SUFFICES ASSUME Init PROVE Owing /\ Dialogues!Init
    OBVIOUS
  <1>1. /\ mState = [s \in Sessions |-> "absent"] /\ pc = "loop"
        /\ \A s \in Sessions : answered[s] /\ ~due[s]
    BY DEF Init, SessionInit
  <1>2. Owed = [s \in Sessions |-> FALSE] /\ Transfers = [s \in Sessions |-> "none"]
    BY <1>1 DEF Owed, Transfers, Transfer
  <1>3. Stopped = FALSE
    BY <1>1 DEF Stopped, Ends
  <1>4. QED BY <1>1, <1>2, <1>3 DEF Owing, Dialogues!Init

\* The server implements module Dialogue: each client sees its lines answered
\* one by one, the login in its order and every transfer concluded at most
\* once, whatever the ticks, faults and removals of the other sessions.
THEOREM DialogueKept == Spec => KeepsDialogue
  <1>1. Invariants /\ Owing /\ [Next]_vars => Owing' /\ [Dialogues!Next]_Dialogues!vars
    BY NextOwing, NextDialogue
  <1>2. QED BY <1>1, InitDialogue, AllInductive, PTL DEF Spec, KeepsDialogue, Dialogues!Spec
=============================================================================
