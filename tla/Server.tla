------------------------------- MODULE Server -------------------------------
(***************************************************************************)
(* The whole server: the loop of Main.cpp, Server::Tick (Server.cpp), the  *)
(* SessionController that ticks and removes sessions                       *)
(* (SessionController.cpp), the Listener that accepts them (Listener.cpp), *)
(* the ticks of module Session, and the clients of module Sockets.         *)
(*   loop     main's test of g_exitRequested                               *)
(*   select   in select(), with the descriptors of all sessions            *)
(*   visit    SessionController::Tick: between two sessions, or at the end *)
(*   listen   the test of the listener's descriptor                        *)
(***************************************************************************)
EXTENDS Session, SequencesExt

CONSTANT Faults   \* what the environment does besides talking to the server

FaultKinds == {"interrupt", "hangup", "reset", "dataclose", "datareset"}

ASSUME FaultsAssumption == Faults \subseteq FaultKinds

VARIABLES
  list,           \* SessionController::m_list
  it,             \* how many sessions of list this round has passed
  active,         \* activeFds, and Listener if it is set in the read set
  exitRequested   \* g_exitRequested of Main.cpp

serverVars == <<list, it, active, exitRequested>>
vars == <<socketVars, sessionVars, serverVars>>

ServerTypeOK ==
  /\ list \in Seq(Sessions)
  /\ it \in 0..Len(list)
  /\ active \in SUBSET (Fds \cup {NoFd, BadFd})
  /\ exitRequested \in BOOLEAN

TypeOK == SocketsTypeOK /\ SessionTypeOK /\ ServerTypeOK

Init ==
  /\ SocketsInit
  /\ SessionInit
  /\ list = <<>>
  /\ it = 0
  /\ active = {}
  /\ exitRequested = FALSE

-----------------------------------------------------------------------------
(* Session::GetFds and the select() of Server::Tick.                       *)

\* Mutant: the data connection is not watched.
GetFdsControl(s) == {<<s, "ctl">>} \cup {h \in {<<s, "lis">>} : fd[h] # NoFd}

\* The handles whose descriptors GetFds lists.  A write descriptor is listed
\* as a negative number; which of the two it is decides what Ready asks.
GetFds(s) ==
  {<<s, "ctl">>}
    \cup {h \in {<<s, "lis">>} : fd[h] # NoFd}
    \cup {h \in {<<s, "sock">>} : data[s] # "none" /\ fd[h] # NoFd}

Ready(h) ==
  LET s == h[1] IN
  CASE h[2] = "ctl"  -> mState[s] = "greeting" \/ LineWaiting(s)
    [] h[2] = "lis"  -> dial[s]
    [] h[2] = "sock" -> IF data[s] = "download" THEN Receivable(s) ELSE Sendable(s)

Registered == {list[i] : i \in DOMAIN list}
Knocking == {s \in Sessions : peer[s] # "none" /\ mState[s] = "absent"}

Loop ==
  /\ pc = "loop"
  /\ Goes(IF exitRequested THEN "exited" ELSE "select")
  /\ UNCHANGED <<socketVars, mState, transfer, total, readBuf, answered, serverVars>>

ReadyFds ==
  {fd[h] : h \in {g \in UNION {GetFds(s) : s \in Registered} : Ready(g)}}
    \cup {f \in {Listener} : Knocking # {}}

\* Mutant: a time-out calls select() again.
SelectAgain ==
  /\ pc = "select"
  /\ active' = ReadyFds
  /\ it' = 0
  /\ Goes(IF ReadyFds = {} THEN "select"
          ELSE IF ReadyFds = {Listener} THEN "listen" ELSE "visit")
  /\ UNCHANGED <<socketVars, mState, transfer, total, readBuf, answered, list, exitRequested>>

\* select() tells of every descriptor that is ready, or times out.
Select ==
  /\ pc = "select"
  /\ active' = ReadyFds
  /\ it' = 0
  /\ Goes(IF ReadyFds = {} THEN "loop"
          ELSE IF ReadyFds = {Listener} THEN "listen" ELSE "visit")
  /\ UNCHANGED <<socketVars, mState, transfer, total, readBuf, answered, list, exitRequested>>

-----------------------------------------------------------------------------
(* SessionController::Tick.                                                *)

\* The next session is ticked if one of its descriptors is now in the list
\* of those that were ready when select() returned.
Visit ==
  /\ pc = "visit" /\ it < Len(list)
  /\ it' = it + 1
  /\ LET s == list[it'] IN
       Goes(IF {fd[h] : h \in GetFds(s)} \cap active # {} THEN "control" ELSE "visit")
  /\ UNCHANGED <<socketVars, mState, transfer, total, readBuf, answered,
                 list, active, exitRequested>>

Current(s) == it \in DOMAIN list /\ list[it] = s

SessionStep == \E s \in Sessions : Current(s) /\ Tick(s) /\ UNCHANGED serverVars

\* Session::~Session closes what the session and its Data object hold.
Destroy(s) ==
  /\ Close(HandlesOf(s))
  /\ DropData(s)
  /\ NoDial(s)
  /\ peer' = [peer EXCEPT ![s] = "none"]
  /\ wire' = [wire EXCEPT ![s] = 0]
  /\ mState' = [mState EXCEPT ![s] = "absent"]
  /\ readBuf' = [readBuf EXCEPT ![s] = 0]
  /\ due' = [due EXCEPT ![s] = FALSE]
  /\ answered' = [answered EXCEPT ![s] = TRUE]

\* Mutant: the queue of removals is not popped.
DrainUnpopped ==
  /\ pc = "visit" /\ it = Len(list) /\ removeList # <<>>
  /\ LET s == Head(removeList) IN
       \/ \E i \in DOMAIN list :
            /\ list[i] = s
            /\ list' = RemoveAt(list, i)
            /\ it' = it - 1
            /\ Destroy(s)
            /\ UNCHANGED pc
       \/ /\ s \notin Registered
          /\ pc' = "unregistered"
          /\ UNCHANGED <<list, it, socketVars, mState, transfer, readBuf, answered>>
  /\ UNCHANGED <<removeList, total, active, exitRequested>>

\* After the round the requested removals are done.  m_list.remove takes the
\* session out of the list, and the list must then be shorter by one.
Drain ==
  /\ pc = "visit" /\ it = Len(list) /\ removeList # <<>>
  /\ removeList' = Tail(removeList)
  /\ LET s == Head(removeList) IN
       \/ \E i \in DOMAIN list :
            /\ list[i] = s
            /\ list' = RemoveAt(list, i)
            /\ it' = it - 1
            /\ Destroy(s)
            /\ UNCHANGED pc
       \/ /\ s \notin Registered
          /\ pc' = "unregistered"
          /\ UNCHANGED <<list, it, socketVars, mState, transfer, readBuf, answered>>
  /\ UNCHANGED <<total, active, exitRequested>>

EndRound ==
  /\ pc = "visit" /\ it = Len(list) /\ removeList = <<>>
  /\ it' = 0
  /\ Goes("listen")
  /\ UNCHANGED <<socketVars, mState, transfer, total, readBuf, answered,
                 list, active, exitRequested>>

-----------------------------------------------------------------------------
(* Listener::Tick and Server::IncomingConnection.                          *)

NoListen ==
  /\ pc = "listen" /\ Listener \notin active
  /\ active' = {}
  /\ Goes("loop")
  /\ UNCHANGED <<socketVars, mState, transfer, total, readBuf, answered,
                 list, it, exitRequested>>

Listen(s) ==
  /\ pc = "listen" /\ Listener \in active
  /\ s \in Knocking /\ peer[s] # "reset"
  /\ \E f \in Fds : Lowest(f) /\ Assign(<<s, "ctl">>, f)
  /\ mState' = [mState EXCEPT ![s] = "greeting"]
  /\ list' = Append(list, s)
  /\ active' = {}
  /\ Goes("loop")
  /\ UNCHANGED <<controlLink, dataLink, transfer, total, readBuf, answered,
                 it, exitRequested>>

\* accept() finds no descriptor free, or getpeername() in the constructor of
\* Session finds the connection broken: ServerCrash.
ListenCrashes ==
  /\ pc = "listen" /\ Listener \in active
  /\ Exhausted \/ \E s \in Knocking : peer[s] = "reset"
  /\ Goes("crashed")
  /\ UNCHANGED <<socketVars, mState, transfer, total, readBuf, answered, serverVars>>

-----------------------------------------------------------------------------
(* The environment.                                                        *)

\* SIGINT sets the flag.  The label select stands for the time from main's
\* test to the return of select(): a signal before the call only sets the
\* flag, one during the call makes select() fail with EINTR: ServerCrash.
Interrupt ==
  /\ ~Stopped /\ ~exitRequested /\ "interrupt" \in Faults
  /\ exitRequested' = TRUE
  /\ \/ UNCHANGED pc
     \/ pc = "select" /\ pc' = "crashed"
  /\ UNCHANGED <<socketVars, mState, transfer, total, readBuf, removeList, answered,
                 list, it, active>>

Client(s) ==
  /\ ~Stopped
  /\ \/ Knock(s)
     \/ SendLine(s, readBuf[s])
     \/ Dial(s)
     \/ data[s] = "download" /\ SendData(s)
     \/ DrainData(s)
     \/ "hangup" \in Faults /\ HangUp(s)
     \/ "reset" \in Faults /\ ResetControl(s)
     \/ "dataclose" \in Faults /\ CloseData(s)
     \/ "datareset" \in Faults /\ ResetData(s)
  /\ UNCHANGED <<sessionVars, serverVars>>

Terminated == Stopped /\ UNCHANGED vars

Server ==
  \/ Loop \/ Select \/ Visit \/ SessionStep \/ Drain \/ EndRound
  \/ NoListen \/ (\E s \in Sessions : Listen(s)) \/ ListenCrashes

Next ==
  \/ Server
  \/ Interrupt
  \/ \E s \in Sessions : Client(s)
  \/ Terminated

Spec == Init /\ [][Next]_vars

-----------------------------------------------------------------------------
(* Fairness.  The server is one thread: while it can take a step it        *)
(* eventually takes one.  It cannot while accept() or send() on a data     *)
(* connection waits for a client.                                          *)
FairSpec == Spec /\ WF_vars(Server)

\* Clients that keep their side of a transfer: who was told a passive address
\* dials it, who asked for data reads it, and who has closed the data
\* connection answers what still arrives with a reset.
KeepsWord(s) ==
  /\ ~Stopped
  /\ \/ Dial(s) \/ DrainData(s)
     \/ dpeer[s] = "closed" /\ ~room[s] /\ ResetData(s)
  /\ UNCHANGED <<sessionVars, serverVars>>

CooperativeSpec == FairSpec /\ \A s \in Sessions : WF_vars(KeepsWord(s))

-----------------------------------------------------------------------------
(* Safety.                                                                 *)

HeldFds == {fd[h] : h \in Handles} \ {NoFd, BadFd}

\* Every open descriptor is the listener or belongs to exactly one member
\* variable of one session, and every variable holds an open one or a marker:
\* nothing is leaked, closed twice or used after its number was given away,
\* over all the places of Session.cpp and Data.cpp that open, close, replace
\* and abandon sockets and files.
DescriptorOwnership ==
  /\ open = {Listener} \cup HeldFds
  /\ Listener \notin HeldFds
  /\ \A g, h \in Handles : fd[g] = fd[h] /\ fd[g] \in Fds => g = h

\* Server::Tick hands select() only open descriptors: the -1 of a failed
\* socket() never survives the round (it would be taken for a write of
\* descriptor 1), and a Data object that is alive is watched by its socket.
SelectableDescriptors ==
  pc = "select" =>
    \A s \in Registered :
      /\ \A h \in GetFds(s) : fd[h] \in open
      /\ data[s] # "none" => <<s, "sock">> \in GetFds(s)

\* A session is asked to be removed once, while it is in m_list, and m_list
\* holds every session once: SessionController::Tick never finds the removal
\* of a session that is not registered, which it answers with a ServerCrash.
RemovalsRegistered ==
  /\ pc # "unregistered"
  /\ \A i, j \in DOMAIN removeList : removeList[i] = removeList[j] => i = j
  /\ \A i \in DOMAIN removeList : removeList[i] \in Registered
  /\ \A i, j \in DOMAIN list : list[i] = list[j] => i = j
  /\ Registered = {s \in Sessions : mState[s] # "absent"}

\* Between two rounds every session still served has answered the last line
\* it took from its client, through whatever handler, callback or catch.
CommandAnswered ==
  pc = "select" => \A s \in Registered : answered[s]

\* Between two rounds a Data object is alive only if its transfer was
\* announced with a 150 and not concluded, it has a connection, and it holds
\* a file unless it sends a listing.
TransferBacked ==
  pc = "select" =>
    \A s \in Sessions : data[s] # "none" =>
      /\ due[s]
      /\ dpeer[s] # "none"
      /\ (data[s] = "listing") <=> ~Held(s, "file")

\* Between two rounds a transfer that was announced and not concluded still
\* has its Data object, so that a reply will conclude it.  It holds of every
\* verb but LIST.
OutcomeOwed ==
  pc = "select" => \A s \in Sessions : due[s] => data[s] # "none"

-----------------------------------------------------------------------------
(* What a step may never do.                                               *)

Sock(s) == fd[<<s, "sock">>]

\* While a session lives and its client can be answered, its data connection
\* is never closed or replaced with the announced transfer left unconcluded.
\* It holds of every verb but LIST.
NoSilentEnd ==
  [][\A s \in Sessions :
       Sock(s) \in Fds /\ Sock(s)' # Sock(s) /\ mState'[s] = "ready" /\ peer[s] # "reset"
         => ~due'[s]]_vars

\* What the client was told of its transfer: a concluding reply is sent before
\* the Data object is reset.
Transfer(s) ==
  IF Current(s) /\ pc = "reset" THEN "told"
  ELSE IF due[s] THEN "announced" ELSE "none"

Owed == [s \in Sessions |-> ~answered[s]]
Transfers == [s \in Sessions |-> Transfer(s)]

\* The dialogues that the server leads.
Dialogues == INSTANCE Dialogue WITH
  phase <- mState, owed <- Owed, transfer <- Transfers, ended <- Stopped

\* However the ticks of the sessions are interleaved, cut short and followed by
\* removals, each session keeps to its dialogue: one line is answered after the
\* other, no phase of the login is left out, and 226 or 552 is only said of a
\* transfer that was announced and not concluded yet.
KeepsDialogue == Dialogues!Spec

-----------------------------------------------------------------------------
(* Liveness.                                                               *)

\* With clients that keep their word the loop of Main.cpp goes round for ever:
\* no tick spins, and no wait in accept() or send() lasts.
RoundsContinue == []<>(pc = "select" \/ Stopped)

\* As long as the loop goes round, a session whose client has gone is
\* destroyed and its descriptors closed, whatever transfer it was in.
SessionReclaimed ==
  []<>(pc = "select") =>
    \A s \in Sessions : peer[s] \in {"closed", "reset"} ~> peer[s] = "none"

\* A file sent to a client that reads it is concluded, once the client sends
\* no more commands (one after another that fails would cut every tick short
\* before Data::Tick).
TransferConcludes ==
  \A s \in Sessions :
    <>[](wire[s] = 0) => (data[s] = "upload" ~> data[s] = "none" \/ Stopped)

\* An interrupt ends the process, if the clients let the round finish.
InterruptEnds == exitRequested ~> Stopped

-----------------------------------------------------------------------------
(* The strengthening that makes TypeOK and DescriptorOwnership inductive.  *)

\* What waits on the socket and in m_readBuf respects the bound on lines.
LinesBounded == \A s \in Sessions : readBuf[s] + wire[s] <= MaxLines

\* What a session may hold, by the state it is in.
Holdings(s) ==
  /\ data[s] = "none" => fd[<<s, "sock">>] = NoFd /\ fd[<<s, "file">>] = NoFd
  /\ mState[s] # "ready" => data[s] = "none" /\ fd[<<s, "lis">>] = NoFd
  /\ mState[s] = "absent" => fd[<<s, "ctl">>] = NoFd

\* What the labels inside a tick say of the session that is ticked.
Labels(s) ==
  /\ pc = "open" => data[s] # "none" /\ fd[<<s, "sock">>] = NoFd
  /\ pc = "sending" => left[s] > 0

IInv ==
  /\ TypeOK
  /\ DescriptorOwnership
  /\ LinesBounded
  /\ \A s \in Sessions : Holdings(s)
  /\ \A s \in Sessions : Current(s) => Labels(s)

-----------------------------------------------------------------------------
(* The strengthening that makes RemovalsRegistered inductive.              *)

\* Removals wait only during a round, each for a session the round has passed;
\* the one that is ticked has not asked yet.
Queued ==
  /\ removeList # <<>> => pc \in TickLabels \cup {"visit"} \cup Ends
  /\ \A i \in DOMAIN removeList : \E j \in 1..it :
       list[j] = removeList[i] /\ (pc \in TickLabels => j < it)

RInv == RemovalsRegistered /\ Queued

-----------------------------------------------------------------------------
(* The strengthening that makes the properties of transfers inductive.     *)

Doomed(s) == \E i \in DOMAIN removeList : removeList[i] = s

\* A session that is not doomed, between two of its ticks.
Steady(s) ==
  /\ fd[<<s, "lis">>] # BadFd
  /\ data[s] # "none" =>
       /\ due[s] /\ dpeer[s] # "none"
       /\ fd[<<s, "sock">>] \in Fds
       /\ (data[s] = "listing") <=> ~Held(s, "file")
  /\ due[s] => data[s] # "none" \/ "LIST" \in Commands

\* The session that is ticked: a line is answered before its tick ends, a new
\* Data object has its file before its connection, a concluded one goes.
Ticking(s) ==
  /\ fd[<<s, "lis">>] # BadFd
  /\ pc \in {"control", "command", "data", "sending"} => Steady(s)
  /\ pc \in {"control", "data", "sending", "reset"} => answered[s]
  /\ pc = "open" =>
       /\ (data[s] = "listing") <=> ~Held(s, "file")
       /\ due[s] => "LIST" \in Commands
  /\ pc = "reset" => ~due[s]

\* What the process does with s is in order, unless s is doomed or all is over.
Sound(s) ==
  IF pc \in TickLabels /\ Current(s) THEN Ticking(s) ELSE Steady(s) /\ answered[s]

SInv ==
  \A s \in Sessions :
    /\ mState[s] # "absent" => fd[<<s, "ctl">>] \in Fds
    /\ ~Stopped /\ ~Doomed(s) => Sound(s)

-----------------------------------------------------------------------------
(* The strengthening for KeepsDialogue: from the time a line is taken up to *)
(* the step that answers it, the session that is ticked owes a reply.       *)
Owing ==
  pc \in {"command", "open"} => \A s \in Sessions : Current(s) => ~answered[s]
=============================================================================
