------------------------------ MODULE Session ------------------------------
(***************************************************************************)
(* One call of Session::Tick (Session.cpp), with what it does in Data.cpp  *)
(* and Telnet.cpp.  The server is one thread: a tick is a sequence of      *)
(* steps that nothing but the clients can interleave with, and pc says     *)
(* where the tick is.  There is a step boundary before each system call    *)
(* whose outcome a client decides.                                         *)
(*   control   the switch on m_state: greet, or read the control socket    *)
(*   command   GetCommand() returned a line, its handler runs              *)
(*   open      OpenDataConnection()                                        *)
(*   data      m_data->Tick(), if there is a Data object                   *)
(*   sending   blocked in send() on the data connection                    *)
(*   reset     after the callback's reply, before its m_data.reset()       *)
(* A tick ends with pc = "visit", back in SessionController::Tick.         *)
(* The text of a line is chosen when the line is handled.                  *)
(***************************************************************************)
EXTENDS Sockets

CONSTANT Commands    \* the verbs the clients send, besides unknown ones

Verbs == {"USER", "PASS", "QUIT", "NOOP", "MODE", "TYPE", "STRU", "PWD", "CWD",
          "CDUP", "SYST", "PORT", "PASV", "RETR", "STOR", "LIST", "ABOR",
          "DELE", "MKD", "RMD"}

ASSUME CommandsAssumption == Commands \subseteq Verbs

VARIABLES
  mState,      \* Session::m_state; "absent" when there is no Session object
  data,        \* Session::m_data: what the Data object transfers, or "none"
  left,        \* buffers Data::Send will still read from its DataBuffer
  total,       \* chunks taken by the Data::Receive that runs
  readBuf,     \* complete lines in Telnet::m_readBuf
  removeList,  \* SessionController::m_removeList
  pc,          \* where the server's thread is, or how the process ended
  due,         \* history: a 150 was sent and no reply that concludes it
  answered     \* history: the last line handled got a reply

sessionVars == <<mState, data, left, total, readBuf, removeList, pc, due, answered>>

TickLabels == {"control", "command", "open", "data", "sending", "reset"}
LoopLabels == {"loop", "select", "visit", "listen"}

\* How the process may end: main returns 0; a ServerCrash; the ServerCrash of
\* a double removal; an exception nobody catches; a signal; a null DIR*.
Ends == {"exited", "crashed", "unregistered", "terminate", "sigpipe", "segv"}
Stopped == pc \in Ends

SessionTypeOK ==
  /\ mState \in [Sessions -> {"absent", "greeting", "login", "password", "ready"}]
  /\ data \in [Sessions -> {"none", "upload", "download", "listing"}]
  /\ left \in [Sessions -> 0..MaxChunks]
  /\ total \in 0..MaxChunks
  /\ readBuf \in [Sessions -> 0..MaxLines]
  /\ removeList \in Seq(Sessions)
  /\ pc \in TickLabels \cup LoopLabels \cup Ends
  /\ due \in [Sessions -> BOOLEAN]
  /\ answered \in [Sessions -> BOOLEAN]

SessionInit ==
  /\ mState = [s \in Sessions |-> "absent"]
  /\ data = [s \in Sessions |-> "none"]
  /\ left = [s \in Sessions |-> 0]
  /\ total = 0
  /\ readBuf = [s \in Sessions |-> 0]
  /\ removeList = <<>>
  /\ pc = "loop"
  /\ due = [s \in Sessions |-> FALSE]
  /\ answered = [s \in Sessions |-> TRUE]

transfer == <<data, left, due>>

-----------------------------------------------------------------------------
(* How a step of the tick goes on.                                         *)

Goes(label) ==
  /\ pc' = label
  /\ UNCHANGED removeList

\* Mutant: both catch clauses ask for the removal.
RequestRemovalTwice(s) ==
  /\ removeList' = removeList \o <<s, s>>
  /\ pc' = "visit"

\* Session::Remove, from the catch clauses of SessionError and
\* ConnectionTerminated.
RequestRemoval(s) ==
  /\ removeList' = Append(removeList, s)
  /\ pc' = "visit"

Signalled == SigPipe /\ Goes("sigpipe")

\* Telnet::Write: the reply is sent, or send() fails and SessionError is thrown.
Delivered(s, label) ==
  /\ peer[s] # "reset"
  /\ answered' = [answered EXCEPT ![s] = TRUE]
  /\ Goes(label)

Undelivered(s) ==
  /\ peer[s] = "reset"
  /\ UNCHANGED answered
  /\ RequestRemoval(s) \/ Signalled

\* A handler that sends its reply as the last thing it does.
Write(s) == Delivered(s, "data") \/ Undelivered(s)

\* A SyntaxError: the tick is cut short and 500 is sent from the catch clause;
\* a SessionError thrown there finds no handler in Tick or in main.
SendSyntaxError(s) ==
  \/ Delivered(s, "visit")
  \/ /\ peer[s] = "reset"
     /\ UNCHANGED answered
     /\ Goes("terminate") \/ Signalled

\* A QuitRequested: 221 from the catch clause, then Remove.
SendBye(s) ==
  \/ /\ peer[s] # "reset"
     /\ answered' = [answered EXCEPT ![s] = TRUE]
     /\ RequestRemoval(s)
  \/ /\ peer[s] = "reset"
     /\ UNCHANGED answered
     /\ Goes("terminate") \/ Signalled

-----------------------------------------------------------------------------
(* The switch: greeting, reading, logging in.                              *)

SendGreeting(s) ==
  /\ pc = "control" /\ mState[s] = "greeting"
  /\ \/ Delivered(s, "data") /\ mState' = [mState EXCEPT ![s] = "login"]
     \/ Undelivered(s) /\ UNCHANGED mState
  /\ UNCHANGED <<socketVars, transfer, total, readBuf>>

\* Mutant: an end of file is taken for a read of nothing.
ReadIgnoresEnd(s) ==
  /\ pc = "control" /\ mState[s] # "greeting"
  /\ LineWaiting(s)
  /\ \/ peer[s] # "closed" /\ RequestRemoval(s)
     \/ peer[s] = "closed" /\ Goes("data")
     \/ peer[s] = "reset" /\ Signalled
  /\ UNCHANGED <<socketVars, mState, transfer, total, readBuf, answered>>

\* Telnet::Read takes everything there is on the socket.  An end of file
\* throws ConnectionTerminated, and what was read before it in the same call
\* is lost; a broken connection or a Telnet command it rejects throws
\* SessionError.  A command it answers may meet the broken connection.
ReadFails(s) ==
  /\ pc = "control" /\ mState[s] # "greeting"
  /\ LineWaiting(s)
  /\ RequestRemoval(s) \/ (peer[s] = "reset" /\ Signalled)
  /\ UNCHANGED <<socketVars, mState, transfer, total, readBuf, answered>>

\* Of the segments read, some end a line; a Telnet command to erase a character
\* takes the end off a line that waits in m_readBuf.  GetBuf takes one line out
\* of m_readBuf if there is one; the others stay.
Read(s) ==
  /\ pc = "control" /\ mState[s] # "greeting"
  /\ peer[s] = "up"
  /\ wire' = [wire EXCEPT ![s] = 0]
  /\ \E unread \in 0..(readBuf[s] + wire[s]) :
       /\ wire[s] = 0 => unread = readBuf[s]
       /\ \/ /\ unread = 0
             /\ readBuf' = [readBuf EXCEPT ![s] = 0]
             /\ Goes("data")
             /\ UNCHANGED answered
          \/ /\ unread > 0
             /\ readBuf' = [readBuf EXCEPT ![s] = unread - 1]
             /\ answered' = [answered EXCEPT ![s] = FALSE]
             /\ Goes("command")
  /\ UNCHANGED <<descriptors, peer, dataLink, mState, transfer, total>>

\* A reply that follows no change, and an answer to a line that is not USER.
Login(s, next) ==
  \/ Delivered(s, "data") /\ mState' = [mState EXCEPT ![s] = next]
  \/ Undelivered(s) /\ UNCHANGED mState

Said(verb) == verb \in Commands

\* USER with one argument is always let through by both authenticators; an
\* empty line is a SyntaxError; anything else is answered and changes nothing.
AwaitLogin(s) ==
  /\ pc = "command" /\ mState[s] = "login"
  /\ \/ Said("USER") /\ Login(s, "password")
     \/ Said("QUIT") /\ SendBye(s) /\ UNCHANGED mState
     \/ SendSyntaxError(s) /\ UNCHANGED mState
     \/ Login(s, "login")
  /\ UNCHANGED <<socketVars, transfer, total, readBuf>>

\* PASS is accepted or refused by the authenticator; every other verb sends
\* the session back to S_LOGIN, an empty line leaves it where it is.
AwaitPassword(s) ==
  /\ pc = "command" /\ mState[s] = "password"
  /\ \/ Said("PASS") /\ Login(s, "ready")
     \/ Said("QUIT") /\ SendBye(s) /\ UNCHANGED mState
     \/ SendSyntaxError(s) /\ UNCHANGED mState
     \/ Login(s, "login")
  /\ UNCHANGED <<socketVars, transfer, total, readBuf>>

-----------------------------------------------------------------------------
(* The handlers of S_READY.                                                *)

Handling(s, verb) == pc = "command" /\ mState[s] = "ready" /\ Said(verb)

Untouched == UNCHANGED <<socketVars, mState, transfer, total, readBuf>>

HandleQuit(s) == Handling(s, "QUIT") /\ SendBye(s) /\ Untouched

\* NOOP, PWD, SYST and CDUP look at no argument and always answer.
HandlePlain(s) ==
  /\ \E verb \in {"NOOP", "PWD", "SYST", "CDUP"} : Handling(s, verb)
  /\ Write(s)
  /\ Untouched

\* An unknown verb, or an empty line.
HandleUnknown(s) ==
  /\ pc = "command" /\ mState[s] = "ready"
  /\ SendSyntaxError(s)
  /\ Untouched

\* One argument or more, checked first; the reply tells what came of it.  What
\* the file system does to files and to the current directory is not part of
\* this module.
HandleChecked(s, verb) ==
  /\ Handling(s, verb)
  /\ Write(s) \/ SendSyntaxError(s)
  /\ Untouched

HandleMode(s) == HandleChecked(s, "MODE")
HandleType(s) == HandleChecked(s, "TYPE")
ChangeDirectory(s) == HandleChecked(s, "CWD")
HandleDele(s) == HandleChecked(s, "DELE")
HandleMkd(s) == HandleChecked(s, "MKD")
HandleRmd(s) == HandleChecked(s, "RMD")

\* STRU R ends the session: SessionError is thrown, and nothing is said.
HandleStru(s) ==
  \/ HandleChecked(s, "STRU")
  \/ /\ Handling(s, "STRU")
     /\ RequestRemoval(s)
     /\ UNCHANGED answered
     /\ Untouched

\* Mutant: m_listenSock is set to 0 and not closed.
HandlePortLeaks(s) ==
  /\ Handling(s, "PORT")
  /\ \/ SendSyntaxError(s) /\ UNCHANGED <<descriptors, dial>>
     \/ /\ fd' = [fd EXCEPT ![<<s, "lis">>] = NoFd]
        /\ NoDial(s)
        /\ Write(s) \/ SendSyntaxError(s)
        /\ UNCHANGED open
  /\ UNCHANGED <<controlLink, dpeer, room, arrived, mState, transfer, total, readBuf>>

\* The passive socket is closed before the argument is split; a field that is
\* no number makes lexical_cast throw, and nobody catches bad_lexical_cast.
HandlePort(s) ==
  /\ Handling(s, "PORT")
  /\ \/ SendSyntaxError(s) /\ UNCHANGED <<descriptors, dial>>
     \/ /\ Close({<<s, "lis">>})
        /\ NoDial(s)
        /\ \/ Write(s)
           \/ SendSyntaxError(s)
           \/ Goes("terminate") /\ UNCHANGED answered
  /\ UNCHANGED <<controlLink, dpeer, room, arrived, mState, transfer, total, readBuf>>

\* Mutant: the result of socket() is not looked at.
HandlePasvUnchecked(s) ==
  /\ Handling(s, "PASV")
  /\ ~Held(s, "lis")
  /\ \/ \E f \in Fds : Lowest(f) /\ Assign(<<s, "lis">>, f)
     \/ Exhausted /\ fd' = [fd EXCEPT ![<<s, "lis">>] = BadFd] /\ UNCHANGED open
  /\ Write(s)
  /\ UNCHANGED <<controlLink, dataLink, mState, transfer, total, readBuf>>

\* socket() with no descriptor left leaves -1 in m_listenSock; bind, listen
\* and getsockname may fail with the socket open.  All throw SessionError.
HandlePasv(s) ==
  /\ Handling(s, "PASV")
  /\ \/ SendSyntaxError(s) /\ UNCHANGED descriptors
     \/ /\ Held(s, "lis")
        /\ Write(s) \/ (RequestRemoval(s) /\ UNCHANGED answered)
        /\ UNCHANGED descriptors
     \/ /\ ~Held(s, "lis")
        /\ \E f \in Fds : Lowest(f) /\ Assign(<<s, "lis">>, f)
        /\ Write(s) \/ (RequestRemoval(s) /\ UNCHANGED answered)
     \/ /\ ~Held(s, "lis")
        /\ Exhausted
        /\ fd' = [fd EXCEPT ![<<s, "lis">>] = BadFd]
        /\ RequestRemoval(s)
        /\ UNCHANGED <<open, answered>>
  /\ UNCHANGED <<controlLink, dataLink, mState, transfer, total, readBuf>>

\* Mutant: a second transfer is refused without a word.
RefusedSilently(s) ==
  /\ \/ data[s] # "none" /\ Goes("data") /\ UNCHANGED answered
     \/ data[s] = "none" /\ (Write(s) \/ SendSyntaxError(s))
  /\ Untouched

\* RETR and STOR refuse to start while there is a Data object; a missing
\* argument is only noticed after that, and the file may not open.
NoTransferStarted(s) ==
  /\ \/ data[s] # "none" /\ Write(s)
     \/ data[s] = "none" /\ (Write(s) \/ SendSyntaxError(s))
  /\ Untouched

\* Mutant: the test of m_data is missing.
StartAnyTransfer(s, kind, buffers) ==
  /\ \E f \in Fds : Lowest(f) /\ Assign(<<s, "file">>, f)
  /\ data' = [data EXCEPT ![s] = kind]
  /\ left' = [left EXCEPT ![s] = buffers]
  /\ Goes("open")
  /\ UNCHANGED <<controlLink, dataLink, mState, total, readBuf, due, answered>>

\* The file is opened (and truncated, for STOR) before the data connection.
StartTransfer(s, kind, buffers) ==
  /\ data[s] = "none"
  /\ \E f \in Fds : Lowest(f) /\ Assign(<<s, "file">>, f)
  /\ data' = [data EXCEPT ![s] = kind]
  /\ left' = [left EXCEPT ![s] = buffers]
  /\ Goes("open")
  /\ UNCHANGED <<controlLink, dataLink, mState, total, readBuf, due, answered>>

HandleRetr(s) ==
  /\ Handling(s, "RETR")
  /\ \/ NoTransferStarted(s)
     \/ \E buffers \in 0..MaxChunks : StartTransfer(s, "upload", buffers)

HandleStor(s) ==
  /\ Handling(s, "STOR")
  /\ NoTransferStarted(s) \/ StartTransfer(s, "download", 0)

\* LIST does not ask whether there is a Data object: a new one takes the place
\* of the old, whose descriptors its destructor closes.  A path that names
\* nothing is answered with 450; a directory that opendir() cannot open (no
\* descriptor left, no permission, removed by somebody else) reads from a null
\* DIR*.
HandleList(s) ==
  /\ Handling(s, "LIST")
  /\ \/ Write(s) /\ UNCHANGED <<descriptors, dataLink, data, left>>
     \/ Goes("segv") /\ UNCHANGED <<descriptors, dataLink, data, left, answered>>
     \/ /\ Close(DataHandles(s))
        /\ NoLink(s)
        /\ data' = [data EXCEPT ![s] = "listing"]
        /\ left' \in {[left EXCEPT ![s] = buffers] : buffers \in 1..MaxChunks}
        /\ Goes("open")
        /\ UNCHANGED <<dial, answered>>
  /\ UNCHANGED <<controlLink, mState, due, total, readBuf>>

\* m_data.reset(): the Data object and the file it holds are closed.
DropData(s) ==
  /\ data' = [data EXCEPT ![s] = "none"]
  /\ left' = [left EXCEPT ![s] = 0]
  /\ NoLink(s)

\* Mutant: ABOR drops the transfer and says 225 whether there was one or not.
HandleAborForgets(s) ==
  /\ Handling(s, "ABOR")
  /\ Close(DataHandles(s))
  /\ DropData(s)
  /\ Write(s)
  /\ UNCHANGED <<dial, due, controlLink, mState, total, readBuf>>

\* ABOR drops the transfer and then answers twice, 426 and 226.
HandleAbor(s) ==
  /\ Handling(s, "ABOR")
  /\ \/ data[s] = "none" /\ Write(s) /\ UNCHANGED <<descriptors, dataLink, transfer>>
     \/ /\ data[s] # "none"
        /\ Close(DataHandles(s))
        /\ DropData(s)
        /\ \/ Delivered(s, "data") /\ due' = [due EXCEPT ![s] = FALSE]
           \/ Undelivered(s) /\ UNCHANGED due
        /\ UNCHANGED dial
  /\ UNCHANGED <<controlLink, mState, total, readBuf>>

AwaitReady(s) ==
  \/ HandleQuit(s) \/ HandlePlain(s) \/ HandleUnknown(s)
  \/ HandleMode(s) \/ HandleType(s) \/ HandleStru(s)
  \/ ChangeDirectory(s) \/ HandleDele(s) \/ HandleMkd(s) \/ HandleRmd(s)
  \/ HandlePort(s) \/ HandlePasv(s)
  \/ HandleRetr(s) \/ HandleStor(s) \/ HandleList(s) \/ HandleAbor(s)

-----------------------------------------------------------------------------
(* OpenDataConnection, and the reply that follows it.                      *)

\* 150: the transfer is announced.
Announce(s) ==
  /\ \/ Delivered(s, "data") /\ due' = [due EXCEPT ![s] = TRUE]
     \/ Undelivered(s) /\ UNCHANGED due
  /\ UNCHANGED <<data, left>>

\* accept() blocks the thread until the client dials.
Accept(s) ==
  /\ pc = "open" /\ Held(s, "lis") /\ dial[s]
  /\ \E f \in Fds : Lowest(f) /\ Rewire(<<s, "sock">>, f, {<<s, "lis">>})
  /\ NoDial(s)
  /\ FreshLink(s)
  /\ Announce(s)
  /\ UNCHANGED <<controlLink, mState, total, readBuf>>

\* Mutant: the passive socket is given up without a close.
AcceptFailsLeaks(s) ==
  /\ pc = "open" /\ Held(s, "lis") /\ Exhausted
  /\ NoDial(s)
  /\ Delivered(s, "data")
  /\ open' = open \ {fd[h] : h \in DataHandles(s)}
  /\ fd' = [h \in Handles |->
              IF h \in {<<s, "lis">>} \cup DataHandles(s) THEN NoFd ELSE fd[h]]
  /\ DropData(s)
  /\ UNCHANGED <<controlLink, mState, total, readBuf, due>>

\* With no descriptor left accept() fails at once.  The passive socket is
\* closed all the same, 425 is sent and the Data object dropped.
AcceptFails(s) ==
  /\ pc = "open" /\ Held(s, "lis") /\ Exhausted
  /\ NoDial(s)
  /\ \/ /\ Delivered(s, "data")
        /\ Close({<<s, "lis">>} \cup DataHandles(s))
        /\ DropData(s)
     \/ /\ Undelivered(s)
        /\ Close({<<s, "lis">>})
        /\ UNCHANGED <<data, left, dpeer, room, arrived>>
  /\ UNCHANGED <<controlLink, mState, total, readBuf, due>>

Connect(s) ==
  /\ pc = "open" /\ ~Held(s, "lis")
  /\ \E f \in Fds : Lowest(f) /\ Assign(<<s, "sock">>, f)
  /\ FreshLink(s)
  /\ Announce(s)
  /\ UNCHANGED <<dial, controlLink, mState, total, readBuf>>

\* Mutant: the Data object stays after the 425.
ConnectRefusedKeeps(s) ==
  /\ pc = "open" /\ ~Held(s, "lis") /\ ~Exhausted
  /\ Delivered(s, "data")
  /\ UNCHANGED <<socketVars, mState, transfer, total, readBuf>>

\* The client does not listen at the address of its PORT: 425.
ConnectRefused(s) ==
  /\ pc = "open" /\ ~Held(s, "lis")
  /\ \/ /\ Delivered(s, "data")
        /\ ~Exhausted
        /\ Close(DataHandles(s))
        /\ DropData(s)
     \/ /\ Undelivered(s)
        /\ \E f \in Fds : Lowest(f) /\ Assign(<<s, "sock">>, f)
        /\ UNCHANGED <<data, left, dpeer, room, arrived>>
  /\ UNCHANGED <<dial, controlLink, mState, total, readBuf, due>>

\* socket() fails and leaves -1 in m_sock.
ConnectFails(s) ==
  /\ pc = "open" /\ ~Held(s, "lis") /\ Exhausted
  /\ fd' = [fd EXCEPT ![<<s, "sock">>] = BadFd]
  /\ RequestRemoval(s)
  /\ UNCHANGED <<open, controlLink, dataLink, mState, transfer, total, readBuf, answered>>

-----------------------------------------------------------------------------
(* Data::Tick.                                                             *)

\* The callbacks DataConnectionFinished (226) and OutOfSpace (552): the reply
\* first, then m_data.reset().  A reply that cannot be sent throws out of them.
Conclude(s) ==
  \/ Delivered(s, "reset") /\ due' = [due EXCEPT ![s] = FALSE]
  \/ Undelivered(s) /\ UNCHANGED due

\* Mutant: the descriptors are closed and the Data object is kept.
ResetKeepsData(s) ==
  /\ pc = "reset"
  /\ Close(DataHandles(s))
  /\ NoLink(s)
  /\ Goes("visit")
  /\ UNCHANGED <<dial, controlLink, mState, data, left, total, readBuf, due, answered>>

ResetTransfer(s) ==
  /\ pc = "reset"
  /\ Close(DataHandles(s))
  /\ DropData(s)
  /\ Goes("visit")
  /\ UNCHANGED <<dial, controlLink, mState, total, readBuf, due, answered>>

NoTransfer(s) ==
  /\ pc = "data" /\ data[s] = "none"
  /\ Goes("visit")
  /\ UNCHANGED answered
  /\ Untouched

Sending(s) == pc = "data" /\ data[s] \in {"upload", "listing"}

SendFinished(s) ==
  /\ Sending(s) /\ left[s] = 0
  /\ Conclude(s)
  /\ UNCHANGED <<socketVars, mState, data, left, total, readBuf>>

\* A buffer was read and the connection takes nothing: a file's DataBuffer
\* keeps it for the next tick, a listing's has no Store and the default throws.
SendStored(s) ==
  /\ Sending(s) /\ left[s] > 0 /\ ~Sendable(s)
  /\ Goes(IF data[s] = "listing" THEN "terminate" ELSE "visit")
  /\ UNCHANGED answered
  /\ Untouched

\* The socket blocks: send() returns when the whole buffer is queued.
SendBlocks(s) ==
  /\ Sending(s) /\ left[s] > 0 /\ room[s] /\ dpeer[s] # "reset"
  /\ room' = [room EXCEPT ![s] = FALSE]
  /\ Goes("sending")
  /\ UNCHANGED <<descriptors, controlLink, dial, dpeer, arrived, mState,
                 transfer, total, readBuf, answered>>

\* Mutant: the end of the file is not recognised.
SendBufferPastEnd(s) ==
  /\ Sending(s) \/ pc = "sending"
  /\ room[s] /\ dpeer[s] # "reset"
  /\ left' = [left EXCEPT ![s] = @ - 1]
  /\ Goes("visit")
  /\ UNCHANGED <<socketVars, mState, data, due, total, readBuf, answered>>

SendBuffer(s) ==
  /\ \/ Sending(s) /\ left[s] > 0
     \/ pc = "sending"
  /\ room[s] /\ dpeer[s] # "reset"
  /\ left' = [left EXCEPT ![s] = @ - 1]
  /\ room' \in {room, [room EXCEPT ![s] = FALSE]}
  /\ Goes("visit")
  /\ UNCHANGED <<descriptors, controlLink, dial, dpeer, arrived, mState,
                 data, due, total, readBuf, answered>>

SendFails(s) ==
  /\ \/ Sending(s) /\ left[s] > 0
     \/ pc = "sending"
  /\ dpeer[s] = "reset"
  /\ RequestRemoval(s) \/ Signalled
  /\ UNCHANGED answered
  /\ Untouched

Receiving(s) == pc = "data" /\ data[s] = "download"

\* Mutant: Receive waits for its buffer to fill.
ReceiveSpins(s) ==
  /\ Receiving(s) /\ ~Receivable(s)
  /\ Goes("data")
  /\ UNCHANGED <<socketVars, mState, transfer, total, readBuf, answered>>

ReceiveNothing(s) ==
  /\ Receiving(s) /\ ~Receivable(s)
  /\ total' = 0
  /\ Goes("visit")
  /\ UNCHANGED <<socketVars, mState, transfer, readBuf, answered>>

\* What was received is written to the file.  Receive goes on while its buffer
\* is not full and there is more; a short write means no space is left.
ReceiveData(s) ==
  /\ Receiving(s) /\ arrived[s] > 0
  /\ arrived' = [arrived EXCEPT ![s] = @ - 1]
  /\ \/ Goes("visit") /\ total' = 0 /\ UNCHANGED <<due, answered>>
     \/ /\ total + 1 < MaxChunks
        /\ total' = total + 1
        /\ Goes("data")
        /\ UNCHANGED <<due, answered>>
     \/ Conclude(s) /\ total' = 0
  /\ UNCHANGED <<descriptors, controlLink, dial, dpeer, room, mState, data, left, readBuf>>

ReceiveEnd(s) ==
  /\ Receiving(s) /\ arrived[s] = 0 /\ dpeer[s] = "closed"
  /\ Conclude(s)
  /\ total' = 0
  /\ UNCHANGED <<socketVars, mState, data, left, readBuf>>

ReceiveFails(s) ==
  /\ Receiving(s) /\ dpeer[s] = "reset"
  /\ RequestRemoval(s)
  /\ total' = 0
  /\ UNCHANGED <<socketVars, mState, transfer, readBuf, answered>>

OpenDataConnection(s) ==
  \/ Accept(s) \/ AcceptFails(s)
  \/ Connect(s) \/ ConnectRefused(s) \/ ConnectFails(s)

DataTick(s) ==
  \/ NoTransfer(s) \/ ResetTransfer(s)
  \/ SendFinished(s) \/ SendStored(s) \/ SendBlocks(s) \/ SendBuffer(s) \/ SendFails(s)
  \/ ReceiveNothing(s) \/ ReceiveData(s) \/ ReceiveEnd(s) \/ ReceiveFails(s)

\* Session::Tick: whatever comes next in the tick of s.
Tick(s) ==
  \/ SendGreeting(s) \/ Read(s) \/ ReadFails(s)
  \/ AwaitLogin(s) \/ AwaitPassword(s) \/ AwaitReady(s)
  \/ OpenDataConnection(s)
  \/ DataTick(s)
=============================================================================
