------------------------------ MODULE Sockets ------------------------------
(***************************************************************************)
(* What the FTP server sees of the operating system and of its clients.    *)
(* None of it is code of the repository: the module models the system      *)
(* calls and the peers from the way Session.cpp, Data.cpp, Telnet.cpp and  *)
(* Listener.cpp use them.                                                  *)
(*                                                                         *)
(* The process has one table of descriptors.  Every descriptor the program *)
(* keeps is in a member variable of some session; such a variable is a     *)
(* handle, a pair of the session and the kind of descriptor:               *)
(*   ctl   Session::m_controlSock      lis   Session::m_listenSock         *)
(*   sock  Data::m_sock                file  the FILE* of a DataBufferFile *)
(* The clients act at any moment, in any order.                            *)
(***************************************************************************)
EXTENDS Integers, Sequences, FiniteSets

CONSTANTS
  Sessions,    \* identities of control connections, reused after a session is gone
  MaxFd,       \* the largest descriptor the process may open (RLIMIT_NOFILE - 1)
  MaxLines,    \* bound: complete lines a client has sent and the server not handled
  MaxChunks,   \* bound: buffers of data in a file, or in flight to the server
  SigPipe      \* a send on a broken connection may raise SIGPIPE (POSIX builds)

ASSUME SocketsAssumption ==
  /\ MaxFd \in Nat /\ MaxFd >= 3
  /\ MaxLines \in Nat /\ MaxLines >= 1
  /\ MaxChunks \in Nat /\ MaxChunks >= 1
  /\ SigPipe \in BOOLEAN

Fds == 3..MaxFd          \* 0, 1 and 2 belong to the terminal
Listener == 3            \* Listener::m_sock, the first descriptor opened
NoFd == 0                \* the sources' marker of "no descriptor"
BadFd == -1              \* what a failed socket() leaves in the variable

Kinds == {"ctl", "lis", "sock", "file"}
Handles == Sessions \X Kinds

Peers == {"none", "up", "closed", "reset"}

VARIABLES
  open,      \* descriptors open in the process
  fd,        \* the value of every handle
  peer,      \* what became of the client's end of the control connection
  wire,      \* segments received on the control connection and not yet read
  dial,      \* a data connection waits in the backlog of the passive socket
  dpeer,     \* what became of the client's end of the data connection
  room,      \* the data connection takes more output at once
  arrived    \* buffers received on the data connection and not yet read

descriptors == <<open, fd>>
controlLink == <<peer, wire>>
dataLink == <<dial, dpeer, room, arrived>>
socketVars == <<descriptors, controlLink, dataLink>>

SocketsTypeOK ==
  /\ open \in SUBSET Fds
  /\ fd \in [Handles -> Fds \cup {NoFd, BadFd}]
  /\ peer \in [Sessions -> Peers]
  /\ wire \in [Sessions -> 0..MaxLines]
  /\ dial \in [Sessions -> BOOLEAN]
  /\ dpeer \in [Sessions -> Peers]
  /\ room \in [Sessions -> BOOLEAN]
  /\ arrived \in [Sessions -> 0..MaxChunks]

SocketsInit ==
  /\ open = {Listener}
  /\ fd = [h \in Handles |-> NoFd]
  /\ peer = [s \in Sessions |-> "none"]
  /\ wire = [s \in Sessions |-> 0]
  /\ dial = [s \in Sessions |-> FALSE]
  /\ dpeer = [s \in Sessions |-> "none"]
  /\ room = [s \in Sessions |-> TRUE]
  /\ arrived = [s \in Sessions |-> 0]

-----------------------------------------------------------------------------
(* Descriptors.                                                            *)

\* The members of one session, and the ones that die with its Data object.
HandlesOf(s) == {s} \X Kinds
DataHandles(s) == {<<s, "sock">>, <<s, "file">>}

\* A new descriptor is the lowest free one.
Lowest(f) ==
  /\ f \in Fds \ open
  /\ \A g \in Fds \ open : f <= g

Exhausted == Fds \subseteq open

Held(s, kind) == fd[<<s, kind>>] # NoFd

\* h receives the new descriptor f while the descriptors of the handles H are
\* closed and the handles marked empty.
Rewire(h, f, H) ==
  /\ open' = (open \cup {f}) \ {fd[g] : g \in H}
  /\ fd' = [g \in Handles |->
              IF g = h THEN f ELSE IF g \in H THEN NoFd ELSE fd[g]]

Assign(h, f) ==
  /\ open' = open \cup {f}
  /\ fd' = [fd EXCEPT ![h] = f]

Close(H) ==
  /\ open' = open \ {fd[g] : g \in H}
  /\ fd' = [g \in Handles |-> IF g \in H THEN NoFd ELSE fd[g]]

-----------------------------------------------------------------------------
(* The data connection of s, seen from the server.                         *)

\* A connection just made: nothing in flight, an empty send buffer.
FreshLink(s) ==
  /\ dpeer' = [dpeer EXCEPT ![s] = "up"]
  /\ room' = [room EXCEPT ![s] = TRUE]
  /\ arrived' = [arrived EXCEPT ![s] = 0]

NoLink(s) ==
  /\ dpeer' = [dpeer EXCEPT ![s] = "none"]
  /\ room' = [room EXCEPT ![s] = TRUE]
  /\ arrived' = [arrived EXCEPT ![s] = 0]

NoDial(s) == dial' = [dial EXCEPT ![s] = FALSE]

\* What select() says of a descriptor (Data::CanSend and Data::CanReceive too).
LineWaiting(s) == wire[s] > 0 \/ peer[s] \in {"closed", "reset"}
Sendable(s) == room[s] \/ dpeer[s] = "reset"
Receivable(s) == arrived[s] > 0 \/ dpeer[s] \in {"closed", "reset"}

-----------------------------------------------------------------------------
(* The clients.  A control connection is established by the kernel and     *)
(* waits in the listener's backlog until the server accepts it.            *)

Knock(s) ==
  /\ peer[s] = "none"
  /\ peer' = [peer EXCEPT ![s] = "up"]
  /\ UNCHANGED <<descriptors, wire, dataLink>>

\* A segment holds one line, or a part of one; unread is the number of lines
\* the server has taken from the socket and not handled.
SendLine(s, unread) ==
  /\ peer[s] = "up"
  /\ wire[s] + unread < MaxLines
  /\ wire' = [wire EXCEPT ![s] = @ + 1]
  /\ UNCHANGED <<descriptors, peer, dataLink>>

HangUp(s) ==
  /\ peer[s] = "up"
  /\ peer' = [peer EXCEPT ![s] = "closed"]
  /\ UNCHANGED <<descriptors, wire, dataLink>>

\* The client's host refuses what it is sent, or the network gives up.
ResetControl(s) ==
  /\ peer[s] \in {"up", "closed"}
  /\ peer' = [peer EXCEPT ![s] = "reset"]
  /\ UNCHANGED <<descriptors, wire, dataLink>>

Dial(s) ==
  /\ fd[<<s, "lis">>] \in Fds
  /\ ~dial[s]
  /\ dial' = [dial EXCEPT ![s] = TRUE]
  /\ UNCHANGED <<descriptors, controlLink, dpeer, room, arrived>>

SendData(s) ==
  /\ dpeer[s] = "up"
  /\ arrived[s] < MaxChunks
  /\ arrived' = [arrived EXCEPT ![s] = @ + 1]
  /\ UNCHANGED <<descriptors, controlLink, dial, dpeer, room>>

DrainData(s) ==
  /\ dpeer[s] = "up"
  /\ ~room[s]
  /\ room' = [room EXCEPT ![s] = TRUE]
  /\ UNCHANGED <<descriptors, controlLink, dial, dpeer, arrived>>

CloseData(s) ==
  /\ dpeer[s] = "up"
  /\ dpeer' = [dpeer EXCEPT ![s] = "closed"]
  /\ UNCHANGED <<descriptors, controlLink, dial, room, arrived>>

ResetData(s) ==
  /\ dpeer[s] \in {"up", "closed"}
  /\ dpeer' = [dpeer EXCEPT ![s] = "reset"]
  /\ UNCHANGED <<descriptors, controlLink, dial, room, arrived>>
=============================================================================
