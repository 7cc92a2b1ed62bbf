# dftpd in TLA+

A verification project for the "Dumb FTP server": TLA+ modules that model the
running server, TLC runs that check them on small instances, and TLAPS proofs of
what holds for every instance.

## 1. The system

dftpd is one process with one thread. `Run` (Main.cpp) calls `Server::Tick` until
SIGINT sets a flag; in the Qt front end a timer calls it. A tick of the server puts
the descriptors of all sessions into one `select()`, ticks every session one of
whose descriptors was ready, removes the sessions that asked for it, and accepts at
most one new connection. A tick of a session handles at most one command and then
gives its data transfer, if there is one, at most one buffer (a receive takes as
many pieces as fit in one buffer).

| Component | State | Operations | Interacts with |
|---|---|---|---|
| Main loop (Main.cpp) | `g_exitRequested` | `Run`, `RequestExit` | calls Server; the signal handler interrupts any step |
| Server (Server.cpp) | listener, controller, authenticator | `Tick`, `IncomingConnection`, `SetAuth` | `select()`; calls SessionController, Listener |
| SessionController | `m_list`, `m_removeList` | `Tick`, `Add`, `Remove`, `GetFds` | ticks sessions; sessions call back `Remove` while they are ticked |
| Listener | the listening socket | `Listen`, `Tick` | `accept()`, then `Server::IncomingConnection` |
| Session | `m_state`, `m_controlSock`, `m_listenSock`, `m_data`, `m_auth` | `Tick`, 20 command handlers, 3 callbacks of Data | owns a Telnet, a Data and a Filesystem |
| Data | `m_sock`, mode, a DataBuffer, `m_buf` | `Accept`, `Connect`, `Tick`, destructor | calls back into its session, which may destroy it |
| DataBuffer (file, listing) | a `FILE*` and a secondary buffer, or a string and an offset | `Read`, `Write`, `Store` | owned by Data |
| Telnet | `m_readBuf` | `Read`, `Write`, `GetBuf`, `EraseCharacter` | the control socket; TelnetCommand |
| TelnetCommand | `m_buf`, `m_byte`: the command being received | `Parse`, `Reset` | answers through Telnet |
| Filesystem, IO | `m_root`, `m_path` | change directory, open, list, delete, make, remove | the disk, which others change |
| Authentication | the one-time token | `Login`, `Password`, `GenerateToken` | shared by all sessions accepted with it and the user interface |
| Qt and Symbian front ends | timer, `m_auth`, `m_authenticationEnabled` | `TimerTick`, `GenerateToken`, `DisableAuthentication`, `ServerCrashed` | call Server as Main does, replace its authenticator |

### What is hard

* **Descriptors are plain numbers.** `m_controlSock`, `m_listenSock` and `m_sock`
  are closed by hand in six places, 0 means "none", a failed `socket()` leaves -1,
  and `GetFds` writes a descriptor to be written to as a negative number. Numbers
  are reused at once, also between the `select()` of a round and the visit of a
  session (`activeFds` holds numbers).
* **A tick is cut short by exceptions** from any reply that cannot be sent. What
  comes after the reply in a handler, a callback or a catch clause then does not
  happen: a `m_data.reset()`, a change of state, the tick of the transfer.
* **Callbacks destroy the object that calls them**: `Data::Tick` calls
  `DataConnectionFinished`, which resets `m_data`.
* **Everything shares one thread**, and `accept()`, `connect()` and `send()` on a
  data connection block it.
* **Clients act at any moment**: they send several commands at once, close or
  break either connection, connect or fail to connect.
* **Bytes come and go in pieces**: a Telnet command is cut by the end of a `Read`,
  a buffer is sent in parts and its rest stored, a `FILE*` keeps what was written.
* **The disk is shared**: a command looks at it once for each directory on its way
  and again to act.
* **Authenticators outlive their use**: the menu replaces the server's, and each
  session keeps the one it was accepted with.

### What makes each component correct

* *descriptors*: every open one is owned by exactly one variable; `select()` is
  only given open ones;
* *SessionController*: each removal is of a registered session, once;
* *Session*: every command is answered; an announced transfer is concluded;
  a Data object alive between two rounds belongs to an announced transfer that has
  a connection;
* *Server*: the loop goes round, a client that is gone is reclaimed, SIGINT ends
  the process;
* *Data, DataBuffer*: the bytes sent are the bytes of the file, those stored are
  the bytes the client sent, and 226 is said of the whole;
* *Telnet, TelnetCommand*: the lines handled are the lines said, in order, wherever
  the stream is cut;
* *Filesystem*: a command acts on what its argument names from the directory that
  PWD prints; a listing shows what is there;
* *Authentication*: with authentication on, a login takes a token that was shown
  and that nobody used before.

## 2. Modules

| Module | Models | Role |
|---|---|---|
| `Sockets` | the kernel's descriptor table, the two connections of a session, the clients | external: derived from the system calls in Session.cpp, Data.cpp, Telnet.cpp, Listener.cpp |
| `Session` | `Session::Tick` with Data.cpp and Telnet.cpp | one action per handler, callback or system call a client decides; EXTENDS Sockets |
| `Server` | Main.cpp, Server.cpp, SessionController.cpp, Listener.cpp | composes the ticks of the sessions with the loop and the clients; states the properties and their strengthenings; EXTENDS Session |
| `Documents` | what doc/rfc0959.txt and the code's own assertions say and the program does not do | properties of runs that expect a violation; EXTENDS Server |
| `Authentication` | AuthToken.cpp, AuthNone.cpp, the menu of QtMain.cpp, S_LOGIN and S_PASSWORD of Session.cpp | authenticators as objects, and who points to them |
| `Dialogue` | what each client sees: lines and their answers, the login, transfers announced and concluded | abstract specification that `Server` implements |
| `OneTimeLogin` | the promise of the help text (QtMain.cpp:133) | abstract specification that `Authentication` implements |
| `Transfer` | Data.cpp, DataBufferFile.cpp, DataBufferListing.cpp | the bytes of one transfer |
| `ReliableCopy` | what a client may conclude from 226, and from its absence | abstract specification that `Transfer` implements |
| `TelnetInput` | Telnet.cpp, TelnetCommand.cpp, `ParseCommand` of String.cpp | the bytes of the control connection |
| `Paths` | Filesystem.cpp, IO.cpp, `SplitPath` of String.cpp, the handlers that call them | one session's paths and a disk that others change |
| `MCServer`, `MCAuthentication`, `MCPaths` | | values of constants for TLC, symmetry |
| `ServerProofs` | | types and descriptor ownership of Server, with their proofs |
| `OutcomeProofs` | | the queue of removals, and what holds between two rounds; EXTENDS ServerProofs |
| `DialogueProofs` | | the refinement of `Dialogue`; EXTENDS OutcomeProofs |
| `AuthenticationProofs`, `TransferProofs` | | invariants and the refinements of these modules |
| `SequenceLemmas` | | induction and recursion over 0..n, and lemmas about sequences |
| `TelnetProofs`, `PathsProofs` | | the invariants of these modules, whose operators are recursions over sequences; EXTEND SequenceLemmas |

`Server` counts lines and buffers where `TelnetInput` and `Transfer` have bytes: the
three agree on where a tick can be cut short, and the detailed modules take over
what the counts leave open (which bytes, in which order).

### From the code to the state: Server

| Variable | Code |
|---|---|
| `open`, `fd` | the process's descriptors; the value of every variable that holds one: `<<s, "ctl">>` is `m_controlSock`, `<<s, "lis">>` is `m_listenSock`, `<<s, "sock">>` is `Data::m_sock`, `<<s, "file">>` is the `FILE*` of a `DataBufferFile` |
| `peer`, `wire` | the client's end of the control connection; segments received and not read |
| `dial`, `dpeer`, `room`, `arrived` | the backlog of the passive socket; the client's end of the data connection; whether the send buffer takes more; buffers received and not read |
| `mState` | `Session::m_state`, or "absent" |
| `data`, `left`, `total` | `m_data` and its mode; the buffers still to be read from its DataBuffer; what the running `Receive` has taken |
| `readBuf` | complete lines in `Telnet::m_readBuf` |
| `list`, `it`, `removeList`, `active` | `m_list`, the iterator, `m_removeList`, `activeFds` |
| `exitRequested` | `g_exitRequested` |
| `pc` | where the thread is, or how the process ended |
| `due`, `answered` | history: a 150 without a concluding reply; the last line handled got a reply |

The thread's steps are separated where a client can make a difference: before
`select()`, before each session's read, before each handler, before
`accept()`/`connect()`, before each `send()`/`recv()` on the data connection, and
between the reply and the reset of a callback. Between two such points the clients
cannot be observed, so the code in between is one action with all it changes.

A reply is an event, not a text. `Write` either delivers it or throws; if the peer
is reset the throw is a `SessionError`, or the process gets SIGPIPE, which the
sources do not ignore (`SigPipe`). `SendSyntaxError` and `SendBye` are the catch
clauses of `Session::Tick`: a throw inside them leaves `Tick` and `main`
(`pc = "terminate"`). `pc` also tells the other ways to end: `"crashed"`
(ServerCrash), `"unregistered"` (the ServerCrash of SessionController.cpp:46),
`"sigpipe"`, `"segv"` (the null `DIR*` of IO.cpp:85) and `"exited"`. In `Read`, the
number of lines that become complete is free: an Erase Character may also take the
end off a line that waits.

### From the code to the state: the other modules

* `Authentication`: `obj` holds the authenticators on the heap; `uiAuth`,
  `serverAuth` and `mAuth` are the three `AuthPtr` members that point to them
  (`serverAuth = Null` when `m_server` is empty), `enabled` is
  `m_authenticationEnabled`. A token's text is the pair of the seed and its place in
  the sequence of `rand()`, so that texts repeat exactly when seeds do. Everything
  runs in the thread of the user interface, so a slot and a command are one step each.
* `Transfer`: a byte is named by its position in the stream. `secBuf` is
  `m_secBuf`, `buf` the part of `m_buf` from `ptr` on, `offset` how far the file or
  `m_buf` of the listing is read, `stdio` the buffer of the `FILE*`, `handed` and
  `taken` the two ends of the connection. A blocked `send()` is the label
  `"sending"`; it returns a part only if a signal interrupts it. `Store` is reached
  after such a part, and when the control connection has woken the tick of a
  transfer whose connection takes nothing (Data.cpp:140 asks `CanSend` first).
* `TelnetInput`: the client says tokens, `Code` gives their bytes, and `arrived`
  cuts the stream anywhere. `command` is `TelnetCommand::m_buf`, `output` what
  `Parse` has written. Each case of the switch is an action; bytes treated alike are
  one token (NOP stands for all that are skipped, GA for all that are refused).
  `Hears` is what a token means to the client that says it, `Receives` what the server
  makes of it. They differ in IAC IAC, the escaped byte 255: it is a byte of the line
  (rfc3659.txt:269), and the parser drops it and sends it back (TelnetCommand.cpp:79).
* `Paths`: a string is a sequence of words and slashes, a node of the disk the
  sequence of names that leads to it from `m_root`. `Resolve` is the kernel's walk,
  `TryChangePath` the program's, one `stat()` a step. RETR and LIST walk twice
  (`again`), and a listing has one `stat()` for each name `readdir()` returned
  (`entries`). Of a file the model has whether it holds anything (`empty`), and whether
  it is a link that leads nowhere (`dangling`). Every system call that acts may fail, so
  `opendir()` too (`OpenFails`), and so may every reply (`Says`). STOR opens its file
  first and its data connection then: with "425" the file stays as `fopen()` has left
  it. Other processes change the disk between any two steps.

## 3. What is checked

### Runs that pass

| Run | Instance | Properties |
|---|---|---|
| `one_session` | 1 session, 5 descriptors for it, 2 lines, 2 buffers, all verbs, all faults, SIGPIPE, `CooperativeSpec` | `TypeOK`, `DescriptorOwnership`, `SelectableDescriptors`, `RemovalsRegistered`, `CommandAnswered`, `TransferBacked`, `KeepsDialogue`, `RoundsContinue`, `SessionReclaimed`, `TransferConcludes`, `InterruptEnds` |
| `two_sessions` | 2 sessions, 4 descriptors for both, 1 line, 1 buffer, passive transfers and ABOR, clients that hang up and break | `DescriptorOwnership`, `SelectableDescriptors`, `TransferBacked`, `RemovalsRegistered`, `OutcomeOwed`, `NoSilentEnd` |
| `auth` | 2 sessions, 3 tokens, 2 seconds | `TypeOK`, `CastSafe`, `ShownTokenWorks`, `TextUsedOnce`, `OneTimeTokens` |
| `transfer` | up to 7 bytes, buffers of 3, connection of 2, `FILE*` of 2, up to 6 free on the disk | `TypeOK`, `CopiesReliably`, `TransferEnds`, `FileArrives` |
| `telnet` | 3 tokens out of 11, cut at any byte | `TypeOK`, `CommandsAreSaid`, `AnswersInOrder`, `FailureExcused`, `FirstLineHandled` |
| `paths` | 2 names, one of them "~", depth 2, 15 strings, others change the disk | `TypeOK`, `CwdFollowsPwd`, `ChangesWhatItNames`, `ListingExcused` |

* `DescriptorOwnership`: an open descriptor is the listener's or is held by exactly
  one variable, and every variable holds an open one or a marker. No leak, no
  double close, no use of a number that was given away.
* `SelectableDescriptors`: what `GetFds` returns to `Server::Tick` is open (the -1
  of a failed `socket()` never survives the round), and a Data object is watched.
* `RemovalsRegistered`: the ServerCrash for a session that is not registered never
  happens; queue and list hold a session once.
* `CommandAnswered`: a session that is still there between two rounds has answered
  the last line it took.
* `TransferBacked`: a Data object between two rounds belongs to an announced
  transfer, has a connection, and holds a file unless it is a listing.
* `OutcomeOwed`, `NoSilentEnd`: an announced transfer keeps its Data object and its
  connection until the reply that concludes it. LIST breaks both (`doc_list`), so
  the run and the theorems are without it.
* `KeepsDialogue`: refinement of `Dialogue`, in which the sessions do not know of each
  other. No line is taken up before the one before it was answered, the login goes
  through its phases, and 226 or 552 is only said of a transfer that was announced and
  not concluded, before its connection is closed. The mapping is `Owed` and
  `Transfers`; between the reply and the reset a transfer is "told". Two transfers that
  overlap because of LIST are one to it: that the first is lost is for `NoSilentEnd`.
* `RoundsContinue`, `SessionReclaimed`, `TransferConcludes`, `InterruptEnds`: see
  the fairness below.
* `CastSafe`: the cast of QtMain.cpp:152 is to the class the object has, and a
  running server asks the authenticator of the user interface.
* `ShownTokenWorks`: new sessions get the authenticator that holds the token shown
  last, until it is used.
* `TextUsedOnce`: a text that lets two clients in was drawn by two authenticators
  seeded in the same second.
* `OneTimeTokens`: refinement of `OneTimeLogin`. A session meets the rule (token or
  open door) that was in force when it was accepted; under the first, it gets in
  with a token generated before and used by nobody. A client whose connection breaks
  before it is told has used its token (Session.cpp:249).
* `CopiesReliably`: refinement of `ReliableCopy`. The copy is always the beginning of
  the source, and 226 says it is the whole. After 226 only a failing `fclose()` takes
  bytes off its end, at most one buffer of the `FILE*` (DataBufferFile.cpp:15), and
  nobody is told.
* `TransferEnds`, `FileArrives`: a transfer whose client does its part is concluded;
  a client that was told 226 and stays gets every byte still queued.
* `CommandsAreSaid`: the commands handled and those that wait in `m_readBuf` are the
  lines said, each once and in order, whatever Telnet command stands in the middle of a
  word and wherever the network cut. What is missing from them is each escaped byte 255
  (`Stripped`): the property says that nothing else is, and `doc_escaped` that it should
  not be. Excused: Erase Character at the start of a line, which takes the end off the
  line before (Telnet.cpp:155), and of an escaped byte, which takes the byte before it.
* `AnswersInOrder`: every Telnet command that asks for an answer gets the one `Parse`
  has for it, in turn. The echo of IAC IAC, which nobody asked for, is left aside
  (`Without`). `FailureExcused`: a session ends with an error only when the
  client asked for what is refused, or the connection broke.
  `FirstLineHandled`: a complete first line is handled however many reads it takes.
* `CwdFollowsPwd`: CWD leads where the kernel would get from the directory PWD
  prints, and PWD then prints it; it is refused only if there is none.
* `ChangesWhatItNames`: DELE, MKD, RMD and STOR change the one node their argument
  names, in the way their verb says, when they say "done", and a STOR also when it says
  "425" (its file is then made or cut to nothing); they change nothing at all when they
  say that they are refused; when the reply is lost they have done one or the other.
  Both properties are about commands that nobody disturbed, and paths where no "~" is
  dropped.
* `ListingExcused`: LIST reads from a null `DIR*` only if `opendir()` refuses a directory
  that is there (a permission, no descriptor), the disk changed meanwhile, the session's
  own directory is gone, or it is below a "~" in the root, which `SplitPath` drops from
  `m_path`: then the walk starts somewhere else, where there may be no directory. It
  shows what it never got, or what belongs to the entry before, only if the disk changed
  meanwhile or for a link that leads nowhere (Filesystem.cpp:194).

### Runs that find a disagreement

| Run | The code | The document |
|---|---|---|
| `doc_list` | LIST during a transfer replaces the Data object without concluding it (Session.cpp:539) | rfc0959.txt:2776, the sequences of replies |
| `doc_pipelined` | the second of two lines read together waits for another event (Session.cpp:281) | rfc0959.txt:1969 |
| `doc_store` | a listing stores its rest (Data.cpp:160) and the throw is caught nowhere | DataBuffer.hpp:18 |
| `doc_telnet` | the refusal of an option is sent with its IAC doubled (Telnet.cpp:104) and arrives as text | rfc1123.txt:1974 |
| `doc_escaped` | IAC IAC is dropped from the line, and sent back (TelnetCommand.cpp:79) | rfc3659.txt:269, the IAC of a pathname is escaped so |
| `doc_removed` | LIST of a directory that `opendir()` refuses, or after RMD of the own directory, calls `readdir()` with a null `DIR*` (IO.cpp:85) | Session.cpp:535, the 450 meant for it |

More places where the code and a document part, visible in the actions and given
no run of their own: 226 is sent before the data connection is closed
(Session.cpp:769, rfc0959.txt:2537; `Conclude` and then `ResetTransfer`); PORT leaves
the connection of a running transfer open (Session.cpp:463, rfc0959.txt:1034;
`HandlePort`); STRU R ends the session without a reply (Session.cpp:444,
rfc0959.txt:1969; `HandleStru`); a session accepted before authentication was
disabled still needs a token, while the help says that any password will do
(QtMain.cpp:133; `IncomingConnection`); STOR makes or truncates its file before the data
connection is opened and leaves it so with 425 (Session.cpp:744), while of every reply
4yz the requested action did not take place (rfc0959.txt:2097; `Download`,
`ChangesWhatItNames`); a PORT field that is no number ends the process where 501 is due
(Session.cpp:476, rfc0959.txt:2201; `HandlePort`); a broken data connection ends the
session, and the 426 written for it (Session.cpp:778) is never sent (Data.cpp:146;
`SendFails`, `ReceiveFails`); the `fclose()` that writes the end of a stored file comes
after 226 and is not looked at (DataBufferFile.cpp:15, rfc0959.txt:2258; `Close`); two
authenticators seeded in one second generate the same text, which logs in again after
its use, while the help says that it is invalidated (AuthToken.cpp:9, QtMain.cpp:134;
the excuse of `TextUsedOnce`).

### Bounds

*Server.* `MaxFd`: descriptors are 3..MaxFd, the listener is 3. One session needs at
most four (control, passive, data, file), so 8 never runs out with one session; 7
leaves two sessions four between them, so that `accept()`, `socket()` and `fopen()`
all come to fail, and two passive transfers still overlap in part. `MaxLines` bounds
the lines that wait in the socket and in `m_readBuf` together: two is the least that
makes a line stay behind. `MaxChunks` bounds the buffers of a file and those in
flight: two is the least with a partial transfer and a `Receive` that loops. They are
guards of the clients' actions (`SendLine`, `SendData`) and of the choice of a file's
size, never of the server's steps, except that `total + 1 < MaxChunks` is the server's
own test against `BufSize`. A session identity is reused after the session is
destroyed, so histories are of any length. `two_sessions` chooses the verbs and faults
that matter for its question, to keep the state space small (4.6 million states);
`one_session` has all of them. Sessions meet only in the descriptor table,
`activeFds`, `m_list` and `m_removeList`, for which two are the least, and the
theorems below cover any number.

*Authentication.* Three tokens are the least with an old session's token, the shown
one and one more; two seconds the least with a seed that repeats and one that does
not. The number of authenticators is not bounded by choice: an object is reused when
nobody points to it.

*Transfer.* A buffer of 3 on a connection of 2 blocks and is stored in part; 7 bytes
are two buffers and a bit; a `FILE*` of 2 holds less than one buffer, and 6 free
bytes make the disk fill in `fwrite()` and in `fclose()`. `BufSize` and the others
are constants of the code or the system, and any value in the theorems.

*TelnetInput.* `MaxTokens = 3` allows a command in a word and a line behind it;
every cut of every such stream is tried. *Paths.* `MaxDepth = 2` has a directory
below the current one, with two names in it for a listing; `Arguments` has every form
of a path `SplitPath` and `SplitProperPath` tell apart. The run has 3.4 million states
and takes two to four minutes.

TLC checks for deadlock only in the Server runs: a transfer that is over, a session
that is gone, a server that crashed and a process that died really stop.

### Fairness

*Server.* `FairSpec` is weak fairness of the server's thread: while it can step it
steps. It cannot step in `accept()` before a client dials or in `send()` before the
client reads; nothing is assumed of clients (`doc_pipelined` runs under it).
`CooperativeSpec` adds that a client dials the passive address it was given, reads
data it asked for, and that its host answers data sent after a close with a reset
(`KeepsWord`); it may still close, break or leave either connection. Without it one
client stops the loop for everybody, which the code does nothing about.

*Transfer.* The same of one transfer: ticks come while its connection is ready
(`select()` watches it in the right direction, which the Server runs show), and the
client reads, ends what it sends, and resets after a close.

*TelnetInput.* The session is ticked while there is something to read, and goes on
with a tick; bytes sent are delivered. The last is strong fairness: the network
acts only while the model's session is not parsing, and does not wait for it.
Nothing is assumed of what the client says or when it leaves.

`Authentication` and `Paths` have safety properties only: nothing there is waited for.

## 4. What is proved

From the assumptions on the constants alone (at least the listener's descriptor,
bounds of at least one, any set of sessions; finite sessions for `Authentication`;
any sizes of at least one for `Transfer`; any number of tokens for `TelnetInput`; any
depth and any names other than ".", ".." and "/" for `Paths`, and any strings in which
two words have a slash between them). With these, every safety property that a passing
run checks is the subject of a theorem.

**Server** (`ServerProofs`, `OutcomeProofs`, `DialogueProofs`):
`TypeCorrect`, `OwnershipHolds`, `RemovalsHold`, `SelectableHolds`, `AnsweredHolds`,
`BackedHolds`, `DialogueKept`, and, where no client sends LIST, `OutcomeHolds` and
`EndIsTold`.

* `DescriptorOwnership` alone is not inductive. `accept()` and `socket()` overwrite a
  variable, so the proof has to know that it was empty: `m_sock` when the connection
  is opened, the file when a transfer starts, the control socket when a session is
  made. `IInv` adds `Holdings` (without a Data object there is no data socket and no
  file; before S_READY there is no Data object and no passive socket; a session that
  does not exist holds nothing), `Labels` (at `open` there is a Data object without
  socket; at `sending` there is a buffer left) and `LinesBounded`. There is a lemma for
  each way the code touches the table (`AssignOwns`, `FailOwns`, `CloseOwns`,
  `RewireOwns`, `KeepOwns`), one for each way a tick goes on (`DeliveredSettles`,
  `UndeliveredSettles`, ...), `QuietStep` and `ReadyStep` for steps that leave the
  descriptors alone and steps that move those of one session, a lemma for each group
  of handlers, then the loop, the clients and the signal.
* `RemovalsRegistered` is carried by `RInv`, which adds `Queued`: requests wait only
  during a round, and each is for a session at a position the round has passed,
  strictly so while a session is being ticked. A session therefore cannot be in the
  queue when its tick asks for its removal, and since `m_list` holds it once, `remove`
  takes exactly one out. All the proof uses of the handlers is `TickMoves`.
* The rest is carried by `SInv`: a session that is not `Doomed` (its removal was asked
  for) is `Steady` between its ticks and `Ticking` during one. An exception leaves a
  session with a -1, a Data object without a connection or a line without an answer;
  `StepSound` says of each step of a tick that it either goes on to a sound state or
  asks for the removal (or ends the process), and `TickedSound` that the session that
  is ticked was not doomed before. `BetweenRounds` then uses that the queue is empty at
  `select()`: nobody is doomed there. This is why all four properties speak of the
  time between two rounds, and none holds inside one.
* `DialogueKept` shows the refinement for any number of sessions. `Says` reduces a
  step of a tick to what it tells the client: nothing, a greeting, an answer, a
  conclusion. The invariants then make the abstract step enabled: `Ticking`, that a
  transfer that is concluded was announced; `Owing`, that a line that is answered had
  no answer yet; `RemovalsRegistered`, that a session that leaves was there.

**Authentication** (`AuthenticationProofs`): `TypeCorrect`, `CastIsSafe`,
`ShownTokenIsGood`, `TextIsUsedOnce`, and `PromiseKept`, that `Authentication`
implements `OneTimeLogin`. `AInv` adds `TokensSound`: a token that can be used is held
by one authenticator and is not among the used ones; it is why authenticators kept by
old sessions do no harm. `TextsFresh` adds, of the texts of a second that was a seed
once, that each is in one authenticator at most and in none after its use, and that the
next draw is new. That memory for a new authenticator is always found is a count of
pointers (`Cardinality`).

**Transfer** (`TransferProofs`): `TransferTyped`, whose part for
`buf` and `secBuf` is that no `Read` or `Store` exceeds its buffer; `CopyIsReliable`,
that `Transfer` implements `ReliableCopy` for any sizes; and `ToldIsWhole`, that a copy
confirmed with 226 is the whole, which follows from the abstract specification alone and
is carried over by the refinement. `TInv` says that what the connection has, what
`m_buf` holds and what `m_secBuf` holds are, in this order, the part of the file read so
far, and the same of the disk and the `FILE*`. Sequences are handled by lemmas on
stretches of the stream (their concatenation, beginning and rest).

**Recursion** (`SequenceLemmas`): what a stream means, the lines of a buffer, the words of
a string and where a walk gets to are all functions defined by recursion over the
positions of a sequence. The prover takes no theorem that is about an operator, so
induction is stated for a set of numbers (`Induction`, from `LeastNumber`, from the
library's fact that < is well-founded on the naturals), and recursion for a step that is
a function: `RecursionDefines` says that a function with a first value and a step exists
and where its values are, `RecursionUnique` that there is one only. From these follows
what each of the models' recursions does with a sequence of one element more
(`ComponentsAppend`, `ReachedAppend`) or one less (`ReachedTail`).

**TelnetInput** (`TelnetProofs`): `TelnetTyped`, `CommandsSaid`, `QuestionsAnswered`,
`FailuresExcused`. The invariant speaks of what the server makes of the stream
(`Received`, with `LinesReceived` and `AnswersGiven`), and a second induction over the
tokens relates that to what the client means (`Heard`): `Views` says that the two have
the same lines up to the bytes 255, and the same answers up to the echoes, as long as
nothing was torn. `CommandsSaid` and `QuestionsAnswered` follow from both. The
properties are not inductive: after half a command nothing about the lines says that the
parser will take the other half for what it is. `TelnetInv` adds `InStep`: the bytes
`Read` still has are the next ones of the stream; `TelnetCommand::m_buf` is what the
stream has of the token that has begun, unless that is the CR of an end of line, which
is in `m_readBuf`; and the text behind the last line of `m_readBuf` is what the client
has typed on its line (the bytes 255 left out), that CR included. `LineThere` adds that
`GetBuf` finds the line `Read` has found, wherever it was in the buffer. The proof needs
that a stream is cut in one way only (`WholeTokens` and the token that has begun say
what the next byte can be), what one byte does to the parser and to the meaning in each
case of the switch, and that `ParseCommand` on what was typed is the command that was
said.

**Paths** (`PathsProofs`): `PathsTyped`, `CwdFollows`, `ChangesTheNamed`,
`ListingIsExcused`. `PathsInv` relates the program's walk to the kernel's. `PwdIsMade`:
`m_path` is `MakePath` of its own components, which are names. `Control`: which commands
reach which point. `OnTheWay`: while nobody else changes the disk, `path` is a
directory, and the kernel's walk from it along the words left (and the file's name) ends
where the argument leads from the directory that PWD prints; a walk that was refused
ends in no directory. `InTheListing`: the names a listing has yet to show are names of
its directory, and a line shows the wrong data only for a link. The lemmas say that a
path that is made splits into what it was made of (`MadeIs`), that a walk along names is
at the node they are as long as it is anywhere (`ReachedNode`), that a walk that has
left the directories does not come back (`ReachedStray`), and that `SplitPath` and
`SplitProperPath` start it where a shell would (`PlainPaths`). Trying to prove it showed
that `ListingExcused` had to excuse a `m_path` with a "~" in front, and TLC then found
that behaviour with one string more: CWD "./~/x", after which LIST looks at "/x".

Only model-checked: all liveness (TLAPS has no support for ENABLED and fairness
here): `RoundsContinue`, `SessionReclaimed`, `TransferConcludes`, `InterruptEnds`,
`TransferEnds`, `FileArrives` and `FirstLineHandled`; and the disagreements, which are
single behaviours.

## 5. What is not modelled

* The address of the data connection (`SplitPort`, the six numbers of PORT and the
  text of 227): a value over 255 is not refused (Session.cpp:476) and gives another
  port; the model has a connection that succeeds or fails.
* The text of replies, listings and the log; dates and sizes in a listing.
* Symbolic links to something that is there. `SplitPath` and `TryChangePath` resolve
  ".." on the string, the kernel from the directory it is in: with a link to a directory
  the two differ, without one they agree, which is all that `CwdFollowsPwd` says. Links
  that lead nowhere are modelled.
* Directories that may be read but not searched, in which every `stat()` fails. A
  directory that may not be read is one that `opendir()` refuses.
* For RETR and LIST, whether the data connection could be opened: 150 and 425 are both
  "done" in `Paths` (they change nothing on the disk), and apart in `Server`.
* The time `connect()` takes; a control connection whose send buffer is full;
  descriptors beyond FD_SETSIZE (`MaxFd` stands for a limit below it).
* What other processes do to a file while it is sent.
* The Symbian and Windows builds: their libraries are not in the repository.
  `DataBufferFileSymbian::Write` ignores errors, so that 552 cannot occur there.
* Options of Telnet other than echo and 0, SB as anything but a command that is
  skipped (what follows it is text), control bytes inside a line other than CR and LF.

In `Server`, a line's verb is chosen when the line is handled, and whether a
well-formed command succeeds on the disk is a free choice, which `Paths` makes precise.

Observations that no property states:

* a throw inside the catch clauses of `Session::Tick` ends the process
  (`pc = "terminate"`);
* `accept()`, `connect()` and `send()` on a data connection stop every session until that
  client does its part. The liveness properties of section 3 assume that it does
  (`KeepsWord`), so they would not notice;
* what a command does when others change the disk under it, and where a path leads from
  which a "~" was dropped, is stated nowhere: both are in the model, and the properties
  of `Paths` excuse them by name (`disturbed`, `Plain`);
* no descriptor for `accept()`, or a connection broken before `getpeername()`, is a
  ServerCrash (`ListenCrashes`); so is SIGINT during `select()` (EINTR);
* a client that sends only malformed commands keeps its own transfer from running
  (`TransferConcludes` is about a control connection that has gone quiet);
* lines received just before an end of file are lost (`RecvEnd`);
* an idle session is never timed out, against the advice of rfc1123.txt: a client that
  neither sends nor closes keeps its descriptors;
* the comment of AuthToken.cpp:56 says "End at z", but `% 60` never yields it;
* 257 after MKD prints the path with `m_root` in front, 257 after PWD without
  (Filesystem.cpp:271, Session.cpp:660);
* the refusal of option 0 is cut short, its third byte being the end of a C string
  (TelnetCommand.cpp:90; `Refusal`);
* a directory called "~" cannot be reached below a path that begins with it, and CWD
  "~" stays where it is (String.cpp:57). A session that is in a directory below such
  a one is elsewhere for its next relative path, and its LIST ends the process if there
  is no directory of that name (the excuse of `ListingExcused`).

## 6. Plan

Done: the server, the login, the byte stream, the input of the control connection and
the paths, each checked; every safety property and the three refinements proved. Left, in
this order:

1. The link of `Server` to `TelnetInput` and `Transfer`: the counts of lines and
   buffers as a refinement of the bytes.
2. `SplitPort` and the address of the data connection, once a document says what
   an out-of-range number should do.
