---------------------------- MODULE ServerProofs ----------------------------
(***************************************************************************)
(* TypeOK and DescriptorOwnership, proved of the server for every set of   *)
(* sessions, every limit of descriptors and every bound.  The invariant    *)
(* that carries the induction is IInv of module Server.  A lemma for each  *)
(* way the code touches the descriptor table comes first, then a lemma for *)
(* each group of handlers, then the step of the whole system.              *)
(***************************************************************************)
EXTENDS Server, SequenceTheorems, TLAPS

-----------------------------------------------------------------------------
(* The descriptor table.                                                   *)

Owned == SocketsTypeOK /\ DescriptorOwnership

\* The table after a step is well formed.
OwnedNext ==
  /\ open' \in SUBSET Fds
  /\ fd' \in [Handles -> Fds \cup {NoFd, BadFd}]
  /\ DescriptorOwnership'

\* The members of a session are handles.
LEMMA HandlesOfSession ==
  ASSUME NEW s \in Sessions
  PROVE  /\ <<s, "ctl">> \in Handles /\ <<s, "lis">> \in Handles
         /\ <<s, "sock">> \in Handles /\ <<s, "file">> \in Handles
         /\ HandlesOf(s) \subseteq Handles /\ DataHandles(s) \subseteq Handles
  BY DEF Handles, Kinds, HandlesOf, DataHandles

\* A descriptor that was free, in a handle that was empty.
LEMMA AssignOwns ==
  ASSUME Owned, NEW h \in Handles, NEW f \in Fds, Lowest(f), fd[h] \notin Fds,
         Assign(h, f)
  PROVE  OwnedNext
  BY DEF Owned, OwnedNext, SocketsTypeOK, DescriptorOwnership, HeldFds, Assign,
         Lowest, Fds, Listener, NoFd, BadFd

\* A failed socket(): the handle gets -1, the table of descriptors stays.
LEMMA FailOwns ==
  ASSUME Owned, NEW h \in Handles, fd[h] \notin Fds,
         fd' = [fd EXCEPT ![h] = BadFd], UNCHANGED open
  PROVE  OwnedNext
  BY DEF Owned, OwnedNext, SocketsTypeOK, DescriptorOwnership, HeldFds,
         Fds, Listener, NoFd, BadFd

LEMMA CloseOwns ==
  ASSUME Owned, NEW H \in SUBSET Handles, Close(H)
  PROVE  OwnedNext
  BY DEF Owned, OwnedNext, SocketsTypeOK, DescriptorOwnership, HeldFds, Close,
         Fds, Listener, NoFd, BadFd

LEMMA RewireOwns ==
  ASSUME Owned, NEW h \in Handles, NEW f \in Fds, Lowest(f), fd[h] \notin Fds,
         NEW H \in SUBSET Handles, h \notin H, Rewire(h, f, H)
  PROVE  OwnedNext
  BY DEF Owned, OwnedNext, SocketsTypeOK, DescriptorOwnership, HeldFds, Rewire,
         Lowest, Fds, Listener, NoFd, BadFd

LEMMA KeepOwns ==
  ASSUME Owned, UNCHANGED descriptors
  PROVE  OwnedNext
  BY DEF Owned, OwnedNext, SocketsTypeOK, DescriptorOwnership, HeldFds, descriptors

-----------------------------------------------------------------------------
(* How a step of a tick goes on.                                           *)

\* The variables that Write, a catch clause or a plain step may change.
Settled(labels) ==
  /\ pc' \in labels
  /\ removeList' \in Seq(Sessions)
  /\ answered' \in [Sessions -> BOOLEAN]

Quiet == {"command", "data", "visit", "reset"} \cup Ends

LEMMA GoesSettles ==
  ASSUME SessionTypeOK, NEW label \in TickLabels \cup LoopLabels \cup Ends,
         Goes(label), UNCHANGED answered
  PROVE  Settled({label})
  BY DEF SessionTypeOK, Goes, Settled

LEMMA RemovalSettles ==
  ASSUME SessionTypeOK, NEW s \in Sessions, RequestRemoval(s), UNCHANGED answered
  PROVE  Settled(Quiet)
  BY DEF SessionTypeOK, RequestRemoval, Settled, Quiet

LEMMA DeliveredSettles ==
  ASSUME SessionTypeOK, NEW s \in Sessions, NEW label \in Quiet, Delivered(s, label)
  PROVE  Settled(Quiet)
  BY DEF SessionTypeOK, Delivered, Goes, Settled

LEMMA UndeliveredSettles ==
  ASSUME SessionTypeOK, NEW s \in Sessions, Undelivered(s)
  PROVE  Settled(Quiet)
  <1>1. CASE RequestRemoval(s)
    BY <1>1, RemovalSettles DEF Undelivered
  <1>2. CASE Goes("sigpipe")
    BY <1>2 DEF Undelivered, SessionTypeOK, Goes, Settled, Quiet, Ends
  <1>3. QED BY <1>1, <1>2 DEF Undelivered, Signalled

LEMMA WriteSettles ==
  ASSUME SessionTypeOK, NEW s \in Sessions, Write(s)
  PROVE  Settled(Quiet)
  BY DeliveredSettles, UndeliveredSettles DEF Write, Quiet

LEMMA SyntaxErrorSettles ==
  ASSUME SessionTypeOK, NEW s \in Sessions, SendSyntaxError(s)
  PROVE  Settled(Quiet)
  BY DeliveredSettles DEF SendSyntaxError, SessionTypeOK, Signalled, Goes, Settled, Quiet, Ends

LEMMA ByeSettles ==
  ASSUME SessionTypeOK, NEW s \in Sessions, SendBye(s)
  PROVE  Settled(Quiet)
  <1>1. answered' \in [Sessions -> BOOLEAN]
    BY DEF SendBye, SessionTypeOK
  <1>2. CASE RequestRemoval(s)
    BY <1>1, <1>2 DEF SessionTypeOK, RequestRemoval, Settled, Quiet
  <1>3. CASE Goes("terminate") \/ Goes("sigpipe")
    BY <1>1, <1>3 DEF SessionTypeOK, Goes, Settled, Quiet, Ends
  <1>4. QED BY <1>2, <1>3 DEF SendBye, Signalled

LEMMA AnnounceSettles ==
  ASSUME SessionTypeOK, NEW s \in Sessions, Announce(s) \/ Conclude(s)
  PROVE  Settled(Quiet) /\ due' \in [Sessions -> BOOLEAN]
  <1>1. Delivered(s, "data") \/ Delivered(s, "reset") \/ Undelivered(s)
    BY DEF Announce, Conclude
  <1>2. Settled(Quiet)
    BY <1>1, DeliveredSettles, UndeliveredSettles DEF Quiet
  <1>3. due' \in [Sessions -> BOOLEAN]
    BY DEF Announce, Conclude, SessionTypeOK
  <1>4. QED BY <1>2, <1>3

-----------------------------------------------------------------------------
(* The steps of a tick.                                                    *)

\* What a step of the tick of s has to establish, with the variables of the
\* server's loop unchanged.
Established(s) ==
  /\ SocketsTypeOK' /\ SessionTypeOK' /\ DescriptorOwnership' /\ LinesBounded'
  /\ \A u \in Sessions : Holdings(u)'
  /\ Labels(s)'

LEMMA EstablishedSuffices ==
  ASSUME IInv, NEW s \in Sessions, Current(s), Established(s), UNCHANGED serverVars
  PROVE  IInv'
  BY DEF IInv, Established, TypeOK, ServerTypeOK, serverVars, Current

\* A step that leaves the descriptors, the states and the Data objects alone.
LEMMA QuietStep ==
  ASSUME IInv, NEW s \in Sessions,
         Settled(Quiet), UNCHANGED <<descriptors, mState, data, peer, dial>>,
         total' \in 0..MaxChunks,
         wire' \in [Sessions -> 0..MaxLines], readBuf' \in [Sessions -> 0..MaxLines],
         LinesBounded',
         left' \in [Sessions -> 0..MaxChunks], due' \in [Sessions -> BOOLEAN],
         dpeer' \in [Sessions -> Peers], room' \in [Sessions -> BOOLEAN],
         arrived' \in [Sessions -> 0..MaxChunks]
  PROVE  Established(s)
  <1>1. SocketsTypeOK'
    BY DEF IInv, TypeOK, SocketsTypeOK, descriptors
  <1>2. SessionTypeOK'
    BY DEF IInv, TypeOK, SessionTypeOK, Settled, Quiet, TickLabels, LoopLabels, Ends
  <1>3. DescriptorOwnership'
    BY KeepOwns DEF IInv, TypeOK, Owned, OwnedNext, descriptors
  <1>4. \A u \in Sessions : Holdings(u)'
    BY DEF IInv, Holdings, descriptors
  <1>5. Labels(s)'
    BY DEF Settled, Quiet, Ends, Labels
  <1>6. QED BY <1>1, <1>2, <1>3, <1>4, <1>5 DEF Established

LEMMA UntouchedStep ==
  ASSUME IInv, NEW s \in Sessions, Settled(Quiet), Untouched
  PROVE  Established(s)
  BY QuietStep DEF IInv, TypeOK, SocketsTypeOK, SessionTypeOK, LinesBounded,
     Untouched, socketVars, descriptors, controlLink, dataLink, transfer

LEMMA HandleCheckedStep ==
  ASSUME IInv, NEW s \in Sessions, NEW verb, HandleChecked(s, verb)
  PROVE  Established(s)
  BY WriteSettles, SyntaxErrorSettles, UntouchedStep DEF IInv, TypeOK, HandleChecked

\* The handlers that answer, or end the session, and change nothing else.
LEMMA AnsweringStep ==
  ASSUME IInv, NEW s \in Sessions,
         \/ HandleQuit(s) \/ HandlePlain(s) \/ HandleUnknown(s)
         \/ HandleMode(s) \/ HandleType(s) \/ HandleStru(s)
         \/ ChangeDirectory(s) \/ HandleDele(s) \/ HandleMkd(s) \/ HandleRmd(s)
  PROVE  Established(s)
  <1>1. CASE HandleQuit(s)
    BY <1>1, ByeSettles, UntouchedStep DEF IInv, TypeOK, HandleQuit
  <1>2. CASE HandlePlain(s)
    BY <1>2, WriteSettles, UntouchedStep DEF IInv, TypeOK, HandlePlain
  <1>3. CASE HandleUnknown(s)
    BY <1>3, SyntaxErrorSettles, UntouchedStep DEF IInv, TypeOK, HandleUnknown
  <1>4. CASE HandleStru(s)
    BY <1>4, HandleCheckedStep, RemovalSettles, UntouchedStep DEF IInv, TypeOK, HandleStru
  <1>5. CASE \/ HandleMode(s) \/ HandleType(s) \/ ChangeDirectory(s)
             \/ HandleDele(s) \/ HandleMkd(s) \/ HandleRmd(s)
    BY <1>5, HandleCheckedStep
       DEF HandleMode, HandleType, ChangeDirectory, HandleDele, HandleMkd, HandleRmd
  <1>6. QED BY <1>1, <1>2, <1>3, <1>4, <1>5

LEMMA ReadStep ==
  ASSUME IInv, NEW s \in Sessions, Read(s) \/ ReadFails(s)
  PROVE  Established(s)
  <1>1. CASE ReadFails(s)
    <2>1. Settled(Quiet)
      BY <1>1, RemovalSettles DEF ReadFails, IInv, TypeOK, SessionTypeOK, Signalled,
         Goes, Settled, Quiet, Ends
    <2>2. Untouched
      BY <1>1 DEF ReadFails, Untouched
    <2>3. QED BY <2>1, <2>2, UntouchedStep
  <1>2. CASE Read(s)
    <2>1. PICK unread \in 0..(readBuf[s] + wire[s]) :
            \/ /\ unread = 0
               /\ readBuf' = [readBuf EXCEPT ![s] = 0]
               /\ Goes("data")
               /\ UNCHANGED answered
            \/ /\ unread > 0
               /\ readBuf' = [readBuf EXCEPT ![s] = unread - 1]
               /\ answered' = [answered EXCEPT ![s] = FALSE]
               /\ Goes("command")
      BY <1>2 DEF Read
    <2>2. /\ wire' = [wire EXCEPT ![s] = 0]
          /\ UNCHANGED <<descriptors, peer, dataLink, mState, transfer, total>>
      BY <1>2 DEF Read
    <2>3. /\ wire \in [Sessions -> 0..MaxLines]
          /\ readBuf \in [Sessions -> 0..MaxLines]
          /\ \A u \in Sessions : readBuf[u] + wire[u] <= MaxLines
          /\ MaxLines \in Nat
      BY SocketsAssumption DEF IInv, TypeOK, SocketsTypeOK, SessionTypeOK, LinesBounded
    <2>4. /\ wire[s] \in Nat /\ readBuf[s] \in Nat /\ unread \in Nat
          /\ unread <= readBuf[s] + wire[s]
          /\ readBuf[s] + wire[s] <= MaxLines
      BY <2>1, <2>3
    <2>5. \A u \in Sessions : /\ readBuf'[u] \in Nat
                              /\ wire'[u] \in Nat
                              /\ readBuf'[u] + wire'[u] <= MaxLines
      <3> TAKE u \in Sessions
      <3>1. /\ wire[u] \in Nat /\ readBuf[u] \in Nat
            /\ readBuf[u] + wire[u] <= MaxLines
        BY <2>3
      <3>2. wire'[u] = IF u = s THEN 0 ELSE wire[u]
        BY <2>2, <2>3
      <3>3. \/ readBuf'[u] = readBuf[u]
            \/ u = s /\ readBuf'[u] = 0
            \/ u = s /\ unread > 0 /\ readBuf'[u] = unread - 1
        BY <2>1, <2>3
      <3>4. QED BY <2>3, <2>4, <3>1, <3>2, <3>3
    <2>6. /\ readBuf' \in [Sessions -> 0..MaxLines]
          /\ wire' \in [Sessions -> 0..MaxLines]
      <3>1. /\ readBuf' = [u \in Sessions |-> readBuf'[u]]
            /\ wire' = [u \in Sessions |-> wire'[u]]
        BY <2>1, <2>2, <2>3
      <3>2. \A u \in Sessions : readBuf'[u] \in 0..MaxLines /\ wire'[u] \in 0..MaxLines
        BY <2>3, <2>5
      <3>3. QED BY <3>1, <3>2
    <2>7. LinesBounded'
      BY <2>5 DEF LinesBounded
    <2>8. Settled(Quiet)
      BY <2>1 DEF IInv, TypeOK, SessionTypeOK, Goes, Settled, Quiet
    <2>9. QED
      BY <2>2, <2>8, <2>6, <2>7, QuietStep DEF IInv, TypeOK, SocketsTypeOK,
         SessionTypeOK, dataLink, transfer
  <1>3. QED BY <1>1, <1>2

\* The states before S_READY: nothing is held but the control connection.
LEMMA LoginStep ==
  ASSUME IInv, NEW s \in Sessions,
         SendGreeting(s) \/ AwaitLogin(s) \/ AwaitPassword(s)
  PROVE  Established(s)
  <1> DEFINE States == {"greeting", "login", "password"}
  <1>1. mState[s] \in States
    BY DEF SendGreeting, AwaitLogin, AwaitPassword
  <1>2. UNCHANGED <<socketVars, transfer, total, readBuf>>
    BY DEF SendGreeting, AwaitLogin, AwaitPassword
  <1> DEFINE Moves == \/ UNCHANGED mState
                      \/ \E next \in States \cup {"ready"} :
                           mState' = [mState EXCEPT ![s] = next]
  <1>3. SessionTypeOK
    BY DEF IInv, TypeOK
  <1>4. ASSUME NEW next \in States \cup {"ready"}, Login(s, next)
        PROVE  Settled(Quiet) /\ Moves
    <2>1. Settled(Quiet)
      BY <1>3, <1>4, DeliveredSettles, UndeliveredSettles DEF Login, Quiet
    <2>2. Moves
      BY <1>4 DEF Login
    <2>3. QED BY <2>1, <2>2
  <1>5. ASSUME SendBye(s) \/ SendSyntaxError(s), UNCHANGED mState
        PROVE  Settled(Quiet) /\ Moves
    BY <1>3, <1>5, ByeSettles, SyntaxErrorSettles
  <1>6. Settled(Quiet) /\ Moves
    <2>1. CASE SendGreeting(s)
      <3>1. Login(s, "login")
        BY <2>1 DEF SendGreeting, Login
      <3>2. QED BY <3>1, <1>4
    <2>2. CASE AwaitLogin(s)
      <3>1. Login(s, "password") \/ Login(s, "login")
              \/ ((SendBye(s) \/ SendSyntaxError(s)) /\ UNCHANGED mState)
        BY <2>2 DEF AwaitLogin
      <3>2. QED BY <3>1, <1>4, <1>5
    <2>3. CASE AwaitPassword(s)
      <3>1. Login(s, "ready") \/ Login(s, "login")
              \/ ((SendBye(s) \/ SendSyntaxError(s)) /\ UNCHANGED mState)
        BY <2>3 DEF AwaitPassword
      <3>2. QED BY <3>1, <1>4, <1>5
    <2>4. QED BY <2>1, <2>2, <2>3
  <1>7. SocketsTypeOK' /\ DescriptorOwnership' /\ LinesBounded'
    BY <1>2, KeepOwns DEF IInv, TypeOK, Owned, OwnedNext, SocketsTypeOK, LinesBounded,
       socketVars, descriptors, controlLink, dataLink
  <1>8. SessionTypeOK'
    BY <1>1, <1>2, <1>6 DEF IInv, TypeOK, SessionTypeOK, Settled, Quiet, TickLabels,
       LoopLabels, Ends, transfer
  <1>9. \A u \in Sessions : Holdings(u)'
    BY <1>1, <1>2, <1>6 DEF IInv, TypeOK, SessionTypeOK, Holdings, socketVars, descriptors, transfer
  <1>10. Labels(s)'
    BY <1>6 DEF Settled, Quiet, Ends, Labels
  <1>11. QED BY <1>7, <1>8, <1>9, <1>10 DEF Established

-----------------------------------------------------------------------------
(* The steps of a tick that move descriptors.                              *)

\* The data connections after a step.
LinksTyped ==
  /\ dial' \in [Sessions -> BOOLEAN]
  /\ dpeer' \in [Sessions -> Peers]
  /\ room' \in [Sessions -> BOOLEAN]
  /\ arrived' \in [Sessions -> 0..MaxChunks]

\* The Data objects after a step.
TransferTyped ==
  /\ data' \in [Sessions -> {"none", "upload", "download", "listing"}]
  /\ left' \in [Sessions -> 0..MaxChunks]
  /\ due' \in [Sessions -> BOOLEAN]

\* The step touched no Data object and no descriptor but those of s.
OnlyOf(s) ==
  \A u \in Sessions \ {s} :
    data'[u] = data[u] /\ \A kind \in Kinds : fd'[<<u, kind>>] = fd[<<u, kind>>]

\* Without a Data object s has neither a data socket nor a file.
BareNext(s) ==
  data'[s] = "none" => fd'[<<s, "sock">>] = NoFd /\ fd'[<<s, "file">>] = NoFd

LEMMA LinkTyped ==
  ASSUME SocketsTypeOK, NEW s \in Sessions, dial' \in [Sessions -> BOOLEAN],
         FreshLink(s) \/ NoLink(s) \/ UNCHANGED <<dpeer, room, arrived>>
  PROVE  LinksTyped
  <1>1. 0 \in 0..MaxChunks
    BY SocketsAssumption
  <1>2. dpeer' \in [Sessions -> Peers]
    BY DEF SocketsTypeOK, FreshLink, NoLink, Peers
  <1>3. room' \in [Sessions -> BOOLEAN]
    BY DEF SocketsTypeOK, FreshLink, NoLink
  <1>4. arrived' \in [Sessions -> 0..MaxChunks]
    BY <1>1 DEF SocketsTypeOK, FreshLink, NoLink
  <1>5. QED BY <1>2, <1>3, <1>4 DEF LinksTyped

\* A step of a session in S_READY, which stays in it.
LEMMA ReadyStep ==
  ASSUME IInv, NEW s \in Sessions, mState[s] = "ready",
         UNCHANGED <<controlLink, mState, total, readBuf>>,
         OwnedNext, LinksTyped, TransferTyped, OnlyOf(s), BareNext(s),
         Settled(Quiet \cup {"open"}),
         pc' = "open" => data'[s] # "none" /\ fd'[<<s, "sock">>] = NoFd
  PROVE  Established(s)
  <1>1. SocketsTypeOK'
    BY DEF IInv, TypeOK, SocketsTypeOK, OwnedNext, LinksTyped, controlLink
  <1>2. SessionTypeOK'
    BY DEF IInv, TypeOK, SessionTypeOK, Settled, Quiet, TransferTyped, TickLabels,
       LoopLabels, Ends
  <1>3. DescriptorOwnership' /\ LinesBounded'
    BY DEF IInv, OwnedNext, LinesBounded, controlLink
  <1>4. \A u \in Sessions : Holdings(u)'
    <2> TAKE u \in Sessions
    <2>1. CASE u = s
      BY <2>1 DEF Holdings, BareNext
    <2>2. CASE u # s
      <3>1. /\ data'[u] = data[u] /\ mState' = mState
            /\ fd'[<<u, "sock">>] = fd[<<u, "sock">>] /\ fd'[<<u, "file">>] = fd[<<u, "file">>]
            /\ fd'[<<u, "lis">>] = fd[<<u, "lis">>] /\ fd'[<<u, "ctl">>] = fd[<<u, "ctl">>]
        BY <2>2 DEF OnlyOf, Kinds
      <3>2. QED BY <3>1 DEF IInv, Holdings
    <2>3. QED BY <2>1, <2>2
  <1>5. Labels(s)'
    BY DEF Settled, Quiet, Ends, Labels
  <1>6. QED BY <1>1, <1>2, <1>3, <1>4, <1>5 DEF Established

\* What the states of s say of its handles, for the steps below.
LEMMA ReadyHandles ==
  ASSUME IInv, NEW s \in Sessions
  PROVE  /\ Owned /\ SessionTypeOK /\ Holdings(s)
         /\ data[s] # "none" => mState[s] = "ready"
         /\ NoFd \notin Fds /\ BadFd \notin Fds
  <1>1. NoFd \notin Fds /\ BadFd \notin Fds
    BY DEF NoFd, BadFd, Fds
  <1>2. Owned /\ SessionTypeOK /\ Holdings(s)
    BY DEF IInv, TypeOK, Owned
  <1>3. data[s] # "none" => mState[s] = "ready"
    BY <1>2 DEF Holdings
  <1>4. QED BY <1>1, <1>2, <1>3

\* Closing handles of s, with or without its Data object.
LEMMA CloseKeeps ==
  ASSUME Owned, NEW s \in Sessions, NEW H \in SUBSET HandlesOf(s), Close(H)
  PROVE  /\ OwnedNext
         /\ \A u \in Sessions \ {s} : \A kind \in Kinds : fd'[<<u, kind>>] = fd[<<u, kind>>]
         /\ \A kind \in Kinds : fd'[<<s, kind>>] = IF <<s, kind>> \in H THEN NoFd ELSE fd[<<s, kind>>]
  <1>1. H \in SUBSET Handles
    BY HandlesOfSession
  <1>2. OwnedNext
    BY <1>1, CloseOwns
  <1>3. \A u \in Sessions \ {s} : \A kind \in Kinds : fd'[<<u, kind>>] = fd[<<u, kind>>]
    BY DEF Close, HandlesOf, Handles
  <1>4. \A kind \in Kinds : fd'[<<s, kind>>] = IF <<s, kind>> \in H THEN NoFd ELSE fd[<<s, kind>>]
    BY DEF Close, Handles
  <1>5. QED BY <1>2, <1>3, <1>4

\* A descriptor taken by a handle of s.
LEMMA AssignKeeps ==
  ASSUME Owned, NEW s \in Sessions, NEW kind \in Kinds, fd[<<s, kind>>] \notin Fds,
         \/ \E f \in Fds : Lowest(f) /\ Assign(<<s, kind>>, f)
         \/ fd' = [fd EXCEPT ![<<s, kind>>] = BadFd] /\ UNCHANGED open
  PROVE  /\ OwnedNext
         /\ \A u \in Sessions \ {s} : \A k \in Kinds : fd'[<<u, k>>] = fd[<<u, k>>]
         /\ \A k \in Kinds \ {kind} : fd'[<<s, k>>] = fd[<<s, k>>]
  <1>1. <<s, kind>> \in Handles
    BY DEF Handles
  <1>2. OwnedNext
    BY <1>1, AssignOwns, FailOwns
  <1>3. \A g \in Handles : g # <<s, kind>> => fd'[g] = fd[g]
    BY <1>1 DEF Owned, SocketsTypeOK, Assign
  <1>4. \A u \in Sessions \ {s} : \A k \in Kinds : fd'[<<u, k>>] = fd[<<u, k>>]
    BY <1>3 DEF Handles
  <1>5. \A k \in Kinds \ {kind} : fd'[<<s, k>>] = fd[<<s, k>>]
    BY <1>3 DEF Handles
  <1>6. QED BY <1>2, <1>4, <1>5

\* The passive socket of PORT is closed, the one of PASV opened or found open.
LEMMA AddressStep ==
  ASSUME IInv, NEW s \in Sessions, HandlePort(s) \/ HandlePasv(s)
  PROVE  Established(s)
  <1>1. /\ mState[s] = "ready"
        /\ UNCHANGED <<controlLink, dpeer, room, arrived, mState, transfer, total, readBuf>>
        /\ dial' \in [Sessions -> BOOLEAN]
    BY DEF HandlePort, HandlePasv, Handling, NoDial, dataLink, IInv, TypeOK, SocketsTypeOK
  <1>2. Settled(Quiet)
    <2>1. Write(s) \/ SendSyntaxError(s)
            \/ ((RequestRemoval(s) \/ Goes("terminate")) /\ UNCHANGED answered)
      BY DEF HandlePort, HandlePasv
    <2>2. CASE Goes("terminate") /\ UNCHANGED answered
      BY <2>2 DEF IInv, TypeOK, SessionTypeOK, Goes, Settled, Quiet, Ends
    <2>3. QED
      BY <2>1, <2>2, WriteSettles, SyntaxErrorSettles, RemovalSettles DEF IInv, TypeOK
  <1>3. /\ OwnedNext
        /\ \A u \in Sessions \ {s} : \A kind \in Kinds : fd'[<<u, kind>>] = fd[<<u, kind>>]
        /\ fd'[<<s, "sock">>] = fd[<<s, "sock">>] /\ fd'[<<s, "file">>] = fd[<<s, "file">>]
    <2>1. CASE UNCHANGED descriptors
      BY <2>1, KeepOwns, ReadyHandles DEF descriptors
    <2>2. CASE Close({<<s, "lis">>})
      <3>1. {<<s, "lis">>} \in SUBSET HandlesOf(s)
        BY DEF HandlesOf, Kinds
      <3>2. QED BY <2>2, <3>1, CloseKeeps, ReadyHandles DEF Kinds
    <2>3. CASE /\ ~Held(s, "lis")
               /\ \/ \E f \in Fds : Lowest(f) /\ Assign(<<s, "lis">>, f)
                  \/ fd' = [fd EXCEPT ![<<s, "lis">>] = BadFd] /\ UNCHANGED open
      BY <2>3, AssignKeeps, ReadyHandles DEF Kinds, Held
    <2>4. QED BY <2>1, <2>2, <2>3 DEF HandlePort, HandlePasv
  <1>4. LinksTyped /\ TransferTyped
    BY <1>1 DEF IInv, TypeOK, SocketsTypeOK, SessionTypeOK, LinksTyped, TransferTyped, transfer
  <1>5. OnlyOf(s) /\ BareNext(s)
    BY <1>1, <1>3, ReadyHandles DEF OnlyOf, BareNext, Holdings, transfer
  <1>6. pc' # "open" /\ Settled(Quiet \cup {"open"})
    BY <1>2 DEF Settled, Quiet, Ends
  <1>7. QED BY <1>1, <1>3, <1>4, <1>5, <1>6, ReadyStep

\* RETR and STOR open a file for a new Data object.
LEMMA StartStep ==
  ASSUME IInv, NEW s \in Sessions, HandleRetr(s) \/ HandleStor(s)
  PROVE  Established(s)
  <1>1. CASE NoTransferStarted(s)
    <2>1. Untouched /\ (Write(s) \/ SendSyntaxError(s))
      BY <1>1 DEF NoTransferStarted
    <2>2. QED BY <2>1, WriteSettles, SyntaxErrorSettles, UntouchedStep DEF IInv, TypeOK
  <1>2. ASSUME NEW kind \in {"upload", "download"}, NEW buffers \in 0..MaxChunks,
               StartTransfer(s, kind, buffers), mState[s] = "ready"
        PROVE  Established(s)
    <2>1. /\ data[s] = "none"
          /\ data' = [data EXCEPT ![s] = kind]
          /\ left' = [left EXCEPT ![s] = buffers]
          /\ UNCHANGED <<controlLink, dataLink, mState, total, readBuf, due, answered>>
          /\ \E f \in Fds : Lowest(f) /\ Assign(<<s, "file">>, f)
          /\ Goes("open")
      BY <1>2 DEF StartTransfer
    <2>2. fd[<<s, "file">>] = NoFd /\ fd[<<s, "sock">>] = NoFd
      BY <2>1, ReadyHandles DEF Holdings
    <2>3. /\ OwnedNext
          /\ \A u \in Sessions \ {s} : \A k \in Kinds : fd'[<<u, k>>] = fd[<<u, k>>]
          /\ \A k \in Kinds \ {"file"} : fd'[<<s, k>>] = fd[<<s, k>>]
      BY <2>1, <2>2, AssignKeeps, ReadyHandles DEF Kinds
    <2>4. LinksTyped /\ TransferTyped
      BY <2>1 DEF IInv, TypeOK, SocketsTypeOK, SessionTypeOK, LinksTyped, TransferTyped, dataLink
    <2>5. data'[s] = kind /\ fd'[<<s, "sock">>] = NoFd
      BY <2>1, <2>2, <2>3 DEF IInv, TypeOK, SessionTypeOK, Kinds
    <2>6. OnlyOf(s) /\ BareNext(s)
      BY <2>1, <2>3, <2>5 DEF OnlyOf, BareNext, IInv, TypeOK, SessionTypeOK
    <2>7. Settled(Quiet \cup {"open"})
      BY <2>1 DEF IInv, TypeOK, SessionTypeOK, Goes, Settled
    <2>8. QED BY <1>2, <2>1, <2>3, <2>4, <2>5, <2>6, <2>7, ReadyStep
  <1>3. mState[s] = "ready"
    BY DEF HandleRetr, HandleStor, Handling
  <1>4. 0 \in 0..MaxChunks
    BY SocketsAssumption
  <1>5. QED BY <1>1, <1>2, <1>3, <1>4 DEF HandleRetr, HandleStor

\* LIST and ABOR close what the Data object before them held.
LEMMA ReplaceStep ==
  ASSUME IInv, NEW s \in Sessions, HandleList(s) \/ HandleAbor(s)
  PROVE  Established(s)
  <1>1. mState[s] = "ready" /\ UNCHANGED <<controlLink, mState, total, readBuf>>
    BY DEF HandleList, HandleAbor, Handling
  <1>2. CASE UNCHANGED <<descriptors, dataLink, data, left, due>>
             /\ (Write(s) \/ (Goes("segv") /\ UNCHANGED answered))
    <2>1. Settled(Quiet)
      BY <1>2, WriteSettles DEF IInv, TypeOK, SessionTypeOK, Goes, Settled, Quiet, Ends
    <2>2. Untouched
      BY <1>1, <1>2 DEF Untouched, socketVars, transfer
    <2>3. QED BY <2>1, <2>2, UntouchedStep
  <1>3. CASE /\ Close(DataHandles(s)) /\ NoLink(s) /\ UNCHANGED dial
             /\ \/ /\ data' = [data EXCEPT ![s] = "listing"]
                   /\ left' \in {[left EXCEPT ![s] = buffers] : buffers \in 1..MaxChunks}
                   /\ Goes("open")
                   /\ UNCHANGED <<due, answered>>
                \/ /\ DropData(s)
                   /\ \/ Delivered(s, "data") /\ due' = [due EXCEPT ![s] = FALSE]
                      \/ Undelivered(s) /\ UNCHANGED due
    <2>1. DataHandles(s) \in SUBSET HandlesOf(s)
      BY DEF DataHandles, HandlesOf, Kinds
    <2>2. /\ OwnedNext
          /\ \A u \in Sessions \ {s} : \A k \in Kinds : fd'[<<u, k>>] = fd[<<u, k>>]
          /\ fd'[<<s, "sock">>] = NoFd /\ fd'[<<s, "file">>] = NoFd
      BY <1>3, <2>1, CloseKeeps, ReadyHandles DEF DataHandles, Kinds
    <2>3. LinksTyped
      BY <1>3, SocketsAssumption DEF IInv, TypeOK, SocketsTypeOK, LinksTyped, NoLink, Peers
    <2>4. TransferTyped
      <3>1. 0 \in 0..MaxChunks /\ 1..MaxChunks \subseteq 0..MaxChunks
        BY SocketsAssumption
      <3>2. \E next \in {"none", "listing"} : data' = [data EXCEPT ![s] = next]
        BY <1>3 DEF DropData
      <3>3. \E buffers \in 0..MaxChunks : left' = [left EXCEPT ![s] = buffers]
        BY <1>3, <3>1 DEF DropData
      <3>4. due' = due \/ due' = [due EXCEPT ![s] = FALSE]
        BY <1>3
      <3>5. QED BY <3>2, <3>3, <3>4 DEF IInv, TypeOK, SessionTypeOK, TransferTyped
    <2>5. OnlyOf(s) /\ BareNext(s)
      BY <1>3, <2>2 DEF OnlyOf, BareNext, DropData, IInv, TypeOK, SessionTypeOK
    <2>6. Settled(Quiet \cup {"open"}) /\ (pc' = "open" => data'[s] # "none")
      <3>1. CASE Goes("open") /\ UNCHANGED answered /\ data' = [data EXCEPT ![s] = "listing"]
        BY <3>1 DEF IInv, TypeOK, SessionTypeOK, Goes, Settled
      <3>2. CASE Delivered(s, "data") \/ Undelivered(s)
        <4>1. Settled(Quiet)
          BY <3>2, DeliveredSettles, UndeliveredSettles DEF IInv, TypeOK, Quiet
        <4>2. QED BY <4>1 DEF Settled, Quiet, Ends
      <3>3. QED BY <1>3, <3>1, <3>2
    <2>7. QED BY <1>1, <2>2, <2>3, <2>4, <2>5, <2>6, ReadyStep
  <1>4. QED BY <1>2, <1>3 DEF HandleList, HandleAbor, DropData, transfer, dataLink

\* OpenDataConnection: a descriptor for m_sock, or none, and the passive socket
\* gone in either case.
LEMMA OpenStep ==
  ASSUME IInv, NEW s \in Sessions, Current(s), OpenDataConnection(s)
  PROVE  Established(s)
  <1> DEFINE Others == \A u \in Sessions \ {s} : \A k \in Kinds : fd'[<<u, k>>] = fd[<<u, k>>]
             Bare == fd'[<<s, "sock">>] = NoFd /\ fd'[<<s, "file">>] = NoFd
  <1>1. pc = "open" /\ UNCHANGED <<controlLink, mState, total, readBuf>>
    BY DEF OpenDataConnection, Accept, AcceptFails, Connect, ConnectRefused, ConnectFails
  <1>2. /\ data[s] # "none" /\ mState[s] = "ready"
        /\ fd[<<s, "sock">>] = NoFd /\ fd[<<s, "sock">>] \notin Fds
    BY <1>1, ReadyHandles DEF IInv, Labels
  <1>3. {<<s, "lis">>} \in SUBSET HandlesOf(s)
        /\ DataHandles(s) \in SUBSET HandlesOf(s)
        /\ {<<s, "lis">>} \cup DataHandles(s) \in SUBSET HandlesOf(s)
    BY DEF DataHandles, HandlesOf, Kinds
  <1>4. CASE Accept(s)
    <2>1. PICK f \in Fds : Lowest(f) /\ Rewire(<<s, "sock">>, f, {<<s, "lis">>})
      BY <1>4 DEF Accept
    <2>2. OwnedNext
      <3> DEFINE lis == {<<s, "lis">>}
      <3>1. /\ <<s, "sock">> \in Handles /\ lis \in SUBSET Handles
            /\ <<s, "sock">> \notin lis
        BY HandlesOfSession
      <3>2. f \in Fds /\ Lowest(f) /\ Rewire(<<s, "sock">>, f, lis)
        BY <2>1
      <3>3. Owned
        BY ReadyHandles
      <3> HIDE DEF lis
      <3>4. QED BY <1>2, <3>1, <3>2, <3>3, RewireOwns
    <2>3. Others
      BY <2>1 DEF Rewire, Handles
    <2>4. UNCHANGED data /\ LinksTyped /\ TransferTyped
      <3>1. LinksTyped
        BY <1>4, SocketsAssumption DEF Accept, NoDial, FreshLink, IInv, TypeOK,
           SocketsTypeOK, LinksTyped, Peers
      <3>2. UNCHANGED data /\ TransferTyped
        BY <1>4 DEF Accept, Announce, IInv, TypeOK, SessionTypeOK, TransferTyped
      <3>3. QED BY <3>1, <3>2
    <2>5. Settled(Quiet)
      BY <1>4, AnnounceSettles, ReadyHandles DEF Accept
    <2>6. Settled(Quiet \cup {"open"}) /\ pc' # "open"
      BY <2>5 DEF Settled, Quiet, Ends
    <2>7. OnlyOf(s) /\ BareNext(s)
      BY <1>2, <2>3, <2>4 DEF OnlyOf, BareNext
    <2>8. QED BY <1>1, <1>2, <2>2, <2>4, <2>6, <2>7, ReadyStep
  <1>5. CASE Connect(s) \/ ConnectFails(s)
    <2>1. \/ \E f \in Fds : Lowest(f) /\ Assign(<<s, "sock">>, f)
          \/ fd' = [fd EXCEPT ![<<s, "sock">>] = BadFd] /\ UNCHANGED open
      BY <1>5 DEF Connect, ConnectFails
    <2>2. OwnedNext /\ Others
      BY <1>2, <2>1, AssignKeeps, ReadyHandles DEF Kinds
    <2>3. UNCHANGED data /\ LinksTyped /\ TransferTyped
      <3>1. LinksTyped
        <4>1. UNCHANGED dial /\ (FreshLink(s) \/ UNCHANGED <<dpeer, room, arrived>>)
          BY <1>5 DEF Connect, ConnectFails, dataLink
        <4>2. dial' \in [Sessions -> BOOLEAN]
          BY <4>1 DEF IInv, TypeOK, SocketsTypeOK
        <4>3. QED BY <4>1, <4>2, LinkTyped, ReadyHandles DEF Owned
      <3>2. UNCHANGED data /\ TransferTyped
        BY <1>5 DEF Connect, ConnectFails, Announce, IInv, TypeOK, SessionTypeOK,
           TransferTyped, transfer
      <3>3. QED BY <3>1, <3>2
    <2>4. Settled(Quiet)
      BY <1>5, AnnounceSettles, RemovalSettles, ReadyHandles DEF Connect, ConnectFails
    <2>5. Settled(Quiet \cup {"open"}) /\ pc' # "open"
      BY <2>4 DEF Settled, Quiet, Ends
    <2>6. OnlyOf(s) /\ BareNext(s)
      BY <1>2, <2>2, <2>3 DEF OnlyOf, BareNext
    <2>7. QED BY <1>1, <1>2, <2>2, <2>3, <2>5, <2>6, ReadyStep
  <1>6. CASE AcceptFails(s) \/ ConnectRefused(s)
    <2> DEFINE Dropped == Bare /\ DropData(s)
               Kept == UNCHANGED <<data, left, dpeer, room, arrived>>
    <2>1. OwnedNext /\ Others /\ (Dropped \/ Kept)
      <3>1. CASE /\ Close({<<s, "lis">>} \cup DataHandles(s)) \/ Close(DataHandles(s))
                 /\ DropData(s)
        BY <1>3, <3>1, CloseKeeps, ReadyHandles DEF DataHandles, Kinds
      <3>2. CASE Close({<<s, "lis">>}) /\ Kept
        BY <1>3, <3>2, CloseKeeps, ReadyHandles
      <3>3. CASE (\E f \in Fds : Lowest(f) /\ Assign(<<s, "sock">>, f)) /\ Kept
        BY <1>2, <3>3, AssignKeeps, ReadyHandles DEF Kinds
      <3>4. QED BY <1>6, <3>1, <3>2, <3>3 DEF AcceptFails, ConnectRefused
    <2>2. due' = due /\ dial' \in [Sessions -> BOOLEAN]
      BY <1>6 DEF AcceptFails, ConnectRefused, NoDial, IInv, TypeOK, SocketsTypeOK
    <2>3. LinksTyped /\ TransferTyped
      <3>1. LinksTyped
        <4>1. NoLink(s) \/ UNCHANGED <<dpeer, room, arrived>>
          BY <2>1 DEF DropData
        <4>2. QED BY <2>2, <4>1, LinkTyped, ReadyHandles DEF Owned
      <3>2. TransferTyped
        <4>1. \/ /\ data' = [data EXCEPT ![s] = "none"]
                 /\ left' = [left EXCEPT ![s] = 0]
              \/ UNCHANGED <<data, left>>
          BY <2>1 DEF DropData
        <4>2. 0 \in 0..MaxChunks
          BY SocketsAssumption
        <4>3. QED BY <2>2, <4>1, <4>2 DEF IInv, TypeOK, SessionTypeOK, TransferTyped
      <3>3. QED BY <3>1, <3>2
    <2>4. OnlyOf(s) /\ BareNext(s)
      BY <1>2, <2>1 DEF OnlyOf, BareNext, DropData, IInv, TypeOK, SessionTypeOK
    <2>5. Settled(Quiet)
      BY <1>6, DeliveredSettles, UndeliveredSettles
         DEF AcceptFails, ConnectRefused, IInv, TypeOK, Quiet
    <2>6. Settled(Quiet \cup {"open"}) /\ pc' # "open"
      BY <2>5 DEF Settled, Quiet, Ends
    <2>7. QED BY <1>1, <1>2, <2>1, <2>3, <2>4, <2>6, ReadyStep
  <1>7. QED BY <1>4, <1>5, <1>6 DEF OpenDataConnection

\* Data::Send: what is left of the file goes down by one, or nothing moves.
LEMMA SendStep ==
  ASSUME IInv, NEW s \in Sessions, Current(s),
         SendFinished(s) \/ SendStored(s) \/ SendBlocks(s) \/ SendBuffer(s) \/ SendFails(s)
  PROVE  Established(s)
  <1>1. /\ SocketsTypeOK /\ SessionTypeOK /\ LinesBounded
        /\ pc = "sending" => left[s] > 0
    BY DEF IInv, TypeOK, Labels
  <1>2. CASE SendFinished(s)
    <2>1. Settled(Quiet) /\ due' \in [Sessions -> BOOLEAN]
      BY <1>1, <1>2, AnnounceSettles DEF SendFinished
    <2>2. UNCHANGED <<socketVars, mState, data, left, total, readBuf>>
      BY <1>2 DEF SendFinished
    <2>3. QED
      BY <1>1, <2>1, <2>2, QuietStep DEF SocketsTypeOK, SessionTypeOK, LinesBounded,
         socketVars, descriptors, controlLink, dataLink
  <1>3. CASE SendStored(s)
    <2>1. Settled(Quiet) /\ Untouched
      BY <1>1, <1>3 DEF SendStored, SessionTypeOK, Goes, Settled, Quiet, Ends
    <2>2. QED BY <2>1, UntouchedStep
  <1>4. CASE SendBlocks(s)
    <2>1. /\ left[s] > 0
          /\ pc' = "sending" /\ removeList' = removeList /\ answered' = answered
          /\ room' = [room EXCEPT ![s] = FALSE]
          /\ UNCHANGED <<descriptors, controlLink, dial, dpeer, arrived, mState, transfer,
                         total, readBuf>>
      BY <1>4 DEF SendBlocks, Goes
    <2>2. SocketsTypeOK'
      BY <1>1, <2>1 DEF SocketsTypeOK, descriptors, controlLink
    <2>3. SessionTypeOK'
      BY <1>1, <2>1 DEF SessionTypeOK, transfer, TickLabels
    <2>4. DescriptorOwnership' /\ LinesBounded'
      BY <1>1, <2>1, KeepOwns DEF IInv, TypeOK, Owned, OwnedNext, LinesBounded, descriptors, controlLink
    <2>5. \A u \in Sessions : Holdings(u)'
      BY <2>1 DEF IInv, Holdings, descriptors, transfer
    <2>6. Labels(s)'
      BY <2>1 DEF Labels, transfer
    <2>7. QED BY <2>2, <2>3, <2>4, <2>5, <2>6 DEF Established
  <1>5. CASE SendBuffer(s)
    <2>1. left[s] \in 1..MaxChunks /\ MaxChunks \in Nat
      BY <1>1, <1>5, SocketsAssumption DEF SendBuffer, SessionTypeOK
    <2>2. left' \in [Sessions -> 0..MaxChunks]
      <3>1. left[s] - 1 \in 0..MaxChunks
        BY <2>1
      <3>2. QED BY <1>1, <1>5, <3>1 DEF SendBuffer, SessionTypeOK
    <2>3. room' \in [Sessions -> BOOLEAN]
      BY <1>1, <1>5 DEF SendBuffer, SocketsTypeOK
    <2>4. Settled(Quiet)
      BY <1>1, <1>5 DEF SendBuffer, SessionTypeOK, Goes, Settled, Quiet
    <2>5. UNCHANGED <<descriptors, controlLink, dial, dpeer, arrived, mState, data, due,
                      total, readBuf>>
      BY <1>5 DEF SendBuffer
    <2>6. QED
      BY <1>1, <2>2, <2>3, <2>4, <2>5, QuietStep DEF SocketsTypeOK, SessionTypeOK,
         LinesBounded, descriptors, controlLink
  <1>6. CASE SendFails(s)
    <2>1. Settled(Quiet)
      BY <1>1, <1>6, RemovalSettles DEF SendFails, Signalled, SessionTypeOK, Goes,
         Settled, Quiet, Ends
    <2>2. Untouched
      BY <1>6 DEF SendFails
    <2>3. QED BY <2>1, <2>2, UntouchedStep
  <1>7. QED BY <1>2, <1>3, <1>4, <1>5, <1>6

\* Data::Receive: what has arrived goes down by one, or nothing moves.
LEMMA ReceiveStep ==
  ASSUME IInv, NEW s \in Sessions,
         ReceiveNothing(s) \/ ReceiveData(s) \/ ReceiveEnd(s) \/ ReceiveFails(s)
  PROVE  Established(s)
  <1>1. SocketsTypeOK /\ SessionTypeOK /\ LinesBounded
    BY DEF IInv, TypeOK
  <1>2. UNCHANGED <<descriptors, controlLink, dial, dpeer, room, mState, data, left, readBuf>>
    BY DEF ReceiveNothing, ReceiveData, ReceiveEnd, ReceiveFails, socketVars, dataLink, transfer
  <1>3. total' \in 0..MaxChunks
    <2>1. 0 \in 0..MaxChunks /\ total \in Nat /\ MaxChunks \in Nat
      BY <1>1, SocketsAssumption DEF SessionTypeOK
    <2>2. total' = 0 \/ (total + 1 < MaxChunks /\ total' = total + 1)
      BY DEF ReceiveNothing, ReceiveData, ReceiveEnd, ReceiveFails
    <2>3. QED BY <2>1, <2>2
  <1>4. arrived' \in [Sessions -> 0..MaxChunks]
    <2>1. UNCHANGED arrived \/ (arrived[s] > 0 /\ arrived' = [arrived EXCEPT ![s] = arrived[s] - 1])
      BY DEF ReceiveNothing, ReceiveData, ReceiveEnd, ReceiveFails, socketVars, dataLink
    <2>2. arrived[s] \in 0..MaxChunks /\ MaxChunks \in Nat
      BY <1>1, SocketsAssumption DEF SocketsTypeOK
    <2>3. arrived[s] > 0 => arrived[s] - 1 \in 0..MaxChunks
      BY <2>2
    <2>4. QED BY <1>1, <2>1, <2>3 DEF SocketsTypeOK
  <1>5. Settled(Quiet) /\ due' \in [Sessions -> BOOLEAN]
    <2>1. CASE Conclude(s)
      BY <1>1, <2>1, AnnounceSettles
    <2>2. CASE RequestRemoval(s) /\ UNCHANGED <<due, answered>>
      BY <1>1, <2>2, RemovalSettles DEF SessionTypeOK
    <2>3. CASE (Goes("visit") \/ Goes("data")) /\ UNCHANGED <<due, answered>>
      BY <1>1, <2>3 DEF SessionTypeOK, Goes, Settled, Quiet
    <2>4. QED
      BY <2>1, <2>2, <2>3 DEF ReceiveNothing, ReceiveData, ReceiveEnd, ReceiveFails, transfer
  <1>6. QED
    BY <1>1, <1>2, <1>3, <1>4, <1>5, QuietStep DEF SocketsTypeOK, SessionTypeOK,
       LinesBounded, descriptors, controlLink

\* m_data.reset() after a callback.
LEMMA ResetStep ==
  ASSUME IInv, NEW s \in Sessions, ResetTransfer(s)
  PROVE  Established(s)
  <1>1. CASE data[s] = "none"
    \* Nothing is held then: the close changes nothing.
    <2>1. fd[<<s, "sock">>] = NoFd /\ fd[<<s, "file">>] = NoFd
      BY <1>1, ReadyHandles DEF Holdings
    <2>2. /\ NoFd \notin open /\ open \in SUBSET Fds
          /\ fd \in [Handles -> Fds \cup {NoFd, BadFd}]
      BY ReadyHandles DEF Owned, SocketsTypeOK
    <2>3. UNCHANGED descriptors
      <3>1. {fd[g] : g \in DataHandles(s)} = {NoFd}
        BY <2>1 DEF DataHandles
      <3>2. open' = open
        BY <2>2, <3>1 DEF ResetTransfer, Close
      <3>3. fd' = fd
        BY <2>1, <2>2 DEF ResetTransfer, Close, DataHandles
      <3>4. QED BY <3>2, <3>3 DEF descriptors
    <2>4. UNCHANGED <<mState, data, peer, dial, wire, readBuf, total, due, removeList, answered>>
          /\ pc' = "visit"
      BY <1>1 DEF ResetTransfer, DropData, Goes, controlLink, IInv, TypeOK, SessionTypeOK
    <2>5. LinksTyped
      BY <2>4, LinkTyped, ReadyHandles DEF ResetTransfer, DropData, Owned, SocketsTypeOK
    <2>6. left' \in [Sessions -> 0..MaxChunks]
      <3>1. 0 \in 0..MaxChunks
        BY SocketsAssumption
      <3>2. QED BY <3>1 DEF ResetTransfer, DropData, IInv, TypeOK, SessionTypeOK
    <2>7. Settled(Quiet)
      BY <2>4 DEF IInv, TypeOK, SessionTypeOK, Settled, Quiet
    <2>8. QED
      BY <2>3, <2>4, <2>5, <2>6, <2>7, QuietStep DEF LinksTyped, IInv, TypeOK,
         SocketsTypeOK, SessionTypeOK, LinesBounded
  <1>2. CASE data[s] # "none"
    <2>1. DataHandles(s) \in SUBSET HandlesOf(s)
      BY DEF DataHandles, HandlesOf, Kinds
    <2>2. /\ OwnedNext
          /\ \A u \in Sessions \ {s} : \A k \in Kinds : fd'[<<u, k>>] = fd[<<u, k>>]
          /\ fd'[<<s, "sock">>] = NoFd /\ fd'[<<s, "file">>] = NoFd
      BY <2>1, CloseKeeps, ReadyHandles DEF ResetTransfer, DataHandles, Kinds
    <2>3. LinksTyped
      BY LinkTyped, ReadyHandles DEF ResetTransfer, DropData, Owned, SocketsTypeOK
    <2>4. TransferTyped
      <3>1. 0 \in 0..MaxChunks
        BY SocketsAssumption
      <3>2. QED
        BY <3>1 DEF ResetTransfer, DropData, TransferTyped, IInv, TypeOK, SessionTypeOK
    <2>5. OnlyOf(s) /\ BareNext(s)
      BY <2>2 DEF OnlyOf, BareNext, ResetTransfer, DropData, IInv, TypeOK, SessionTypeOK
    <2>6. Settled(Quiet \cup {"open"}) /\ pc' # "open"
      BY DEF ResetTransfer, Goes, IInv, TypeOK, SessionTypeOK, Settled, Quiet
    <2>7. mState[s] = "ready" /\ UNCHANGED <<controlLink, mState, total, readBuf>>
      BY <1>2, ReadyHandles DEF ResetTransfer
    <2>8. QED BY <2>2, <2>3, <2>4, <2>5, <2>6, <2>7, ReadyStep
  <1>3. QED BY <1>1, <1>2

\* A whole tick, step by step.
LEMMA TickStep ==
  ASSUME IInv, NEW s \in Sessions, Current(s), Tick(s)
  PROVE  Established(s)
  <1>1. CASE SendGreeting(s) \/ AwaitLogin(s) \/ AwaitPassword(s)
    BY <1>1, LoginStep
  <1>2. CASE Read(s) \/ ReadFails(s)
    BY <1>2, ReadStep
  <1>3. CASE AwaitReady(s)
    BY <1>3, AnsweringStep, AddressStep, StartStep, ReplaceStep DEF AwaitReady
  <1>4. CASE OpenDataConnection(s)
    BY <1>4, OpenStep
  <1>5. CASE DataTick(s)
    <2>1. CASE NoTransfer(s)
      <3>1. Settled(Quiet) /\ Untouched
        BY <2>1 DEF NoTransfer, Goes, IInv, TypeOK, SessionTypeOK, Settled, Quiet
      <3>2. QED BY <3>1, UntouchedStep
    <2>2. QED BY <1>5, <2>1, ResetStep, SendStep, ReceiveStep DEF DataTick
  <1>6. QED BY <1>1, <1>2, <1>3, <1>4, <1>5 DEF Tick

-----------------------------------------------------------------------------
(* The steps of the loop.                                                  *)

\* A step outside the ticks that moves neither descriptors nor sessions.
LEMMA LoopStep ==
  ASSUME IInv, UNCHANGED <<socketVars, mState, transfer, total, readBuf, answered>>,
         pc' \in LoopLabels \cup Ends \cup {"control"},
         removeList' \in Seq(Sessions), ServerTypeOK'
  PROVE  IInv'
  <1>1. SocketsTypeOK' /\ LinesBounded' /\ DescriptorOwnership'
    BY KeepOwns DEF IInv, TypeOK, Owned, OwnedNext, SocketsTypeOK, LinesBounded,
       socketVars, descriptors, controlLink, dataLink
  <1>2. SessionTypeOK'
    BY DEF IInv, TypeOK, SessionTypeOK, TickLabels, LoopLabels, Ends, transfer
  <1>3. \A u \in Sessions : Holdings(u)'
    BY DEF IInv, Holdings, socketVars, descriptors, transfer
  <1>4. \A u \in Sessions : Labels(u)'
    BY DEF Labels, LoopLabels, Ends
  <1>5. QED BY <1>1, <1>2, <1>3, <1>4 DEF IInv, TypeOK

\* Main's loop, select(), the walk over the sessions, and the listener when it
\* accepts nobody.
LEMMA RoundStep ==
  ASSUME IInv, \/ Loop \/ Select \/ Visit \/ EndRound \/ NoListen \/ ListenCrashes
  PROVE  IInv'
  <1>1. removeList' \in Seq(Sessions)
    BY DEF IInv, TypeOK, SessionTypeOK, Loop, Select, Visit, EndRound, NoListen,
       ListenCrashes, Goes
  <1>2. UNCHANGED <<socketVars, mState, transfer, total, readBuf, answered>>
    BY DEF Loop, Select, Visit, EndRound, NoListen, ListenCrashes
  <1>3. pc' \in LoopLabels \cup Ends \cup {"control"}
    BY DEF Loop, Select, Visit, EndRound, NoListen, ListenCrashes, Goes, LoopLabels, Ends
  <1>4. ServerTypeOK'
    <2>1. list \in Seq(Sessions) /\ it \in Nat /\ it <= Len(list) /\ Len(list) \in Nat
      BY DEF IInv, TypeOK, ServerTypeOK
    <2>2. CASE Select
      <3>1. ReadyFds \subseteq Fds \cup {NoFd, BadFd}
        <4>1. Listener \in Fds
          BY SocketsAssumption DEF Listener, Fds
        <4>2. \A s \in Registered : s \in Sessions
          BY <2>1 DEF Registered
        <4>3. \A s \in Sessions : GetFds(s) \subseteq Handles
          BY DEF GetFds, Handles, Kinds
        <4>4. UNION {GetFds(s) : s \in Registered} \subseteq Handles
          BY <4>2, <4>3
        <4>5. fd \in [Handles -> Fds \cup {NoFd, BadFd}]
          BY DEF IInv, TypeOK, SocketsTypeOK
        <4>6. QED BY <4>1, <4>4, <4>5 DEF ReadyFds
      <3>2. QED BY <2>1, <2>2, <3>1 DEF Select, IInv, TypeOK, ServerTypeOK
    <2>3. CASE Visit
      BY <2>1, <2>3 DEF Visit, IInv, TypeOK, ServerTypeOK
    <2>4. CASE Loop \/ EndRound \/ NoListen \/ ListenCrashes
      BY <2>1, <2>4 DEF Loop, EndRound, NoListen, ListenCrashes, serverVars, IInv, TypeOK, ServerTypeOK
    <2>5. QED BY <2>2, <2>3, <2>4
  <1>5. QED BY <1>1, <1>2, <1>3, <1>4, LoopStep

\* m_list.remove: a member is taken out of the list.
LEMMA RemoveAtShortens ==
  ASSUME NEW S, NEW q \in Seq(S), NEW i \in DOMAIN q
  PROVE  RemoveAt(q, i) \in Seq(S) /\ Len(RemoveAt(q, i)) = Len(q) - 1
  <1>1. Len(q) \in Nat /\ i \in 1..Len(q)
    OBVIOUS
  <1>2. /\ SubSeq(q, 1, i - 1) \in Seq(S) /\ Len(SubSeq(q, 1, i - 1)) = i - 1
        /\ SubSeq(q, i + 1, Len(q)) \in Seq(S) /\ Len(SubSeq(q, i + 1, Len(q))) = Len(q) - i
    <2>1. /\ i - 1 \in Int /\ i + 1 \in Int /\ Len(q) \in Int /\ 1 \in Int
          /\ \A k \in 1..(i - 1) : q[k] \in S
          /\ \A k \in (i + 1)..Len(q) : q[k] \in S
      BY <1>1, ElementOfSeq
    <2>2. SubSeq(q, 1, i - 1) \in Seq(S)
          /\ Len(SubSeq(q, 1, i - 1)) = IF 1 <= i - 1 THEN i - 1 - 1 + 1 ELSE 0
      BY <2>1, SubSeqProperties
    <2>3. SubSeq(q, i + 1, Len(q)) \in Seq(S)
          /\ Len(SubSeq(q, i + 1, Len(q))) = IF i + 1 <= Len(q) THEN Len(q) - (i + 1) + 1 ELSE 0
      BY <2>1, SubSeqProperties
    <2>4. QED BY <1>1, <2>2, <2>3
  <1> DEFINE front == SubSeq(q, 1, i - 1)
             back == SubSeq(q, i + 1, Len(q))
  <1>3. RemoveAt(q, i) = front \o back
    BY DEF RemoveAt
  <1>4. front \in Seq(S) /\ back \in Seq(S) /\ Len(front) = i - 1 /\ Len(back) = Len(q) - i
    BY <1>2
  <1> HIDE DEF front, back
  <1>5. front \o back \in Seq(S) /\ Len(front \o back) = Len(front) + Len(back)
    BY <1>4, ConcatProperties
  <1>6. QED BY <1>1, <1>3, <1>4, <1>5

\* The removals after a round: a session and all it holds go.
LEMMA DrainStep ==
  ASSUME IInv, Drain
  PROVE  IInv'
  <1>1. /\ pc = "visit" /\ it = Len(list) /\ removeList # <<>>
        /\ removeList' = Tail(removeList)
        /\ UNCHANGED <<total, active, exitRequested>>
    BY DEF Drain
  <1>2. removeList' \in Seq(Sessions) /\ Head(removeList) \in Sessions
    BY <1>1, HeadTailProperties DEF IInv, TypeOK, SessionTypeOK
  <1> DEFINE s == Head(removeList)
  <1>3. CASE UNCHANGED <<list, it, socketVars, mState, transfer, readBuf, answered>>
             /\ pc' = "unregistered"
    <2>1. ServerTypeOK'
      BY <1>1, <1>3 DEF IInv, TypeOK, ServerTypeOK
    <2>2. QED BY <1>1, <1>2, <1>3, <2>1, LoopStep DEF Ends
  <1>4. ASSUME NEW i \in DOMAIN list, list' = RemoveAt(list, i), it' = it - 1,
               Destroy(s), UNCHANGED pc
        PROVE  IInv'
    <2>1. s \in Sessions
      BY <1>2
    <2> HIDE DEF s
    <2>2. HandlesOf(s) \in SUBSET HandlesOf(s)
      OBVIOUS
    <2>3. Close(HandlesOf(s)) /\ DropData(s) /\ NoDial(s)
      BY <1>4 DEF Destroy
    <2>4. /\ OwnedNext
          /\ \A u \in Sessions \ {s} : \A k \in Kinds : fd'[<<u, k>>] = fd[<<u, k>>]
          /\ \A k \in Kinds : fd'[<<s, k>>] = NoFd
      BY <2>1, <2>2, <2>3, CloseKeeps, ReadyHandles DEF HandlesOf
    <2>5. 0 \in 0..MaxLines /\ 0 \in 0..MaxChunks /\ MaxLines \in Nat
      BY SocketsAssumption
    <2>6. LinksTyped
      <3>1. dial' \in [Sessions -> BOOLEAN]
        BY <2>3 DEF NoDial, IInv, TypeOK, SocketsTypeOK
      <3>2. QED BY <2>1, <2>3, <3>1, LinkTyped, ReadyHandles DEF Owned, DropData
    <2>7. peer' \in [Sessions -> Peers] /\ wire' \in [Sessions -> 0..MaxLines]
      BY <1>4, <2>5 DEF Destroy, IInv, TypeOK, SocketsTypeOK, Peers
    <2>8. SocketsTypeOK'
      BY <2>4, <2>6, <2>7 DEF OwnedNext, LinksTyped, SocketsTypeOK
    <2>9. /\ mState' = [mState EXCEPT ![s] = "absent"]
          /\ data' = [data EXCEPT ![s] = "none"]
          /\ left' = [left EXCEPT ![s] = 0]
          /\ readBuf' = [readBuf EXCEPT ![s] = 0]
          /\ wire' = [wire EXCEPT ![s] = 0]
          /\ due' = [due EXCEPT ![s] = FALSE]
          /\ answered' = [answered EXCEPT ![s] = TRUE]
      BY <1>4 DEF Destroy, DropData
    <2>10. SessionTypeOK'
      BY <1>1, <1>2, <1>4, <2>5, <2>9 DEF IInv, TypeOK, SessionTypeOK
    <2>11. LinesBounded'
      BY <2>5, <2>9 DEF IInv, TypeOK, SocketsTypeOK, SessionTypeOK, LinesBounded
    <2>12. \A u \in Sessions : Holdings(u)'
      <3> TAKE u \in Sessions
      <3>1. CASE u = s
        <4>1. data'[s] = "none"
          BY <2>1, <2>9 DEF IInv, TypeOK, SessionTypeOK
        <4>2. QED BY <2>4, <3>1, <4>1 DEF Holdings, Kinds
      <3>2. CASE u # s
        <4>1. /\ data'[u] = data[u] /\ mState'[u] = mState[u]
              /\ fd'[<<u, "sock">>] = fd[<<u, "sock">>] /\ fd'[<<u, "file">>] = fd[<<u, "file">>]
              /\ fd'[<<u, "lis">>] = fd[<<u, "lis">>] /\ fd'[<<u, "ctl">>] = fd[<<u, "ctl">>]
          BY <2>4, <2>9, <3>2 DEF Kinds, IInv, TypeOK, SessionTypeOK
        <4>2. QED BY <4>1 DEF IInv, Holdings
      <3>3. QED BY <3>1, <3>2
    <2>13. ServerTypeOK'
      <3>1. list \in Seq(Sessions) /\ Len(list) \in Nat /\ Len(list) > 0
        BY <1>4 DEF IInv, TypeOK, ServerTypeOK
      <3>2. list' \in Seq(Sessions) /\ Len(list') = Len(list) - 1
        BY <1>4, <3>1, RemoveAtShortens
      <3>3. QED BY <1>1, <1>4, <3>1, <3>2 DEF IInv, TypeOK, ServerTypeOK
    <2>14. \A u \in Sessions : Labels(u)'
      BY <1>1, <1>4 DEF Labels
    <2>15. QED
      BY <2>4, <2>8, <2>10, <2>11, <2>12, <2>13, <2>14 DEF OwnedNext, IInv, TypeOK
  <1>5. QED BY <1>1, <1>3, <1>4 DEF Drain

\* accept() gives the control connection of a new session its descriptor.
LEMMA ListenStep ==
  ASSUME IInv, NEW s \in Sessions, Listen(s)
  PROVE  IInv'
  <1>1. /\ mState[s] = "absent"
        /\ \E f \in Fds : Lowest(f) /\ Assign(<<s, "ctl">>, f)
        /\ mState' = [mState EXCEPT ![s] = "greeting"]
        /\ list' = Append(list, s)
        /\ active' = {}
        /\ pc' = "loop" /\ removeList' = removeList
        /\ UNCHANGED <<controlLink, dataLink, transfer, total, readBuf, answered,
                       it, exitRequested>>
    BY DEF Listen, Knocking, Goes
  <1>2. /\ fd[<<s, "ctl">>] = NoFd /\ fd[<<s, "lis">>] = NoFd
        /\ data[s] = "none" /\ fd[<<s, "sock">>] = NoFd /\ fd[<<s, "file">>] = NoFd
    BY <1>1, ReadyHandles DEF Holdings
  <1>3. /\ OwnedNext
        /\ \A u \in Sessions \ {s} : \A k \in Kinds : fd'[<<u, k>>] = fd[<<u, k>>]
        /\ \A k \in Kinds \ {"ctl"} : fd'[<<s, k>>] = fd[<<s, k>>]
    BY <1>1, <1>2, AssignKeeps, ReadyHandles DEF Kinds
  <1>4. SocketsTypeOK' /\ LinesBounded'
    BY <1>1, <1>3 DEF OwnedNext, IInv, TypeOK, SocketsTypeOK, LinesBounded, controlLink, dataLink
  <1>5. SessionTypeOK'
    BY <1>1 DEF IInv, TypeOK, SessionTypeOK, LoopLabels, transfer
  <1>6. ServerTypeOK'
    <2>1. list \in Seq(Sessions) /\ Len(list) \in Nat /\ it \in 0..Len(list)
      BY DEF IInv, TypeOK, ServerTypeOK
    <2>2. list' \in Seq(Sessions) /\ Len(list') = Len(list) + 1
      BY <1>1, <2>1, AppendProperties
    <2>3. QED BY <1>1, <2>1, <2>2 DEF IInv, TypeOK, ServerTypeOK
  <1>7. \A u \in Sessions : Holdings(u)'
    <2> TAKE u \in Sessions
    <2>1. CASE u = s
      <3>1. mState'[s] = "greeting" /\ data'[s] = "none"
        BY <1>1, <1>2 DEF IInv, TypeOK, SessionTypeOK, transfer
      <3>2. QED BY <1>2, <1>3, <2>1, <3>1 DEF Holdings, Kinds
    <2>2. CASE u # s
      <3>1. /\ data'[u] = data[u] /\ mState'[u] = mState[u]
            /\ fd'[<<u, "sock">>] = fd[<<u, "sock">>] /\ fd'[<<u, "file">>] = fd[<<u, "file">>]
            /\ fd'[<<u, "lis">>] = fd[<<u, "lis">>] /\ fd'[<<u, "ctl">>] = fd[<<u, "ctl">>]
        BY <1>1, <1>3, <2>2 DEF Kinds, IInv, TypeOK, SessionTypeOK, transfer
      <3>2. QED BY <3>1 DEF IInv, Holdings
    <2>3. QED BY <2>1, <2>2
  <1>8. \A u \in Sessions : Labels(u)'
    BY <1>1 DEF Labels
  <1>9. QED BY <1>3, <1>4, <1>5, <1>6, <1>7, <1>8 DEF OwnedNext, IInv, TypeOK

-----------------------------------------------------------------------------
(* The environment.                                                        *)

LEMMA InterruptStep ==
  ASSUME IInv, Interrupt
  PROVE  IInv'
  <1>1. UNCHANGED <<socketVars, mState, transfer, total, readBuf, removeList, answered,
                    list, it, active>>
    BY DEF Interrupt
  <1>2. exitRequested' = TRUE /\ (pc' = pc \/ pc' = "crashed")
    BY DEF Interrupt
  <1>3. SocketsTypeOK' /\ LinesBounded' /\ DescriptorOwnership'
    BY <1>1, KeepOwns DEF IInv, TypeOK, Owned, OwnedNext, SocketsTypeOK, LinesBounded,
       socketVars, descriptors, controlLink, dataLink
  <1>4. SessionTypeOK' /\ ServerTypeOK'
    BY <1>1, <1>2 DEF IInv, TypeOK, SessionTypeOK, ServerTypeOK, Ends, transfer
  <1>5. \A u \in Sessions : Holdings(u)'
    BY <1>1 DEF IInv, Holdings, socketVars, descriptors, transfer
  <1>6. \A u \in Sessions : Current(u)' => Labels(u)'
    BY <1>1, <1>2 DEF IInv, Current, Labels, socketVars, descriptors, transfer
  <1>7. QED BY <1>3, <1>4, <1>5, <1>6 DEF IInv, TypeOK

\* A client changes its two connections and nothing the process holds.
LEMMA ClientStep ==
  ASSUME IInv, NEW s \in Sessions, Client(s)
  PROVE  IInv'
  <1>1. UNCHANGED <<sessionVars, serverVars, descriptors>>
    BY DEF Client, Knock, SendLine, HangUp, ResetControl, Dial, SendData, DrainData,
       CloseData, ResetData
  <1>2. SocketsTypeOK
    BY DEF IInv, TypeOK
  <1>3. peer' \in [Sessions -> Peers] /\ dpeer' \in [Sessions -> Peers]
    BY <1>2 DEF Client, Knock, SendLine, HangUp, ResetControl, Dial, SendData, DrainData,
       CloseData, ResetData, SocketsTypeOK, Peers, controlLink, dataLink
  <1>4. dial' \in [Sessions -> BOOLEAN] /\ room' \in [Sessions -> BOOLEAN]
    BY <1>2 DEF Client, Knock, SendLine, HangUp, ResetControl, Dial, SendData, DrainData,
       CloseData, ResetData, SocketsTypeOK, controlLink, dataLink
  <1>5. arrived' \in [Sessions -> 0..MaxChunks]
    <2>1. arrived' = arrived \/ (arrived[s] < MaxChunks /\ arrived' = [arrived EXCEPT ![s] = arrived[s] + 1])
      BY DEF Client, Knock, SendLine, HangUp, ResetControl, Dial, SendData, DrainData,
         CloseData, ResetData, controlLink, dataLink
    <2>2. arrived[s] \in Nat /\ MaxChunks \in Nat
      BY <1>2, SocketsAssumption DEF SocketsTypeOK
    <2>3. arrived[s] < MaxChunks => arrived[s] + 1 \in 0..MaxChunks
      BY <2>2
    <2>4. QED BY <1>2, <2>1, <2>3 DEF SocketsTypeOK
  <1>6. wire' \in [Sessions -> 0..MaxLines] /\ LinesBounded'
    <2>1. \/ wire' = wire
          \/ wire[s] + readBuf[s] < MaxLines /\ wire' = [wire EXCEPT ![s] = wire[s] + 1]
      BY DEF Client, Knock, SendLine, HangUp, ResetControl, Dial, SendData, DrainData,
         CloseData, ResetData, controlLink, dataLink
    <2>2. /\ MaxLines \in Nat /\ readBuf' = readBuf
          /\ \A u \in Sessions : /\ wire[u] \in Nat /\ readBuf[u] \in Nat
                                 /\ readBuf[u] + wire[u] <= MaxLines
      BY <1>1, SocketsAssumption DEF IInv, TypeOK, SocketsTypeOK, SessionTypeOK, LinesBounded, sessionVars
    <2>3. \A u \in Sessions : wire'[u] \in Nat /\ readBuf[u] + wire'[u] <= MaxLines
      <3> TAKE u \in Sessions
      <3>1. wire'[u] = wire[u] \/ (u = s /\ wire[u] + readBuf[u] < MaxLines /\ wire'[u] = wire[u] + 1)
        BY <1>2, <2>1 DEF SocketsTypeOK
      <3>2. QED BY <2>2, <3>1
    <2>4. wire' = [u \in Sessions |-> wire'[u]]
      BY <1>2, <2>1 DEF SocketsTypeOK
    <2>5. \A u \in Sessions : wire'[u] \in 0..MaxLines
      BY <2>2, <2>3
    <2>6. QED BY <2>2, <2>3, <2>4, <2>5 DEF LinesBounded
  <1>7. SocketsTypeOK' /\ DescriptorOwnership'
    BY <1>1, <1>3, <1>4, <1>5, <1>6, KeepOwns DEF IInv, TypeOK, Owned, OwnedNext,
       SocketsTypeOK, descriptors
  <1>8. SessionTypeOK' /\ ServerTypeOK'
    BY <1>1 DEF IInv, TypeOK, SessionTypeOK, ServerTypeOK, sessionVars, serverVars
  <1>9. \A u \in Sessions : Holdings(u)'
    BY <1>1 DEF IInv, Holdings, sessionVars, descriptors
  <1>10. \A u \in Sessions : Current(u)' => Labels(u)'
    BY <1>1 DEF IInv, Current, Labels, sessionVars, serverVars, descriptors
  <1>11. QED BY <1>6, <1>7, <1>8, <1>9, <1>10 DEF IInv, TypeOK

-----------------------------------------------------------------------------
(* The induction.                                                          *)

LEMMA InitInductive == Init => IInv
  <1> SUFFICES ASSUME Init PROVE IInv
    OBVIOUS
  <1>1. Listener \in Fds /\ NoFd \notin Fds /\ 0 \in 0..MaxLines /\ 0 \in 0..MaxChunks
    BY SocketsAssumption DEF Listener, NoFd, Fds
  <1>2. SocketsTypeOK
    BY <1>1 DEF Init, SocketsInit, SocketsTypeOK, Peers
  <1>3. SessionTypeOK /\ ServerTypeOK
    <2>1. <<>> \in Seq(Sessions) /\ Len(<<>>) = 0
      BY EmptySeq
    <2>2. SessionTypeOK
      <3>1. removeList \in Seq(Sessions)
        BY <2>1 DEF Init, SessionInit
      <3>2. pc \in LoopLabels
        BY DEF Init, SessionInit, LoopLabels
      <3>3. QED BY <1>1, <3>1, <3>2 DEF Init, SessionInit, SessionTypeOK
    <2>3. ServerTypeOK
      <3>1. list \in Seq(Sessions) /\ it = 0 /\ Len(list) = 0
        BY <2>1 DEF Init
      <3>2. it \in 0..Len(list)
        BY <3>1
      <3>3. active \in SUBSET (Fds \cup {NoFd, BadFd}) /\ exitRequested \in BOOLEAN
        BY DEF Init
      <3>4. QED BY <3>1, <3>2, <3>3 DEF ServerTypeOK
    <2>4. QED BY <2>2, <2>3
  <1>4. DescriptorOwnership
    BY <1>1 DEF Init, SocketsInit, DescriptorOwnership, HeldFds, Listener, NoFd
  <1>5. LinesBounded
    BY SocketsAssumption DEF Init, SocketsInit, SessionInit, LinesBounded
  <1>6. \A s \in Sessions : Holdings(s)
    BY HandlesOfSession DEF Init, SocketsInit, SessionInit, Holdings
  <1>7. \A s \in Sessions : Labels(s)
    BY DEF Init, SessionInit, Labels
  <1>8. QED BY <1>2, <1>3, <1>4, <1>5, <1>6, <1>7 DEF IInv, TypeOK

LEMMA NextInductive == IInv /\ [Next]_vars => IInv'
  <1> SUFFICES ASSUME IInv, [Next]_vars PROVE IInv'
    OBVIOUS
  <1>1. CASE Server
    <2>1. CASE SessionStep
      <3>1. PICK s \in Sessions : Current(s) /\ Tick(s) /\ UNCHANGED serverVars
        BY <2>1 DEF SessionStep
      <3>2. QED BY <3>1, TickStep, EstablishedSuffices
    <2>2. CASE \E s \in Sessions : Listen(s)
      BY <2>2, ListenStep
    <2>3. QED BY <1>1, <2>1, <2>2, RoundStep, DrainStep DEF Server
  <1>2. CASE Interrupt
    BY <1>2, InterruptStep
  <1>3. CASE \E s \in Sessions : Client(s)
    BY <1>3, ClientStep
  <1>4. CASE UNCHANGED vars
    <2>1. UNCHANGED <<descriptors, controlLink, dataLink, sessionVars, serverVars>>
      BY <1>4 DEF vars, socketVars
    <2>2. TypeOK' /\ LinesBounded' /\ DescriptorOwnership'
      BY <2>1, KeepOwns DEF IInv, TypeOK, Owned, OwnedNext, SocketsTypeOK, SessionTypeOK,
         ServerTypeOK, LinesBounded, descriptors, controlLink, dataLink, sessionVars, serverVars
    <2>3. \A u \in Sessions : Holdings(u)'
      BY <2>1 DEF IInv, Holdings, descriptors, sessionVars
    <2>4. \A u \in Sessions : Current(u)' => Labels(u)'
      BY <2>1 DEF IInv, Current, Labels, descriptors, sessionVars, serverVars
    <2>5. QED BY <2>2, <2>3, <2>4 DEF IInv
  <1>5. QED BY <1>1, <1>2, <1>3, <1>4 DEF Next, Terminated

\* The invariant that carries the proofs below holds in every state.
THEOREM Inductive == Spec => []IInv
  BY InitInductive, NextInductive, PTL DEF Spec

\* Every variable of the server, of its sessions and of its connections stays
\* in its type, whatever the clients do.
THEOREM TypeCorrect == Spec => []TypeOK
  <1>1. IInv => TypeOK
    BY DEF IInv
  <1>2. QED BY <1>1, Inductive, PTL

\* No descriptor is leaked, shared or used after its close, whatever verbs the
\* clients send, whatever fails and wherever a tick is cut short by a throw.
THEOREM OwnershipHolds == Spec => []DescriptorOwnership
  <1>1. IInv => DescriptorOwnership
    BY DEF IInv
  <1>2. QED BY <1>1, Inductive, PTL
=============================================================================
