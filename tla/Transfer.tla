------------------------------ MODULE Transfer ------------------------------
(***************************************************************************)
(* The bytes of one transfer: Data::Send and Data::Receive (Data.cpp) with *)
(* the DataBuffer they use, between the client at one end of the data      *)
(* connection and the disk at the other.  A byte is named by its position  *)
(* in the stream, so that a loss, a repetition or a change of order shows. *)
(*   select    between two ticks                                           *)
(*   send      Data::Send: the test of its loop                            *)
(*   sending   blocked in send(), which has queued a part of m_buf         *)
(*   receive   Data::Receive: the test of its loop                         *)
(*   closing   a reply told the outcome (or the session ends), m_data is   *)
(*             about to be reset                                           *)
(*   over      the Data object is gone                                     *)
(***************************************************************************)
EXTENDS Integers, SequencesExt

CONSTANTS
  BufSize,     \* Data::BufSize, also the size of m_secBuf
  Capacity,    \* what the kernel queues on a connection, in either direction
  StdioSize,   \* the buffer of a FILE*
  MaxSize,     \* bound: bytes of a file, of a listing or sent by the client
  MaxSpace,    \* bound: free space on the disk
  DiskFails    \* fread() may fail

ASSUME TransferAssumption ==
  /\ BufSize \in Nat \ {0} /\ Capacity \in Nat \ {0}
  /\ StdioSize \in Nat
  /\ MaxSize \in Nat /\ MaxSpace \in Nat
  /\ DiskFails \in BOOLEAN

VARIABLES
  kind,      \* the DataBuffer: a "file" or a "listing" to send, or a file to "store"
  size,      \* bytes of the file or the listing, or sent by the client so far
  offset,    \* how far the file or the listing has been read
  secBuf,    \* DataBufferFile::m_secBuf
  buf,       \* m_buf, from ptr on
  handed,    \* bytes the kernel has taken from send()
  taken,     \* how many of them the client has read
  got,       \* how many bytes recv() has returned
  total,     \* of them, in the Data::Receive that runs
  stdio,     \* bytes in the buffer of the FILE*
  disk,      \* bytes of the stored file that are on the disk
  space,     \* free space on the disk
  peer,      \* the client's end of the data connection
  at,        \* where the server's thread is
  outcome,   \* "open", the reply that concludes, or "dropped", "terminate"
  faulty     \* history: the disk has failed

sendVars == <<offset, secBuf, buf, handed>>
receiveVars == <<got, total, stdio, disk, space>>
clientVars == <<size, taken, peer>>
vars == <<kind, clientVars, sendVars, receiveVars, at, outcome, faulty>>

Bytes == 1..MaxSize
Outcomes == {"open", "226", "552", "dropped", "terminate"}

TypeOK ==
  /\ kind \in {"file", "listing", "store"}
  /\ size \in 0..MaxSize /\ offset \in 0..size
  /\ taken \in 0..Len(handed) /\ got \in 0..size
  /\ \A q \in {secBuf, buf, handed, stdio, disk} : q \in Seq(Bytes)
  /\ Len(secBuf) <= BufSize /\ Len(buf) <= BufSize
  /\ total \in 0..BufSize
  /\ Len(stdio) <= StdioSize
  /\ Len(handed) - taken <= Capacity
  /\ space \in 0..MaxSpace
  /\ peer \in {"up", "closed", "reset"}
  /\ at \in {"select", "send", "sending", "receive", "closing", "over"}
  /\ outcome \in Outcomes
  /\ faulty \in BOOLEAN

Init ==
  /\ kind \in {"file", "listing", "store"}
  /\ size \in IF kind = "store" THEN {0} ELSE 0..MaxSize
  /\ offset = 0 /\ secBuf = <<>> /\ buf = <<>>
  /\ handed = <<>> /\ taken = 0
  /\ got = 0 /\ total = 0 /\ stdio = <<>> /\ disk = <<>>
  /\ space \in IF kind = "store" THEN 0..MaxSpace ELSE {0}
  /\ peer = "up"
  /\ at = "select"
  /\ outcome = "open"
  /\ faulty = FALSE

-----------------------------------------------------------------------------

\* The bytes a+1..b of the stream.
Stretch(a, b) == [i \in 1..(b - a) |-> a + i]

Take(q, n) == SubSeq(q, 1, n)
Drop(q, n) == SubSeq(q, n + 1, Len(q))
Least(m, n) == IF m <= n THEN m ELSE n

Room == Capacity - (Len(handed) - taken)
CanSend == Room > 0 \/ peer = "reset"
CanReceive == got < size \/ peer # "up"

\* DataConnectionFinished and OutOfSpace: the reply, if it can be sent.
Concludes(reply) == at' = "closing" /\ outcome' \in {reply, "dropped"}

-----------------------------------------------------------------------------
(* Data::Send.                                                             *)

\* Mutant: fread() is asked for a whole buffer behind what was stored.
AvailableWhole == Least(BufSize, size - offset)

\* What fread() or substr() can return at most, behind what was stored.
Available == Least(BufSize - Len(secBuf), size - offset)

\* Mutant: a Read of nothing does not end the transfer.
ReadBufferOn ==
  /\ at = "select" /\ kind # "store" /\ outcome = "open"
  /\ buf' = secBuf \o Stretch(offset, offset + Available)
  /\ offset' = offset + Available
  /\ secBuf' = <<>>
  /\ at' = IF buf' = <<>> THEN "select" ELSE "send"
  /\ UNCHANGED <<kind, clientVars, handed, receiveVars, outcome, faulty>>

\* Mutant: the end of the file ends the transfer, whatever was stored.
ReadBufferEnds ==
  /\ at = "select" /\ kind # "store" /\ outcome = "open"
  /\ buf' = secBuf \o Stretch(offset, offset + Available)
  /\ offset' = offset + Available
  /\ secBuf' = <<>>
  /\ \/ offset = size /\ Concludes("226")
     \/ offset # size /\ at' = "send" /\ UNCHANGED outcome
  /\ UNCHANGED <<kind, clientVars, handed, receiveVars, faulty>>

\* DataBuffer::Read: what was stored, then more of the file.  An error of
\* fread() looks like the end of the file, which is a Read of nothing.  The
\* tick may be one the control connection has woken.
ReadBuffer ==
  /\ at = "select" /\ kind # "store" /\ outcome = "open"
  /\ \E n \in 0..Available :
       /\ n < Available => DiskFails /\ kind = "file"
       /\ faulty' = (faulty \/ n < Available)
       /\ buf' = secBuf \o Stretch(offset, offset + n)
       /\ offset' = offset + n
  /\ secBuf' = <<>>
  /\ \/ buf' = <<>> /\ Concludes("226")
     \/ buf' # <<>> /\ at' = "send" /\ UNCHANGED outcome
  /\ UNCHANGED <<kind, clientVars, handed, receiveVars>>

\* send() blocks until all is queued, or until a signal makes it return with a
\* part.
Transmit ==
  /\ at \in {"send", "sending"} /\ peer # "reset" /\ Room > 0
  /\ LET n == Least(Len(buf), Room) IN
       /\ handed' = handed \o Take(buf, n)
       /\ buf' = Drop(buf, n)
  /\ at' \in IF buf' = <<>> THEN {"select"} ELSE {"sending", "send"}
  /\ UNCHANGED <<kind, clientVars, offset, secBuf, receiveVars, outcome, faulty>>

\* Mutant: what send() has queued is stored with the rest.
StoreFromStart ==
  /\ at = "send" /\ ~CanSend
  /\ secBuf' = Stretch(offset - Least(BufSize, offset), offset)
  /\ buf' = <<>>
  /\ at' = "select"
  /\ UNCHANGED <<kind, clientVars, offset, handed, receiveVars, outcome, faulty>>

\* The connection takes no more: the rest of m_buf is stored for the next tick.
\* A listing has no Store, and the default throws a string nobody catches.
Store ==
  /\ at = "send" /\ ~CanSend
  /\ \/ /\ kind = "file"
        /\ secBuf' = buf
        /\ buf' = <<>>
        /\ at' = "select"
        /\ UNCHANGED outcome
     \/ /\ kind = "listing"
        /\ at' = "closing" /\ outcome' = "terminate"
        /\ UNCHANGED <<secBuf, buf>>
  /\ UNCHANGED <<kind, clientVars, offset, handed, receiveVars, faulty>>

SendFails ==
  /\ at \in {"send", "sending"} /\ peer = "reset"
  /\ at' = "closing" /\ outcome' = "dropped"
  /\ UNCHANGED <<kind, clientVars, sendVars, receiveVars, faulty>>

-----------------------------------------------------------------------------
(* Data::Receive.                                                          *)

StartReceive ==
  /\ at = "select" /\ kind = "store" /\ outcome = "open"
  /\ at' = "receive" /\ total' = 0
  /\ UNCHANGED <<kind, clientVars, sendVars, got, stdio, disk, space, outcome, faulty>>

ReceiveStops ==
  /\ at = "receive"
  /\ total = BufSize \/ ~CanReceive
  /\ at' = "select"
  /\ UNCHANGED <<kind, clientVars, sendVars, receiveVars, outcome, faulty>>

\* fwrite() keeps at most a buffer back; all before it must fit on the disk.
Writes(all) ==
  /\ \E n \in 0..Least(Len(all), space) :
       /\ Len(all) - n <= StdioSize
       /\ disk' = disk \o Take(all, n)
       /\ stdio' = Drop(all, n)
       /\ space' = space - n
  /\ UNCHANGED <<at, outcome, faulty>>

\* The disk is full: a part of the buffer is written, the rest is gone.
WritesShort(all) ==
  /\ Len(all) > StdioSize /\ Len(all) > space
  /\ \E n \in 0..space :
       /\ disk' = disk \o Take(all, n)
       /\ space' = space - n
  /\ stdio' = <<>>
  /\ faulty' = TRUE
  /\ Concludes("552")

Requested == Least(BufSize - total, size - got)

Receive ==
  /\ at = "receive" /\ total < BufSize /\ got < size
  /\ LET all == stdio \o Stretch(got, got + Requested) IN
       Writes(all) \/ WritesShort(all)
  /\ got' = got + Requested
  /\ total' = total + Requested
  /\ UNCHANGED <<kind, clientVars, sendVars>>

ReceiveEnd ==
  /\ at = "receive" /\ total < BufSize /\ got = size /\ peer = "closed"
  /\ Concludes("226")
  /\ UNCHANGED <<kind, clientVars, sendVars, receiveVars, faulty>>

ReceiveFails ==
  /\ at = "receive" /\ total < BufSize /\ peer = "reset"
  /\ at' = "closing" /\ outcome' = "dropped"
  /\ UNCHANGED <<kind, clientVars, sendVars, receiveVars, faulty>>

-----------------------------------------------------------------------------
(* The session around it.                                                  *)

\* ABOR, a LIST that takes the place of the transfer, or the end of the session.
Abandon ==
  /\ at = "select" /\ outcome = "open"
  /\ at' = "closing" /\ outcome' = "dropped"
  /\ UNCHANGED <<kind, clientVars, sendVars, receiveVars, faulty>>

\* m_data.reset(): fclose() writes its buffer, and nobody looks at the result.
Close ==
  /\ at = "closing"
  /\ LET n == Least(Len(stdio), space) IN
       /\ disk' = disk \o Take(stdio, n)
       /\ space' = space - n
       /\ faulty' = (faulty \/ n < Len(stdio))
  /\ stdio' = <<>>
  /\ at' = "over"
  /\ UNCHANGED <<kind, clientVars, sendVars, got, total, outcome>>

-----------------------------------------------------------------------------
(* The client.                                                             *)

ClientSends ==
  /\ kind = "store" /\ peer = "up" /\ at # "over"
  /\ size < MaxSize /\ size - got < Capacity
  /\ size' = size + 1
  /\ UNCHANGED <<kind, taken, peer, sendVars, receiveVars, at, outcome, faulty>>

\* What was queued reaches the client, also after the server has closed.
ClientReads ==
  /\ peer = "up" /\ taken < Len(handed)
  /\ taken' = taken + 1
  /\ UNCHANGED <<kind, size, peer, sendVars, receiveVars, at, outcome, faulty>>

ClientCloses ==
  /\ peer = "up" /\ peer' = "closed"
  /\ UNCHANGED <<kind, size, taken, sendVars, receiveVars, at, outcome, faulty>>

ConnectionBreaks ==
  /\ peer # "reset" /\ peer' = "reset"
  /\ UNCHANGED <<kind, size, taken, sendVars, receiveVars, at, outcome, faulty>>

Tick ==
  \/ ReadBuffer \/ Transmit \/ Store \/ SendFails
  \/ StartReceive \/ ReceiveStops \/ Receive \/ ReceiveEnd \/ ReceiveFails
  \/ Close

Client == ClientSends \/ ClientReads \/ ClientCloses \/ ConnectionBreaks

Next == Tick \/ Abandon \/ Client

Spec == Init /\ [][Next]_vars

\* The server ticks a transfer whose connection is ready and goes on with a
\* tick it has begun; the client reads what it asked for, ends what it sends,
\* and its host answers with a reset what comes after a close.
Ready == at = "select" => IF kind = "store" THEN CanReceive ELSE CanSend

FairSpec ==
  /\ Spec
  /\ WF_vars(Ready /\ Tick)
  /\ WF_vars(ClientReads)
  /\ WF_vars(kind = "store" /\ ClientCloses)
  /\ WF_vars(kind # "store" /\ peer = "closed" /\ ConnectionBreaks)

-----------------------------------------------------------------------------
(* Properties.                                                             *)

\* What has to be copied, what has been taken over, what the replies say.
Source == Stretch(0, size)
Copied == IF kind = "store" THEN disk \o stdio ELSE handed
Verdict ==
  CASE outcome = "open" -> "open"
    [] outcome = "226" -> "complete"
    [] OTHER -> "failed"

\* What the client may conclude from the replies.
Promise == INSTANCE ReliableCopy WITH
  Slack <- StdioSize,
  source <- Source,
  ended <- kind # "store" \/ peer # "up",
  copy <- Copied,
  verdict <- Verdict,
  closed <- at = "over"

\* The stream that is sent is the file from its beginning, and the file that
\* is stored is what the client sent from its beginning, over every way a
\* buffer is sent in parts, stored, read again, received in parts and flushed;
\* 226 follows the last byte.  Only a failing disk takes away from the end: of
\* what was written at most one buffer of the FILE*, and nobody is told.
CopiesReliably == Promise!Spec

\* A transfer whose client does its part is concluded.
TransferEnds == outcome = "open" ~> at = "over"

\* A client that was told 226, stays and reads has the whole file in the end,
\* although the server closed the connection with the last bytes in the queue.
FileArrives ==
  outcome = "226" /\ kind # "store" /\ ~faulty ~> taken = size \/ peer # "up"


-----------------------------------------------------------------------------
(* The strengthening that makes the properties inductive.                  *)

\* q is the part of the stream that starts after byte a.
From(a, q) == q = Stretch(a, a + Len(q))

\* What the kernel has, what m_buf holds and what m_secBuf holds are the part
\* of the file read so far; m_buf and m_secBuf are never both in use.
SendInv ==
  /\ kind = "store" => handed = <<>> /\ buf = <<>> /\ secBuf = <<>>
  /\ From(0, handed)
  /\ Len(handed) + Len(buf) + Len(secBuf) <= offset
  /\ outcome = "open" /\ kind # "store" =>
       /\ From(Len(handed), buf)
       /\ From(Len(handed) + Len(buf), secBuf)
       /\ Len(handed) + Len(buf) + Len(secBuf) = offset
       /\ buf = <<>> <=> at = "select"
       /\ buf = <<>> \/ secBuf = <<>>

\* The disk and the buffer of the FILE* hold what was received so far.
ReceiveInv ==
  /\ From(0, disk)
  /\ From(Len(disk), stdio)
  /\ Len(disk) + Len(stdio) <= got
  /\ outcome = "open" /\ kind = "store" => Len(disk) + Len(stdio) = got

\* The labels of a tick.
AtInv ==
  /\ at \in {"closing", "over"} <=> outcome # "open"
  /\ at \in {"send", "sending"} => kind # "store"
  /\ at = "receive" => kind = "store"

TInv == TypeOK /\ SendInv /\ ReceiveInv /\ AtInv
=============================================================================
