---------------------------- MODULE ReliableCopy ----------------------------
(***************************************************************************)
(* What a client may conclude from the replies to RETR, LIST and STOR: the *)
(* copy is always the beginning of the source, and 226 says that it is the *)
(* whole of it.  The source of a STOR grows until the client ends it.  A   *)
(* disk that failed is the one excuse: then the end of the copy may be     *)
(* missing, and what was taken over already loses at most Slack bytes.     *)
(***************************************************************************)
EXTENDS Integers, SequencesExt

CONSTANT Slack   \* a natural number

VARIABLES
  source,    \* what the client or the disk has given so far
  ended,     \* the source is known to be all there is
  copy,      \* what has been taken over
  verdict,   \* "open", then what the replies say: "complete" or "failed"
  closed,    \* both ends are closed
  faulty     \* the disk has failed

vars == <<source, ended, copy, verdict, closed, faulty>>

Init ==
  /\ source \in Seq(Nat)
  /\ ended \in BOOLEAN
  /\ copy = <<>>
  /\ verdict = "open"
  /\ closed = FALSE
  /\ faulty = FALSE

Excused == faulty => faulty'

Extend ==
  /\ ~ended
  /\ IsPrefix(source, source')
  /\ UNCHANGED <<ended, copy, verdict, closed, faulty>>

End == ended' = TRUE /\ UNCHANGED <<source, copy, verdict, closed, faulty>>

\* Nothing is lost, repeated or reordered.
Advance ==
  /\ verdict = "open"
  /\ IsPrefix(copy, copy') /\ IsPrefix(copy', source)
  /\ Excused
  /\ UNCHANGED <<source, ended, verdict, closed>>

Complete ==
  /\ verdict = "open" /\ verdict' = "complete"
  /\ ended
  /\ Excused
  /\ copy = source \/ faulty'
  /\ UNCHANGED <<source, ended, copy, closed>>

\* The end of the copy may get lost, as far as it was in memory.
Keeps ==
  /\ IsPrefix(copy', source)
  /\ Len(copy') + Slack >= Len(copy)
  /\ Excused
  /\ copy' = copy \/ faulty'

GiveUp ==
  /\ verdict = "open" /\ verdict' = "failed"
  /\ Keeps
  /\ UNCHANGED <<source, ended, closed>>

CloseBoth ==
  /\ verdict # "open" /\ ~closed
  /\ closed' = TRUE
  /\ Keeps
  /\ verdict = "complete" => Len(copy') <= Len(copy)
  /\ UNCHANGED <<source, ended, verdict>>

Next == Extend \/ End \/ Advance \/ Complete \/ GiveUp \/ CloseBoth

Spec == Init /\ [][Next]_vars

-----------------------------------------------------------------------------

\* A copy that was called complete is the whole of a source that has ended,
\* unless the disk has failed.
WholeIfTold == verdict = "complete" => ended /\ (faulty \/ copy = source)
=============================================================================
