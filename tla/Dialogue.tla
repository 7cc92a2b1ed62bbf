------------------------------ MODULE Dialogue ------------------------------
(***************************************************************************)
(* What the clients of a server see of it: one dialogue for each session,  *)
(* none of which has to do with another.  Every line a session takes up is *)
(* answered before the next one is, a login goes through USER and PASS, a  *)
(* transfer is announced (150) in answer to a line, and a reply concludes  *)
(* (226, 552) what was announced and before the data connection is closed. *)
(* The server may end a session at any time, and the process may end.      *)
(***************************************************************************)
CONSTANT Sessions

VARIABLES
  phase,      \* "absent", or what the session waits for
  owed,       \* a line was taken up and has no reply
  transfer,   \* "none", "announced", or "told": the client knows how it ended
  ended       \* the process has

vars == <<phase, owed, transfer, ended>>

Init ==
  /\ phase = [s \in Sessions |-> "absent"]
  /\ owed = [s \in Sessions |-> FALSE]
  /\ transfer = [s \in Sessions |-> "none"]
  /\ ended = FALSE

Moves(s, next) == phase' = [phase EXCEPT ![s] = next]

Connect(s) ==
  /\ phase[s] = "absent" /\ Moves(s, "greeting")
  /\ UNCHANGED <<owed, transfer>>

Greet(s) ==
  /\ phase[s] = "greeting" /\ Moves(s, "login")
  /\ UNCHANGED <<owed, transfer>>

\* One line at a time.
TakeUp(s) ==
  /\ phase[s] \in {"login", "password", "ready"}
  /\ ~owed[s] /\ owed' = [owed EXCEPT ![s] = TRUE]
  /\ UNCHANGED <<phase, transfer>>

\* A wrong password, and anything but PASS, leads back to the login.
Answer(s) ==
  /\ owed[s] /\ owed' = [owed EXCEPT ![s] = FALSE]
  /\ \/ UNCHANGED phase
     \/ phase[s] = "login" /\ Moves(s, "password")
     \/ phase[s] = "password" /\ (Moves(s, "login") \/ Moves(s, "ready"))

\* 150, when a line asked for it, or the replies to ABOR.
AnswerTransfer(s) ==
  /\ phase[s] = "ready"
  /\ \/ transfer[s] = "none" /\ transfer' = [transfer EXCEPT ![s] = "announced"]
     \/ transfer[s] = "announced" /\ transfer' = [transfer EXCEPT ![s] = "none"]

\* Not in answer to a line, and not while one is being answered.
Conclude(s) ==
  /\ transfer[s] = "announced" /\ ~owed[s]
  /\ transfer' = [transfer EXCEPT ![s] = "told"]
  /\ UNCHANGED <<phase, owed>>

CloseData(s) ==
  /\ transfer[s] = "told"
  /\ transfer' = [transfer EXCEPT ![s] = "none"]
  /\ UNCHANGED <<phase, owed>>

Leave(s) ==
  /\ phase[s] # "absent" /\ Moves(s, "absent")
  /\ owed' = [owed EXCEPT ![s] = FALSE]
  /\ transfer' = [transfer EXCEPT ![s] = "none"]

SessionStep(s) ==
  \/ Connect(s) \/ Greet(s) \/ TakeUp(s)
  \/ Answer(s) /\ (UNCHANGED transfer \/ (UNCHANGED phase /\ AnswerTransfer(s)))
  \/ Conclude(s) \/ CloseData(s) \/ Leave(s)

Next ==
  /\ ~ended
  /\ \/ (\E s \in Sessions : SessionStep(s)) /\ UNCHANGED ended
     \/ ended' = TRUE /\ UNCHANGED <<phase, owed, transfer>>

Spec == Init /\ [][Next]_vars
=============================================================================
