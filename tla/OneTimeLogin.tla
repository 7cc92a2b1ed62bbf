---------------------------- MODULE OneTimeLogin ----------------------------
(***************************************************************************)
(* What the help text of the user interface promises of a login            *)
(* (QtMain.cpp:133): with authentication disabled any password will do;    *)
(* otherwise it takes a token that was generated, and a token lets in one  *)
(* user.  Which of the two rules a client meets is settled when it         *)
(* connects.                                                               *)
(***************************************************************************)
EXTENDS Integers

CONSTANT Sessions

VARIABLES
  enabled,   \* what the user interface shows: authentication is on
  issued,    \* how many tokens have been generated
  spent,     \* the tokens that have been used
  door,      \* the rule a session met when it connected; "away" before
  inside     \* the session has logged in

vars == <<enabled, issued, spent, door, inside>>

Init ==
  /\ enabled = TRUE
  /\ issued = 0
  /\ spent = {}
  /\ door = [s \in Sessions |-> "away"]
  /\ inside = [s \in Sessions |-> FALSE]

Disable == enabled' = FALSE /\ UNCHANGED <<issued, spent, door, inside>>

\* Generating a token turns authentication on again.
Issue ==
  /\ enabled' = TRUE
  /\ issued' = issued + 1
  /\ UNCHANGED <<spent, door, inside>>

Connect(s) ==
  /\ door[s] = "away"
  /\ door' = [door EXCEPT ![s] = IF enabled THEN "token" ELSE "open"]
  /\ UNCHANGED <<enabled, issued, spent, inside>>

Enter(s) == inside' = [inside EXCEPT ![s] = TRUE] /\ UNCHANGED <<enabled, issued, door>>

EnterFreely(s) ==
  /\ door[s] = "open" /\ ~inside[s]
  /\ Enter(s)
  /\ UNCHANGED spent

EnterByToken(s) ==
  /\ door[s] = "token" /\ ~inside[s]
  /\ \E g \in (1..issued) \ spent : spent' = spent \cup {g}
  /\ Enter(s)

Leave(S) ==
  /\ door' = [s \in Sessions |-> IF s \in S THEN "away" ELSE door[s]]
  /\ inside' = [s \in Sessions |-> s \notin S /\ inside[s]]
  /\ UNCHANGED <<enabled, issued>>

\* A client that is gone before it is told of its login has spent the token.
LeaveSpending(s) ==
  /\ door[s] = "token" /\ ~inside[s]
  /\ \E g \in (1..issued) \ spent : spent' = spent \cup {g}
  /\ Leave({s})

Next ==
  \/ Disable \/ Issue
  \/ \E s \in Sessions :
       Connect(s) \/ EnterFreely(s) \/ EnterByToken(s) \/ LeaveSpending(s)
  \/ \E S \in SUBSET Sessions : Leave(S) /\ UNCHANGED spent

Spec == Init /\ [][Next]_vars
=============================================================================
