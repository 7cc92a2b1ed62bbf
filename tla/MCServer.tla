------------------------------ MODULE MCServer ------------------------------
(***************************************************************************)
(* Values for the constants of Server that a .cfg cannot write down: the   *)
(* verbs the clients of a run send, and the faults of its environment.     *)
(***************************************************************************)
EXTENDS Documents, TLC

CONSTANTS s1, s2

Symmetry == Permutations(Sessions)

AllVerbs == Verbs
LoginVerbs == {"USER", "PASS", "QUIT", "TYPE", "STRU"}
TransferVerbs == {"USER", "PASS", "PASV", "RETR", "STOR", "ABOR"}
MixedVerbs == {"USER", "PASS", "RETR", "LIST"}

AllFaults == FaultKinds
NoInterrupt == FaultKinds \ {"interrupt"}
LostPeers == {"hangup", "reset", "datareset"}
=============================================================================
