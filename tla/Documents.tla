----------------------------- MODULE Documents -----------------------------
(***************************************************************************)
(* What the documents kept in doc/ and an assertion of the code say of the *)
(* program, and the program does not do.  Each definition quotes its line; *)
(* a run of its own finds the behaviour that contradicts it.               *)
(***************************************************************************)
EXTENDS Server

\* doc/rfc0959.txt:1969 "Every command must generate at least one reply".
\* Of a command that waits: a line does not stay in
\* m_readBuf for ever while its client is there, waiting for the reply.
\* AwaitReady handles one line of all that Telnet::Read took, and select()
\* does not know of the others.
EveryCommandHandled ==
  \A s \in Sessions :
    ~<>[](readBuf[s] > 0 /\ wire[s] = 0 /\ peer[s] = "up" /\ ~Stopped)


\* DataBuffer.hpp:18 asserts that nobody stores into a buffer that does not
\* support it.  A listing does not, and Data::Send stores what is left of a
\* listing as of anything else.
StoreSupported ==
  [][\A s \in Sessions :
       pc = "data" /\ Current(s) /\ data[s] = "listing" => pc' # "terminate"]_vars
=============================================================================
