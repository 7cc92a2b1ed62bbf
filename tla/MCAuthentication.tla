-------------------------- MODULE MCAuthentication --------------------------
(***************************************************************************)
(* The sessions of an instance of Authentication.                          *)
(***************************************************************************)
EXTENDS Authentication

CONSTANTS s1, s2
=============================================================================
