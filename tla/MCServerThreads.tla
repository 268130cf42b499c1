-------------------------- MODULE MCServerThreads --------------------------
(***************************************************************************)
(* ServerThreads for TLC.                                                  *)
(***************************************************************************)
EXTENDS ServerThreads

CONSTANTS s1, s2, a1, a2

\* Each socket hears one address.
OneAddressEach == {<<s1, a1>>, <<s2, a2>>}
=============================================================================
