---------------------------- MODULE OrderedLink ----------------------------
(***************************************************************************)
(* What one external connection promises to its two neighbours, whatever   *)
(* the network stack does to it: the TCP peer receives the byte stream of  *)
(* the tunnel in order, without a gap and without a repetition; the trunk  *)
(* receives chunks only until it has been told that the connection is      *)
(* closed; and it is told so at most once.                                 *)
(*                                                                         *)
(* The n-th unit of the stream is the number n - 1, so "in order, without  *)
(* a gap or a repetition" is an equation on every position.                *)
(***************************************************************************)
EXTENDS Integers, Sequences

VARIABLES
  delivered,  \* the units the TCP peer has received, in order
  taken,      \* how many chunks the link has handed to the trunk
  closings    \* how often the trunk has been told that the link is closed

vars == <<delivered, taken, closings>>

Init == delivered = <<>> /\ taken = 0 /\ closings = 0

\* A longer prefix of the stream reaches the peer.
Deliver ==
  /\ closings = 0
  /\ Len(delivered') > Len(delivered)
  /\ \A u \in 1..Len(delivered') : delivered'[u] = u - 1
  /\ UNCHANGED <<taken, closings>>

\* One chunk read from the peer is handed to the trunk.
Take ==
  /\ closings = 0
  /\ taken' = taken + 1
  /\ UNCHANGED <<delivered, closings>>

\* The trunk learns that the link is closed; nothing follows.
Close ==
  /\ closings = 0
  /\ closings' = 1
  /\ UNCHANGED <<delivered, taken>>

Next == Deliver \/ Take \/ Close

Spec == Init /\ [][Next]_vars
=============================================================================
