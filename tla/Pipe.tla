-------------------------------- MODULE Pipe --------------------------------
(***************************************************************************)
(* What the trunk promises to the two peers of a connection: each of them  *)
(* is given chunks that were read from the other, the first one first,     *)
(* none of them twice and none left out.                                   *)
(*                                                                         *)
(* An end may have several links for a connection, one after the other;    *)
(* each has a stream of its own.  A chunk is the link that read it and the *)
(* number of chunks that link had read before.                             *)
(***************************************************************************)
EXTENDS Integers, Sequences

CONSTANT Conns

VARIABLES
  open,      \* the ends that have a link, <<side, connection>>
  sent,      \* for each link of an end, how many chunks it has read
  delivered  \* the chunks the last link of an end has given to its peer

vars == <<open, sent, delivered>>

Side == {"client", "server"}
Other(s) == IF s = "client" THEN "server" ELSE "client"

Init ==
  /\ open = {}
  /\ sent = [s \in Side |-> [c \in Conns |-> <<>>]]
  /\ delivered = [s \in Side |-> [c \in Conns |-> <<>>]]

\* The client opens a connection once, the server only one the client has opened.
Open(s, c) ==
  /\ <<s, c>> \notin open
  /\ IF s = "client" THEN sent[s][c] = <<>> ELSE sent["client"][c] # <<>>
  /\ open' = open \union {<<s, c>>}
  /\ sent' = [sent EXCEPT ![s][c] = Append(@, 0)]
  /\ delivered' = [delivered EXCEPT ![s][c] = <<>>]

Read(s, c) ==
  /\ <<s, c>> \in open
  /\ sent' = [sent EXCEPT ![s][c][Len(sent[s][c])] = @ + 1]
  /\ UNCHANGED <<open, delivered>>

\* The next chunk of the stream, which some link of the other end has read.
Give(s, c) ==
  /\ <<s, c>> \in open
  /\ \E source \in DOMAIN sent[Other(s)][c] :
       /\ Len(delivered[s][c]) < sent[Other(s)][c][source]
       /\ delivered' = [delivered EXCEPT ![s][c] =
            Append(@, [source |-> source, load |-> Len(delivered[s][c])])]
  /\ UNCHANGED <<open, sent>>

\* Links end, one alone or, with their program, all of an end.
Close ==
  /\ open' \subseteq open /\ open' # open
  /\ UNCHANGED <<sent, delivered>>

Next ==
  \/ \E s \in Side, c \in Conns : Open(s, c) \/ Read(s, c) \/ Give(s, c)
  \/ Close

Spec == Init /\ [][Next]_vars
=============================================================================
