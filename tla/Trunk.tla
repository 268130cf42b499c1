------------------------------- MODULE Trunk -------------------------------
(***************************************************************************)
(* The two ends of the trunk (src/common/trunklink.cpp), TrunkClient and   *)
(* TrunkServer, over UDP: connections are created, carried in both         *)
(* directions, kept alive and released, while datagrams are lost, delayed, *)
(* reordered and duplicated and each end runs on its own clock.            *)
(*                                                                         *)
(* An OutLink is seen from the trunk here, as module OutLink describes it: *)
(* it takes chunks from its peer, gives the chunks it received to its peer *)
(* in order, and calls CloseConnect when it ends.                          *)
(*                                                                         *)
(* The update timer of an end resends its caches, and sends live packets   *)
(* when they are due.  DeadlineTicks counts the resends within 2 s,        *)
(* DeadTicks the live intervals within 5 s.                                *)
(***************************************************************************)
EXTENDS Integers, Sequences

CONSTANTS
  Conns,          \* connection ids
  DeadlineTicks,  \* kDeadlineTimeout
  DeadTicks,      \* kDeadLinkTimeout
  Talkers,        \* the ends whose peers send anything
  NumChunks,      \* bound: chunks one link reads from its peer
  MaxCreated,     \* bound: links the server makes for one connection
  MaxRestarts,    \* bound: restarts of the server
  MaxIndex,       \* the greatest 32-bit packet index, 2^32 - 1 in the code
  Duplication     \* the network may deliver a datagram more than once

ASSUME DeadlineAssumption == DeadlineTicks \in Nat \ {0}
ASSUME DeadAssumption     == DeadTicks \in Nat \ {0}
ASSUME TalkersAssumption  == Talkers \subseteq {"client", "server"}
ASSUME ChunksAssumption   == NumChunks \in Nat
ASSUME CreatedAssumption  == MaxCreated \in Nat
ASSUME RestartsAssumption == MaxRestarts \in Nat
ASSUME IndexAssumption    == MaxIndex \in Nat \ {0}
ASSUME DuplicationAssumption == Duplication \in BOOLEAN

VARIABLES
  out_links,          \* out_links_ of each end: connection id -> link
  packet_data_cache,  \* packet_data_cache_ of each end
  connect_cache,      \* connect_cache_ of the client
  clients_link,       \* clients_link_ of the server: connections with a known address
  network,            \* datagrams in flight
  up,                 \* FALSE after a failed assertion
  restarts,           \* restarts of the server so far
  sent,               \* history: for each link of an end, the chunks it has read
  delivered           \* history: chunks given to the peer by the last link of an end

vars == <<out_links, packet_data_cache, connect_cache, clients_link, network, up,
          restarts, sent, delivered>>

Side == {"client", "server"}
Other(s) == IF s = "client" THEN "server" ELSE "client"

kUndefinedChunkID == MaxIndex

\* This index is used up like any other, but nothing is sent with it.
kBadPacketIndex == MaxIndex - 1

\* Links an end has made for a connection.
Made(s, c) == Len(sent[s][c])

\* Chunks the last of them has read.
HasRead(s, c) == sent[s][c][Made(s, c)]

HasLink(s, c) == c \in DOMAIN out_links[s]

-----------------------------------------------------------------------------
(* Packets.  "source" and "load" are not in the datagram: they name the    *)
(* link that read the chunk and count the chunks it had read before.       *)

Packet(to, cmd, c, index, source, load) ==
  [to |-> to, cmd |-> cmd, conn |-> c, index |-> index, source |-> source, load |-> load]

\* Packets without an index.
Plain(to, cmd, c) == Packet(to, cmd, c, -1, 0, -1)

\* The server sends to the address the connection was last heard from.
Routed(s, packets, clients) ==
  IF s = "server" THEN {p \in packets : p.conn \in clients} ELSE packets

\* The datagrams in flight once p has been received.
After(p) == IF Duplication THEN network ELSE network \ {p}

-----------------------------------------------------------------------------
(* Links, seen from the trunk.                                             *)

NewLink(source) ==
  [next_index_to_trunk |-> 0, silence |-> 0, next |-> 0, chunks |-> {},
   stop |-> kUndefinedChunkID, dead |-> FALSE, source |-> source]

StopReached(l, index) == l.stop # kUndefinedChunkID /\ l.stop <= index

\* OutLink::Stop
Stopped(l, index) ==
  IF index <= l.next THEN [l EXCEPT !.stop = l.next, !.chunks = {}]
  ELSE [l EXCEPT !.stop = index, !.chunks = {k \in @ : k.index < index}]

\* OutLink::SendData: only the first chunk with an index is kept.
Received(l, p) ==
  IF p.index < l.next \/ \E k \in l.chunks : k.index = p.index THEN l
  ELSE [l EXCEPT !.chunks = @ \union
          {[index |-> p.index, source |-> p.source, load |-> p.load]}]

\* out_links_ of end s with link l for connection c, and without one.
WithLink(s, c, l) ==
  [out_links EXCEPT ![s] = [d \in DOMAIN @ \union {c} |-> IF d = c THEN l ELSE @[d]]]
WithoutLink(s, c) ==
  [out_links EXCEPT ![s] = [d \in DOMAIN @ \ {c} |-> @[d]]]

-----------------------------------------------------------------------------
Init ==
  /\ out_links = [s \in Side |-> [c \in {} |-> NewLink(0)]]
  /\ packet_data_cache = [s \in Side |-> {}]
  /\ connect_cache = {} /\ clients_link = {} /\ network = {}
  /\ up = [s \in Side |-> TRUE] /\ restarts = 0
  /\ sent = [s \in Side |-> [c \in Conns |-> <<>>]]
  /\ delivered = [s \in Side |-> [c \in Conns |-> <<>>]]

-----------------------------------------------------------------------------
(* The client accepts a connection.                                        *)

SendConnectInformation(c) ==
  /\ connect_cache' = connect_cache \union {[conn |-> c, age |-> 0]}
  /\ network' = network \union {Plain("server", "create", c)}

\* The uuid is fresh: it names no link.
AddConnect(c) ==
  /\ up["client"] /\ Made("client", c) = 0
  /\ out_links' = WithLink("client", c, NewLink(1))
  /\ SendConnectInformation(c)
  /\ sent' = [sent EXCEPT !["client"][c] = Append(@, 0)]
  /\ UNCHANGED <<packet_data_cache, clients_link, up, restarts, delivered>>

-----------------------------------------------------------------------------
(* Calls from the links.                                                   *)

\* A packet of a link, cached and sent.
Emit(s, c, cmd, index) ==
  LET p == Packet(Other(s), cmd, c, index, out_links[s][c].source, HasRead(s, c))
  IN  /\ packet_data_cache' =
           [packet_data_cache EXCEPT ![s] = @ \union {[packet |-> p, age |-> 0]}]
      /\ network' = network \union Routed(s, {p}, clients_link)

\* Mutant: the release takes the index of the last chunk.
ReleaseTakesLastIndex(s, c, cmd) ==
  LET i == out_links[s][c].next_index_to_trunk
  IN  Emit(s, c, cmd, IF cmd = "release" /\ i > 0 THEN i - 1 ELSE i)

\* SendCmdData: the packet takes the next index of the link, is cached, is sent.
SendCmdData(s, c, cmd) ==
  LET i == out_links[s][c].next_index_to_trunk
  IN  IF i = kBadPacketIndex THEN UNCHANGED <<packet_data_cache, network>>
      ELSE Emit(s, c, cmd, i)

\* Mutant: the index is taken without being advanced.
SameIndex(l) == l.next_index_to_trunk

\* GetNextPacketIndex
Advanced(l) == (l.next_index_to_trunk + 1) % (MaxIndex + 1)

\* A chunk read from the peer: SendData.
SendData(s, c) ==
  /\ up[s] /\ HasLink(s, c)
  /\ s \in Talkers /\ HasRead(s, c) < NumChunks
  /\ SendCmdData(s, c, "data")
  /\ out_links' = [out_links EXCEPT ![s][c].next_index_to_trunk = Advanced(out_links[s][c])]
  /\ sent' = [sent EXCEPT ![s][c][Made(s, c)] = @ + 1]
  /\ UNCHANGED <<connect_cache, clients_link, up, restarts, delivered>>

\* The link gives the awaited chunk to its peer.
Deliver(s, c) ==
  /\ up[s] /\ HasLink(s, c)
  /\ LET l == out_links[s][c] IN
       \E k \in l.chunks :
         /\ k.index = l.next /\ ~StopReached(l, l.next)
         /\ out_links' = [out_links EXCEPT ![s][c].next = @ + 1,
                                           ![s][c].chunks = @ \ {k}]
         /\ delivered' = [delivered EXCEPT ![s][c] = Append(@, [source |-> k.source, load |-> k.load])]
  /\ UNCHANGED <<packet_data_cache, connect_cache, clients_link, network, up, restarts, sent>>

\* The link has ended: SendDisconnectInformation and RemoveOutLink.  Its caches
\* stay; the peer may end a link at any time.
CloseConnect(s, c) ==
  /\ up[s] /\ HasLink(s, c)
  /\ SendCmdData(s, c, "release")
  /\ out_links' = WithoutLink(s, c)
  /\ UNCHANGED <<connect_cache, clients_link, up, restarts, sent, delivered>>

-----------------------------------------------------------------------------
(* Datagrams: ProcessTrunkData and its handlers.  The server notes first   *)
(* where the connection was heard from (AddClientLink).                    *)

Clients(s, c) == IF s = "server" THEN clients_link \union {c} ELSE clients_link

Receive(s, cmd, p) ==
  /\ up[s] /\ p \in network /\ p.to = s /\ p.cmd = cmd
  /\ clients_link' = Clients(s, p.conn)

\* Mutant: the table is not looked up.
MakesLinkAlways(c) == Made("server", c) < MaxCreated

\* Nothing is made when there is a link for this id.
MakesLink(c) == ~HasLink("server", c) /\ Made("server", c) < MaxCreated

\* The acknowledgement is sent whatever becomes of the connection; the fabric makes
\* no link for a point it does not know, or when making one throws.
ProcessConnectData(p) ==
  /\ Receive("server", "create", p)
  /\ network' = After(p) \union {Plain("client", "ack_create", p.conn)}
  /\ \/ /\ MakesLink(p.conn)
        /\ out_links' = WithLink("server", p.conn, NewLink(Made("server", p.conn) + 1))
        /\ sent' = [sent EXCEPT !["server"][p.conn] = Append(@, 0)]
        /\ delivered' = [delivered EXCEPT !["server"][p.conn] = <<>>]
     \/ UNCHANGED <<out_links, sent, delivered>>
  /\ UNCHANGED <<packet_data_cache, connect_cache, up, restarts>>

ProcessAckConnectData(p) ==
  /\ Receive("client", "ack_create", p)
  /\ connect_cache' = {e \in connect_cache : e.conn # p.conn}
  /\ network' = After(p)
  /\ UNCHANGED <<out_links, packet_data_cache, up, restarts, sent, delivered>>

\* The data acknowledgement is left out: ProcessTrunkData refuses its size and
\* ProcessAckData is empty, so it changes nothing where it arrives.
ProcessDataToOutlink(s, p) ==
  /\ Receive(s, "data", p)
  /\ network' = After(p)
  /\ \/ /\ ~HasLink(s, p.conn)
        /\ UNCHANGED <<out_links, packet_data_cache, connect_cache, up>>
     \/ /\ HasLink(s, p.conn)
        /\ p.index < out_links[s][p.conn].next \/ ~StopReached(out_links[s][p.conn], p.index)
        /\ out_links' = [out_links EXCEPT ![s][p.conn] = Received(@, p)]
        /\ UNCHANGED <<packet_data_cache, connect_cache, up>>
     \/ /\ HasLink(s, p.conn)
        /\ p.index >= out_links[s][p.conn].next /\ StopReached(out_links[s][p.conn], p.index)
        /\ up' = [up EXCEPT ![s] = FALSE]   \* assert(false) in OutLink::SendData
        /\ out_links' = [out_links EXCEPT ![s] = [c \in {} |-> NewLink(0)]]
        /\ packet_data_cache' = [packet_data_cache EXCEPT ![s] = {}]
        /\ connect_cache' = IF s = "client" THEN {} ELSE connect_cache
  /\ UNCHANGED <<restarts, sent, delivered>>

ProcessReleaseConnect(s, p) ==
  /\ Receive(s, "release", p)
  /\ network' = After(p)
  /\ out_links' = IF HasLink(s, p.conn)
                    THEN [out_links EXCEPT ![s][p.conn] = Stopped(@, p.index)]
                    ELSE out_links
  /\ UNCHANGED <<packet_data_cache, connect_cache, up, restarts, sent, delivered>>

ProcessLive(s, p) ==
  /\ Receive(s, "live", p)
  /\ network' = After(p)
  /\ out_links' = IF HasLink(s, p.conn)
                    THEN [out_links EXCEPT ![s][p.conn].silence = 0]
                    ELSE out_links
  /\ UNCHANGED <<packet_data_cache, connect_cache, up, restarts, sent, delivered>>

-----------------------------------------------------------------------------
(* The update timer.                                                       *)

Older(l) == IF l.silence > DeadTicks THEN l ELSE [l EXCEPT !.silence = @ + 1]

Dead(l) == l.silence > DeadTicks

\* Mutant: a dead link gets no live packets, and is not stopped.
LeftAlone(l) == IF Dead(Older(l)) THEN [Older(l) EXCEPT !.dead = TRUE] ELSE Older(l)

\* SendLivePacket: a dead link is stopped at once, the others send a live packet.
Updated(l) == IF Dead(Older(l)) THEN [Stopped(Older(l), 0) EXCEPT !.dead = TRUE]
              ELSE Older(l)

\* SendLivePacket, when a second has passed since the last one.
UpdatedLinks(s, due) ==
  [c \in DOMAIN out_links[s] |-> IF due THEN Updated(out_links[s][c]) ELSE out_links[s][c]]

Lives(s, due) ==
  {Plain(Other(s), "live", c) :
     c \in {d \in DOMAIN out_links[s] : due /\ ~Dead(Older(out_links[s][d]))}}

\* Mutant: nothing is ever dropped.
AgedForever(cache) == {[e EXCEPT !.age = @ + 1] : e \in cache}

\* OnCacheResend: what is past its deadline is dropped, the rest is sent again.
Aged(cache) == {[e EXCEPT !.age = @ + 1] : e \in {e \in cache : e.age < DeadlineTicks}}

\* TrunkClient::OnCacheResend also looks after the creates without an answer.
AgedConnects(s) == IF s = "client" THEN Aged(connect_cache) ELSE connect_cache

Creates(s) ==
  IF s = "client" THEN {Plain("server", "create", e.conn) : e \in AgedConnects(s)} ELSE {}

\* The handler of update_timer_ (RequestUpdate).
Update(s, due) ==
  /\ up[s]
  /\ out_links' = [out_links EXCEPT ![s] = UpdatedLinks(s, due)]
  /\ packet_data_cache' = [packet_data_cache EXCEPT ![s] = Aged(@)]
  /\ connect_cache' = AgedConnects(s)
  /\ network' = network \union Creates(s) \union
       Routed(s, Lives(s, due) \union {e.packet : e \in Aged(packet_data_cache[s])},
              clients_link)
  /\ UNCHANGED <<clients_link, up, restarts, sent, delivered>>

-----------------------------------------------------------------------------
(* The environment.                                                        *)

\* The server process ends and is started again: nothing is kept on disk.
Restart ==
  /\ up["server"] /\ restarts < MaxRestarts
  /\ restarts' = restarts + 1
  /\ out_links' = [out_links EXCEPT !["server"] = [c \in {} |-> NewLink(0)]]
  /\ packet_data_cache' = [packet_data_cache EXCEPT !["server"] = {}]
  /\ clients_link' = {}
  /\ UNCHANGED <<connect_cache, network, up, sent, delivered>>

Lose(p) ==
  /\ ~Duplication /\ p \in network
  /\ network' = network \ {p}
  /\ UNCHANGED <<out_links, packet_data_cache, connect_cache, clients_link, up, restarts, sent, delivered>>

ProcessTrunkData(s, p) ==
  \/ s = "server" /\ ProcessConnectData(p)
  \/ s = "client" /\ ProcessAckConnectData(p)
  \/ ProcessDataToOutlink(s, p)
  \/ ProcessReleaseConnect(s, p)
  \/ ProcessLive(s, p)

Next ==
  \/ \E c \in Conns : AddConnect(c)
  \/ \E s \in Side, c \in Conns : SendData(s, c) \/ Deliver(s, c) \/ CloseConnect(s, c)
  \/ \E s \in Side : \E p \in network : ProcessTrunkData(s, p)
  \/ \E s \in Side, due \in BOOLEAN : Update(s, due)
  \/ \E p \in network : Lose(p)
  \/ Restart

Spec == Init /\ [][Next]_vars

-----------------------------------------------------------------------------
(* Fairness: the timers of both ends run.  Datagrams may all be lost, and  *)
(* nothing makes a link that was stopped call CloseConnect.                *)

Fairness == \A s \in Side : WF_vars(Update(s, TRUE))

FairSpec == Spec /\ Fairness

-----------------------------------------------------------------------------
(* Properties.                                                             *)

Index  == 0 .. MaxIndex
Load   == 0 .. NumChunks
Source == 1 .. MaxCreated + 1

PacketType ==
  [to : Side, cmd : {"create", "ack_create", "data", "release", "live"}, conn : Conns,
   index : Index \union {-1}, source : Source \union {0}, load : Load \union {-1}]

LinkType ==
  [next_index_to_trunk : Index, silence : 0 .. DeadTicks + 1, next : 0 .. MaxIndex + 1,
   chunks : SUBSET [index : Index, source : Source, load : Load],
   stop : Index, dead : BOOLEAN, source : Source]

\* The type of every variable, and the bounds of every counter: no packet is
\* kept in a cache past its deadline, and no index passes the width it has.
TypeOK ==
  /\ DOMAIN out_links = Side
  /\ \A s \in Side : /\ DOMAIN out_links[s] \subseteq Conns
                     /\ \A c \in DOMAIN out_links[s] : out_links[s][c] \in LinkType
  /\ packet_data_cache \in [Side -> SUBSET [packet : PacketType, age : 0 .. DeadlineTicks]]
  /\ connect_cache \subseteq [conn : Conns, age : 0 .. DeadlineTicks]
  /\ clients_link \subseteq Conns /\ network \subseteq PacketType
  /\ up \in [Side -> BOOLEAN] /\ restarts \in 0 .. MaxRestarts
  /\ sent \in [Side -> [Conns -> Seq(Load)]]
  /\ delivered \in [Side -> [Conns -> Seq([source : Source, load : Load])]]

\* However datagrams are lost, repeated or reordered, and whatever the resends
\* add, the chunks a link has given to its peer are the first chunks read at the
\* other end, each once, in the order they were read (GetNextPacketIndex,
\* OutLink::SendData).
P == INSTANCE Pipe WITH open <- {end \in Side \X Conns : HasLink(end[1], end[2])}

ImplementsPipe == P!Spec

\* A link that is to stop because the other end released the connection, and not
\* because the trunk went silent, stops behind the last chunk of the other end:
\* neither before it nor at a chunk that will never come (SendDisconnectInformation,
\* ProcessReleaseConnect; protocol.md, closing of a connection).
NoChunkCutOff ==
  \A s \in Side : \A c \in DOMAIN out_links[s] :
    LET l == out_links[s][c] IN
      l.stop # kUndefinedChunkID /\ ~l.dead /\ Made(Other(s), c) <= 1
        => l.stop = sent[Other(s)][c][1]

\* A release that says with the last index that there is no stop.
LastIndexReleased(s, c) ==
  \E p \in network :
    p.to = s /\ p.conn = c /\ p.cmd = "release" /\ p.index = kUndefinedChunkID

\* A link of an end stays the same link, with its position in both streams, until
\* it is removed: a repeated create neither replaces nor rewinds it, and a link that
\* was stopped is never open again, unless the indexes of the other end are used up
\* (ProcessConnectData, OutLink::Stop).
LinkNeverRewinds ==
  [][\A s \in Side : \A c \in DOMAIN out_links[s] \intersect DOMAIN out_links'[s] :
       LET l == out_links[s][c]
           m == out_links'[s][c]
       IN  /\ m.source = l.source
           /\ m.next >= l.next /\ m.next_index_to_trunk >= l.next_index_to_trunk
           /\ \/ l.stop = kUndefinedChunkID \/ m.stop # kUndefinedChunkID
              \/ LastIndexReleased(s, c)]_vars

\* A link whose connection the other end does not know.
HalfOpen(s, c) == HasLink(s, c) /\ ~HasLink(Other(s), c)

\* A link that was told to stop and has given its peer all it is still to give.
Drained(s, c) == HasLink(s, c) /\ StopReached(out_links[s][c], out_links[s][c].next)

\* A link that is left alone, because a release or a create was lost, the point is not
\* known or the server was restarted, is not kept open by the trunk: live packets stop
\* coming, the old ones run out, and it is told to stop where it is, also when it waits
\* for a chunk that will never come (SendLivePacket).  What it does then is the matter
\* of module OutLink: not every link calls CloseConnect.
HalfOpenIsStopped ==
  \A s \in Side, c \in Conns : HalfOpen(s, c) ~> (~HalfOpen(s, c) \/ Drained(s, c))

\* Comment in ProcessConnectData: of a repeated create nothing is made.
OneTargetPerConnection == \A c \in Conns : Made("server", c) <= 1

\* protocol.md: a data packet is sent again until it is acknowledged or the
\* connection is closed; a chunk of an open link that the server never received is
\* in the cache that is sent again.
ReceivedByServer(c, i) ==
  \/ i < Len(delivered["server"][c])
  \/ HasLink("server", c) /\ \E k \in out_links["server"][c].chunks : k.load = i

ResentUntilReceived ==
  \A c \in DOMAIN out_links["client"] : \A i \in 0 .. HasRead("client", c) - 1 :
    \/ ReceivedByServer(c, i)
    \/ \E e \in packet_data_cache["client"] : e.packet.conn = c /\ e.packet.load = i
=============================================================================
