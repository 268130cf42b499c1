---------------------------- MODULE TrunkProofs ----------------------------
(***************************************************************************)
(* Theorems about Trunk, for every number of connections, ticks, chunks,   *)
(* links and restarts and every width of the index, over a network that    *)
(* loses, reorders and repeats datagrams.                                  *)
(*                                                                         *)
(* An index names a chunk only while it does not wrap around.  What needs  *)
(* this says so: a link reads no more chunks than there are indexes.       *)
(***************************************************************************)
EXTENDS Trunk, TLAPS, SequenceTheorems

\* Everything an end may still receive: in flight, or in a cache that is sent again.
Packets == network \union {e.packet : e \in packet_data_cache["client"]}
                   \union {e.packet : e \in packet_data_cache["server"]}

\* A chunk, by the link and the number it was read as, was read for connection c at
\* the other end of s.
WasRead(s, c, source, load) ==
  source \in 1 .. Made(Other(s), c) /\ load < sent[Other(s)][c][source]

\* The link "source" at the other end of s has closed after this many chunks.
HasClosed(s, c, source, load) ==
  /\ source \in 1 .. Made(Other(s), c) /\ load = sent[Other(s)][c][source]
  /\ HasLink(Other(s), c) => source < Made(Other(s), c)

\* An index that did not wrap around is the number of chunks before it; the bad one
\* is on no packet.
Numbered(index, load) ==
  index \in Index /\ index # kBadPacketIndex /\ (load <= MaxIndex => index = load)

PacketInv(p) ==
  /\ p.cmd = "create" => Made("client", p.conn) > 0
  /\ p.cmd \in {"data", "release"} => p.source \in Source /\ p.load \in Load
                                        /\ Numbered(p.index, p.load)
  /\ p.cmd = "data" => WasRead(p.to, p.conn, p.source, p.load)
  /\ p.cmd = "release" => HasClosed(p.to, p.conn, p.source, p.load)

ChunkInv(s, c, k) == Numbered(k.index, k.load) /\ WasRead(s, c, k.source, k.load)

\* A link is the last one made; its next index is the number of chunks it has read, and
\* "next" that of the chunks it has given.
LinkInv(s, c) ==
  LET l == out_links[s][c]
  IN  /\ Made(s, c) > 0 /\ l.source = Made(s, c)
      /\ HasRead(s, c) <= MaxIndex => l.next_index_to_trunk = HasRead(s, c)
      /\ l.next = Len(delivered[s][c]) /\ l.next <= kBadPacketIndex
      /\ \A k \in l.chunks : ChunkInv(s, c, k)

\* No more has been given than some link of the other end has read.
GivenInv(s, c) ==
  delivered[s][c] = <<>> \/
    \E source \in 1 .. Made(Other(s), c) : Len(delivered[s][c]) <= sent[Other(s)][c][source]

IInv ==
  /\ TypeOK
  /\ \A p \in Packets : PacketInv(p)
  /\ \A e \in connect_cache : Made("client", e.conn) > 0
  /\ \A s \in Side : \A c \in DOMAIN out_links[s] : LinkInv(s, c)
  /\ \A s \in Side, c \in Conns : (Made(s, c) = 0 => delivered[s][c] = <<>>) /\ GivenInv(s, c)

\* While the other end has made one link only, a stop that came in a release is where
\* that link has closed.
CutInv ==
  \A s \in Side : \A c \in DOMAIN out_links[s] :
    LET l == out_links[s][c]
    IN  l.stop # kUndefinedChunkID /\ ~l.dead /\ Made(Other(s), c) <= 1
          => Made(Other(s), c) = 1 /\ l.stop = sent[Other(s)][c][1] /\ ~HasLink(Other(s), c)

-----------------------------------------------------------------------------
(* What the operators of Trunk do.                                         *)

LEMMA OtherSide == \A s \in Side : Other(s) \in Side /\ Other(s) # s /\ Other(Other(s)) = s
  BY DEF Side, Other

\* GetNextPacketIndex counts, until the index wraps around.
LEMMA IndexAdvances ==
  ASSUME NEW l \in LinkType
  PROVE  /\ Advanced(l) \in Index
         /\ l.next_index_to_trunk < MaxIndex => Advanced(l) = l.next_index_to_trunk + 1
  BY IndexAssumption DEF Advanced, LinkType, Index

LEMMA NewLinkType ==
  ASSUME NEW source \in Source
  PROVE  NewLink(source) \in LinkType
  BY IndexAssumption, DeadAssumption DEF NewLink, LinkType, Index, kUndefinedChunkID

\* What a step may do to a link and leave it at its place in both streams.
Stays(l, m) ==
  /\ m \in LinkType
  /\ m.source = l.source /\ m.next_index_to_trunk = l.next_index_to_trunk /\ m.next = l.next
  /\ m.chunks \subseteq l.chunks

LEMMA StoppedStays ==
  ASSUME NEW l \in LinkType, NEW index \in Index, l.next <= kBadPacketIndex
  PROVE  /\ Stays(l, Stopped(l, index))
         /\ Stopped(l, index).stop = (IF index <= l.next THEN l.next ELSE index)
         /\ Stopped(l, index).dead = l.dead
  <1>1. CASE index <= l.next
    <2>1. l.next \in Index /\ Stopped(l, index) = [l EXCEPT !.stop = l.next, !.chunks = {}]
      BY <1>1, IndexAssumption DEF Stopped, LinkType, Index, kBadPacketIndex
    <2> QED
      BY <1>1, <2>1 DEF Stays, LinkType
  <1>2. CASE ~(index <= l.next)
    <2> DEFINE kept == {k \in l.chunks : k.index < index}
    <2>1. Stopped(l, index) = [l EXCEPT !.stop = index, !.chunks = kept]
      BY <1>2 DEF Stopped
    <2>2. kept \subseteq l.chunks
      OBVIOUS
    <2> HIDE DEF kept
    <2> QED
      BY <1>2, <2>1, <2>2 DEF Stays, LinkType
  <1> QED
    BY <1>1, <1>2

LEMMA OlderStays ==
  ASSUME NEW l \in LinkType
  PROVE  Stays(l, Older(l)) /\ Older(l).stop = l.stop /\ Older(l).dead = l.dead
  BY DeadAssumption DEF Stays, Older, LinkType

LEMMA StaysTwice ==
  ASSUME NEW l, NEW m, NEW n, Stays(l, m), Stays(m, n)
  PROVE  Stays(l, n)
  BY DEF Stays

LEMMA UpdatedStays ==
  ASSUME NEW l \in LinkType, l.next <= kBadPacketIndex
  PROVE  /\ Stays(l, Updated(l))
         /\ Updated(l).dead = TRUE \/ (Updated(l).stop = l.stop /\ Updated(l).dead = l.dead)
         /\ l.stop # kUndefinedChunkID => Updated(l).stop # kUndefinedChunkID
  <1> DEFINE o == Older(l)
  <1>1. Stays(l, o) /\ o.stop = l.stop /\ o.dead = l.dead
    BY OlderStays
  <1>2. CASE Dead(o)
    <2> DEFINE m == Stopped(o, 0)
    <2>1. o \in LinkType /\ o.next = l.next /\ 0 \in Index
      BY <1>1, IndexAssumption DEF Stays, Index
    <2>2. Stays(o, m) /\ m.stop = (IF 0 <= o.next THEN o.next ELSE 0)
      BY <2>1, StoppedStays
    <2>3. m.stop = l.next /\ l.next # kUndefinedChunkID
      BY <2>1, <2>2, IndexAssumption DEF LinkType, Index, kUndefinedChunkID, kBadPacketIndex
    <2>4. Updated(l) = [m EXCEPT !.dead = TRUE]
      BY <1>2 DEF Updated
    <2> HIDE DEF m, o
    <2>5. m \in LinkType
      BY <2>2 DEF Stays
    <2>6. Updated(l).dead = TRUE /\ Updated(l).stop = m.stop /\ Stays(m, Updated(l))
      BY <2>4, <2>5 DEF LinkType, Stays
    <2>7. Stays(l, Updated(l))
      BY <1>1, <2>2, <2>6, StaysTwice
    <2> QED
      BY <2>3, <2>6, <2>7
  <1>3. CASE ~Dead(o)
    BY <1>1, <1>3 DEF Updated
  <1> QED
    BY <1>2, <1>3

LEMMA GivenLink ==
  ASSUME NEW l \in LinkType, NEW k, l.next + 1 <= kBadPacketIndex
  PROVE  LET m == [l EXCEPT !.next = @ + 1, !.chunks = @ \ {k}]
         IN  /\ m \in LinkType /\ m.next_index_to_trunk = l.next_index_to_trunk
             /\ m.source = l.source /\ m.next = l.next + 1 /\ m.chunks = l.chunks \ {k}
  <1>1. l.next + 1 \in 0 .. MaxIndex + 1
    BY IndexAssumption DEF LinkType, kBadPacketIndex
  <1>2. l.chunks \ {k} \in SUBSET [index : Index, source : Source, load : Load]
    BY DEF LinkType
  <1> DEFINE chunks == l.chunks \ {k}
  <1> HIDE DEF chunks
  <1> QED
    BY <1>1, <1>2 DEF LinkType, chunks

\* A data packet adds at most one chunk.
Chunk == [index : Index, source : Source, load : Load]

ChunkOf(p) == [index |-> p.index, source |-> p.source, load |-> p.load]

LEMMA ReceivedAddsChunk ==
  ASSUME NEW l \in LinkType, NEW p, ChunkOf(p) \in Chunk
  PROVE  /\ Received(l, p) \in LinkType
         /\ Received(l, p) = [l EXCEPT !.chunks = Received(l, p).chunks]
         /\ Received(l, p).chunks \subseteq l.chunks \union {ChunkOf(p)}
  BY DEF Received, LinkType, Chunk, ChunkOf

-----------------------------------------------------------------------------
(* What a step changes: the links, and the history of what they read.      *)

\* Link c of end s becomes l, or is made as l; the others are the same.
OnlyLink(s, c, l) ==
  /\ DOMAIN out_links' = Side
  /\ \A t \in Side : DOMAIN out_links'[t] =
       IF t = s THEN DOMAIN out_links[t] \union {c} ELSE DOMAIN out_links[t]
  /\ \A t \in Side : \A d \in DOMAIN out_links'[t] :
       out_links'[t][d] = IF t = s /\ d = c THEN l ELSE out_links[t][d]

\* Link l of connection c at end s becomes m.  It is told to stop by a release in the
\* network, or for good because the trunk is silent, or not at all.
StopMoves(s, c, l, m) ==
  \/ m.stop = l.stop /\ m.dead = l.dead
  \/ m.dead = TRUE /\ (l.stop # kUndefinedChunkID => m.stop # kUndefinedChunkID)
  \/ /\ m.dead = l.dead
     /\ \E p \in network : /\ p.to = s /\ p.cmd = "release" /\ p.conn = c
                           /\ m.stop = IF p.index <= l.next THEN l.next ELSE p.index

\* A link becomes m and stays at its place, whether it is told to stop or not.
Rests(s, c, m) == Stays(out_links[s][c], m) /\ StopMoves(s, c, out_links[s][c], m)

\* No link is made, and those that are not removed rest.
Quiet ==
  /\ DOMAIN out_links' = Side
  /\ \A t \in Side : /\ DOMAIN out_links'[t] \subseteq DOMAIN out_links[t]
                     /\ \A d \in DOMAIN out_links'[t] : Rests(t, d, out_links'[t][d])

LEMMA WithLinkIs ==
  ASSUME DOMAIN out_links = Side, NEW s \in Side, NEW c, NEW l, out_links' = WithLink(s, c, l)
  PROVE  OnlyLink(s, c, l)
  BY DEF WithLink, OnlyLink

LEMMA LinkBecomes ==
  ASSUME DOMAIN out_links = Side, NEW s \in Side, NEW c, NEW l, HasLink(s, c),
         out_links' = [out_links EXCEPT ![s][c] = l]
  PROVE  OnlyLink(s, c, l)
  BY DEF HasLink, OnlyLink

LEMMA SameRests ==
  ASSUME NEW s, NEW c, out_links[s][c] \in LinkType
  PROVE  Rests(s, c, out_links[s][c])
  BY DEF Rests, Stays, StopMoves

LEMMA QuietLink ==
  ASSUME DOMAIN out_links = Side,
         \A t \in Side : \A d \in DOMAIN out_links[t] : out_links[t][d] \in LinkType,
         NEW s \in Side, NEW c, HasLink(s, c), NEW l, OnlyLink(s, c, l), Rests(s, c, l)
  PROVE  Quiet
  BY SameRests DEF OnlyLink, Quiet, HasLink

LEMMA QuietSide ==
  ASSUME DOMAIN out_links = Side,
         \A t \in Side : \A d \in DOMAIN out_links[t] : out_links[t][d] \in LinkType,
         NEW s \in Side, NEW links, out_links' = [out_links EXCEPT ![s] = links],
         DOMAIN links \subseteq DOMAIN out_links[s],
         \A d \in DOMAIN links : Rests(s, d, links[d])
  PROVE  Quiet
  BY SameRests DEF Quiet

LEMMA QuietAll ==
  ASSUME DOMAIN out_links = Side,
         \A t \in Side : \A d \in DOMAIN out_links[t] : out_links[t][d] \in LinkType,
         UNCHANGED out_links
  PROVE  Quiet
  BY SameRests DEF Quiet

\* Of the history of what was read only that of connection c at end s becomes seq.
OnlySent(s, c, seq) ==
  /\ sent' \in [Side -> [Conns -> Seq(Load)]]
  /\ \A t \in Side, d \in Conns : sent'[t][d] = IF t = s /\ d = c THEN seq ELSE sent[t][d]

LEMMA OnlySentIs ==
  ASSUME sent \in [Side -> [Conns -> Seq(Load)]], NEW s \in Side, NEW c \in Conns,
         NEW seq \in Seq(Load), sent' = [sent EXCEPT ![s][c] = seq]
  PROVE  OnlySent(s, c, seq)
  BY DEF OnlySent

LEMMA LinkIsRecorded ==
  ASSUME sent \in [Side -> [Conns -> Seq(Load)]], NEW s \in Side, NEW c \in Conns,
         sent' = [sent EXCEPT ![s][c] = Append(@, 0)]
  PROVE  OnlySent(s, c, Append(sent[s][c], 0))
  <1>1. sent[s][c] \in Seq(Load) /\ 0 \in Load
    BY ChunksAssumption DEF Load
  <1>2. Append(sent[s][c], 0) \in Seq(Load)
    BY <1>1, AppendProperties
  <1> QED
    BY <1>2, OnlySentIs

LEMMA ChunkIsRecorded ==
  ASSUME sent \in [Side -> [Conns -> Seq(Load)]], NEW s \in Side, NEW c \in Conns,
         Made(s, c) > 0, HasRead(s, c) < NumChunks,
         sent' = [sent EXCEPT ![s][c][Made(s, c)] = @ + 1]
  PROVE  OnlySent(s, c, [sent[s][c] EXCEPT ![Made(s, c)] = HasRead(s, c) + 1])
  <1> DEFINE seq == [sent[s][c] EXCEPT ![Made(s, c)] = HasRead(s, c) + 1]
  <1>1. sent[s][c] \in Seq(Load) /\ Made(s, c) \in 1 .. Len(sent[s][c])
    BY DEF Made
  <1>2. HasRead(s, c) \in Load
    BY <1>1, ElementOfSeq DEF HasRead
  <1>3. HasRead(s, c) + 1 \in Load
    BY <1>2, ChunksAssumption DEF Load
  <1>4. seq \in Seq(Load)
    BY <1>1, <1>3, ExceptSeq
  <1>5. sent' = [sent EXCEPT ![s][c] = seq]
    BY DEF HasRead
  <1> QED
    BY <1>4, <1>5, OnlySentIs

\* Links are added to the history; what a link has read grows until it has closed.
HistoryGrows ==
  /\ sent \in [Side -> [Conns -> Seq(Load)]] /\ sent' \in [Side -> [Conns -> Seq(Load)]]
  /\ \A t \in Side, d \in Conns :
       /\ Made(t, d)' >= Made(t, d)
       /\ HasLink(t, d)' => HasLink(t, d) \/ Made(t, d)' > Made(t, d)
       /\ \A i \in 1 .. Made(t, d) :
            /\ sent'[t][d][i] >= sent[t][d][i]
            /\ i < Made(t, d) \/ ~HasLink(t, d) => sent'[t][d][i] = sent[t][d][i]

LEMMA RecordedTypes ==
  ASSUME sent \in [Side -> [Conns -> Seq(Load)]], NEW s \in Side, NEW c \in Conns
  PROVE  /\ sent[s][c] \in Seq(Load) /\ Made(s, c) \in Nat
         /\ \A i \in 1 .. Made(s, c) : sent[s][c][i] \in Load /\ sent[s][c][i] \in Nat
  <1>1. sent[s][c] \in Seq(Load)
    OBVIOUS
  <1>2. \A i \in 1 .. Made(s, c) : sent[s][c][i] \in Load
    BY <1>1, ElementOfSeq DEF Made
  <1> QED
    BY <1>1, <1>2 DEF Made, Load

\* A step that reads nothing, makes no link, and may remove some.
LEMMA HistoryStays ==
  ASSUME sent \in [Side -> [Conns -> Seq(Load)]], UNCHANGED sent,
         \A t \in Side, d \in Conns : HasLink(t, d)' => HasLink(t, d)
  PROVE  HistoryGrows
  BY RecordedTypes DEF HistoryGrows, Made

LEMMA NewLinkGrows ==
  ASSUME sent \in [Side -> [Conns -> Seq(Load)]], NEW s \in Side, NEW c \in Conns, NEW l,
         ~HasLink(s, c), OnlyLink(s, c, l), OnlySent(s, c, Append(sent[s][c], 0))
  PROVE  HistoryGrows /\ Made(s, c)' = Made(s, c) + 1 /\ HasRead(s, c)' = 0
  <1>1. 0 \in Load /\ sent[s][c] \in Seq(Load)
    BY ChunksAssumption DEF Load
  <1>2. /\ Len(Append(sent[s][c], 0)) = Len(sent[s][c]) + 1
        /\ \A i \in 1 .. Len(sent[s][c]) : Append(sent[s][c], 0)[i] = sent[s][c][i]
        /\ Append(sent[s][c], 0)[Len(sent[s][c]) + 1] = 0
    BY <1>1, AppendProperties
  <1>3. sent'[s][c] = Append(sent[s][c], 0)
    BY DEF OnlySent
  <1>4. Made(s, c)' = Made(s, c) + 1 /\ HasRead(s, c)' = 0
    BY <1>2, <1>3 DEF Made, HasRead
  <1>5. ASSUME NEW t \in Side, NEW d \in Conns
        PROVE  /\ Made(t, d)' >= Made(t, d)
               /\ HasLink(t, d)' => HasLink(t, d) \/ Made(t, d)' > Made(t, d)
               /\ \A i \in 1 .. Made(t, d) : sent'[t][d][i] = sent[t][d][i]
    <2>1. CASE t = s /\ d = c
      <3>1. Made(s, c)' >= Made(s, c) /\ Made(s, c)' > Made(s, c)
        BY <1>1, <1>4 DEF Made
      <3> QED
        BY <1>2, <1>3, <2>1, <3>1 DEF Made
    <2>2. CASE ~(t = s /\ d = c)
      <3>1. sent'[t][d] = sent[t][d]
        BY <2>2 DEF OnlySent
      <3>2. HasLink(t, d)' => HasLink(t, d)
        BY <2>2 DEF OnlyLink, HasLink
      <3> QED
        BY <3>1, <3>2, RecordedTypes DEF Made
    <2> QED
      BY <2>1, <2>2
  <1>6. sent' \in [Side -> [Conns -> Seq(Load)]]
    BY DEF OnlySent
  <1>7. \A t \in Side, d \in Conns : \A i \in 1 .. Made(t, d) : sent[t][d][i] \in Nat
    BY RecordedTypes
  <1> QED
    BY <1>4, <1>5, <1>6, <1>7 DEF HistoryGrows

LEMMA ReadGrows ==
  ASSUME sent \in [Side -> [Conns -> Seq(Load)]], NEW s \in Side, NEW c \in Conns, NEW l,
         HasLink(s, c), OnlyLink(s, c, l), Made(s, c) > 0,
         OnlySent(s, c, [sent[s][c] EXCEPT ![Made(s, c)] = HasRead(s, c) + 1])
  PROVE  HistoryGrows /\ Made(s, c)' = Made(s, c) /\ HasRead(s, c)' = HasRead(s, c) + 1
  <1>1. /\ sent[s][c] \in Seq(Load) /\ Made(s, c) \in 1 .. Len(sent[s][c])
        /\ HasRead(s, c) \in Nat
    BY RecordedTypes DEF Made, HasRead
  <1>2. sent'[s][c] = [sent[s][c] EXCEPT ![Made(s, c)] = HasRead(s, c) + 1]
    BY DEF OnlySent
  <1>3. /\ Len(sent'[s][c]) = Len(sent[s][c])
        /\ sent'[s][c][Made(s, c)] = HasRead(s, c) + 1
        /\ \A i \in 1 .. Len(sent[s][c]) : i # Made(s, c) => sent'[s][c][i] = sent[s][c][i]
    BY <1>1, <1>2
  <1>4. Made(s, c)' = Made(s, c) /\ HasRead(s, c)' = HasRead(s, c) + 1
    BY <1>3 DEF Made, HasRead
  <1>5. ASSUME NEW t \in Side, NEW d \in Conns
        PROVE  /\ Made(t, d)' = Made(t, d) /\ (HasLink(t, d)' => HasLink(t, d))
               /\ \A i \in 1 .. Made(t, d) :
                    /\ sent'[t][d][i] >= sent[t][d][i]
                    /\ i < Made(t, d) \/ ~HasLink(t, d) => sent'[t][d][i] = sent[t][d][i]
    <2>1. CASE t = s /\ d = c
      BY <1>1, <1>3, <1>4, <2>1, RecordedTypes DEF Made, HasRead
    <2>2. CASE ~(t = s /\ d = c)
      <3>1. sent'[t][d] = sent[t][d]
        BY <2>2 DEF OnlySent
      <3>2. HasLink(t, d)' => HasLink(t, d)
        BY <2>2 DEF OnlyLink, HasLink
      <3> QED
        BY <3>1, <3>2, RecordedTypes DEF Made
    <2> QED
      BY <2>1, <2>2
  <1>6. sent' \in [Side -> [Conns -> Seq(Load)]]
    BY DEF OnlySent
  <1> QED
    BY <1>4, <1>5, <1>6, RecordedTypes DEF HistoryGrows

\* What was read was read, and a link that has closed reads no more.
LEMMA WasReadStays ==
  ASSUME HistoryGrows, NEW s \in Side, NEW c \in Conns, NEW source, NEW load \in Int,
         WasRead(s, c, source, load)
  PROVE  WasRead(s, c, source, load)'
  <1> DEFINE t == Other(s)
  <1>1. t \in Side
    BY OtherSide
  <1>2. /\ sent \in [Side -> [Conns -> Seq(Load)]] /\ Made(t, c) \in Nat
        /\ source \in 1 .. Made(t, c) /\ sent[t][c][source] \in Nat /\ load < sent[t][c][source]
    BY <1>1, RecordedTypes DEF HistoryGrows, WasRead
  <1>3. /\ Made(t, c)' >= Made(t, c) /\ Made(t, c)' \in Nat
        /\ sent'[t][c][source] >= sent[t][c][source]
    BY <1>1, <1>2 DEF HistoryGrows, Made
  <1>4. source \in 1 .. Made(t, c)'
    BY <1>2, <1>3
  <1>5. sent'[t][c] \in Seq(Load)
    BY <1>1 DEF HistoryGrows
  <1>6. sent'[t][c][source] \in Load
    BY <1>4, <1>5, ElementOfSeq DEF Made
  <1>7. sent'[t][c][source] \in Nat
    BY <1>6 DEF Load
  <1> QED
    BY <1>2, <1>3, <1>4, <1>7 DEF WasRead

LEMMA HasClosedStays ==
  ASSUME HistoryGrows, NEW s \in Side, NEW c \in Conns, NEW source, NEW load,
         HasClosed(s, c, source, load)
  PROVE  HasClosed(s, c, source, load)'
  <1> DEFINE t == Other(s)
  <1>1. t \in Side
    BY OtherSide
  <1>2. /\ sent \in [Side -> [Conns -> Seq(Load)]] /\ Made(t, c) \in Nat
        /\ source \in 1 .. Made(t, c) /\ load = sent[t][c][source]
        /\ HasLink(t, c) => source < Made(t, c)
    BY <1>1, RecordedTypes DEF HistoryGrows, HasClosed
  <1>3. /\ Made(t, c)' >= Made(t, c) /\ Made(t, c)' \in Nat
        /\ HasLink(t, c)' => HasLink(t, c) \/ Made(t, c)' > Made(t, c)
        /\ sent'[t][c][source] = sent[t][c][source]
    BY <1>1, <1>2 DEF HistoryGrows, Made
  <1> QED
    BY <1>2, <1>3 DEF HasClosed

-----------------------------------------------------------------------------
(* What a step adds to the packets.                                        *)

\* OnCacheResend changes ages only, and keeps nothing past its deadline.
LEMMA AgedPackets ==
  ASSUME NEW S, NEW cache \in SUBSET [packet : S, age : 0 .. DeadlineTicks]
  PROVE  /\ Aged(cache) \in SUBSET [packet : S, age : 0 .. DeadlineTicks]
         /\ \A e \in Aged(cache) : \E d \in cache : e.packet = d.packet
  <1> SUFFICES ASSUME NEW e \in Aged(cache)
               PROVE  /\ e \in [packet : S, age : 0 .. DeadlineTicks]
                      /\ \E d \in cache : e.packet = d.packet
    OBVIOUS
  <1>1. PICK d \in cache : d.age < DeadlineTicks /\ e = [d EXCEPT !.age = @ + 1]
    BY DEF Aged
  <1> QED
    BY <1>1, DeadlineAssumption

LEMMA AgedCreates ==
  ASSUME NEW S, NEW cache \in SUBSET [conn : S, age : 0 .. DeadlineTicks]
  PROVE  /\ Aged(cache) \in SUBSET [conn : S, age : 0 .. DeadlineTicks]
         /\ \A e \in Aged(cache) : \E d \in cache : e.conn = d.conn
  <1> SUFFICES ASSUME NEW e \in Aged(cache)
               PROVE  /\ e \in [conn : S, age : 0 .. DeadlineTicks]
                      /\ \E d \in cache : e.conn = d.conn
    OBVIOUS
  <1>1. PICK d \in cache : d.age < DeadlineTicks /\ e = [d EXCEPT !.age = @ + 1]
    BY DEF Aged
  <1> QED
    BY <1>1, DeadlineAssumption

\* The packet that SendCmdData makes.
LinkPacket(s, c, cmd) ==
  Packet(Other(s), cmd, c, out_links[s][c].next_index_to_trunk, out_links[s][c].source,
         HasRead(s, c))

\* A packet without an index; the client creates only what it has made.
NewPlain(p) ==
  \E to \in Side, cmd \in {"create", "ack_create", "live"}, c \in Conns :
    p = Plain(to, cmd, c) /\ (cmd = "create" => Made("client", c)' > 0)

\* A packet of a link, of the chunk it reads in this step or of its end.
NewIndexed(p) ==
  \E s \in Side, c \in Conns, cmd \in {"data", "release"} :
    /\ HasLink(s, c) /\ p = LinkPacket(s, c, cmd)
    /\ out_links[s][c].next_index_to_trunk # kBadPacketIndex
    /\ Made(s, c)' = Made(s, c)
    /\ cmd = "data" => HasRead(s, c)' = HasRead(s, c) + 1
    /\ cmd = "release" => ~HasLink(s, c)' /\ HasRead(s, c)' = HasRead(s, c)

LEMMA CacheType ==
  ASSUME TypeOK
  PROVE  /\ packet_data_cache \in [Side -> SUBSET [packet : PacketType, age : 0 .. DeadlineTicks]]
         /\ connect_cache \in SUBSET [conn : Conns, age : 0 .. DeadlineTicks]
         /\ network \subseteq PacketType
  <1> HIDE DEF PacketType
  <1> QED
    BY DEF TypeOK

\* No packet comes from nowhere.
LEMMA PacketsFromCaches ==
  ASSUME NEW q, NEW net, NEW caches,
         q \in net \union {e.packet : e \in caches["client"]} \union {e.packet : e \in caches["server"]}
  PROVE  q \in net \/ \E s \in Side : \E e \in caches[s] : q = e.packet
  BY DEF Side

LEMMA SendCmdDataPackets ==
  ASSUME TypeOK, NEW s \in Side, NEW c \in Conns, NEW cmd \in {"data", "release"},
         SendCmdData(s, c, cmd), NEW q \in Packets'
  PROVE  \/ q \in Packets
         \/ q = LinkPacket(s, c, cmd) /\ out_links[s][c].next_index_to_trunk # kBadPacketIndex
  <1>1. CASE out_links[s][c].next_index_to_trunk = kBadPacketIndex
    BY <1>1 DEF SendCmdData, Packets
  <1>2. CASE out_links[s][c].next_index_to_trunk # kBadPacketIndex
    <2> DEFINE p == LinkPacket(s, c, cmd)
    <2>1. /\ packet_data_cache' =
               [packet_data_cache EXCEPT ![s] = @ \union {[packet |-> p, age |-> 0]}]
          /\ network' = network \union Routed(s, {p}, clients_link)
      BY <1>2 DEF SendCmdData, Emit, LinkPacket
    <2>2. Routed(s, {p}, clients_link) \subseteq {p}
      BY DEF Routed
    <2>3. q \in network' \/ \E t \in Side : \E e \in packet_data_cache'[t] : q = e.packet
      BY PacketsFromCaches DEF Packets
    <2> HIDE DEF p
    <2>4. CASE q \in network'
      BY <2>1, <2>2, <2>4, <1>2 DEF Packets, p
    <2>5. ASSUME NEW t \in Side, NEW e \in packet_data_cache'[t], q = e.packet
          PROVE  q \in Packets \/ q = p
      <3>1. e \in packet_data_cache[t] \/ e = [packet |-> p, age |-> 0]
        BY <2>1, CacheType
      <3>2. e \in packet_data_cache[t] => q \in Packets
        BY <2>5 DEF Packets, Side
      <3> QED
        BY <2>5, <3>1, <3>2
    <2> QED
      BY <1>2, <2>3, <2>4, <2>5 DEF p
  <1> QED
    BY <1>1, <1>2

-----------------------------------------------------------------------------
(* Every step opens a link, reads a chunk, gives one to a peer, stores one *)
(* that came in, or leaves all links at their places.                      *)

\* AddConnect, and ProcessConnectData when it makes a link.
Opens(s, c) ==
  /\ ~HasLink(s, c) /\ Made(s, c) + 1 \in Source
  /\ IF s = "client" THEN Made(s, c) = 0 ELSE Made("client", c) > 0
  /\ OnlyLink(s, c, NewLink(Made(s, c) + 1))
  /\ sent' = [sent EXCEPT ![s][c] = Append(@, 0)]
  /\ delivered' = [delivered EXCEPT ![s][c] = <<>>]

\* SendData
Reads(s, c) ==
  LET l == out_links[s][c]
  IN  /\ HasLink(s, c) /\ HasRead(s, c) < NumChunks
      /\ OnlyLink(s, c, [l EXCEPT !.next_index_to_trunk = Advanced(l)])
      /\ sent' = [sent EXCEPT ![s][c][Made(s, c)] = @ + 1]
      /\ UNCHANGED delivered

\* Deliver
Gives(s, c) ==
  LET l == out_links[s][c]
  IN  /\ HasLink(s, c)
      /\ \E k \in l.chunks :
           /\ k.index = l.next
           /\ OnlyLink(s, c, [l EXCEPT !.next = @ + 1, !.chunks = @ \ {k}])
           /\ delivered' = [delivered EXCEPT ![s][c] =
                              Append(@, [source |-> k.source, load |-> k.load])]
      /\ UNCHANGED sent

\* ProcessDataToOutlink for a link that is known and takes the packet.
Stores(s, p) ==
  /\ p \in network /\ p.to = s /\ p.cmd = "data" /\ HasLink(s, p.conn)
  /\ OnlyLink(s, p.conn, Received(out_links[s][p.conn], p))
  /\ UNCHANGED <<sent, delivered>>

\* All the others.
Passes == Quiet /\ UNCHANGED <<sent, delivered>>

LEMMA LinkTypes ==
  ASSUME TypeOK
  PROVE  /\ DOMAIN out_links = Side
         /\ \A s \in Side : /\ DOMAIN out_links[s] \subseteq Conns
                            /\ \A c \in DOMAIN out_links[s] : out_links[s][c] \in LinkType
  BY DEF TypeOK

LEMMA AddConnectOpens ==
  ASSUME IInv, NEW c \in Conns, AddConnect(c)
  PROVE  Opens("client", c)
  <1>1. "client" \in Side /\ Made("client", c) = 0 /\ Made("client", c) + 1 = 1
    BY DEF Side, AddConnect
  <1>2. ~HasLink("client", c)
    BY <1>1 DEF IInv, LinkInv, HasLink
  <1>3. OnlyLink("client", c, NewLink(1))
    BY <1>1, LinkTypes, WithLinkIs DEF AddConnect, IInv
  <1>4. delivered["client"][c] = <<>>
    BY <1>1 DEF IInv
  <1>5. delivered \in [Side -> [Conns -> Seq([source : Source, load : Load])]]
    BY DEF IInv, TypeOK
  <1>6. delivered = [delivered EXCEPT !["client"][c] = <<>>]
    BY <1>1, <1>4, <1>5
  <1>7. 1 \in Source
    BY CreatedAssumption DEF Source
  <1> QED
    BY <1>1, <1>2, <1>3, <1>6, <1>7 DEF Opens, AddConnect

LEMMA ProcessConnectDataSteps ==
  ASSUME IInv, NEW p \in network, ProcessConnectData(p)
  PROVE  Opens("server", p.conn) \/ Passes
  <1>1. CASE UNCHANGED <<out_links, sent, delivered>>
    BY <1>1, LinkTypes, QuietAll DEF IInv, Passes
  <1>2. CASE ~UNCHANGED <<out_links, sent, delivered>>
    <2> DEFINE c == p.conn
    <2>1. /\ "server" \in Side /\ p.cmd = "create" /\ p \in Packets
          /\ out_links' = WithLink("server", c, NewLink(Made("server", c) + 1))
          /\ sent' = [sent EXCEPT !["server"][c] = Append(@, 0)]
          /\ delivered' = [delivered EXCEPT !["server"][c] = <<>>]
          /\ MakesLink(c)
      BY <1>2 DEF ProcessConnectData, Receive, Side, Packets
    <2>2. c \in Conns
      BY CacheType DEF IInv, PacketType
    <2>3. Made("client", c) > 0
      BY <2>1 DEF IInv, PacketInv
    <2>4. ~HasLink("server", c) /\ Made("server", c) + 1 \in Source
      BY <2>1, <2>2, RecordedTypes, CreatedAssumption DEF MakesLink, Source, IInv, TypeOK
    <2>5. OnlyLink("server", c, NewLink(Made("server", c) + 1))
      BY <2>1, LinkTypes, WithLinkIs DEF IInv
    <2> QED
      BY <2>1, <2>3, <2>4, <2>5 DEF Opens
  <1> QED
    BY <1>1, <1>2

LEMMA SendDataReads ==
  ASSUME IInv, NEW s \in Side, NEW c \in Conns, SendData(s, c)
  PROVE  Reads(s, c)
  <1> DEFINE l == out_links[s][c]
  <1>1. /\ HasLink(s, c) /\ HasRead(s, c) < NumChunks
        /\ out_links' = [out_links EXCEPT ![s][c] =
                           [l EXCEPT !.next_index_to_trunk = Advanced(l)]]
        /\ sent' = [sent EXCEPT ![s][c][Made(s, c)] = @ + 1]
        /\ UNCHANGED delivered
    BY DEF SendData
  <1>2. OnlyLink(s, c, [l EXCEPT !.next_index_to_trunk = Advanced(l)])
    BY <1>1, LinkTypes, LinkBecomes DEF IInv
  <1> QED
    BY <1>1, <1>2 DEF Reads

LEMMA DeliverGives ==
  ASSUME IInv, NEW s \in Side, NEW c \in Conns, Deliver(s, c)
  PROVE  Gives(s, c)
  <1> DEFINE l == out_links[s][c]
  <1>1. HasLink(s, c) /\ UNCHANGED sent
    BY DEF Deliver
  <1>2. PICK k \in l.chunks :
          /\ k.index = l.next
          /\ out_links' = [out_links EXCEPT ![s][c].next = @ + 1, ![s][c].chunks = @ \ {k}]
          /\ delivered' = [delivered EXCEPT ![s][c] =
                             Append(@, [source |-> k.source, load |-> k.load])]
    BY DEF Deliver
  <1>3. l \in LinkType /\ DOMAIN out_links = Side
    BY <1>1, LinkTypes DEF IInv, HasLink
  <1>4. out_links' = [out_links EXCEPT ![s][c] = [l EXCEPT !.next = @ + 1, !.chunks = @ \ {k}]]
    BY <1>1, <1>2, <1>3 DEF HasLink
  <1>5. OnlyLink(s, c, [l EXCEPT !.next = @ + 1, !.chunks = @ \ {k}])
    BY <1>1, <1>3, <1>4, LinkBecomes
  <1> QED
    BY <1>1, <1>2, <1>5 DEF Gives

LEMMA CloseConnectPasses ==
  ASSUME IInv, NEW s \in Side, NEW c \in Conns, CloseConnect(s, c)
  PROVE  Passes
  <1> DEFINE links == [d \in DOMAIN out_links[s] \ {c} |-> out_links[s][d]]
  <1>1. out_links' = [out_links EXCEPT ![s] = links] /\ UNCHANGED <<sent, delivered>>
    BY DEF CloseConnect, WithoutLink
  <1>2. /\ DOMAIN links \subseteq DOMAIN out_links[s]
        /\ \A d \in DOMAIN links : Rests(s, d, links[d])
    BY LinkTypes, SameRests DEF IInv
  <1> HIDE DEF links
  <1>3. Quiet
    BY <1>1, <1>2, LinkTypes, QuietSide DEF IInv
  <1> QED
    BY <1>1, <1>3 DEF Passes

LEMMA AllRemovedPasses ==
  ASSUME IInv, NEW s \in Side, out_links' = [out_links EXCEPT ![s] = [c \in {} |-> NewLink(0)]]
  PROVE  Quiet
  <1> DEFINE links == [c \in {} |-> NewLink(0)]
  <1>1. DOMAIN links = {}
    OBVIOUS
  <1>2. out_links' = [out_links EXCEPT ![s] = links]
    OBVIOUS
  <1> HIDE DEF links
  <1> QED
    BY <1>1, <1>2, LinkTypes, QuietSide DEF IInv

LEMMA IndexedPacket ==
  ASSUME IInv, NEW p \in network
  PROVE  /\ p.to \in Side /\ p.conn \in Conns
         /\ p.cmd \in {"data", "release"} => ChunkOf(p) \in Chunk /\ p.index \in Index
  <1>1. p \in PacketType /\ PacketInv(p)
    BY CacheType DEF IInv, Packets
  <1> QED
    BY <1>1 DEF PacketType, PacketInv, ChunkOf, Chunk, Numbered

LEMMA ProcessDataSteps ==
  ASSUME IInv, NEW s \in Side, NEW p \in network, ProcessDataToOutlink(s, p)
  PROVE  Stores(s, p) \/ Passes
  <1>1. p.to = s /\ p.cmd = "data" /\ UNCHANGED <<sent, delivered>>
    BY DEF ProcessDataToOutlink, Receive
  <1>2. CASE UNCHANGED out_links
    BY <1>1, <1>2, LinkTypes, QuietAll DEF IInv, Passes
  <1>3. CASE out_links' = [out_links EXCEPT ![s] = [c \in {} |-> NewLink(0)]]
    BY <1>1, <1>3, AllRemovedPasses DEF Passes
  <1>4. CASE /\ HasLink(s, p.conn)
             /\ out_links' = [out_links EXCEPT ![s][p.conn] = Received(@, p)]
    <2>1. OnlyLink(s, p.conn, Received(out_links[s][p.conn], p))
      BY <1>4, LinkTypes, LinkBecomes DEF IInv
    <2> QED
      BY <1>1, <1>4, <2>1 DEF Stores
  <1> QED
    BY <1>2, <1>3, <1>4 DEF ProcessDataToOutlink

LEMMA ProcessReleasePasses ==
  ASSUME IInv, NEW s \in Side, NEW p \in network, ProcessReleaseConnect(s, p)
  PROVE  Passes
  <1>1. p.to = s /\ p.cmd = "release" /\ UNCHANGED <<sent, delivered>>
    BY DEF ProcessReleaseConnect, Receive
  <1>2. CASE ~HasLink(s, p.conn)
    BY <1>1, <1>2, LinkTypes, QuietAll DEF ProcessReleaseConnect, IInv, Passes
  <1>3. CASE HasLink(s, p.conn)
    <2> DEFINE l == out_links[s][p.conn]
               m == Stopped(l, p.index)
    <2>1. /\ l \in LinkType /\ l.next <= kBadPacketIndex /\ p.index \in Index
          /\ DOMAIN out_links = Side
      BY <1>1, <1>3, LinkTypes, IndexedPacket DEF IInv, LinkInv, HasLink
    <2>2. /\ Stays(l, m) /\ m.dead = l.dead
          /\ m.stop = IF p.index <= l.next THEN l.next ELSE p.index
      BY <2>1, StoppedStays
    <2>3. Rests(s, p.conn, m)
      BY <1>1, <2>2 DEF Rests, StopMoves
    <2>4. OnlyLink(s, p.conn, m)
      BY <1>3, <2>1, LinkBecomes DEF ProcessReleaseConnect
    <2>5. Quiet
      BY <1>3, <2>3, <2>4, LinkTypes, QuietLink DEF IInv
    <2> QED
      BY <1>1, <2>5 DEF Passes
  <1> QED
    BY <1>2, <1>3

LEMMA ProcessLivePasses ==
  ASSUME IInv, NEW s \in Side, NEW p \in network, ProcessLive(s, p)
  PROVE  Passes
  <1>1. UNCHANGED <<sent, delivered>>
    BY DEF ProcessLive
  <1>2. CASE ~HasLink(s, p.conn)
    BY <1>1, <1>2, LinkTypes, QuietAll DEF ProcessLive, IInv, Passes
  <1>3. CASE HasLink(s, p.conn)
    <2> DEFINE l == out_links[s][p.conn]
               m == [l EXCEPT !.silence = 0]
    <2>1. l \in LinkType /\ DOMAIN out_links = Side
      BY <1>3, LinkTypes DEF IInv, HasLink
    <2>2. Rests(s, p.conn, m)
      BY <2>1, DeadAssumption DEF Rests, Stays, StopMoves, LinkType
    <2>3. OnlyLink(s, p.conn, m)
      BY <1>3, <2>1, LinkBecomes DEF ProcessLive
    <2>4. Quiet
      BY <1>3, <2>2, <2>3, LinkTypes, QuietLink DEF IInv
    <2> QED
      BY <1>1, <2>4 DEF Passes
  <1> QED
    BY <1>2, <1>3

LEMMA UpdatePasses ==
  ASSUME IInv, NEW s \in Side, NEW due \in BOOLEAN, Update(s, due)
  PROVE  Passes
  <1> DEFINE links == UpdatedLinks(s, due)
  <1>1. out_links' = [out_links EXCEPT ![s] = links] /\ UNCHANGED <<sent, delivered>>
    BY DEF Update
  <1>2. DOMAIN links = DOMAIN out_links[s]
    BY DEF UpdatedLinks
  <1>3. ASSUME NEW d \in DOMAIN out_links[s] PROVE Rests(s, d, links[d])
    <2>1. out_links[s][d] \in LinkType /\ out_links[s][d].next <= kBadPacketIndex
      BY LinkTypes DEF IInv, LinkInv
    <2>2. CASE due
      <3>1. links[d] = Updated(out_links[s][d])
        BY <2>2 DEF UpdatedLinks
      <3> HIDE DEF links
      <3> QED
        BY <2>1, <3>1, UpdatedStays DEF Rests, StopMoves
    <2>3. CASE ~due
      <3>1. links[d] = out_links[s][d]
        BY <2>3 DEF UpdatedLinks
      <3> QED
        BY <2>1, <3>1, SameRests
    <2> QED
      BY <2>2, <2>3
  <1> HIDE DEF links
  <1>4. Quiet
    BY <1>1, <1>2, <1>3, LinkTypes, QuietSide DEF IInv
  <1> QED
    BY <1>1, <1>4 DEF Passes

\* The five kinds of steps.
LEMMA EveryStep ==
  ASSUME IInv, [Next]_vars
  PROVE  \/ \E s \in Side, c \in Conns : Opens(s, c) \/ Reads(s, c) \/ Gives(s, c)
         \/ \E s \in Side : \E p \in network : Stores(s, p)
         \/ Passes
  <1>1. CASE \E c \in Conns : AddConnect(c)
    BY <1>1, AddConnectOpens DEF Side
  <1>2. CASE \E s \in Side, c \in Conns : SendData(s, c)
    BY <1>2, SendDataReads
  <1>3. CASE \E s \in Side, c \in Conns : Deliver(s, c)
    BY <1>3, DeliverGives
  <1>4. CASE \E s \in Side, c \in Conns : CloseConnect(s, c)
    BY <1>4, CloseConnectPasses
  <1>5. CASE \E p \in network : ProcessConnectData(p)
    BY <1>5, ProcessConnectDataSteps, IndexedPacket DEF Side
  <1>6. CASE \E s \in Side : \E p \in network : ProcessDataToOutlink(s, p)
    BY <1>6, ProcessDataSteps
  <1>7. CASE \E s \in Side : \E p \in network : ProcessReleaseConnect(s, p)
    BY <1>7, ProcessReleasePasses
  <1>8. CASE \E s \in Side : \E p \in network : ProcessLive(s, p)
    BY <1>8, ProcessLivePasses
  <1>9. CASE \E s \in Side, due \in BOOLEAN : Update(s, due)
    BY <1>9, UpdatePasses
  <1>10. CASE Restart
    BY <1>10, AllRemovedPasses DEF Restart, Passes, Side
  <1>11. CASE UNCHANGED <<out_links, sent, delivered>>
    BY <1>11, LinkTypes, QuietAll DEF IInv, Passes
  <1>12. CASE Next
    BY <1>1, <1>2, <1>3, <1>4, <1>5, <1>6, <1>7, <1>8, <1>9, <1>10, <1>11, <1>12
       DEF Next, ProcessTrunkData, ProcessAckConnectData, Lose
  <1> QED
    BY <1>11, <1>12 DEF vars

-----------------------------------------------------------------------------
(* The inductive invariant, one part after the other.                      *)

LEMMA LinkFacts ==
  ASSUME IInv, NEW s \in Side, NEW c, HasLink(s, c)
  PROVE  /\ c \in Conns /\ out_links[s][c] \in LinkType /\ LinkInv(s, c)
         /\ Made(s, c) \in Nat /\ Made(s, c) > 0 /\ HasRead(s, c) \in Load
  <1>1. c \in Conns /\ out_links[s][c] \in LinkType /\ LinkInv(s, c)
    BY LinkTypes DEF IInv, HasLink
  <1>2. sent \in [Side -> [Conns -> Seq(Load)]]
    BY DEF IInv, TypeOK
  <1>3. Made(s, c) \in Nat /\ Made(s, c) > 0
    BY <1>1, <1>2, RecordedTypes DEF LinkInv
  <1> QED
    BY <1>1, <1>2, <1>3, RecordedTypes DEF HasRead

LEMMA OpensGrows ==
  ASSUME IInv, NEW s \in Side, NEW c \in Conns, Opens(s, c)
  PROVE  HistoryGrows /\ Made(s, c)' = Made(s, c) + 1 /\ HasRead(s, c)' = 0
  <1>1. sent \in [Side -> [Conns -> Seq(Load)]]
    BY DEF IInv, TypeOK
  <1> QED
    BY <1>1, LinkIsRecorded, NewLinkGrows DEF Opens

LEMMA ReadsGrows ==
  ASSUME IInv, NEW s \in Side, NEW c \in Conns, Reads(s, c)
  PROVE  HistoryGrows /\ Made(s, c)' = Made(s, c) /\ HasRead(s, c)' = HasRead(s, c) + 1
  <1>1. sent \in [Side -> [Conns -> Seq(Load)]]
    BY DEF IInv, TypeOK
  <1>2. HasLink(s, c) /\ Made(s, c) > 0
    BY LinkFacts DEF Reads
  <1> QED
    BY <1>1, <1>2, ChunkIsRecorded, ReadGrows DEF Reads

LEMMA StepGrows ==
  ASSUME IInv, [Next]_vars
  PROVE  HistoryGrows
  <1>1. ASSUME NEW s \in Side, NEW c \in Conns, Opens(s, c) PROVE HistoryGrows
    BY <1>1, OpensGrows
  <1>2. ASSUME NEW s \in Side, NEW c \in Conns, Reads(s, c) PROVE HistoryGrows
    BY <1>2, ReadsGrows
  <1>3. sent \in [Side -> [Conns -> Seq(Load)]]
    BY DEF IInv, TypeOK
  <1>4. ASSUME NEW s \in Side, NEW c, HasLink(s, c), NEW l, OnlyLink(s, c, l)
        PROVE  \A t \in Side, d \in Conns : HasLink(t, d)' => HasLink(t, d)
    BY <1>4 DEF OnlyLink, HasLink
  <1>5. ASSUME NEW s \in Side, NEW c \in Conns, Gives(s, c) PROVE HistoryGrows
    BY <1>3, <1>4, <1>5, HistoryStays DEF Gives
  <1>6. ASSUME NEW s \in Side, NEW p \in network, Stores(s, p) PROVE HistoryGrows
    BY <1>3, <1>4, <1>6, HistoryStays DEF Stores
  <1>7. ASSUME Passes PROVE HistoryGrows
    BY <1>3, <1>7, HistoryStays DEF Passes, Quiet, HasLink
  <1> QED
    BY <1>1, <1>2, <1>5, <1>6, <1>7, EveryStep

\* A chunk that a link holds keeps its number, and was read.
LEMMA ChunkStays ==
  ASSUME HistoryGrows, NEW s \in Side, NEW c \in Conns, NEW k \in Chunk, ChunkInv(s, c, k)
  PROVE  ChunkInv(s, c, k)'
  <1>1. k.load \in Int
    BY DEF Chunk, Load
  <1> QED
    BY <1>1, WasReadStays DEF ChunkInv, Numbered

\* A link keeps its part of the invariant while it stays at its place, and nothing
\* is read by it or given to its peer.
LEMMA LinkInvStays ==
  ASSUME IInv, HistoryGrows, NEW s \in Side, NEW c \in Conns, HasLink(s, c),
         Stays(out_links[s][c], out_links'[s][c]),
         sent'[s][c] = sent[s][c], delivered'[s][c] = delivered[s][c]
  PROVE  LinkInv(s, c)'
  <1> DEFINE l == out_links[s][c]
             m == out_links'[s][c]
  <1>1. LinkInv(s, c) /\ l \in LinkType
    BY LinkFacts
  <1>2. Made(s, c)' = Made(s, c) /\ HasRead(s, c)' = HasRead(s, c)
    BY DEF Made, HasRead
  <1>3. m.source = l.source /\ m.next_index_to_trunk = l.next_index_to_trunk /\ m.next = l.next
    BY DEF Stays
  <1>4. ASSUME NEW k \in m.chunks PROVE ChunkInv(s, c, k)'
    <2>1. k \in l.chunks /\ k \in Chunk
      BY <1>1 DEF Stays, LinkType, Chunk
    <2> QED
      BY <1>1, <2>1, ChunkStays DEF LinkInv
  <1> HIDE DEF l, m
  <1>5. /\ Made(s, c) > 0 /\ l.source = Made(s, c)
        /\ HasRead(s, c) <= MaxIndex => l.next_index_to_trunk = HasRead(s, c)
        /\ l.next = Len(delivered[s][c]) /\ l.next <= kBadPacketIndex
    BY <1>1 DEF LinkInv, l
  <1>6. /\ Made(s, c)' > 0 /\ m.source = Made(s, c)'
        /\ HasRead(s, c)' <= MaxIndex => m.next_index_to_trunk = HasRead(s, c)'
        /\ m.next = Len(delivered'[s][c]) /\ m.next <= kBadPacketIndex
    BY <1>2, <1>3, <1>5
  <1> QED
    BY <1>4, <1>6 DEF LinkInv, kBadPacketIndex, m

\* The other links of a step that changes one.
LEMMA OtherLinkSame ==
  ASSUME IInv, NEW s \in Side, NEW c \in Conns, NEW l, OnlyLink(s, c, l),
         NEW t \in Side, NEW d, HasLink(t, d)', ~(t = s /\ d = c)
  PROVE  HasLink(t, d) /\ d \in Conns /\ out_links'[t][d] = out_links[t][d]
  <1>1. HasLink(t, d) /\ out_links'[t][d] = out_links[t][d]
    BY DEF OnlyLink, HasLink
  <1> QED
    BY <1>1, LinkFacts

LEMMA OtherLinkStays ==
  ASSUME IInv, HistoryGrows, NEW s \in Side, NEW c \in Conns, NEW l, OnlyLink(s, c, l),
         NEW t \in Side, NEW d, HasLink(t, d)', ~(t = s /\ d = c),
         sent'[t][d] = sent[t][d], delivered'[t][d] = delivered[t][d]
  PROVE  LinkInv(t, d)' /\ out_links'[t][d] \in LinkType
  <1>1. HasLink(t, d) /\ out_links'[t][d] = out_links[t][d]
    BY OtherLinkSame
  <1>2. d \in Conns /\ out_links[t][d] \in LinkType
    BY <1>1, LinkFacts
  <1>3. Stays(out_links[t][d], out_links'[t][d])
    BY <1>1, <1>2 DEF Stays
  <1> QED
    BY <1>1, <1>2, <1>3, LinkInvStays

LEMMA OpensKeepsLinkInv ==
  ASSUME IInv, NEW s \in Side, NEW c \in Conns, Opens(s, c), NEW t \in Side, NEW d, HasLink(t, d)'
  PROVE  LinkInv(t, d)' /\ out_links'[t][d] \in LinkType
  <1>1. HistoryGrows /\ Made(s, c)' = Made(s, c) + 1 /\ HasRead(s, c)' = 0
    BY OpensGrows
  <1>2. /\ delivered \in [Side -> [Conns -> Seq([source : Source, load : Load])]]
        /\ sent \in [Side -> [Conns -> Seq(Load)]]
    BY DEF IInv, TypeOK
  <1>3. CASE t = s /\ d = c
    <2> DEFINE m == NewLink(Made(s, c) + 1)
    <2>1. HasLink(s, c)' /\ out_links'[s][c] = m
      BY <1>3 DEF Opens, OnlyLink, HasLink
    <2>2. m \in LinkType
      BY NewLinkType DEF Opens
    <2>3. delivered'[s][c] = <<>>
      BY <1>2 DEF Opens
    <2>4. Made(s, c) \in Nat
      BY <1>2, RecordedTypes
    <2>5. m.source = Made(s, c)' /\ m.next_index_to_trunk = 0 /\ m.next = 0 /\ m.chunks = {}
      BY <1>1 DEF NewLink
    <2> HIDE DEF m
    <2> QED
      BY <1>1, <1>3, <2>1, <2>2, <2>3, <2>4, <2>5, IndexAssumption DEF LinkInv, kBadPacketIndex
  <1>4. CASE ~(t = s /\ d = c)
    <2>1. d \in Conns
      BY <1>4, OtherLinkSame DEF Opens
    <2>2. sent'[t][d] = sent[t][d] /\ delivered'[t][d] = delivered[t][d]
      BY <1>2, <1>4, <2>1 DEF Opens
    <2> QED
      BY <1>1, <1>4, <2>2, OtherLinkStays DEF Opens
  <1> QED
    BY <1>3, <1>4

LEMMA ReadsKeepsLinkInv ==
  ASSUME IInv, NEW s \in Side, NEW c \in Conns, Reads(s, c), NEW t \in Side, NEW d, HasLink(t, d)'
  PROVE  LinkInv(t, d)' /\ out_links'[t][d] \in LinkType
  <1>1. HistoryGrows /\ Made(s, c)' = Made(s, c) /\ HasRead(s, c)' = HasRead(s, c) + 1
    BY ReadsGrows
  <1>2. sent \in [Side -> [Conns -> Seq(Load)]] /\ UNCHANGED delivered
    BY DEF IInv, TypeOK, Reads
  <1>3. CASE t = s /\ d = c
    <2> DEFINE l == out_links[s][c]
               m == [l EXCEPT !.next_index_to_trunk = Advanced(l)]
    <2>1. /\ l \in LinkType /\ LinkInv(s, c) /\ HasRead(s, c) \in Nat
          /\ out_links'[s][c] = m
      BY <1>3, LinkFacts DEF Reads, OnlyLink, HasLink, Load
    <2>2. /\ m \in LinkType /\ m.next_index_to_trunk = Advanced(l)
          /\ m.source = l.source /\ m.next = l.next /\ m.chunks = l.chunks
      BY <2>1, IndexAdvances DEF LinkType
    <2>3. HasRead(s, c) + 1 <= MaxIndex => Advanced(l) = HasRead(s, c) + 1
      BY <2>1, IndexAdvances, IndexAssumption DEF LinkInv
    <2>4. ASSUME NEW k \in l.chunks PROVE ChunkInv(s, c, k)'
      <3>1. k \in Chunk /\ ChunkInv(s, c, k)
        BY <2>1 DEF LinkType, Chunk, LinkInv
      <3> QED
        BY <1>1, <3>1, ChunkStays
    <2> HIDE DEF m
    <2>5. /\ Made(s, c) > 0 /\ l.source = Made(s, c) /\ l.next = Len(delivered[s][c])
          /\ l.next <= kBadPacketIndex
      BY <2>1 DEF LinkInv
    <2> HIDE DEF l
    <2>6. /\ Made(s, c)' > 0 /\ m.source = Made(s, c)'
          /\ HasRead(s, c)' <= MaxIndex => m.next_index_to_trunk = HasRead(s, c)'
          /\ m.next = Len(delivered'[s][c]) /\ m.next <= kBadPacketIndex
      BY <1>1, <1>2, <2>2, <2>3, <2>5
    <2> QED
      BY <1>3, <2>1, <2>2, <2>4, <2>6 DEF LinkInv, kBadPacketIndex
  <1>4. CASE ~(t = s /\ d = c)
    <2>1. d \in Conns
      BY <1>4, OtherLinkSame DEF Reads
    <2>2. sent'[t][d] = sent[t][d] /\ delivered'[t][d] = delivered[t][d]
      BY <1>2, <1>4, <2>1 DEF Reads
    <2> QED
      BY <1>1, <1>4, <2>2, OtherLinkStays DEF Reads
  <1> QED
    BY <1>3, <1>4

LEMMA GivesKeepsLinkInv ==
  ASSUME IInv, HistoryGrows, NEW s \in Side, NEW c \in Conns, Gives(s, c),
         NEW t \in Side, NEW d, HasLink(t, d)'
  PROVE  LinkInv(t, d)' /\ out_links'[t][d] \in LinkType
  <1>1. PICK k \in out_links[s][c].chunks :
          /\ k.index = out_links[s][c].next
          /\ OnlyLink(s, c, [out_links[s][c] EXCEPT !.next = @ + 1, !.chunks = @ \ {k}])
          /\ delivered' = [delivered EXCEPT ![s][c] =
                             Append(@, [source |-> k.source, load |-> k.load])]
    BY DEF Gives
  <1>2. /\ delivered \in [Side -> [Conns -> Seq([source : Source, load : Load])]]
        /\ UNCHANGED sent
    BY DEF IInv, TypeOK, Gives
  <1>3. CASE t = s /\ d = c
    <2> DEFINE l == out_links[s][c]
               m == [l EXCEPT !.next = @ + 1, !.chunks = @ \ {k}]
    <2>1. l \in LinkType /\ LinkInv(s, c) /\ out_links'[s][c] = m
      BY <1>1, <1>3, LinkFacts DEF Gives, OnlyLink, HasLink
    <2>2. k \in Chunk /\ ChunkInv(s, c, k)
      BY <1>1, <2>1 DEF LinkType, Chunk, LinkInv
    <2>3. l.next \in Nat /\ l.next + 1 <= kBadPacketIndex
      BY <1>1, <2>1, <2>2, IndexAssumption
         DEF LinkType, LinkInv, ChunkInv, Numbered, kBadPacketIndex
    <2>4. /\ m \in LinkType /\ m.next_index_to_trunk = l.next_index_to_trunk
          /\ m.source = l.source /\ m.next = l.next + 1 /\ m.chunks = l.chunks \ {k}
      BY <2>1, <2>3, GivenLink
    <2>5. Len(delivered'[s][c]) = Len(delivered[s][c]) + 1
      <3>1. [source |-> k.source, load |-> k.load] \in [source : Source, load : Load]
        BY <2>2 DEF Chunk
      <3>2. delivered[s][c] \in Seq([source : Source, load : Load])
        BY <1>2
      <3>3. delivered'[s][c] = Append(delivered[s][c], [source |-> k.source, load |-> k.load])
        BY <1>1, <1>2
      <3> QED
        BY <3>1, <3>2, <3>3, AppendProperties
    <2>6. ASSUME NEW j \in m.chunks PROVE ChunkInv(s, c, j)'
      <3>1. j \in Chunk /\ ChunkInv(s, c, j)
        BY <2>1, <2>4 DEF LinkType, Chunk, LinkInv
      <3> QED
        BY <3>1, ChunkStays
    <2>7. Made(s, c)' = Made(s, c) /\ HasRead(s, c)' = HasRead(s, c)
      BY <1>2 DEF Made, HasRead
    <2> HIDE DEF m
    <2>8. /\ Made(s, c) > 0 /\ l.source = Made(s, c) /\ l.next = Len(delivered[s][c])
          /\ HasRead(s, c) <= MaxIndex => l.next_index_to_trunk = HasRead(s, c)
      BY <2>1 DEF LinkInv
    <2> HIDE DEF l
    <2>9. /\ Made(s, c)' > 0 /\ m.source = Made(s, c)'
          /\ HasRead(s, c)' <= MaxIndex => m.next_index_to_trunk = HasRead(s, c)'
          /\ m.next = Len(delivered'[s][c]) /\ m.next <= kBadPacketIndex
      BY <2>3, <2>4, <2>5, <2>7, <2>8
    <2> QED
      BY <1>3, <2>1, <2>4, <2>6, <2>9 DEF LinkInv, kBadPacketIndex
  <1>4. CASE ~(t = s /\ d = c)
    <2>1. d \in Conns
      BY <1>1, <1>4, OtherLinkSame
    <2>2. sent'[t][d] = sent[t][d] /\ delivered'[t][d] = delivered[t][d]
      BY <1>1, <1>2, <1>4, <2>1
    <2> QED
      BY <1>1, <1>4, <2>2, OtherLinkStays
  <1> QED
    BY <1>3, <1>4

LEMMA StoresKeepsLinkInv ==
  ASSUME IInv, HistoryGrows, NEW s \in Side, NEW p \in network, Stores(s, p),
         NEW t \in Side, NEW d, HasLink(t, d)'
  PROVE  LinkInv(t, d)' /\ out_links'[t][d] \in LinkType
  <1> DEFINE c == p.conn
             l == out_links[s][c]
             m == Received(l, p)
  <1>1. UNCHANGED <<sent, delivered>> /\ c \in Conns /\ OnlyLink(s, c, m)
    BY IndexedPacket DEF Stores
  <1>2. CASE t = s /\ d = c
    <2>1. l \in LinkType /\ LinkInv(s, c) /\ out_links'[s][c] = m
      BY <1>1, <1>2, LinkFacts DEF Stores, OnlyLink, HasLink
    <2>2. ChunkOf(p) \in Chunk /\ ChunkInv(s, c, ChunkOf(p))
      BY IndexedPacket DEF Stores, ChunkInv, IInv, PacketInv, Packets, ChunkOf
    <2>3. /\ m \in LinkType /\ m = [l EXCEPT !.chunks = m.chunks]
          /\ m.chunks \subseteq l.chunks \union {ChunkOf(p)}
      BY <2>1, <2>2, ReceivedAddsChunk
    <2>4. ASSUME NEW k \in m.chunks PROVE ChunkInv(s, c, k)'
      <3>1. k \in Chunk /\ ChunkInv(s, c, k)
        BY <2>1, <2>2, <2>3 DEF LinkType, Chunk, LinkInv
      <3> QED
        BY <1>1, <3>1, ChunkStays
    <2> HIDE DEF m
    <2>5. /\ m.source = l.source /\ m.next_index_to_trunk = l.next_index_to_trunk
          /\ m.next = l.next
      BY <2>1, <2>3 DEF LinkType
    <2>6. Made(s, c)' = Made(s, c) /\ HasRead(s, c)' = HasRead(s, c)
      BY <1>1 DEF Made, HasRead
    <2>7. /\ Made(s, c) > 0 /\ l.source = Made(s, c)
          /\ HasRead(s, c) <= MaxIndex => l.next_index_to_trunk = HasRead(s, c)
          /\ l.next = Len(delivered[s][c]) /\ l.next <= kBadPacketIndex
      BY <2>1 DEF LinkInv
    <2> HIDE DEF l
    <2>8. /\ Made(s, c)' > 0 /\ m.source = Made(s, c)'
          /\ HasRead(s, c)' <= MaxIndex => m.next_index_to_trunk = HasRead(s, c)'
          /\ m.next = Len(delivered'[s][c]) /\ m.next <= kBadPacketIndex
      BY <1>1, <2>5, <2>6, <2>7
    <2> QED
      BY <1>2, <2>1, <2>3, <2>4, <2>8 DEF LinkInv, kBadPacketIndex
  <1>3. CASE ~(t = s /\ d = c)
    BY <1>1, <1>3, OtherLinkStays
  <1> QED
    BY <1>2, <1>3

LEMMA LinkInvKept ==
  ASSUME IInv, [Next]_vars, NEW t \in Side, NEW d, HasLink(t, d)'
  PROVE  LinkInv(t, d)' /\ out_links'[t][d] \in LinkType
  <1>1. HistoryGrows
    BY StepGrows
  <1>2. ASSUME Passes PROVE LinkInv(t, d)' /\ out_links'[t][d] \in LinkType
    <2>1. HasLink(t, d) /\ Stays(out_links[t][d], out_links'[t][d])
      BY <1>2 DEF Passes, Quiet, HasLink, Rests
    <2> QED
      BY <1>1, <1>2, <2>1, LinkFacts, LinkInvStays DEF Passes, Stays
  <1> QED
    BY <1>1, <1>2, EveryStep, OpensKeepsLinkInv, ReadsKeepsLinkInv, GivesKeepsLinkInv,
       StoresKeepsLinkInv

\* What was given had been read: it stays so while more is read.
LEMMA GivenStays ==
  ASSUME IInv, HistoryGrows, NEW t \in Side, NEW d \in Conns, delivered'[t][d] = delivered[t][d]
  PROVE  (Made(t, d)' = 0 => delivered'[t][d] = <<>>) /\ GivenInv(t, d)'
  <1>1. (Made(t, d) = 0 => delivered[t][d] = <<>>) /\ GivenInv(t, d)
    BY DEF IInv
  <1>2. /\ Made(t, d)' >= Made(t, d) /\ Made(t, d) \in Nat /\ Made(t, d)' \in Nat
        /\ delivered[t][d] \in Seq([source : Source, load : Load])
    <2>1. /\ sent[t][d] \in Seq(Load) /\ sent'[t][d] \in Seq(Load)
          /\ Made(t, d)' >= Made(t, d)
      BY DEF HistoryGrows
    <2>2. delivered \in [Side -> [Conns -> Seq([source : Source, load : Load])]]
      BY DEF IInv, TypeOK
    <2>3. Made(t, d) \in Nat /\ Made(t, d)' \in Nat
      BY <2>1 DEF Made
    <2>4. delivered[t][d] \in Seq([source : Source, load : Load])
      BY <2>2
    <2> QED
      BY <2>1, <2>3, <2>4
  <1>3. CASE delivered[t][d] = <<>>
    BY <1>3 DEF GivenInv
  <1>4. CASE delivered[t][d] # <<>>
    <2> DEFINE o == Other(t)
    <2>1. PICK source \in 1 .. Made(o, d) : Len(delivered[t][d]) <= sent[o][d][source]
      BY <1>1, <1>4 DEF GivenInv
    <2>2. WasRead(t, d, source, Len(delivered[t][d]) - 1)
      BY <1>2, <2>1, RecordedTypes, OtherSide DEF WasRead, IInv, TypeOK
    <2>3. WasRead(t, d, source, Len(delivered[t][d]) - 1)'
      <3> DEFINE load == Len(delivered[t][d]) - 1
      <3>1. load \in Int /\ Len(delivered'[t][d]) - 1 = load
        BY <1>2
      <3>2. PICK n \in Int : n = load
        BY <3>1
      <3> HIDE DEF load
      <3>3. WasRead(t, d, source, n)
        BY <2>2, <3>2 DEF load
      <3>4. WasRead(t, d, source, n)'
        BY <3>3, WasReadStays
      <3> QED
        BY <3>1, <3>2, <3>4 DEF WasRead
    <2>4. Made(t, d)' # 0
      BY <1>1, <1>2, <1>4
    <2>5. source \in 1 .. Made(o, d)' /\ Len(delivered'[t][d]) - 1 < sent'[o][d][source]
      BY <2>3 DEF WasRead
    <2>6. sent'[o][d][source] \in Int
      <3>1. sent'[o][d] \in Seq(Load)
        BY OtherSide DEF HistoryGrows
      <3>2. sent'[o][d][source] \in Load
        BY <2>5, <3>1, ElementOfSeq DEF Made
      <3> QED
        BY <3>2 DEF Load
    <2>7. Len(delivered'[t][d]) \in Nat
      BY <1>2
    <2> HIDE DEF o
    <2>8. Len(delivered'[t][d]) <= sent'[o][d][source]
      BY <2>5, <2>6, <2>7
    <2> QED
      BY <2>4, <2>5, <2>8 DEF GivenInv, o
  <1> QED
    BY <1>3, <1>4

\* A chunk that is given was read: as the chunk after those given before, unless the
\* index wrapped around, and then more was read than was given.
LEMMA GivesReadChunk ==
  ASSUME IInv, NEW s \in Side, NEW c \in Conns, HasLink(s, c),
         NEW k \in out_links[s][c].chunks, k.index = out_links[s][c].next
  PROVE  /\ k \in Chunk /\ WasRead(s, c, k.source, k.load)
         /\ k.load <= MaxIndex => k.load = Len(delivered[s][c])
         /\ k.load >= Len(delivered[s][c]) /\ Len(delivered[s][c]) \in Nat
  <1> DEFINE l == out_links[s][c]
  <1>1. l \in LinkType /\ LinkInv(s, c)
    BY LinkFacts
  <1>2. k \in Chunk /\ ChunkInv(s, c, k)
    BY <1>1 DEF LinkType, Chunk, LinkInv
  <1>3. l.next \in Nat /\ l.next = Len(delivered[s][c]) /\ l.next <= kBadPacketIndex
    BY <1>1 DEF LinkType, LinkInv
  <1>4. /\ WasRead(s, c, k.source, k.load) /\ k.load \in Int
        /\ k.load <= MaxIndex => k.index = k.load
    BY <1>2 DEF ChunkInv, Numbered, Chunk, Load
  <1> HIDE DEF l
  <1>5. k.index = l.next
    BY DEF l
  <1> QED
    BY <1>2, <1>3, <1>4, <1>5, IndexAssumption DEF kBadPacketIndex

LEMMA GivenKept ==
  ASSUME IInv, [Next]_vars
  PROVE  /\ \A t \in Side, d \in Conns :
              (Made(t, d)' = 0 => delivered'[t][d] = <<>>) /\ GivenInv(t, d)'
         /\ delivered' \in [Side -> [Conns -> Seq([source : Source, load : Load])]]
  <1>1. HistoryGrows
    BY StepGrows
  <1>2. delivered \in [Side -> [Conns -> Seq([source : Source, load : Load])]]
    BY DEF IInv, TypeOK
  <1>3. CASE UNCHANGED delivered
    BY <1>1, <1>2, <1>3, GivenStays
  <1>4. ASSUME NEW s \in Side, NEW c \in Conns, Opens(s, c)
        PROVE  /\ \A t \in Side, d \in Conns :
                    (Made(t, d)' = 0 => delivered'[t][d] = <<>>) /\ GivenInv(t, d)'
               /\ delivered' \in [Side -> [Conns -> Seq([source : Source, load : Load])]]
    <2>1. delivered' = [delivered EXCEPT ![s][c] = <<>>]
      BY <1>4 DEF Opens
    <2>2. ASSUME NEW t \in Side, NEW d \in Conns
          PROVE  delivered'[t][d] = <<>> \/ delivered'[t][d] = delivered[t][d]
      BY <1>2, <2>1
    <2>3. delivered' \in [Side -> [Conns -> Seq([source : Source, load : Load])]]
      <3>1. <<>> \in Seq([source : Source, load : Load])
        OBVIOUS
      <3> QED
        BY <1>2, <2>1, <3>1
    <2> QED
      BY <1>1, <2>2, <2>3, GivenStays DEF GivenInv
  <1>5. ASSUME NEW s \in Side, NEW c \in Conns, Gives(s, c)
        PROVE  /\ \A t \in Side, d \in Conns :
                    (Made(t, d)' = 0 => delivered'[t][d] = <<>>) /\ GivenInv(t, d)'
               /\ delivered' \in [Side -> [Conns -> Seq([source : Source, load : Load])]]
    <2>1. PICK k \in out_links[s][c].chunks :
            /\ k.index = out_links[s][c].next
            /\ delivered' = [delivered EXCEPT ![s][c] =
                               Append(@, [source |-> k.source, load |-> k.load])]
      BY <1>5 DEF Gives
    <2>2. HasLink(s, c) /\ UNCHANGED sent
      BY <1>5 DEF Gives
    <2>3. /\ k \in Chunk /\ WasRead(s, c, k.source, k.load)
          /\ k.load >= Len(delivered[s][c]) /\ Len(delivered[s][c]) \in Nat
      BY <2>1, <2>2, GivesReadChunk
    <2> DEFINE seq == Append(delivered[s][c], [source |-> k.source, load |-> k.load])
    <2>4. seq \in Seq([source : Source, load : Load]) /\ Len(seq) = Len(delivered[s][c]) + 1
      <3>1. [source |-> k.source, load |-> k.load] \in [source : Source, load : Load]
        BY <2>3 DEF Chunk
      <3>2. delivered[s][c] \in Seq([source : Source, load : Load])
        BY <1>2
      <3> QED
        BY <3>1, <3>2, AppendProperties
    <2> HIDE DEF seq
    <2>5. delivered' = [delivered EXCEPT ![s][c] = seq]
      BY <2>1 DEF seq
    <2>6. delivered' \in [Side -> [Conns -> Seq([source : Source, load : Load])]]
      BY <1>2, <2>4, <2>5
    <2>7. ASSUME NEW t \in Side, NEW d \in Conns, ~(t = s /\ d = c)
          PROVE  delivered'[t][d] = delivered[t][d]
      BY <1>2, <2>5, <2>7
    <2>8. delivered'[s][c] = seq
      BY <1>2, <2>5
    <2>9. Made(s, c)' # 0
      BY <2>2, LinkFacts DEF Made
    <2>10. GivenInv(s, c)'
      <3> DEFINE o == Other(s)
      <3>1. /\ k.source \in 1 .. Made(o, c) /\ k.load < sent[o][c][k.source]
            /\ sent[o][c][k.source] \in Nat /\ k.load \in Nat
        BY <2>3, RecordedTypes, OtherSide DEF WasRead, Chunk, Load, IInv, TypeOK
      <3>2. Len(seq) <= sent[o][c][k.source]
        BY <2>3, <2>4, <3>1
      <3> HIDE DEF o
      <3>3. k.source \in 1 .. Made(o, c)' /\ Len(delivered'[s][c]) <= sent'[o][c][k.source]
        BY <2>2, <2>8, <3>1, <3>2 DEF Made
      <3> QED
        BY <3>3 DEF GivenInv, o
    <2> QED
      BY <1>1, <2>6, <2>7, <2>9, <2>10, GivenStays
  <1> QED
    BY <1>3, <1>4, <1>5, EveryStep DEF Reads, Stores, Passes

LEMMA LinkPacketFields ==
  ASSUME IInv, NEW s \in Side, NEW c, HasLink(s, c), NEW cmd \in {"data", "release"}
  PROVE  LET p == LinkPacket(s, c, cmd)
         IN  /\ p \in PacketType
             /\ p.cmd = cmd /\ p.to = Other(s) /\ p.conn = c
             /\ p.index = out_links[s][c].next_index_to_trunk /\ p.index \in Index
             /\ p.source = Made(s, c) /\ p.source \in Source
             /\ p.load = HasRead(s, c) /\ p.load \in Load
  <1>1. /\ c \in Conns /\ out_links[s][c].next_index_to_trunk \in Index
        /\ out_links[s][c].source \in Source /\ out_links[s][c].source = Made(s, c)
        /\ HasRead(s, c) \in Load /\ Other(s) \in Side
    BY LinkFacts, OtherSide DEF LinkType, LinkInv
  <1> QED
    BY <1>1 DEF LinkPacket, Packet, PacketType

LEMMA NewIndexedInv ==
  ASSUME IInv, NEW p, NewIndexed(p)
  PROVE  p \in PacketType /\ PacketInv(p)'
  <1>1. PICK s \in Side, c \in Conns, cmd \in {"data", "release"} :
          /\ HasLink(s, c) /\ p = LinkPacket(s, c, cmd)
          /\ out_links[s][c].next_index_to_trunk # kBadPacketIndex
          /\ Made(s, c)' = Made(s, c)
          /\ cmd = "data" => HasRead(s, c)' = HasRead(s, c) + 1
          /\ cmd = "release" => ~HasLink(s, c)' /\ HasRead(s, c)' = HasRead(s, c)
    BY DEF NewIndexed
  <1>2. /\ p \in PacketType
        /\ p.cmd = cmd /\ p.to = Other(s) /\ p.conn = c
        /\ p.index = out_links[s][c].next_index_to_trunk /\ p.index \in Index
        /\ p.source = Made(s, c) /\ p.source \in Source
        /\ p.load = HasRead(s, c) /\ p.load \in Load
    BY <1>1, LinkPacketFields
  <1>3. /\ Made(s, c) \in Nat /\ Made(s, c) > 0 /\ HasRead(s, c) \in Nat
        /\ HasRead(s, c) <= MaxIndex => out_links[s][c].next_index_to_trunk = HasRead(s, c)
    BY <1>1, LinkFacts DEF LinkInv, Load
  <1>4. Numbered(p.index, p.load)
    BY <1>1, <1>2, <1>3 DEF Numbered
  <1>5. Other(p.to) = s
    BY <1>2, OtherSide
  <1>6. p.source \in 1 .. Made(s, c)' /\ sent'[s][c][p.source] = HasRead(s, c)'
    BY <1>1, <1>2, <1>3 DEF HasRead
  <1>7. cmd = "data" => WasRead(p.to, p.conn, p.source, p.load)'
    BY <1>1, <1>2, <1>3, <1>5, <1>6 DEF WasRead
  <1>8. cmd = "release" => HasClosed(p.to, p.conn, p.source, p.load)'
    BY <1>1, <1>2, <1>3, <1>5, <1>6 DEF HasClosed
  <1> QED
    BY <1>2, <1>4, <1>7, <1>8 DEF PacketInv

LEMMA NewPlainInv ==
  ASSUME NEW p, NewPlain(p)
  PROVE  p \in PacketType /\ PacketInv(p)'
  <1>1. PICK to \in Side, cmd \in {"create", "ack_create", "live"}, c \in Conns :
          p = Plain(to, cmd, c) /\ (cmd = "create" => Made("client", c)' > 0)
    BY DEF NewPlain
  <1>2. p.cmd = cmd /\ p.conn = c /\ p \in PacketType
    BY <1>1 DEF Plain, Packet, PacketType
  <1> QED
    BY <1>1, <1>2 DEF PacketInv

LEMMA OldPacketInv ==
  ASSUME IInv, HistoryGrows, NEW p \in Packets
  PROVE  p \in PacketType /\ PacketInv(p)'
  <1>1. p \in PacketType /\ PacketInv(p)
    <2>1. p \in network \/ \E s \in Side : \E e \in packet_data_cache[s] : p = e.packet
      BY PacketsFromCaches DEF Packets
    <2> QED
      BY <2>1, CacheType DEF IInv
  <1>2. p.to \in Side /\ p.conn \in Conns
    BY <1>1 DEF PacketType
  <1>3. /\ Made("client", p.conn)' >= Made("client", p.conn)
        /\ Made("client", p.conn) \in Nat /\ Made("client", p.conn)' \in Nat
    BY <1>2 DEF HistoryGrows, Made, Side
  <1>4. p.cmd = "data" => WasRead(p.to, p.conn, p.source, p.load)'
    BY <1>1, <1>2, WasReadStays DEF PacketInv, Load
  <1>5. p.cmd = "release" => HasClosed(p.to, p.conn, p.source, p.load)'
    BY <1>1, <1>2, HasClosedStays DEF PacketInv
  <1> QED
    BY <1>1, <1>3, <1>4, <1>5 DEF PacketInv

\* A step that adds the datagrams "new", and no packet to a cache.
LEMMA FewerPackets ==
  ASSUME NEW new, network' \subseteq network \union new,
         \A s \in Side : \A e \in packet_data_cache'[s] :
           \E d \in packet_data_cache[s] : e.packet = d.packet,
         NEW q \in Packets'
  PROVE  q \in Packets \/ q \in new
  <1>1. q \in network' \/ \E s \in Side : \E e \in packet_data_cache'[s] : q = e.packet
    BY PacketsFromCaches DEF Packets
  <1> QED
    BY <1>1 DEF Packets, Side

LEMMA SendDataPackets ==
  ASSUME IInv, NEW s \in Side, NEW c \in Conns, SendData(s, c), NEW q \in Packets'
  PROVE  q \in Packets \/ NewIndexed(q)
  <1>1. /\ HasLink(s, c) /\ Made(s, c)' = Made(s, c)
        /\ HasRead(s, c)' = HasRead(s, c) + 1
    BY SendDataReads, ReadsGrows DEF SendData
  <1>2. \/ q \in Packets
        \/ q = LinkPacket(s, c, "data") /\ out_links[s][c].next_index_to_trunk # kBadPacketIndex
    BY SendCmdDataPackets DEF SendData, IInv
  <1> QED
    BY <1>1, <1>2 DEF NewIndexed

LEMMA CloseConnectPackets ==
  ASSUME IInv, NEW s \in Side, NEW c \in Conns, CloseConnect(s, c), NEW q \in Packets'
  PROVE  q \in Packets \/ NewIndexed(q)
  <1>1. HasLink(s, c) /\ UNCHANGED sent
    BY DEF CloseConnect
  <1>2. ~HasLink(s, c)'
    BY LinkTypes DEF CloseConnect, WithoutLink, HasLink, IInv
  <1>3. \/ q \in Packets
        \/ q = LinkPacket(s, c, "release") /\ out_links[s][c].next_index_to_trunk # kBadPacketIndex
    BY SendCmdDataPackets DEF CloseConnect, IInv
  <1> QED
    BY <1>1, <1>2, <1>3 DEF NewIndexed, Made, HasRead

LEMMA UpdatePackets ==
  ASSUME IInv, NEW s \in Side, NEW due \in BOOLEAN, Update(s, due), NEW q \in Packets'
  PROVE  q \in Packets \/ NewPlain(q)
  <1> DEFINE aged == {e.packet : e \in Aged(packet_data_cache[s])}
             new  == Creates(s) \union Lives(s, due) \union aged
  <1>1. packet_data_cache[s] \in SUBSET [packet : PacketType, age : 0 .. DeadlineTicks]
    BY CacheType DEF IInv
  <1>2. \A e \in Aged(packet_data_cache[s]) : \E d \in packet_data_cache[s] : e.packet = d.packet
    BY <1>1, AgedPackets
  <1>3. network' \subseteq network \union new
    BY DEF Update, Routed
  <1>4. packet_data_cache' = [packet_data_cache EXCEPT ![s] = Aged(@)]
    BY DEF Update
  <1> HIDE DEF new
  <1>5. ASSUME NEW t \in Side, NEW e \in packet_data_cache'[t]
        PROVE  \E d \in packet_data_cache[t] : e.packet = d.packet
    BY <1>2, <1>4, CacheType DEF IInv
  <1>6. q \in Packets \/ q \in new
    BY <1>3, <1>5, FewerPackets
  <1>7. ASSUME q \in aged PROVE q \in Packets
    BY <1>2, <1>7 DEF Packets, Side
  <1>8. ASSUME q \in Lives(s, due) PROVE NewPlain(q)
    BY <1>8, LinkTypes, OtherSide DEF Lives, NewPlain, IInv
  <1>9. ASSUME q \in Creates(s) PROVE NewPlain(q)
    <2>1. s = "client" /\ "server" \in Side
      BY <1>9 DEF Creates, Side
    <2>2. PICK e \in Aged(connect_cache) : q = Plain("server", "create", e.conn)
      BY <1>9, <2>1 DEF Creates, AgedConnects
    <2>3. PICK d \in connect_cache : e.conn = d.conn
      BY CacheType, AgedCreates DEF IInv
    <2>4. d.conn \in Conns /\ Made("client", d.conn) > 0 /\ UNCHANGED sent
      BY CacheType DEF IInv, Update
    <2> QED
      BY <2>1, <2>2, <2>3, <2>4 DEF NewPlain, Made
  <1> QED
    BY <1>6, <1>7, <1>8, <1>9 DEF new

LEMMA NewPackets ==
  ASSUME IInv, [Next]_vars, NEW q \in Packets'
  PROVE  q \in Packets \/ NewPlain(q) \/ NewIndexed(q)
  <1>1. ASSUME NEW c \in Conns, AddConnect(c) PROVE q \in Packets \/ NewPlain(q)
    <2>1. /\ network' \subseteq network \union {Plain("server", "create", c)}
          /\ UNCHANGED packet_data_cache
      BY <1>1 DEF AddConnect, SendConnectInformation
    <2>2. Made("client", c)' > 0
      <3>1. "client" \in Side /\ Made("client", c) = 0
        BY <1>1 DEF Side, AddConnect
      <3>2. Opens("client", c)
        BY <1>1, AddConnectOpens
      <3> QED
        BY <3>1, <3>2, OpensGrows
    <2> QED
      BY <2>1, <2>2, FewerPackets DEF NewPlain, Side
  <1>2. ASSUME NEW p \in network, ProcessConnectData(p) PROVE q \in Packets \/ NewPlain(q)
    <2>1. /\ network' \subseteq network \union {Plain("client", "ack_create", p.conn)}
          /\ UNCHANGED packet_data_cache
      BY <1>2 DEF ProcessConnectData, After
    <2>2. p.conn \in Conns
      BY IndexedPacket
    <2> QED
      BY <2>1, <2>2, FewerPackets DEF NewPlain, Side
  <1>3. ASSUME network' \subseteq network,
               \A s \in Side : packet_data_cache'[s] \subseteq packet_data_cache[s]
        PROVE  q \in Packets
    <2>1. \A s \in Side : \A e \in packet_data_cache'[s] :
            \E d \in packet_data_cache[s] : e.packet = d.packet
      BY <1>3
    <2>2. network' \subseteq network \union {}
      BY <1>3
    <2> QED
      BY <2>1, <2>2, FewerPackets
  <1>4. ASSUME NEW s \in Side, packet_data_cache' = [packet_data_cache EXCEPT ![s] = {}]
        PROVE  \A t \in Side : packet_data_cache'[t] \subseteq packet_data_cache[t]
    BY <1>4, CacheType DEF IInv
  <1>5. ASSUME NEW s \in Side, NEW p \in network, ProcessDataToOutlink(s, p)
        PROVE  q \in Packets
    <2>1. network' \subseteq network
      BY <1>5 DEF ProcessDataToOutlink, After
    <2>2. \/ UNCHANGED packet_data_cache
          \/ packet_data_cache' = [packet_data_cache EXCEPT ![s] = {}]
      BY <1>5 DEF ProcessDataToOutlink
    <2> QED
      BY <1>3, <1>4, <2>1, <2>2
  <1>6. ASSUME Restart PROVE q \in Packets
    BY <1>3, <1>4, <1>6 DEF Restart, Side
  <1>7. ASSUME NEW s \in Side, NEW p \in network,
               \/ ProcessAckConnectData(p) \/ ProcessReleaseConnect(s, p)
               \/ ProcessLive(s, p) \/ Lose(p)
        PROVE  q \in Packets
    BY <1>3, <1>7 DEF ProcessAckConnectData, ProcessReleaseConnect, ProcessLive, Lose, After
  <1>8. ASSUME UNCHANGED vars PROVE q \in Packets
    BY <1>3, <1>8 DEF vars
  <1>9. ASSUME NEW s \in Side, NEW c \in Conns, Deliver(s, c) PROVE q \in Packets
    BY <1>3, <1>9 DEF Deliver
  <1>10. ASSUME Next PROVE q \in Packets \/ NewPlain(q) \/ NewIndexed(q)
    BY <1>1, <1>2, <1>5, <1>6, <1>7, <1>9, <1>10, SendDataPackets, CloseConnectPackets,
       UpdatePackets DEF Next, ProcessTrunkData, Side
  <1> QED
    BY <1>8, <1>10

\* The caches, and what else a step changes.
LEMMA CachesKept ==
  ASSUME IInv, [Next]_vars
  PROVE  /\ packet_data_cache' \in [Side -> SUBSET [packet : PacketType, age : 0 .. DeadlineTicks]]
         /\ connect_cache' \in SUBSET [conn : Conns, age : 0 .. DeadlineTicks]
         /\ \A e \in connect_cache' : Made("client", e.conn)' > 0
  <1> DEFINE Cached == [packet : PacketType, age : 0 .. DeadlineTicks]
             Creating == [conn : Conns, age : 0 .. DeadlineTicks]
  <1>1. /\ packet_data_cache \in [Side -> SUBSET Cached] /\ connect_cache \in SUBSET Creating
        /\ \A e \in connect_cache : e.conn \in Conns
    BY CacheType DEF IInv
  <1>2. ASSUME NEW e \in connect_cache PROVE Made("client", e.conn)' > 0
    <2>1. e.conn \in Conns /\ Made("client", e.conn) > 0
      BY <1>1 DEF IInv
    <2>2. Made("client", e.conn)' >= Made("client", e.conn)
      BY <2>1, StepGrows DEF HistoryGrows, Side
    <2>3. Made("client", e.conn) \in Nat /\ Made("client", e.conn)' \in Nat
      BY <2>1, StepGrows DEF HistoryGrows, Made, Side
    <2> QED
      BY <2>1, <2>2, <2>3
  <1> DEFINE Goal == /\ packet_data_cache' \in [Side -> SUBSET Cached]
                     /\ connect_cache' \in SUBSET Creating
                     /\ \A e \in connect_cache' : Made("client", e.conn)' > 0
  <1>3. ASSUME UNCHANGED packet_data_cache, connect_cache' \subseteq connect_cache PROVE Goal
    BY <1>1, <1>2, <1>3
  <1>4. ASSUME NEW c \in Conns, AddConnect(c) PROVE Goal
    <2>1. UNCHANGED packet_data_cache /\ connect_cache' = connect_cache \union {[conn |-> c, age |-> 0]}
      BY <1>4 DEF AddConnect, SendConnectInformation
    <2>2. [conn |-> c, age |-> 0] \in Creating
      BY DeadlineAssumption
    <2>3. "client" \in Side /\ Made("client", c) = 0 /\ Opens("client", c)
      BY <1>4, AddConnectOpens DEF Side, AddConnect
    <2>4. Made("client", c)' > 0
      BY <2>3, OpensGrows
    <2> QED
      BY <1>1, <1>2, <2>1, <2>2, <2>4
  <1>5. ASSUME NEW s \in Side, NEW c \in Conns, NEW cmd \in {"data", "release"}, HasLink(s, c),
               SendCmdData(s, c, cmd), UNCHANGED connect_cache
        PROVE  Goal
    <2> DEFINE p == LinkPacket(s, c, cmd)
    <2>1. \/ UNCHANGED packet_data_cache
          \/ packet_data_cache' =
               [packet_data_cache EXCEPT ![s] = @ \union {[packet |-> p, age |-> 0]}]
      BY <1>5 DEF SendCmdData, Emit, LinkPacket
    <2>2. p \in PacketType
      BY <1>5, LinkPacketFields
    <2> HIDE DEF p
    <2>3. [packet |-> p, age |-> 0] \in Cached
      BY <2>2, DeadlineAssumption
    <2> HIDE DEF Cached
    <2> QED
      BY <1>1, <1>2, <1>5, <2>1, <2>3
  <1>6. ASSUME NEW s \in Side, NEW p \in network, ProcessDataToOutlink(s, p) PROVE Goal
    <2>1. \/ UNCHANGED packet_data_cache
          \/ packet_data_cache' = [packet_data_cache EXCEPT ![s] = {}]
      BY <1>6 DEF ProcessDataToOutlink
    <2>2. connect_cache' \subseteq connect_cache
      BY <1>6 DEF ProcessDataToOutlink
    <2> HIDE DEF Cached
    <2> QED
      BY <1>1, <1>2, <2>1, <2>2
  <1>7. ASSUME NEW s \in Side, NEW due \in BOOLEAN, Update(s, due) PROVE Goal
    <2>1. packet_data_cache' = [packet_data_cache EXCEPT ![s] = Aged(@)]
      BY <1>7 DEF Update
    <2>2. Aged(packet_data_cache[s]) \in SUBSET Cached
      BY <1>1, AgedPackets
    <2>3. connect_cache' \in SUBSET Creating
      BY <1>1, <1>7, AgedCreates DEF Update, AgedConnects
    <2>4. \A e \in connect_cache' : \E d \in connect_cache : e.conn = d.conn
      BY <1>1, <1>7, AgedCreates DEF Update, AgedConnects
    <2> HIDE DEF Cached, Creating
    <2> QED
      BY <1>1, <1>2, <2>1, <2>2, <2>3, <2>4
  <1>8. ASSUME Restart PROVE Goal
    <2>1. packet_data_cache' = [packet_data_cache EXCEPT !["server"] = {}]
          /\ UNCHANGED connect_cache
      BY <1>8 DEF Restart
    <2> HIDE DEF Cached
    <2> QED
      BY <1>1, <1>2, <2>1
  <1> HIDE DEF Goal
  <1>9. ASSUME NEW p \in network, ProcessConnectData(p) \/ ProcessAckConnectData(p) \/ Lose(p)
        PROVE  Goal
    BY <1>3, <1>9 DEF ProcessConnectData, ProcessAckConnectData, Lose
  <1>10. ASSUME NEW s \in Side, NEW p \in network, ProcessReleaseConnect(s, p) \/ ProcessLive(s, p)
         PROVE  Goal
    BY <1>3, <1>10 DEF ProcessReleaseConnect, ProcessLive
  <1>11. ASSUME NEW s \in Side, NEW c \in Conns, Deliver(s, c) PROVE Goal
    BY <1>3, <1>11 DEF Deliver
  <1>12. ASSUME NEW s \in Side, NEW c \in Conns, SendData(s, c) \/ CloseConnect(s, c) PROVE Goal
    BY <1>5, <1>12 DEF SendData, CloseConnect
  <1>13. ASSUME UNCHANGED vars PROVE Goal
    BY <1>3, <1>13 DEF vars
  <1>14. ASSUME Next PROVE Goal
    BY <1>4, <1>6, <1>7, <1>8, <1>9, <1>10, <1>11, <1>12, <1>14
       DEF Next, ProcessTrunkData
  <1> QED
    BY <1>13, <1>14 DEF Goal

LEMMA OthersKept ==
  ASSUME IInv, [Next]_vars
  PROVE  /\ clients_link' \subseteq Conns
         /\ up' \in [Side -> BOOLEAN] /\ restarts' \in 0 .. MaxRestarts
  <1>1. clients_link \subseteq Conns /\ up \in [Side -> BOOLEAN] /\ restarts \in 0 .. MaxRestarts
    BY DEF IInv, TypeOK
  <1>2. ASSUME NEW s \in Side, NEW p \in network PROVE Clients(s, p.conn) \subseteq Conns
    BY <1>1, IndexedPacket DEF Clients
  <1>3. ASSUME NEW s \in Side, NEW p \in network, ProcessTrunkData(s, p)
        PROVE  /\ clients_link' \subseteq Conns /\ UNCHANGED restarts
               /\ UNCHANGED up \/ up' = [up EXCEPT ![s] = FALSE]
    BY <1>2, <1>3 DEF ProcessTrunkData, ProcessConnectData, ProcessAckConnectData,
       ProcessDataToOutlink, ProcessReleaseConnect, ProcessLive, Receive
  <1>4. CASE Restart
    BY <1>1, <1>4, RestartsAssumption DEF Restart
  <1>5. ASSUME NEW s \in Side, NEW c \in Conns,
               AddConnect(c) \/ SendData(s, c) \/ Deliver(s, c) \/ CloseConnect(s, c)
        PROVE  UNCHANGED <<clients_link, up, restarts>>
    BY <1>5 DEF AddConnect, SendData, Deliver, CloseConnect
  <1>6. ASSUME NEW s \in Side, NEW due \in BOOLEAN, Update(s, due)
        PROVE  UNCHANGED <<clients_link, up, restarts>>
    BY <1>6 DEF Update
  <1>7. ASSUME NEW p \in network, Lose(p) PROVE UNCHANGED <<clients_link, up, restarts>>
    BY <1>7 DEF Lose
  <1>8. \/ \E s \in Side : \E p \in network : ProcessTrunkData(s, p)
        \/ Restart
        \/ UNCHANGED <<clients_link, up, restarts>>
    BY <1>5, <1>6, <1>7 DEF Next, vars, Side
  <1>9. ASSUME NEW s \in Side, up' = [up EXCEPT ![s] = FALSE] PROVE up' \in [Side -> BOOLEAN]
    BY <1>1, <1>9
  <1> QED
    BY <1>1, <1>3, <1>4, <1>8, <1>9

LEMMA LinksKept ==
  ASSUME IInv, [Next]_vars
  PROVE  DOMAIN out_links' = Side /\ \A s \in Side : DOMAIN out_links'[s] \subseteq Conns
  <1>1. \A s \in Side : DOMAIN out_links[s] \subseteq Conns
    BY LinkTypes DEF IInv
  <1>2. ASSUME NEW s \in Side, NEW c \in Conns, NEW l, OnlyLink(s, c, l)
        PROVE  DOMAIN out_links' = Side /\ \A t \in Side : DOMAIN out_links'[t] \subseteq Conns
    <2>1. DOMAIN out_links' = Side
      BY <1>2 DEF OnlyLink
    <2>2. ASSUME NEW t \in Side PROVE DOMAIN out_links'[t] \subseteq Conns
      <3>1. DOMAIN out_links'[t] \subseteq DOMAIN out_links[t] \union {c}
        BY <1>2 DEF OnlyLink
      <3> QED
        BY <1>1, <3>1
    <2> QED
      BY <2>1, <2>2
  <1>3. ASSUME Passes
        PROVE  DOMAIN out_links' = Side /\ \A t \in Side : DOMAIN out_links'[t] \subseteq Conns
    BY <1>1, <1>3 DEF Passes, Quiet
  <1>4. \/ \E s \in Side, c \in Conns : \E l : OnlyLink(s, c, l)
        \/ Passes
    <2>1. ASSUME NEW s \in Side, NEW p \in network, Stores(s, p)
          PROVE  p.conn \in Conns /\ \E l : OnlyLink(s, p.conn, l)
      BY <2>1, IndexedPacket DEF Stores
    <2>2. ASSUME NEW s \in Side, NEW c \in Conns, Opens(s, c) \/ Reads(s, c) \/ Gives(s, c)
          PROVE  \E l : OnlyLink(s, c, l)
      BY <2>2 DEF Opens, Reads, Gives
    <2> QED
      BY <2>1, <2>2, EveryStep
  <1> QED
    BY <1>2, <1>3, <1>4

LEMMA PacketsKept ==
  ASSUME IInv, [Next]_vars, NEW q \in Packets'
  PROVE  q \in PacketType /\ PacketInv(q)'
  BY NewPackets, StepGrows, OldPacketInv, NewPlainInv, NewIndexedInv

LEMMA InitIInv == Init => IInv
  <1> SUFFICES ASSUME Init PROVE IInv
    OBVIOUS
  <1>1. DOMAIN out_links = Side /\ \A s \in Side : DOMAIN out_links[s] = {}
    BY DEF Init
  <1>2. Packets = {} /\ connect_cache = {}
    BY DEF Init, Packets, Side
  <1>3. \A s \in Side, c \in Conns : sent[s][c] = <<>> /\ delivered[s][c] = <<>>
    BY DEF Init
  <1>4. TypeOK
    <2>1. packet_data_cache \in [Side -> SUBSET [packet : PacketType, age : 0 .. DeadlineTicks]]
      <3>1. \A S : [s \in Side |-> {}] \in [Side -> SUBSET S]
        OBVIOUS
      <3> QED
        BY <3>1 DEF Init
    <2>2. /\ connect_cache \subseteq [conn : Conns, age : 0 .. DeadlineTicks]
          /\ clients_link \subseteq Conns /\ network \subseteq PacketType
          /\ up \in [Side -> BOOLEAN] /\ restarts \in 0 .. MaxRestarts
      BY RestartsAssumption DEF Init
    <2>3. /\ sent \in [Side -> [Conns -> Seq(Load)]]
          /\ delivered \in [Side -> [Conns -> Seq([source : Source, load : Load])]]
      <3>1. \A S : [s \in Side |-> [c \in Conns |-> <<>>]] \in [Side -> [Conns -> Seq(S)]]
        OBVIOUS
      <3> QED
        BY <3>1 DEF Init
    <2> QED
      BY <1>1, <2>1, <2>2, <2>3 DEF TypeOK
  <1>5. \A s \in Side, c \in Conns : (Made(s, c) = 0 => delivered[s][c] = <<>>) /\ GivenInv(s, c)
    BY <1>3 DEF GivenInv
  <1> QED
    BY <1>1, <1>2, <1>4, <1>5 DEF IInv

LEMMA StepIInv == IInv /\ [Next]_vars => IInv'
  <1> SUFFICES ASSUME IInv, [Next]_vars PROVE IInv'
    OBVIOUS
  <1>1. ASSUME NEW s \in Side, NEW c \in DOMAIN out_links'[s]
        PROVE  out_links'[s][c] \in LinkType /\ LinkInv(s, c)'
    BY <1>1, LinkInvKept DEF HasLink
  <1>2. network' \subseteq PacketType
    BY PacketsKept DEF Packets
  <1>3. sent' \in [Side -> [Conns -> Seq(Load)]]
    BY StepGrows DEF HistoryGrows
  <1>4. TypeOK'
    BY <1>1, <1>2, <1>3, LinksKept, CachesKept, OthersKept, GivenKept DEF TypeOK
  <1>5. (\A p \in Packets : PacketInv(p))'
    BY PacketsKept
  <1>6. (\A e \in connect_cache : Made("client", e.conn) > 0)'
    BY CachesKept
  <1>7. (\A s \in Side : \A c \in DOMAIN out_links[s] : LinkInv(s, c))'
    BY <1>1
  <1>8. (\A s \in Side, c \in Conns :
           (Made(s, c) = 0 => delivered[s][c] = <<>>) /\ GivenInv(s, c))'
    BY GivenKept
  <1> QED
    BY <1>4, <1>5, <1>6, <1>7, <1>8 DEF IInv

-----------------------------------------------------------------------------
\* A link is always the last one an end has made, its indexes count what was read and
\* what was given, and every chunk on its way has been read at the other end under
\* its number (GetNextPacketIndex, SendCmdData, OutLink::SendData).
THEOREM Inductive == Spec => []IInv
  <1>1. Init => IInv
    BY InitIInv
  <1>2. IInv /\ [Next]_vars => IInv'
    BY StepIInv
  <1> QED
    BY <1>1, <1>2, PTL DEF Spec

\* Every variable keeps its type: no packet is kept in a cache past its deadline
\* (OnCacheResend), and no index passes its width, however often the handlers run.
THEOREM TypeCorrect == Spec => []TypeOK
  <1>1. IInv => TypeOK
    BY DEF IInv
  <1> QED
    BY <1>1, Inductive, PTL

-----------------------------------------------------------------------------
(* The trunk is a pipe.                                                    *)

\* The ends that have a link.
Ends == {end \in Side \X Conns : HasLink(end[1], end[2])}

LEMMA EndsAre ==
  ASSUME NEW s \in Side, NEW c \in Conns
  PROVE  /\ <<s, c>> \in Ends <=> HasLink(s, c)
         /\ <<s, c>> \in Ends' <=> HasLink(s, c)'
  BY DEF Ends

\* A step that makes link c of end s, or changes it.
LEMMA EndsWith ==
  ASSUME IInv, NEW s \in Side, NEW c \in Conns, NEW l, OnlyLink(s, c, l)
  PROVE  Ends' = Ends \union {<<s, c>>}
  <1>1. ASSUME NEW t \in Side, NEW d \in Conns
        PROVE  HasLink(t, d)' <=> HasLink(t, d) \/ <<t, d>> = <<s, c>>
    BY DEF OnlyLink, HasLink
  <1> QED
    BY <1>1 DEF Ends

LEMMA OpensIsOpen ==
  ASSUME IInv, NEW s \in Side, NEW c \in Conns, Opens(s, c)
  PROVE  P!Next
  <1>1. <<s, c>> \notin Ends /\ Ends' = Ends \union {<<s, c>>}
    BY EndsAre, EndsWith DEF Opens
  <1>2. IF s = "client" THEN sent[s][c] = <<>> ELSE sent["client"][c] # <<>>
    <2>1. sent[s][c] \in Seq(Load) /\ sent["client"][c] \in Seq(Load)
      BY DEF IInv, TypeOK, Side
    <2> QED
      BY <2>1 DEF Opens, Made
  <1>3. P!Open(s, c)
    BY <1>1, <1>2 DEF Opens, P!Open, Ends
  <1> QED
    BY <1>3 DEF P!Next, P!Side, Side

LEMMA ReadsIsRead ==
  ASSUME IInv, NEW s \in Side, NEW c \in Conns, Reads(s, c)
  PROVE  P!Next
  <1>1. <<s, c>> \in Ends /\ Ends' = Ends
    BY EndsAre, EndsWith DEF Reads
  <1>2. P!Read(s, c)
    BY <1>1 DEF Reads, P!Read, Ends, Made
  <1> QED
    BY <1>2 DEF P!Next, P!Side, Side

\* With no more chunks than indexes the chunk that is given is the next one.
LEMMA GivesIsGive ==
  ASSUME IInv, NumChunks <= MaxIndex + 1, NEW s \in Side, NEW c \in Conns, Gives(s, c)
  PROVE  P!Next
  <1>1. <<s, c>> \in Ends /\ Ends' = Ends
    <2>1. HasLink(s, c) /\ \E l : OnlyLink(s, c, l)
      BY DEF Gives
    <2>2. <<s, c>> \in Ends
      BY <2>1, EndsAre
    <2>3. Ends' = Ends \union {<<s, c>>}
      BY <2>1, EndsWith
    <2> QED
      BY <2>2, <2>3
  <1>2. PICK k \in out_links[s][c].chunks :
          /\ k.index = out_links[s][c].next
          /\ delivered' = [delivered EXCEPT ![s][c] =
                             Append(@, [source |-> k.source, load |-> k.load])]
    BY DEF Gives
  <1>3. /\ k \in Chunk /\ WasRead(s, c, k.source, k.load)
        /\ k.load <= MaxIndex => k.load = Len(delivered[s][c])
    BY <1>2, GivesReadChunk DEF Gives
  <1>4. /\ k.source \in 1 .. Len(sent[Other(s)][c]) /\ k.load < sent[Other(s)][c][k.source]
        /\ sent[Other(s)][c] \in Seq(Load)
    BY <1>3, OtherSide DEF WasRead, Made, IInv, TypeOK
  <1>5. k.load <= MaxIndex
    <2>1. sent[Other(s)][c][k.source] \in Load
      BY <1>4, ElementOfSeq
    <2> QED
      BY <1>3, <1>4, <2>1, ChunksAssumption, IndexAssumption DEF Load, Chunk
  <1>6. k.load = Len(delivered[s][c])
    BY <1>3, <1>5
  <1>7. k.source \in DOMAIN sent[Other(s)][c]
    BY <1>4
  <1>8. P!Give(s, c)
    BY <1>1, <1>2, <1>4, <1>6, <1>7 DEF Gives, P!Give, P!Other, Other, Ends
  <1> QED
    BY <1>8 DEF P!Next, P!Side, Side

LEMMA PassesIsClose ==
  ASSUME IInv, Passes
  PROVE  P!Next \/ UNCHANGED P!vars
  <1>1. Ends' \subseteq Ends
    <2>1. ASSUME NEW t \in Side, NEW d \in Conns, HasLink(t, d)' PROVE HasLink(t, d)
      BY <2>1 DEF Passes, Quiet, HasLink
    <2> QED
      BY <2>1 DEF Ends
  <1>2. CASE Ends' = Ends
    BY <1>2 DEF Passes, P!vars, Ends
  <1>3. CASE Ends' # Ends
    BY <1>1, <1>3 DEF Passes, P!Next, P!Close, Ends
  <1> QED
    BY <1>2, <1>3

\* However datagrams are lost, repeated or reordered, an end gives its peer the first
\* chunks that were read at the other end, each once and in their order, as Pipe
\* promises, for a link that reads no more than the 2^32 chunks that have an index
\* (GetNextPacketIndex, OutLink::SendData).
THEOREM TrunkImplementsPipe ==
  ASSUME NumChunks <= MaxIndex + 1
  PROVE  Spec => ImplementsPipe
  <1>1. Init => P!Init
    <2> SUFFICES ASSUME Init PROVE P!Init
      OBVIOUS
    <2>1. Ends = {}
      BY DEF Init, Ends, HasLink
    <2> QED
      BY <2>1 DEF Init, P!Init, P!Side, Side, Ends
  <1>2. IInv /\ [Next]_vars => [P!Next]_P!vars
    <2> SUFFICES ASSUME IInv, [Next]_vars PROVE P!Next \/ UNCHANGED P!vars
      OBVIOUS
    <2>1. ASSUME NEW s \in Side, NEW p \in network, Stores(s, p) PROVE UNCHANGED P!vars
      <3>1. p.conn \in Conns /\ HasLink(s, p.conn)
        BY <2>1, IndexedPacket DEF Stores
      <3>2. Ends' = Ends
        BY <2>1, <3>1, EndsAre, EndsWith DEF Stores
      <3> QED
        BY <2>1, <3>2 DEF Stores, P!vars, Ends
    <2> QED
      BY <2>1, EveryStep, OpensIsOpen, ReadsIsRead, GivesIsGive, PassesIsClose
  <1> QED
    BY <1>1, <1>2, Inductive, PTL DEF Spec, ImplementsPipe, P!Spec

-----------------------------------------------------------------------------
(* Links and their stops.                                                  *)

\* What any step may do to a link that it does not remove.
Moves(s, c) ==
  LET l == out_links[s][c]
      m == out_links'[s][c]
  IN  /\ m.source = l.source /\ m.next >= l.next
      /\ \/ m.next_index_to_trunk = l.next_index_to_trunk
         \/ m.next_index_to_trunk = Advanced(l) /\ HasRead(s, c) < NumChunks
      /\ StopMoves(s, c, l, m)

\* A link that a step leaves as it was.
LEMMA SameMoves ==
  ASSUME NEW s, NEW c, out_links[s][c] \in LinkType, out_links'[s][c] = out_links[s][c]
  PROVE  Moves(s, c)
  BY DEF Moves, StopMoves, LinkType

LEMMA StepMoves ==
  ASSUME IInv, [Next]_vars, NEW t \in Side, NEW d, HasLink(t, d), HasLink(t, d)'
  PROVE  Moves(t, d)
  <1> DEFINE l == out_links[t][d]
             m == out_links'[t][d]
  <1>1. l \in LinkType /\ d \in Conns
    BY LinkFacts
  <1>2. ASSUME NEW s \in Side, NEW c \in Conns, NEW n, OnlyLink(s, c, n), ~(t = s /\ d = c)
        PROVE  Moves(t, d)
    BY <1>1, <1>2, OtherLinkSame, SameMoves
  <1>3. ASSUME NEW s \in Side, NEW c \in Conns, Opens(s, c) PROVE Moves(t, d)
    <2>1. ~(t = s /\ d = c)
      BY <1>3 DEF Opens
    <2> QED
      BY <1>2, <1>3, <2>1 DEF Opens
  <1>4. ASSUME NEW s \in Side, NEW c \in Conns, Reads(s, c) PROVE Moves(t, d)
    <2>1. CASE t = s /\ d = c
      <3>1. /\ m = [l EXCEPT !.next_index_to_trunk = Advanced(l)]
            /\ HasRead(t, d) < NumChunks
        BY <1>4, <2>1 DEF Reads, OnlyLink, HasLink
      <3>2. /\ m.source = l.source /\ m.next = l.next /\ m.stop = l.stop /\ m.dead = l.dead
            /\ m.next_index_to_trunk = Advanced(l) /\ l.next \in Int
        BY <1>1, <3>1 DEF LinkType
      <3> QED
        BY <3>1, <3>2 DEF Moves, StopMoves
    <2> QED
      BY <1>2, <1>4, <2>1 DEF Reads
  <1>5. ASSUME NEW s \in Side, NEW c \in Conns, Gives(s, c) PROVE Moves(t, d)
    <2>1. PICK k \in out_links[s][c].chunks :
            OnlyLink(s, c, [out_links[s][c] EXCEPT !.next = @ + 1, !.chunks = @ \ {k}])
      BY <1>5 DEF Gives
    <2>2. CASE t = s /\ d = c
      <3>1. m = [l EXCEPT !.next = @ + 1, !.chunks = @ \ {k}]
        BY <2>1, <2>2 DEF OnlyLink, HasLink
      <3>2. /\ m.source = l.source /\ m.next = l.next + 1 /\ m.stop = l.stop /\ m.dead = l.dead
            /\ m.next_index_to_trunk = l.next_index_to_trunk /\ l.next \in Int
        BY <1>1, <3>1 DEF LinkType
      <3> QED
        BY <3>2 DEF Moves, StopMoves
    <2> QED
      BY <1>2, <2>1, <2>2
  <1>6. ASSUME NEW s \in Side, NEW p \in network, Stores(s, p) PROVE Moves(t, d)
    <2>1. p.conn \in Conns /\ OnlyLink(s, p.conn, Received(out_links[s][p.conn], p))
      BY <1>6, IndexedPacket DEF Stores
    <2>2. CASE t = s /\ d = p.conn
      <3>1. m = Received(l, p)
        BY <2>1, <2>2 DEF OnlyLink, HasLink
      <3>2. /\ m.source = l.source /\ m.next = l.next /\ m.stop = l.stop /\ m.dead = l.dead
            /\ m.next_index_to_trunk = l.next_index_to_trunk /\ l.next \in Int
        BY <1>1, <3>1 DEF LinkType, Received
      <3> QED
        BY <3>2 DEF Moves, StopMoves
    <2> QED
      BY <1>2, <2>1, <2>2
  <1>7. ASSUME Passes PROVE Moves(t, d)
    <2>1. Rests(t, d, m)
      BY <1>7 DEF Passes, Quiet, HasLink
    <2>2. l.next \in Int
      BY <1>1 DEF LinkType
    <2> QED
      BY <2>1, <2>2 DEF Rests, Stays, Moves
  <1> QED
    BY <1>3, <1>4, <1>5, <1>6, <1>7, EveryStep

\* A link that a step makes has no stop yet.
LEMMA NewLinkRuns ==
  ASSUME IInv, [Next]_vars, NEW t \in Side, NEW d, ~HasLink(t, d), HasLink(t, d)'
  PROVE  out_links'[t][d].stop = kUndefinedChunkID
  <1>1. ASSUME NEW s \in Side, NEW c, NEW l, HasLink(s, c), OnlyLink(s, c, l) PROVE FALSE
    BY <1>1 DEF OnlyLink, HasLink
  <1>2. ASSUME NEW s \in Side, NEW c \in Conns, Opens(s, c)
        PROVE  out_links'[t][d].stop = kUndefinedChunkID
    <2>1. OnlyLink(s, c, NewLink(Made(s, c) + 1))
      BY <1>2 DEF Opens
    <2>2. out_links'[t][d] = NewLink(Made(s, c) + 1)
      BY <2>1 DEF OnlyLink, HasLink
    <2> QED
      BY <2>2 DEF NewLink
  <1>3. ~Passes
    BY DEF Passes, Quiet, HasLink
  <1> QED
    BY <1>1, <1>2, <1>3, EveryStep DEF Reads, Gives, Stores

\* What a release in the network says of a link: the index is the number of chunks that
\* a link of the other end had read when it closed.
LEMMA ReleaseIndex ==
  ASSUME IInv, NumChunks <= MaxIndex, NEW p \in network, p.cmd = "release"
  PROVE  /\ HasClosed(p.to, p.conn, p.source, p.index)
         /\ p.index \in Nat /\ p.index <= NumChunks
  <1>1. PacketInv(p)
    BY DEF IInv, Packets
  <1>2. /\ HasClosed(p.to, p.conn, p.source, p.load) /\ p.load \in Load
        /\ p.load <= MaxIndex => p.index = p.load
    BY <1>1 DEF PacketInv, Numbered
  <1>3. p.index = p.load
    BY <1>2, ChunksAssumption, IndexAssumption DEF Load
  <1> QED
    BY <1>2, <1>3, ChunksAssumption DEF Load

\* A link that is there before and after a step is the same link: it goes forward in
\* both streams, and one that was told to stop is not open again but by the index that
\* says there is no stop (ProcessConnectData, OutLink::Stop), for a link that reads no
\* more than 2^32 - 1 chunks.
THEOREM LinksGoForward ==
  ASSUME NumChunks <= MaxIndex
  PROVE  Spec => LinkNeverRewinds
  <1> DEFINE Forward ==
        \A s \in Side : \A c \in DOMAIN out_links[s] \intersect DOMAIN out_links'[s] :
          LET l == out_links[s][c]
              m == out_links'[s][c]
          IN  /\ m.source = l.source
              /\ m.next >= l.next /\ m.next_index_to_trunk >= l.next_index_to_trunk
              /\ \/ l.stop = kUndefinedChunkID \/ m.stop # kUndefinedChunkID
                 \/ LastIndexReleased(s, c)
  <1>1. IInv /\ [Next]_vars => Forward
    <2> SUFFICES ASSUME IInv, [Next]_vars, NEW s \in Side,
                        NEW c \in DOMAIN out_links[s] \intersect DOMAIN out_links'[s]
                 PROVE  LET l == out_links[s][c]
                            m == out_links'[s][c]
                        IN  /\ m.source = l.source
                            /\ m.next >= l.next
                            /\ m.next_index_to_trunk >= l.next_index_to_trunk
                            /\ \/ l.stop = kUndefinedChunkID \/ m.stop # kUndefinedChunkID
                               \/ LastIndexReleased(s, c)
      OBVIOUS
    <2> DEFINE l == out_links[s][c]
               m == out_links'[s][c]
    <2>1. HasLink(s, c) /\ HasLink(s, c)'
      BY DEF HasLink
    <2>2. Moves(s, c)
      BY <2>1, StepMoves
    <2>3. /\ l \in LinkType /\ LinkInv(s, c) /\ HasRead(s, c) \in Nat
      BY <2>1, LinkFacts DEF Load
    <2>4. m.next_index_to_trunk >= l.next_index_to_trunk
      <3>1. l.next_index_to_trunk \in Nat
            /\ (HasRead(s, c) <= MaxIndex => l.next_index_to_trunk = HasRead(s, c))
        BY <2>3 DEF LinkType, Index, LinkInv
      <3>2. HasRead(s, c) < NumChunks => Advanced(l) = l.next_index_to_trunk + 1
        BY <2>3, <3>1, IndexAdvances, ChunksAssumption, IndexAssumption
      <3> QED
        BY <2>2, <3>1, <3>2 DEF Moves
    <2>5. \/ l.stop = kUndefinedChunkID \/ m.stop # kUndefinedChunkID
          \/ LastIndexReleased(s, c)
      <3>1. l.next \in Nat /\ l.next <= kBadPacketIndex
        BY <2>3 DEF LinkType, LinkInv
      <3>2. StopMoves(s, c, l, m)
        BY <2>2 DEF Moves
      <3> HIDE DEF l, m
      <3> QED
        BY <3>1, <3>2, IndexAssumption
           DEF StopMoves, LastIndexReleased, kUndefinedChunkID, kBadPacketIndex
    <2> QED
      BY <2>2, <2>4, <2>5 DEF Moves
  <1> QED
    BY <1>1, Inductive, PTL DEF Spec, LinkNeverRewinds

LEMMA StepCutInv ==
  ASSUME NumChunks <= MaxIndex, IInv, CutInv, [Next]_vars
  PROVE  CutInv'
  <1> SUFFICES ASSUME NEW s \in Side, NEW c \in DOMAIN out_links'[s],
                      out_links'[s][c].stop # kUndefinedChunkID, ~out_links'[s][c].dead,
                      Made(Other(s), c)' <= 1
               PROVE  /\ Made(Other(s), c)' = 1 /\ ~HasLink(Other(s), c)'
                      /\ out_links'[s][c].stop = sent'[Other(s)][c][1]
    BY DEF CutInv
  <1> DEFINE o == Other(s)
             l == out_links[s][c]
             m == out_links'[s][c]
  <1>1. HasLink(s, c)' /\ HasLink(s, c) /\ HistoryGrows /\ o \in Side
    BY NewLinkRuns, StepGrows, OtherSide DEF HasLink
  <1>2. l \in LinkType /\ m \in LinkType /\ c \in Conns /\ LinkInv(s, c)
    BY <1>1, LinkFacts, LinkInvKept
  <1>3. /\ Made(o, c) \in Nat /\ Made(o, c)' \in Nat /\ Made(o, c)' >= Made(o, c)
        /\ sent[o][c] \in Seq(Load)
    <2>1. sent[o][c] \in Seq(Load) /\ sent'[o][c] \in Seq(Load)
      BY <1>1, <1>2 DEF HistoryGrows
    <2> QED
      BY <1>1, <1>2, <2>1 DEF HistoryGrows, Made
  \* When the other end's only link has closed, it stays so.
  <1>4. ASSUME Made(o, c) = 1, ~HasLink(o, c), m.stop = sent[o][c][1]
        PROVE  Made(o, c)' = 1 /\ ~HasLink(o, c)' /\ m.stop = sent'[o][c][1]
    <2>1. Made(o, c)' = 1
      BY <1>3, <1>4
    <2>2. /\ HasLink(o, c)' => HasLink(o, c) \/ Made(o, c)' > Made(o, c)
          /\ sent'[o][c][1] = sent[o][c][1]
      BY <1>1, <1>2, <1>4 DEF HistoryGrows
    <2> QED
      BY <1>4, <2>1, <2>2
  <1>5. CASE m.stop = l.stop /\ m.dead = l.dead
    <2>1. Made(o, c) <= 1
      BY <1>3
    <2>2. Made(o, c) = 1 /\ l.stop = sent[o][c][1] /\ ~HasLink(o, c)
      BY <1>1, <1>5, <2>1 DEF CutInv, HasLink
    <2> QED
      BY <1>4, <1>5, <2>2
  <1>6. ASSUME NEW p \in network, p.to = s, p.cmd = "release", p.conn = c,
               m.stop = IF p.index <= l.next THEN l.next ELSE p.index
        PROVE  Made(o, c) = 1 /\ ~HasLink(o, c) /\ m.stop = sent[o][c][1]
    <2>1. HasClosed(s, c, p.source, p.index) /\ p.index \in Nat
      BY <1>6, ReleaseIndex
    <2>2. /\ p.source \in 1 .. Made(o, c) /\ p.index = sent[o][c][p.source]
          /\ HasLink(o, c) => p.source < Made(o, c)
      BY <2>1 DEF HasClosed
    <2>3. Made(o, c) = 1 /\ p.source = 1
      BY <1>3, <2>2
    <2>4. l.next = Len(delivered[s][c]) /\ l.next \in Nat
      BY <1>2 DEF LinkInv, LinkType
    <2>5. l.next <= sent[o][c][1]
      <3>1. GivenInv(s, c)
        BY <1>2 DEF IInv
      <3>2. CASE delivered[s][c] = <<>>
        BY <2>1, <2>2, <2>3, <2>4, <3>2
      <3>3. CASE delivered[s][c] # <<>>
        BY <2>3, <2>4, <3>1, <3>3 DEF GivenInv
      <3> QED
        BY <3>2, <3>3
    <2> HIDE DEF o, l, m
    <2> QED
      BY <1>6, <2>1, <2>2, <2>3, <2>4, <2>5
  <1>7. StopMoves(s, c, l, m)
    BY <1>1, StepMoves DEF Moves
  <1> QED
    BY <1>4, <1>5, <1>6, <1>7 DEF StopMoves

\* A link that is to stop because the other end released the connection stops behind the
\* last chunk of that end, not before it and not at one that will never come
\* (SendDisconnectInformation, ProcessReleaseConnect; protocol.md, closing of a
\* connection), for a link that reads no more than 2^32 - 1 chunks.
THEOREM ReleaseCutsNoChunk ==
  ASSUME NumChunks <= MaxIndex
  PROVE  Spec => []NoChunkCutOff
  <1>1. Init => CutInv
    BY DEF Init, CutInv
  <1>2. IInv /\ CutInv /\ [Next]_vars => CutInv'
    BY StepCutInv
  <1>3. CutInv => NoChunkCutOff
    BY DEF CutInv, NoChunkCutOff
  <1> QED
    BY <1>1, <1>2, <1>3, Inductive, PTL DEF Spec

=============================================================================
