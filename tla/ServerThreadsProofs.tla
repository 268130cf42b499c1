------------------------ MODULE ServerThreadsProofs ------------------------
(***************************************************************************)
(* Theorems about ServerThreads, for every number of sockets, addresses,   *)
(* connections, threads, datagrams, links and chunks.                      *)
(***************************************************************************)
EXTENDS ServerThreads, TLAPS

\* Across its steps a mutex is held by whom the code says: the one of the clients by
\* nobody, the one of the cache by the timer, that of out_links_ by the timer or by
\* the socket that is about to insert a link.
LockInv ==
  /\ held["clients"] = Nobody
  /\ held["cache"] = IF timer = "sending_cache" THEN Timer ELSE Nobody
  /\ held["out_links"] = Timer <=> timer = "sending_live"
  /\ \A k \in Sockets : held["out_links"] = k <=> socket[k].pc = "insert"

\* The one of a link is held by its write loop, from when it is taken first.
ChunksLockInv ==
  \A l \in Links :
    chunks_held[l] = IF writer[l] \in {"locked", "filled", "marked"} THEN l ELSE Nobody

\* What the look found is still true at the insertion.
LookInv == \A k \in Sockets : socket[k].pc = "insert" => ~Listed(socket[k].conn)

\* client_holder is where the datagram in the buffer came from.
RouteInv ==
  /\ RouteWasHeard
  /\ \A k \in Sockets : SocketBusy(k) => <<socket[k].conn, k, socket[k].from>> \in heard

\* Chunks 0, 1, ... n-1 of a link are cached, and releases with these indexes.
Cached(l, n, releases) == Indexes(l, "data") = 0 .. n - 1 /\ Indexes(l, "release") = releases

\* A link that has told the other end that it closes.
Told(l) == link[l].pc \in {"remove", "gone"} \/ (link[l].pc = "send" /\ link[l].cmd = "release")

\* A link whose next packet has no index yet.
Between(l) ==
  link[l].pc \in {"idle", "index", "cancel", "stopped"} \/ (link[l].pc = "send" /\ link[l].cmd = "data")

\* While a link lives the index in its entry is the number of its chunks, but for the
\* packet that has its index and is not cached yet.
EntryInv(l, e) ==
  /\ Between(l) => Cached(l, e.next, {}) /\ e.next <= NumChunks
  /\ link[l].pc = "index" /\ link[l].cmd = "data" => e.next < NumChunks
  /\ link[l].pc = "cache" =>
       /\ Cached(l, link[l].index, {}) /\ e.next = link[l].index + 1
       /\ link[l].cmd = "data" => e.next <= NumChunks

LinkStream(l) ==
  /\ link[l].pc = "none" => Cached(l, 0, {})
  /\ Told(l) => \E n \in 0 .. NumChunks : Cached(l, n, {n})
  /\ \A e \in out_links : Entry(e, l) => EntryInv(l, e)

StreamInv == \A l \in Links : LinkStream(l)

IInv == TypeOK /\ LockInv /\ ChunksLockInv /\ LookInv /\ OneLinkPerConnection /\ RouteInv /\ StreamInv
          /\ StatisticsAddUp

-----------------------------------------------------------------------------
(* Links and their entries.                                                *)

\* A living link is listed, alone with its connection.
LEMMA LivingLinkIsListed ==
  ASSUME TypeOK, OneLinkPerConnection, NEW l \in Links, link[l].pc \notin {"none", "gone"}
  PROVE  \E e \in out_links : Entry(e, l) /\ \A f \in out_links : f.conn = l[1] => f = e
  <1>1. PICK e \in out_links : l = <<e.conn, e.made>>
    BY DEF OneLinkPerConnection
  <1>2. e.conn = l[1] /\ e.made = l[2]
    BY <1>1
  <1> QED
    BY <1>1, <1>2 DEF OneLinkPerConnection, Entry

\* A listed link lives.
LEMMA ListedLinkLives ==
  ASSUME TypeOK, OneLinkPerConnection, NEW l \in Links, NEW e \in out_links, Entry(e, l)
  PROVE  /\ link[l].pc \notin {"none", "gone"} /\ l = <<e.conn, e.made>>
         /\ \A f \in out_links : f.conn = l[1] => f = e
  <1>1. l = <<e.conn, e.made>>
    BY DEF Entry, Links
  <1> QED
    BY <1>1 DEF OneLinkPerConnection

LEMMA LinksArePairs ==
  ASSUME NEW l \in Links, NEW m \in Links, l[1] = m[1], l[2] = m[2]
  PROVE  l = m
  BY DEF Links

\* The sets of TypeOK.
SocketStates ==
  {Receiving} \union
  [pc : {"note", "ack_create", "create", "insert", "find", "ack_data", "give", "live"},
   conn : Conns, cmd : Commands, from : Addresses, made : 0 .. MaxMade]
LinkStates ==
  [pc : {"none", "idle", "index", "cache", "send", "cancel", "stopped", "remove", "gone"},
   cmd : {"data", "release"}, index : 0 .. NumChunks]
Entries == [conn : Conns, made : 1 .. MaxMade, next : 0 .. NumChunks + 1]

\* The entry e of a link gives way to d, which is e with the next index, and the link
\* has the index of e.
IndexTaken(l, e, d) ==
  /\ Entry(e, l) /\ e.next \in 0 .. NumChunks
  /\ d \in Entries /\ d.conn = e.conn /\ d.made = e.made /\ d.next = e.next + 1
  /\ out_links' = (out_links \ {e}) \union {d}
  /\ link' = [link EXCEPT ![l].pc = "cache", ![l].index = e.next]
  /\ link'[l].pc = "cache" /\ link'[l].index = e.next /\ link'[l].cmd = link[l].cmd
  /\ \A m \in Links \ {l} : link'[m] = link[m]

\* A link gets its index from its own entry.
LEMMA IndexIsTaken ==
  ASSUME IInv, NEW l \in Links, GetNextPacketIndex(l)
  PROVE  \E e, d : IndexTaken(l, e, d)
  <1>1. PICK e \in out_links : Entry(e, l) /\ \A f \in out_links : f.conn = l[1] => f = e
    BY LivingLinkIsListed DEF GetNextPacketIndex, IInv
  <1>2. e.next \in 0 .. NumChunks
    BY <1>1, BoundAssumption DEF GetNextPacketIndex, StreamInv, LinkStream, EntryInv, Between, IInv, TypeOK
  <1>3. /\ link' = [link EXCEPT ![l].pc = "cache", ![l].index = e.next]
        /\ out_links' = (out_links \ {e}) \union {[e EXCEPT !.next = @ + 1]}
    BY <1>1 DEF GetNextPacketIndex, Listed, Entry
  <1>4. link \in [Links -> LinkStates] /\ out_links \subseteq Entries
    BY DEF IInv, TypeOK, LinkStates, Entries
  <1> DEFINE d == [e EXCEPT !.next = @ + 1]
  <1>5. d \in Entries /\ d.conn = e.conn /\ d.made = e.made /\ d.next = e.next + 1
    BY <1>2, <1>4, BoundAssumption DEF Entries
  <1>6. /\ link'[l].pc = "cache" /\ link'[l].index = e.next /\ link'[l].cmd = link[l].cmd
        /\ \A m \in Links \ {l} : link'[m] = link[m]
    BY <1>3, <1>4 DEF LinkStates
  <1>7. IndexTaken(l, e, d)
    BY <1>1, <1>2, <1>3, <1>5, <1>6 DEF IndexTaken
  <1> QED
    BY <1>7

-----------------------------------------------------------------------------
(* Types.                                                                  *)

\* The handler of a link goes on, with another packet or with the index for it.
LEMMA LinkStateTypes ==
  ASSUME link \in [Links -> LinkStates], NEW l \in Links, NEW index \in 0 .. NumChunks,
         NEW pc \in {"idle", "index", "cache", "send", "cancel", "stopped", "remove", "gone"},
         NEW cmd \in {"data", "release"}
  PROVE  /\ [link EXCEPT ![l].pc = pc] \in [Links -> LinkStates]
         /\ [link EXCEPT ![l].pc = pc, ![l].cmd = cmd] \in [Links -> LinkStates]
         /\ [link EXCEPT ![l].pc = pc, ![l].index = index] \in [Links -> LinkStates]
  <1>1. link[l] \in LinkStates
    OBVIOUS
  <1>2. [link[l] EXCEPT !.pc = pc] \in LinkStates
    BY <1>1 DEF LinkStates
  <1>3. /\ [[link[l] EXCEPT !.pc = pc] EXCEPT !.cmd = cmd] \in LinkStates
        /\ [[link[l] EXCEPT !.pc = pc] EXCEPT !.index = index] \in LinkStates
    BY <1>2 DEF LinkStates
  <1> DEFINE moved == [link EXCEPT ![l] = [link[l] EXCEPT !.pc = pc]]
  <1>4. moved \in [Links -> LinkStates] /\ moved[l] = [link[l] EXCEPT !.pc = pc]
    BY <1>2
  <1> HIDE DEF moved
  <1>5. /\ [moved EXCEPT ![l] = [moved[l] EXCEPT !.cmd = cmd]] \in [Links -> LinkStates]
        /\ [moved EXCEPT ![l] = [moved[l] EXCEPT !.index = index]] \in [Links -> LinkStates]
    BY <1>3, <1>4
  <1> QED
    BY <1>4, <1>5 DEF moved

\* The handler of a socket goes on.
LEMMA SocketStateTypes ==
  ASSUME socket \in [Sockets -> SocketStates], NEW k \in Sockets, socket[k].pc # "receiving",
         NEW pc \in {"note", "ack_create", "create", "insert", "find", "ack_data", "give", "live"}
  PROVE  [socket EXCEPT ![k].pc = pc] \in [Sockets -> SocketStates]
  <1>1. socket[k] \in SocketStates
    OBVIOUS
  <1>2. [socket[k] EXCEPT !.pc = pc] \in SocketStates
    BY <1>1 DEF SocketStates, Receiving
  <1> QED
    BY <1>2

LEMMA TypeStep ==
  ASSUME IInv, [Next]_vars
  PROVE  TypeOK'
  <1> USE BoundAssumption DEF IInv, TypeOK, vars, trunk_vars, timer_vars, link_vars, write_vars,
          main_vars, stat_vars, Lock, Unlock, Mutexes, Commands, Receiving
  <1>1. ASSUME NEW k \in Sockets, NEW c \in Conns, NEW cmd \in Commands,
               NEW from \in Addresses, Receive(k, c, cmd, from)
        PROVE  TypeOK'
    BY <1>1 DEF Receive
  <1>2. ASSUME NEW k \in Sockets, AddClientLink(k) PROVE TypeOK'
    <2>1. socket' \in [Sockets -> SocketStates]
      <3>1. socket \in [Sockets -> SocketStates] /\ FirstOf(socket[k].cmd) \in {"ack_create", "find", "live"}
        BY DEF FirstOf, SocketStates
      <3>2. socket' = [socket EXCEPT ![k].pc = FirstOf(socket[k].cmd)] /\ socket[k].pc = "note"
        BY <1>2, Zenon DEF AddClientLink, Goes
      <3> QED
        BY <3>1, <3>2, SocketStateTypes
    <2>2. clients_link' \in [Conns -> SUBSET (Sockets \X Addresses)]
      <3>1. socket[k].conn \in Conns /\ socket[k].from \in Addresses
        BY <1>2 DEF AddClientLink
      <3> QED
        BY <1>2, <3>1 DEF AddClientLink, ClientHolder
    <2> QED
      BY <1>2, <2>1, <2>2 DEF AddClientLink, AddClientLinkReturns, SocketStates
  <1>3. ASSUME NEW k \in Sockets, SendAck(k) PROVE TypeOK'
    <2>1. socket' \in [Sockets -> SocketStates]
      <3>1. socket \in [Sockets -> SocketStates]
        BY DEF SocketStates
      <3>2. PICK pc \in {"create", "give"} : socket' = [socket EXCEPT ![k].pc = pc]
        BY <1>3, Zenon DEF SendAck, Goes
      <3>3. socket[k].pc # "receiving"
        BY <1>3 DEF SendAck
      <3> QED
        BY <3>1, <3>2, <3>3, SocketStateTypes
    <2> QED
      BY <1>3, <2>1 DEF SendAck, Count, SocketStates
  <1>4. ASSUME NEW k \in Sockets, LookForLink(k) PROVE TypeOK'
    <2>1. socket' \in [Sockets -> SocketStates]
      <3>1. socket \in [Sockets -> SocketStates] /\ Receiving \in SocketStates
        BY DEF SocketStates
      <3>2. socket' = [socket EXCEPT ![k].pc = "insert"] \/ socket' = [socket EXCEPT ![k] = Receiving]
        BY <1>4, Zenon DEF LookForLink, Goes, Returns
      <3>3. socket[k].pc # "receiving"
        BY <1>4 DEF LookForLink
      <3>4. CASE socket' = [socket EXCEPT ![k].pc = "insert"]
        BY <3>1, <3>3, <3>4, SocketStateTypes, Zenon
      <3>5. CASE socket' = [socket EXCEPT ![k] = Receiving]
        <4> HIDE DEF Receiving
        <4> QED
          BY <3>1, <3>5, Zenon
      <3> QED
        BY <3>2, <3>4, <3>5, Zenon
    <2> QED
      BY <1>4, <2>1 DEF LookForLink, LockForInsertion, SocketStates
  <1>5. ASSUME NEW k \in Sockets, InsertLink(k) PROVE TypeOK'
    <2>1. socket' = [socket EXCEPT ![k] = Receiving] /\ held' = [held EXCEPT !["out_links"] = Nobody]
      BY <1>5 DEF InsertLink, Returns
    <2>2. socket' \in [Sockets -> SocketStates]
      BY <2>1 DEF SocketStates
    <2>3. socket[k].conn \in Conns
      BY <1>5 DEF InsertLink
    <2>4. link' \in [Links -> LinkStates] /\ out_links' \subseteq Entries
      <3>1. CASE UNCHANGED <<out_links, link>>
        BY <3>1 DEF LinkStates, Entries
      <3>2. ASSUME NEW n \in 1 .. MaxMade,
                   out_links' = out_links \union {[conn |-> socket[k].conn, made |-> n, next |-> 0]},
                   link' = [link EXCEPT ![<<socket[k].conn, n>>].pc = "idle"]
            PROVE  link' \in [Links -> LinkStates] /\ out_links' \subseteq Entries
        <4>1. <<socket[k].conn, n>> \in Links
          BY <2>3 DEF Links
        <4>2. link \in [Links -> LinkStates] /\ out_links \subseteq Entries /\ 0 \in 0 .. NumChunks
          BY DEF LinkStates, Entries
        <4>3. link' \in [Links -> LinkStates]
          BY <3>2, <4>1, <4>2, LinkStateTypes, Zenon
        <4>4. [conn |-> socket[k].conn, made |-> n, next |-> 0] \in Entries
          BY <2>3 DEF Entries
        <4> QED
          BY <3>2, <4>2, <4>3, <4>4, Zenon
      <3> QED
        BY <1>5, <3>1, <3>2 DEF InsertLink
    <2> QED
      BY <1>5, <2>1, <2>2, <2>4 DEF InsertLink, SocketStates, LinkStates, Entries
  <1>6. ASSUME NEW k \in Sockets, GetOutLink(k) PROVE TypeOK'
    <2>1. socket' \in [Sockets -> SocketStates]
      BY <1>6, SMTT(30) DEF GetOutLink, Goes, Returns, SocketStates
    <2> QED
      BY <1>6, <2>1 DEF GetOutLink, SocketStates
  <1>7. ASSUME NEW k \in Sockets, GiveToLink(k) PROVE TypeOK'
    BY <1>7 DEF GiveToLink, Returns
  <1>8. ASSUME NEW k \in Sockets, ProcessLive(k) PROVE TypeOK'
    BY <1>8 DEF ProcessLive, Returns
  <1>9. ASSUME NEW due \in BOOLEAN, TimerExpires(due) PROVE TypeOK'
    BY <1>9 DEF TimerExpires
  <1>10. CASE SendLivePacket
    BY <1>10 DEF SendLivePacket, Links
  <1>11. CASE OnCacheResend
    BY <1>11 DEF OnCacheResend, Packets, Links
  <1>12. CASE TimerLoopEnds
    BY <1>12 DEF TimerLoopEnds
  <1>13. TimerStep => TypeOK'
    <2>1. ASSUME NEW c \in todo, TimerSends(c) PROVE TypeOK'
      BY <2>1 DEF TimerSends
    <2>2. ASSUME NEW l \in stops, TimerStops(l) PROVE TypeOK'
      BY <2>2 DEF TimerStops
    <2> QED
      BY <1>10, <1>11, <1>12, <2>1, <2>2 DEF TimerStep
  <1>14. ASSUME NEW l \in Links, LinkReads(l) PROVE TypeOK'
    <2>1. link' \in [Links -> LinkStates]
      <3>1. link \in [Links -> LinkStates] /\ 0 \in 0 .. NumChunks
        BY DEF LinkStates
      <3> QED
        BY <1>14, <3>1, LinkStateTypes, Zenon DEF LinkReads
    <2> QED
      BY <1>14, <2>1 DEF LinkReads, Count, LinkStates
  <1>15. ASSUME NEW l \in Links, LinkEnds(l) PROVE TypeOK'
    <2>1. link' \in [Links -> LinkStates]
      <3>1. link \in [Links -> LinkStates] /\ 0 \in 0 .. NumChunks
        BY DEF LinkStates
      <3> QED
        BY <1>15, <3>1, LinkStateTypes, Zenon DEF LinkEnds, ClosesWith
    <2> QED
      BY <1>15, <2>1 DEF LinkEnds, LinkStates
  <1>16. ASSUME NEW l \in Links, GetNextPacketIndex(l) PROVE TypeOK'
    <2>1. PICK e, d : IndexTaken(l, e, d)
      BY <1>16, IndexIsTaken
    <2>2. link' \in [Links -> LinkStates]
      <3>1. link \in [Links -> LinkStates]
        BY DEF LinkStates
      <3> QED
        BY <1>16, <2>1, <3>1, LinkStateTypes, Zenon DEF IndexTaken
    <2>3. out_links' \subseteq Entries
      BY <2>1 DEF IndexTaken, Entries
    <2> QED
      BY <1>16, <2>2, <2>3 DEF GetNextPacketIndex, LinkStates, Entries
  <1>17. ASSUME NEW l \in Links, CachePacket(l) PROVE TypeOK'
    <2>1. link' \in [Links -> LinkStates]
      <3>1. link \in [Links -> LinkStates] /\ 0 \in 0 .. NumChunks
        BY DEF LinkStates
      <3> QED
        BY <1>17, <3>1, LinkStateTypes, Zenon DEF CachePacket, LinkGoes
    <2>2. emitted' \subseteq Packets
      BY <1>17 DEF CachePacket, Packets
    <2> QED
      BY <1>17, <2>1, <2>2 DEF CachePacket, LinkStates
  <1>18. ASSUME NEW l \in Links, SendPacket(l) PROVE TypeOK'
    <2>1. link' \in [Links -> LinkStates]
      <3>1. link \in [Links -> LinkStates] /\ 0 \in 0 .. NumChunks
        BY DEF LinkStates
      <3>2. PICK pc \in {"idle", "remove"} : link' = [link EXCEPT ![l].pc = pc]
        BY <1>18, Zenon DEF SendPacket, LinkGoes, Caller
      <3> QED
        BY <3>1, <3>2, LinkStateTypes, Zenon
    <2> QED
      BY <1>18, <2>1 DEF SendPacket, LinkStates
  <1>19. ASSUME NEW l \in Links, RemoveOutLink(l) PROVE TypeOK'
    <2>1. link' \in [Links -> LinkStates]
      <3>1. link \in [Links -> LinkStates] /\ 0 \in 0 .. NumChunks
        BY DEF LinkStates
      <3> QED
        BY <1>19, <3>1, LinkStateTypes, Zenon DEF RemoveOutLink, LinkGoes
    <2> QED
      BY <1>19, <2>1 DEF RemoveOutLink, LinkStates
  <1>20. ASSUME NEW l \in Links, ReadFails(l) \/ CancelReadWrite(l) PROVE TypeOK'
    <2>1. link' \in [Links -> LinkStates]
      <3>1. link \in [Links -> LinkStates] /\ 0 \in 0 .. NumChunks
        BY DEF LinkStates
      <3>2. PICK pc \in {"cancel", "stopped"} : link' = [link EXCEPT ![l].pc = pc]
        BY <1>20, Zenon DEF ReadFails, CancelReadWrite, LinkGoes
      <3> QED
        BY <3>1, <3>2, LinkStateTypes, Zenon
    <2> QED
      BY <1>20, <2>1 DEF ReadFails, CancelReadWrite, LinkStates
  <1>21. ASSUME NEW l \in Links, WriterCalled(l) \/ WriteFails(l) \/ WriterStep(l) PROVE TypeOK'
    BY <1>21 DEF WriterCalled, WriteFails, WriterStep, WriterLocks, WriterLocksAgain,
                 WriterUnlocks, WriterGoes
  <1>22. CASE Signal
    BY <1>22 DEF Signal, SignalHandler
  <1>23. CASE GetStat
    BY <1>23 DEF GetStat, TakeCounter, Exchanged
  <1>24. CASE LookAtFlag \/ Join
    BY <1>24 DEF LookAtFlag, Join
  <1>25. CASE UNCHANGED vars
    BY <1>25
  <1> QED
    BY <1>1, <1>2, <1>3, <1>4, <1>5, <1>6, <1>7, <1>8, <1>9, <1>10, <1>11, <1>12, <1>13, <1>14,
       <1>15, <1>16, <1>17, <1>18, <1>19, <1>20, <1>21, <1>22, <1>23, <1>24, <1>25
       DEF Next, SocketStep, LinkStep, MainStep

-----------------------------------------------------------------------------
(* Who is in which mutex.                                                  *)

LEMMA LockStep ==
  ASSUME IInv, [Next]_vars
  PROVE  LockInv'
  <1> USE NamesAssumption DEF IInv, TypeOK, LockInv, vars, trunk_vars, timer_vars, link_vars, write_vars,
          main_vars, stat_vars, Free, Lock, Unlock, Mutexes, Receiving
  <1>1. ASSUME NEW k \in Sockets, NEW c \in Conns, NEW cmd \in Commands,
               NEW from \in Addresses, Receive(k, c, cmd, from)
        PROVE  LockInv'
    BY <1>1 DEF Receive
  <1>2. ASSUME NEW k \in Sockets, AddClientLink(k) PROVE LockInv'
    BY <1>2 DEF AddClientLink, AddClientLinkReturns, Goes, FirstOf
  <1>3. ASSUME NEW k \in Sockets, SendAck(k) PROVE LockInv'
    <2>1. UNCHANGED <<timer, held>> /\ \A j \in Sockets : socket'[j].pc = "insert" <=> socket[j].pc = "insert"
      BY <1>3, SMTT(30) DEF SendAck, Goes
    <2> QED
      BY <2>1
  <1>4. ASSUME NEW k \in Sockets, LookForLink(k) PROVE LockInv'
    BY <1>4 DEF LookForLink, Goes, Returns, LockForInsertion
  <1>5. ASSUME NEW k \in Sockets, InsertLink(k) PROVE LockInv'
    BY <1>5 DEF InsertLink, Returns
  <1>6. ASSUME NEW k \in Sockets, GetOutLink(k) PROVE LockInv'
    <2>1. UNCHANGED <<timer, held>> /\ \A j \in Sockets : socket'[j].pc = "insert" <=> socket[j].pc = "insert"
      BY <1>6, SMTT(30) DEF GetOutLink, Returns
    <2> QED
      BY <2>1
  <1>7. ASSUME NEW k \in Sockets, GiveToLink(k) PROVE LockInv'
    BY <1>7 DEF GiveToLink, Returns
  <1>8. ASSUME NEW k \in Sockets, ProcessLive(k) PROVE LockInv'
    BY <1>8 DEF ProcessLive, Returns
  <1>9. ASSUME NEW due \in BOOLEAN, TimerExpires(due) PROVE LockInv'
    BY <1>9 DEF TimerExpires
  <1>10. CASE SendLivePacket
    BY <1>10 DEF SendLivePacket
  <1>11. CASE OnCacheResend
    BY <1>11 DEF OnCacheResend
  <1>12. ASSUME NEW c \in todo, TimerSends(c) PROVE LockInv'
    BY <1>12 DEF TimerSends
  <1>13. ASSUME NEW l \in stops, TimerStops(l) PROVE LockInv'
    BY <1>13 DEF TimerStops
  <1>14. CASE TimerLoopEnds
    BY <1>14 DEF TimerLoopEnds
  <1>15. ASSUME NEW l \in Links,
                \/ LinkReads(l) \/ ReadFails(l) \/ LinkEnds(l) \/ LinkStep(l)
                \/ WriterCalled(l) \/ WriteFails(l) \/ WriterStep(l)
         PROVE  LockInv'
    BY <1>15 DEF LinkReads, ReadFails, LinkEnds, LinkStep, CancelReadWrite, GetNextPacketIndex,
                 CachePacket, SendPacket, RemoveOutLink, WriterCalled, WriteFails, WriterStep,
                 WriterLocks, WriterLocksAgain, WriterUnlocks
  <1>16. CASE UNCHANGED <<socket, timer, held>>
    BY <1>16
  <1> QED
    BY <1>1, <1>2, <1>3, <1>4, <1>5, <1>6, <1>7, <1>8, <1>9, <1>10, <1>11, <1>12, <1>13, <1>14,
       <1>15, <1>16 DEF Next, SocketStep, TimerStep, MainStep, Signal, LookAtFlag, GetStat, Join

LEMMA ChunksLockStep ==
  ASSUME IInv, [Next]_vars
  PROVE  ChunksLockInv'
  <1> USE DEF IInv, TypeOK, ChunksLockInv, vars, trunk_vars, timer_vars, link_vars, write_vars,
          main_vars, stat_vars
  <1>1. ASSUME NEW l \in Links, WriterCalled(l) \/ WriteFails(l) \/ WriterStep(l)
        PROVE  ChunksLockInv'
    BY <1>1 DEF WriterCalled, WriteFails, WriterStep, WriterLocks, WriterLocksAgain,
                WriterUnlocks, WriterGoes
  <1>2. CASE UNCHANGED write_vars
    BY <1>2
  <1> QED
    BY <1>1, <1>2
       DEF Next, SocketStep, TimerStep, LinkStep, MainStep, Receive, AddClientLink, SendAck,
           LookForLink, InsertLink, GetOutLink, GiveToLink, ProcessLive, TimerExpires,
           SendLivePacket, OnCacheResend, TimerSends, TimerStops, TimerLoopEnds, LinkReads,
           ReadFails, CancelReadWrite, LinkEnds, GetNextPacketIndex, CachePacket, SendPacket,
           RemoveOutLink, Signal, LookAtFlag, GetStat, Join

-----------------------------------------------------------------------------
(* Entries of out_links_: who changes them, and how.                       *)

\* A connection without an entry gets one only from a socket that inserts it.
LEMMA EntriesComeByInsertion ==
  ASSUME IInv, [Next]_vars, NEW c \in Conns, Listed(c)', ~Listed(c)
  PROVE  \E k \in Sockets : InsertLink(k) /\ socket[k].conn = c
  <1> USE DEF IInv, TypeOK, vars, trunk_vars, timer_vars, link_vars, write_vars,
          main_vars, stat_vars, Listed
  <1>1. ASSUME NEW k \in Sockets, InsertLink(k)
        PROVE  socket[k].conn = c
    <2>1. PICK e \in out_links' : e.conn = c
      OBVIOUS
    <2>2. e \notin out_links
      BY <2>1
    <2>3. PICK n : out_links' = out_links \union {[conn |-> socket[k].conn, made |-> n, next |-> 0]}
      BY <1>1, <2>2 DEF InsertLink
    <2>4. e = [conn |-> socket[k].conn, made |-> n, next |-> 0]
      BY <2>2, <2>3
    <2> QED
      BY <2>1, <2>4
  <1>2. ASSUME NEW l \in Links, GetNextPacketIndex(l)
        PROVE  FALSE
    BY <1>2 DEF GetNextPacketIndex, LinkGoes
  <1>3. ASSUME NEW l \in Links, RemoveOutLink(l)
        PROVE  FALSE
    BY <1>3 DEF RemoveOutLink
  <1>4. out_links' # out_links
    OBVIOUS
  <1> QED
    BY <1>1, <1>2, <1>3, <1>4
       DEF Next, SocketStep, TimerStep, LinkStep, MainStep, Receive, AddClientLink, SendAck,
           LookForLink, GetOutLink, GiveToLink, ProcessLive, TimerExpires, SendLivePacket,
           OnCacheResend, TimerSends, TimerStops, TimerLoopEnds, LinkReads,
           ReadFails, CancelReadWrite, LinkEnds, WriterCalled, WriteFails, WriterStep, WriterLocks,
           WriterLocksAgain, WriterUnlocks, CachePacket, SendPacket,
           Signal, LookAtFlag, GetStat, Join

\* A socket comes to the insertion from the look.
LEMMA InsertionFollowsLook ==
  ASSUME IInv, [Next]_vars, NEW k \in Sockets, socket'[k].pc = "insert"
  PROVE  \/ socket'[k] = socket[k]
         \/ LookForLink(k) /\ ~Listed(socket[k].conn) /\ socket'[k].conn = socket[k].conn
  <1> USE DEF IInv, TypeOK, vars, trunk_vars, timer_vars, link_vars, write_vars, main_vars, stat_vars,
          Goes, Returns, Receiving
  <1>1. ASSUME NEW j \in Sockets, NEW c \in Conns, NEW cmd \in Commands,
               NEW from \in Addresses, Receive(j, c, cmd, from)
        PROVE  socket'[k] = socket[k]
    BY <1>1 DEF Receive
  <1>2. ASSUME NEW j \in Sockets, LookForLink(j)
        PROVE  \/ socket'[k] = socket[k]
               \/ LookForLink(k) /\ ~Listed(socket[k].conn) /\ socket'[k].conn = socket[k].conn
    BY <1>2 DEF LookForLink
  <1>3. ASSUME NEW j \in Sockets,
               \/ AddClientLink(j) \/ SendAck(j) \/ InsertLink(j) \/ GetOutLink(j)
               \/ GiveToLink(j) \/ ProcessLive(j)
        PROVE  socket'[k] = socket[k]
    BY <1>3 DEF AddClientLink, FirstOf, SendAck, InsertLink, GetOutLink, GiveToLink, ProcessLive
  <1>4. CASE socket' = socket
    BY <1>4
  <1> QED
    BY <1>1, <1>2, <1>3, <1>4
       DEF Next, SocketStep, TimerStep, LinkStep, MainStep, TimerExpires, SendLivePacket,
           OnCacheResend, TimerSends, TimerStops, TimerLoopEnds, LinkReads,
           ReadFails, CancelReadWrite, LinkEnds, WriterCalled, WriteFails, WriterStep, WriterLocks,
           WriterLocksAgain, WriterUnlocks, GetNextPacketIndex,
           CachePacket, SendPacket, RemoveOutLink, Signal, LookAtFlag, GetStat, Join

LEMMA LookStep ==
  ASSUME IInv, [Next]_vars
  PROVE  LookInv'
  <1> SUFFICES ASSUME NEW k \in Sockets, socket'[k].pc = "insert", Listed(socket[k].conn)'
               PROVE  FALSE
    BY DEF LookInv
  <1>1. CASE socket'[k] = socket[k]
    <2>1. socket[k].conn \in Conns /\ ~Listed(socket[k].conn)
      BY <1>1 DEF IInv, TypeOK, LookInv, Receiving
    <2>2. Listed(socket[k].conn)' <=> \E e \in out_links' : e.conn = socket[k].conn
      BY <1>1 DEF Listed
    <2>3. PICK j \in Sockets : InsertLink(j)
      BY <2>1, <2>2, EntriesComeByInsertion DEF Listed
    <2>4. j = k
      BY <1>1, <2>3 DEF IInv, LockInv, InsertLink
    <2> QED
      BY <2>3, <2>4 DEF InsertLink, Returns, Receiving, IInv, TypeOK
  <1>2. CASE LookForLink(k) /\ ~Listed(socket[k].conn) /\ socket'[k].conn = socket[k].conn
    BY <1>2 DEF LookForLink, Listed
  <1> QED
    BY <1>1, <1>2, InsertionFollowsLook

-----------------------------------------------------------------------------
(* Routes and statistics.                                                  *)

LEMMA RouteStep ==
  ASSUME IInv, [Next]_vars
  PROVE  RouteInv'
  <1> USE DEF IInv, TypeOK, RouteInv, RouteWasHeard, vars, trunk_vars, timer_vars, link_vars, write_vars,
          main_vars, stat_vars, SocketBusy, Receiving, Goes, Returns
  <1>1. ASSUME NEW k \in Sockets, NEW c \in Conns, NEW cmd \in Commands,
               NEW from \in Addresses, Receive(k, c, cmd, from)
        PROVE  RouteInv'
    BY <1>1 DEF Receive
  <1>2. ASSUME NEW k \in Sockets, AddClientLink(k) PROVE RouteInv'
    BY <1>2 DEF AddClientLink, ClientHolder, FirstOf
  <1>3. ASSUME NEW k \in Sockets,
               \/ SendAck(k) \/ LookForLink(k) \/ InsertLink(k) \/ GetOutLink(k)
               \/ GiveToLink(k) \/ ProcessLive(k)
        PROVE  RouteInv'
    BY <1>3, SMTT(30)
       DEF SendAck, LookForLink, InsertLink, GetOutLink, GiveToLink, ProcessLive
  <1>4. CASE UNCHANGED <<socket, clients_link, heard>>
    BY <1>4
  <1> QED
    BY <1>1, <1>2, <1>3, <1>4
       DEF Next, SocketStep, TimerStep, LinkStep, MainStep, TimerExpires, SendLivePacket,
           OnCacheResend, TimerSends, TimerStops, TimerLoopEnds, LinkReads,
           ReadFails, CancelReadWrite, LinkEnds, WriterCalled, WriteFails, WriterStep, WriterLocks,
           WriterLocksAgain, WriterUnlocks, GetNextPacketIndex,
           CachePacket, SendPacket, RemoveOutLink, Signal, LookAtFlag, GetStat, Join

LEMMA StatisticsStep ==
  ASSUME IInv, [Next]_vars
  PROVE  StatisticsAddUp'
  <1> USE DEF IInv, TypeOK, StatisticsAddUp, vars, trunk_vars, timer_vars, link_vars, write_vars, main_vars,
          stat_vars
  <1>1. ASSUME NEW s \in {"out", "in"}, Count(s), UNCHANGED reported PROVE StatisticsAddUp'
    BY <1>1 DEF Count
  <1>2. ASSUME NEW s \in {"out", "in"}, TakeCounter(s), UNCHANGED counted PROVE StatisticsAddUp'
    BY <1>2 DEF TakeCounter, Exchanged
  <1>3. CASE UNCHANGED <<counter, counted, reported>>
    BY <1>3
  <1>4. ASSUME NEW k \in Sockets, SendAck(k) PROVE StatisticsAddUp'
    BY <1>1, <1>3, <1>4 DEF SendAck
  <1>5. ASSUME NEW l \in Links, LinkReads(l) PROVE StatisticsAddUp'
    BY <1>1, <1>5 DEF LinkReads
  <1>6. CASE GetStat
    BY <1>2, <1>3, <1>6 DEF GetStat
  <1> QED
    BY <1>3, <1>4, <1>5, <1>6
       DEF Next, SocketStep, Receive, AddClientLink, LookForLink, InsertLink, GetOutLink,
           GiveToLink, ProcessLive, TimerStep, LinkStep, MainStep, TimerExpires, SendLivePacket,
           OnCacheResend, TimerSends, TimerStops, TimerLoopEnds,
           ReadFails, CancelReadWrite, LinkEnds, WriterCalled, WriteFails, WriterStep, WriterLocks,
           WriterLocksAgain, WriterUnlocks, GetNextPacketIndex,
           CachePacket, SendPacket, RemoveOutLink, Signal, LookAtFlag, Join

-----------------------------------------------------------------------------
(* out_links_ and the links that live.                                     *)

LEMMA OneLinkStep ==
  ASSUME IInv, [Next]_vars
  PROVE  OneLinkPerConnection'
  <1> USE DEF vars, trunk_vars, timer_vars, link_vars, write_vars, main_vars, stat_vars, LinkGoes
  <1> DEFINE Lives(l) == link[l].pc \notin {"none", "gone"}
             Same == \A l \in Links : Lives(l) <=> \E e \in out_links : Entry(e, l)
             Alone == \A e, f \in out_links : e.conn = f.conn => e = f
  <1>1. TypeOK /\ TypeOK' /\ Same /\ Alone
    <2>1. Same
      BY LivingLinkIsListed, ListedLinkLives DEF IInv
    <2> QED
      BY <2>1, TypeStep DEF IInv, OneLinkPerConnection
  <1>2. SUFFICES Same' /\ Alone'
    <2>1. {<<e.conn, e.made>> : e \in out_links'} \subseteq Links
      BY <1>1 DEF TypeOK, Links
    <2>2. ASSUME Same', Alone', NEW l \in Links
          PROVE  l \in {<<e.conn, e.made>> : e \in out_links'} <=> Lives(l)'
      BY <1>1, <2>2 DEF Entry, Links, TypeOK
    <2> QED
      BY <2>1, <2>2 DEF OneLinkPerConnection
  <1>3. ASSUME NEW k \in Sockets, InsertLink(k)
        PROVE  Same' /\ Alone'
    <2> DEFINE c == socket[k].conn
    <2>1. CASE UNCHANGED <<out_links, link>>
      BY <1>1, <2>1 DEF Entry
    <2>2. ASSUME NEW n \in 1 .. MaxMade, NextToMake(c, n),
                 out_links' = out_links \union {[conn |-> c, made |-> n, next |-> 0]},
                 link' = [link EXCEPT ![<<c, n>>].pc = "idle"]
          PROVE  Same' /\ Alone'
      <3>1. c \in Conns /\ <<c, n>> \in Links /\ ~Listed(c)
        BY <1>1, <1>3 DEF InsertLink, TypeOK, Receiving, Links, IInv, LookInv
      <3>2. Alone'
        BY <1>1, <2>2, <3>1 DEF Listed
      <3>3. ASSUME NEW l \in Links PROVE Lives(l)' <=> \E e \in out_links' : Entry(e, l)'
        <4>1. CASE l = <<c, n>>
          <5>1. Lives(l)'
            BY <1>1, <2>2, <4>1 DEF TypeOK
          <5>2. [conn |-> c, made |-> n, next |-> 0] \in out_links'
            BY <2>2
          <5> QED
            BY <4>1, <5>1, <5>2 DEF Entry
        <4>2. CASE l # <<c, n>>
          BY <1>1, <2>2, <3>1, <4>2 DEF Entry, TypeOK, Links
        <4> QED
          BY <4>1, <4>2
      <3> QED
        BY <3>2, <3>3
    <2> QED
      BY <1>3, <2>1, <2>2 DEF InsertLink
  <1>4. ASSUME NEW l \in Links,
               \/ LinkReads(l) \/ ReadFails(l) \/ CancelReadWrite(l) \/ LinkEnds(l)
               \/ CachePacket(l) \/ SendPacket(l)
        PROVE  Same' /\ Alone'
    <2>1. \A m \in Links : Lives(m)' <=> Lives(m)
      <3>1. Lives(l) /\ \A m \in Links \ {l} : link'[m] = link[m]
        <4>1. link \in [Links -> LinkStates]
          BY <1>1 DEF TypeOK, LinkStates
        <4> QED
          BY <1>4, <4>1
             DEF LinkReads, ReadFails, CancelReadWrite, LinkEnds, CachePacket, SendPacket
      <3>2. Lives(l)'
        <4>1. CASE LinkReads(l) \/ LinkEnds(l)
          BY <1>1, <4>1 DEF TypeOK, LinkReads, LinkEnds, ClosesWith
        <4>2. CASE ReadFails(l) \/ CancelReadWrite(l) \/ CachePacket(l) \/ SendPacket(l)
          BY <1>1, <4>2 DEF TypeOK, ReadFails, CancelReadWrite, CachePacket, SendPacket, Caller
        <4> QED
          BY <1>4, <4>1, <4>2
      <3> QED
        BY <3>1, <3>2
    <2>2. UNCHANGED out_links
      BY <1>4 DEF LinkReads, ReadFails, CancelReadWrite, LinkEnds, CachePacket, SendPacket
    <2> QED
      BY <1>1, <2>1, <2>2 DEF Entry
  <1>5. ASSUME NEW l \in Links, GetNextPacketIndex(l)
        PROVE  Same' /\ Alone'
    <2>1. PICK e, d : IndexTaken(l, e, d)
      BY <1>5, IndexIsTaken
    <2>2. \A m \in Links : Lives(m)' <=> Lives(m)
      BY <1>5, <2>1 DEF IndexTaken, GetNextPacketIndex
    <2>3. \A m \in Links : (\E f \in out_links' : Entry(f, m)') <=> \E f \in out_links : Entry(f, m)
      BY <2>1 DEF IndexTaken, Entry
    <2>4. Alone'
      BY <1>1, <2>1 DEF IndexTaken, Entry
    <2> QED
      BY <1>1, <2>2, <2>3, <2>4
  <1>6. ASSUME NEW l \in Links, RemoveOutLink(l)
        PROVE  Same' /\ Alone'
    <2>1. out_links' = {e \in out_links : e.conn # l[1]}
      BY <1>6 DEF RemoveOutLink
    <2>2. link' = [link EXCEPT ![l].pc = "gone"] /\ Lives(l)
      BY <1>6 DEF RemoveOutLink
    <2>3. ASSUME NEW m \in Links PROVE Lives(m)' <=> \E e \in out_links' : Entry(e, m)'
      <3>1. CASE m = l
        BY <1>1, <2>1, <2>2, <3>1 DEF Entry, TypeOK
      <3>2. CASE m # l
        <4>1. Lives(m)' <=> Lives(m)
          BY <1>1, <2>2, <3>2 DEF TypeOK
        <4>2. ASSUME NEW e \in out_links, Entry(e, m) PROVE e.conn # l[1]
          <5>1. PICK f \in out_links : Entry(f, l)
            BY <1>1, <2>2
          <5>2. e.conn = f.conn => m = l
            <6>1. e.conn = f.conn => e = f
              BY <1>1, <5>1
            <6> QED
              BY <4>2, <5>1, <6>1, LinksArePairs DEF Entry
          <5> QED
            BY <3>2, <5>1, <5>2 DEF Entry
        <4> QED
          BY <1>1, <2>1, <4>1, <4>2 DEF Entry
      <3> QED
        BY <3>1, <3>2
    <2> QED
      BY <1>1, <2>1, <2>3
  <1>7. CASE UNCHANGED <<link, out_links>>
    BY <1>1, <1>7 DEF Entry
  <1> QED
    BY <1>3, <1>4, <1>5, <1>6, <1>7
       DEF Next, SocketStep, Receive, AddClientLink, SendAck, LookForLink, GetOutLink, GiveToLink,
           ProcessLive, TimerStep, LinkStep, MainStep, TimerExpires, SendLivePacket, OnCacheResend,
           TimerSends, TimerStops, TimerLoopEnds, WriterCalled, WriteFails, WriterStep, WriterLocks,
           WriterLocksAgain, WriterUnlocks, Signal, LookAtFlag,
           GetStat, Join

-----------------------------------------------------------------------------
(* What the links have cached.                                             *)

\* A cached packet changes the indexes of its link and kind only.
LEMMA CachingAdds ==
  ASSUME NEW l \in Links, NEW cmd, NEW index,
         emitted' = emitted \union {[source |-> l, cmd |-> cmd, index |-> index]}
  PROVE  /\ Indexes(l, cmd)' = Indexes(l, cmd) \union {index}
         /\ \A m \in Links, other \in {"data", "release"} :
              m # l \/ other # cmd => Indexes(m, other)' = Indexes(m, other)
  <1> DEFINE p == [source |-> l, cmd |-> cmd, index |-> index]
  <1>1. \A q \in emitted' : q \in emitted \/ q = p
    OBVIOUS
  <1>2. p.source = l /\ p.cmd = cmd /\ p.index = index /\ p \in emitted' /\ emitted \subseteq emitted'
    OBVIOUS
  <1> HIDE DEF p
  <1>3. ASSUME NEW i PROVE i \in Indexes(l, cmd)' <=> i \in Indexes(l, cmd) \/ i = index
    BY <1>1, <1>2 DEF Indexes
  <1>4. ASSUME NEW m \in Links, NEW other \in {"data", "release"}, m # l \/ other # cmd, NEW i
        PROVE  i \in Indexes(m, other)' <=> i \in Indexes(m, other)
    BY <1>1, <1>2, <1>4 DEF Indexes
  <1>5. Indexes(l, cmd)' = Indexes(l, cmd) \union {index}
    BY <1>3
  <1>6. \A m \in Links, other \in {"data", "release"} :
          m # l \/ other # cmd => Indexes(m, other)' = Indexes(m, other)
    BY <1>4
  <1> QED
    BY <1>5, <1>6

\* A step of somebody else leaves the stream of a link alone.
LEMMA OthersLeaveStream ==
  ASSUME NEW m \in Links, LinkStream(m), link'[m] = link[m],
         \A cmd \in {"data", "release"} : Indexes(m, cmd)' = Indexes(m, cmd),
         \A e \in out_links' : Entry(e, m)' => e \in out_links
  PROVE  LinkStream(m)'
  <1>1. \A n, releases : Cached(m, n, releases)' <=> Cached(m, n, releases)
    BY DEF Cached
  <1>2. (Told(m)' <=> Told(m)) /\ (Between(m)' <=> Between(m))
    BY DEF Told, Between
  <1>3. \A e \in out_links' : Entry(e, m)' => Entry(e, m)
    BY DEF Entry
  <1> QED
    BY <1>1, <1>2, <1>3 DEF LinkStream, EntryInv

LEMMA StreamStep ==
  ASSUME IInv, [Next]_vars
  PROVE  StreamInv'
  <1> USE DEF vars, trunk_vars, timer_vars, link_vars, write_vars, main_vars, stat_vars, LinkGoes
  <1>1. /\ StreamInv /\ OneLinkPerConnection
        /\ link \in [Links -> LinkStates] /\ out_links \subseteq Entries
    BY DEF IInv, TypeOK, LinkStates, Entries
  <1>2. UNCHANGED emitted => \A l \in Links, cmd \in {"data", "release"} :
                               Indexes(l, cmd)' = Indexes(l, cmd)
    BY DEF Indexes
  <1>3. SUFFICES ASSUME NEW m \in Links PROVE LinkStream(m)'
    BY DEF StreamInv
  <1>4. LinkStream(m)
    BY <1>1 DEF StreamInv
  <1>5. ASSUME NEW k \in Sockets, InsertLink(k)
        PROVE  LinkStream(m)'
    <2>0. PICK c \in Conns : c = socket[k].conn /\ ~Listed(c)
      BY <1>5 DEF InsertLink, TypeOK, Receiving, IInv, LookInv
    <2>1. UNCHANGED emitted
      BY <1>5 DEF InsertLink
    <2>2. CASE UNCHANGED <<out_links, link>>
      BY <1>2, <1>4, <2>1, <2>2, OthersLeaveStream
    <2>3. ASSUME NEW n \in 1 .. MaxMade, NextToMake(c, n),
                 out_links' = out_links \union {[conn |-> c, made |-> n, next |-> 0]},
                 link' = [link EXCEPT ![<<c, n>>].pc = "idle"]
          PROVE  LinkStream(m)'
      <3> DEFINE d == [conn |-> c, made |-> n, next |-> 0]
      <3>1. <<c, n>> \in Links
        BY DEF Links
      <3>2. CASE m = <<c, n>>
        <4>1. link[m].pc = "none" /\ link'[m].pc = "idle"
          BY <1>1, <2>3, <3>2 DEF NextToMake, LinkStates
        <4>2. Cached(m, 0, {})'
          BY <1>2, <1>4, <2>1, <4>1 DEF LinkStream, Cached
        <4>3. \A e \in out_links' : Entry(e, m)' => e = d
          BY <2>0, <2>3, <3>2 DEF Entry, Listed
        <4>4. EntryInv(m, d)'
          BY <4>1, <4>2, BoundAssumption DEF EntryInv, Between
        <4> QED
          BY <4>1, <4>3, <4>4 DEF LinkStream, Told
      <3>3. CASE m # <<c, n>>
        <4>1. link'[m] = link[m]
          BY <1>1, <2>3, <3>3
        <4>2. ~Entry(d, m)'
          BY <3>1, <3>3, LinksArePairs DEF Entry
        <4> QED
          BY <1>2, <1>4, <2>1, <2>3, <4>1, <4>2, OthersLeaveStream
      <3> QED
        BY <3>2, <3>3
    <2> QED
      BY <1>5, <2>0, <2>2, <2>3 DEF InsertLink
  <1>6. ASSUME NEW l \in Links, LinkReads(l) \/ LinkEnds(l)
        PROVE  LinkStream(m)'
    <2>1. UNCHANGED <<emitted, out_links>>
      BY <1>6 DEF LinkReads, LinkEnds
    <2>2. CASE m = l
      <3>1. link[m].pc \in {"idle", "stopped"} /\ link'[m].pc = "index"
        BY <1>1, <1>6, <2>2 DEF LinkReads, LinkEnds, ClosesWith, LinkStates
      <3>2. ASSUME NEW e \in out_links, Entry(e, m)
            PROVE  EntryInv(m, e)'
        <4>1. Cached(m, e.next, {})' /\ e.next <= NumChunks
          BY <1>2, <1>4, <2>1, <3>1, <3>2 DEF LinkStream, EntryInv, Between, Cached
        <4>2. CASE LinkReads(l)
          <5>1. \A f \in out_links : Entry(f, m) => f = e
            BY <1>1, <3>2 DEF Entry, OneLinkPerConnection
          <5>2. e.next < NumChunks
            BY <2>2, <4>2, <5>1 DEF LinkReads, Entry
          <5> QED
            BY <3>1, <4>1, <5>2 DEF EntryInv
        <4>3. CASE LinkEnds(l)
          <5>1. link'[m].cmd = "release"
            BY <1>1, <2>2, <4>3 DEF LinkEnds, LinkStates
          <5> QED
            BY <3>1, <4>1, <5>1 DEF EntryInv
        <4> QED
          BY <1>6, <4>2, <4>3
      <3> QED
        BY <2>1, <3>1, <3>2 DEF LinkStream, Told, Entry
    <2>3. CASE m # l
      <3>1. link'[m] = link[m]
        BY <1>1, <1>6, <2>3 DEF LinkReads, LinkEnds
      <3> QED
        BY <1>2, <1>4, <2>1, <3>1, OthersLeaveStream
    <2> QED
      BY <2>2, <2>3
  <1>7. ASSUME NEW l \in Links, GetNextPacketIndex(l)
        PROVE  LinkStream(m)'
    <2>1. UNCHANGED emitted
      BY <1>7 DEF GetNextPacketIndex
    <2>2. PICK e, d : IndexTaken(l, e, d)
      BY <1>7, IndexIsTaken
    <2>3. CASE m = l
      <3>1. Cached(m, e.next, {})' /\ (link[m].cmd = "data" => e.next < NumChunks)
        BY <1>2, <1>4, <1>7, <2>1, <2>2, <2>3
           DEF LinkStream, EntryInv, Between, Cached, IndexTaken, Entry, GetNextPacketIndex
      <3>2. \A f \in out_links' : Entry(f, m)' => f = d
        BY <1>1, <2>2, <2>3 DEF IndexTaken, Entry, OneLinkPerConnection
      <3>3. EntryInv(m, d)'
        BY <2>2, <2>3, <3>1, BoundAssumption DEF IndexTaken, EntryInv, Between, Cached
      <3> QED
        BY <2>2, <2>3, <3>2, <3>3 DEF LinkStream, Told, IndexTaken
    <2>4. CASE m # l
      <3>1. ~Entry(d, m)'
        BY <2>2, <2>4, LinksArePairs DEF IndexTaken, Entry
      <3> QED
        BY <1>2, <1>4, <2>1, <2>2, <2>4, <3>1, OthersLeaveStream DEF IndexTaken
    <2> QED
      BY <2>3, <2>4
  <1>8. ASSUME NEW l \in Links, CachePacket(l)
        PROVE  LinkStream(m)'
    <2>0. PICK cmd, index : cmd = link[l].cmd /\ index = link[l].index
      OBVIOUS
    <2>1. emitted' = emitted \union {[source |-> l, cmd |-> cmd, index |-> index]}
          /\ UNCHANGED out_links
      BY <1>8, <2>0 DEF CachePacket
    <2>2. cmd \in {"data", "release"} /\ index \in 0 .. NumChunks
      BY <1>1, <2>0 DEF LinkStates
    <2>3. CASE m = l
      <3>1. link[m].pc = "cache" /\ link'[m].pc = "send" /\ link'[m].cmd = cmd
        BY <1>1, <1>8, <2>0, <2>3 DEF CachePacket, LinkStates
      <3>2. PICK e \in out_links : Entry(e, m) /\ \A f \in out_links : f.conn = m[1] => f = e
        BY <3>1, LivingLinkIsListed DEF IInv
      <3>3. \A f \in out_links' : Entry(f, m)' => f = e
        BY <2>1, <3>2 DEF Entry
      <3>4. /\ Indexes(m, "data") = 0 .. index - 1 /\ Indexes(m, "release") = {}
            /\ e.next = index + 1 /\ (cmd = "data" => e.next <= NumChunks)
        BY <1>4, <2>0, <2>3, <3>1, <3>2 DEF LinkStream, EntryInv, Cached
      <3>5. CASE cmd = "data"
        <4>1. /\ Indexes(m, "data")' = Indexes(m, "data") \union {index}
              /\ Indexes(m, "release")' = Indexes(m, "release")
          BY <2>1, <2>3, <3>5, CachingAdds
        <4>2. (0 .. index - 1) \union {index} = 0 .. e.next - 1
          BY <2>2, <3>4
        <4>3. EntryInv(m, e)'
          BY <3>1, <3>4, <3>5, <4>1, <4>2 DEF EntryInv, Cached
        <4> QED
          BY <3>1, <3>3, <3>5, <4>3 DEF LinkStream, Told
      <3>6. CASE cmd = "release"
        <4>1. /\ Indexes(m, "data")' = Indexes(m, "data")
              /\ Indexes(m, "release")' = Indexes(m, "release") \union {index}
          BY <2>1, <2>3, <3>6, CachingAdds
        <4>2. Cached(m, index, {index})'
          BY <3>4, <4>1 DEF Cached
        <4>3. EntryInv(m, e)'
          BY <3>1, <3>6 DEF EntryInv, Between
        <4> QED
          BY <2>2, <3>1, <3>3, <4>2, <4>3 DEF LinkStream
      <3> QED
        BY <2>2, <3>5, <3>6
    <2>4. CASE m # l
      <3>1. link'[m] = link[m]
        BY <1>1, <1>8, <2>4 DEF CachePacket
      <3>2. \A other \in {"data", "release"} : Indexes(m, other)' = Indexes(m, other)
        BY <2>1, <2>4, CachingAdds
      <3> QED
        BY <1>4, <2>1, <3>1, <3>2, OthersLeaveStream
    <2> QED
      BY <2>3, <2>4
  <1>9. ASSUME NEW l \in Links, SendPacket(l)
        PROVE  LinkStream(m)'
    <2>1. UNCHANGED <<emitted, out_links>>
      BY <1>9 DEF SendPacket
    <2>2. CASE m = l
      <3>1. /\ link[m].pc = "send" /\ link'[m].cmd = link[m].cmd
            /\ link'[m].pc = IF link[m].cmd = "data" THEN "idle" ELSE "remove"
            /\ link[m].cmd \in {"data", "release"}
        BY <1>1, <1>9, <2>2 DEF SendPacket, Caller, LinkStates
      <3>2. \A n, releases : Cached(m, n, releases)' <=> Cached(m, n, releases)
        BY <1>2, <2>1 DEF Cached
      <3> QED
        BY <1>4, <2>1, <3>1, <3>2 DEF LinkStream, EntryInv, Told, Between, Entry
    <2>3. CASE m # l
      <3>1. link'[m] = link[m]
        BY <1>1, <1>9, <2>3 DEF SendPacket
      <3> QED
        BY <1>2, <1>4, <2>1, <3>1, OthersLeaveStream
    <2> QED
      BY <2>2, <2>3
  <1>10. ASSUME NEW l \in Links, RemoveOutLink(l)
         PROVE  LinkStream(m)'
    <2>1. UNCHANGED emitted /\ out_links' = {e \in out_links : e.conn # l[1]}
      BY <1>10 DEF RemoveOutLink
    <2>2. CASE m = l
      <3>1. link[m].pc = "remove" /\ link'[m].pc = "gone"
        BY <1>1, <1>10, <2>2 DEF RemoveOutLink, LinkStates
      <3>2. \A e \in out_links' : ~Entry(e, m)'
        BY <2>1, <2>2 DEF Entry
      <3>3. \A n, releases : Cached(m, n, releases)' <=> Cached(m, n, releases)
        BY <1>2, <2>1 DEF Cached
      <3> QED
        BY <1>4, <3>1, <3>2, <3>3 DEF LinkStream, Told
    <2>3. CASE m # l
      <3>1. link'[m] = link[m]
        BY <1>1, <1>10, <2>3 DEF RemoveOutLink
      <3> QED
        BY <1>2, <1>4, <2>1, <3>1, OthersLeaveStream
    <2> QED
      BY <2>2, <2>3
  <1>11. ASSUME NEW l \in Links, ReadFails(l) \/ CancelReadWrite(l)
         PROVE  LinkStream(m)'
    <2>1. UNCHANGED <<emitted, out_links>>
      BY <1>11 DEF ReadFails, CancelReadWrite
    <2>2. CASE m = l
      <3>1. link[m].pc \in {"idle", "cancel"} /\ link'[m].pc \in {"cancel", "stopped"}
        BY <1>1, <1>11, <2>2 DEF ReadFails, CancelReadWrite, LinkStates
      <3>2. \A n, releases : Cached(m, n, releases)' <=> Cached(m, n, releases)
        BY <1>2, <2>1 DEF Cached
      <3> QED
        BY <1>4, <2>1, <3>1, <3>2 DEF LinkStream, EntryInv, Told, Between, Entry
    <2>3. CASE m # l
      <3>1. link'[m] = link[m]
        BY <1>1, <1>11, <2>3 DEF ReadFails, CancelReadWrite
      <3> QED
        BY <1>2, <1>4, <2>1, <3>1, OthersLeaveStream
    <2> QED
      BY <2>2, <2>3
  <1>12. CASE UNCHANGED <<link, out_links, emitted>>
    BY <1>2, <1>4, <1>12, OthersLeaveStream
  <1> QED
    BY <1>5, <1>6, <1>7, <1>8, <1>9, <1>10, <1>11, <1>12
       DEF Next, SocketStep, Receive, AddClientLink, SendAck, LookForLink, GetOutLink, GiveToLink,
           ProcessLive, TimerStep, LinkStep, MainStep, TimerExpires, SendLivePacket, OnCacheResend,
           TimerSends, TimerStops, TimerLoopEnds, WriterCalled, WriteFails, WriterStep, WriterLocks,
           WriterLocksAgain, WriterUnlocks, Signal, LookAtFlag,
           GetStat, Join

-----------------------------------------------------------------------------
(* Theorems.                                                               *)

LEMMA InitEstablishes == Init => IInv
  <1> SUFFICES ASSUME Init PROVE IInv
    OBVIOUS
  <1>1. TypeOK
    <2>1. /\ socket \in [Sockets -> SocketStates] /\ link \in [Links -> LinkStates]
          /\ out_links \subseteq Entries
      <3>1. [pc |-> "none", cmd |-> "data", index |-> 0] \in LinkStates
        BY BoundAssumption DEF LinkStates
      <3> QED
        BY <3>1 DEF Init, SocketStates
    <2>2. /\ counter \in [{"out", "in"} -> Nat] /\ counted \in [{"out", "in"} -> Nat]
          /\ reported \in [{"out", "in"} -> Nat]
          /\ held \in [Mutexes -> Sockets \union {Timer, Nobody}]
          /\ writer \in [Links -> {"none", "waiting", "called", "locked", "filled", "marked", "ended"}]
          /\ chunks_held \in [Links -> Links \union {Nobody}]
          /\ clients_link \in [Conns -> SUBSET (Sockets \X Addresses)]
      BY DEF Init
    <2>3. /\ timer = "waiting" /\ todo = {} /\ stops = {} /\ emitted = {} /\ main = "flag"
          /\ stop_flag = FALSE /\ ctx_stopped = FALSE /\ heard = {} /\ datagrams \in 0 .. MaxDatagrams
      BY BoundAssumption DEF Init
    <2> QED
      BY <2>1, <2>2, <2>3 DEF TypeOK, SocketStates, LinkStates, Entries
  <1>2. LockInv /\ ChunksLockInv /\ LookInv
    BY NamesAssumption DEF Init, LockInv, ChunksLockInv, LookInv, Receiving, Mutexes
  <1>3. RouteInv /\ StatisticsAddUp /\ OneLinkPerConnection
    BY DEF Init, RouteInv, RouteWasHeard, StatisticsAddUp, SocketBusy, OneLinkPerConnection
  <1>4. StreamInv
    <2>1. \A l \in Links : Cached(l, 0, {})
      BY DEF Init, Cached, Indexes
    <2> QED
      BY <2>1 DEF Init, StreamInv, LinkStream, Told, Between
  <1> QED
    BY <1>1, <1>2, <1>3, <1>4 DEF IInv

\* The inductive invariant: TypeOK and OneLinkPerConnection with who is in which mutex
\* (ProcessConnectData), what client_holder holds and what the links have cached.
THEOREM Inductive == Spec => []IInv
  <1>1. IInv /\ [Next]_vars => IInv'
    <2> SUFFICES ASSUME IInv, [Next]_vars PROVE IInv'
      OBVIOUS
    <2> QED
      BY TypeStep, LockStep, ChunksLockStep, LookStep, OneLinkStep, RouteStep, StreamStep,
         StatisticsStep DEF IInv
  <1> QED
    BY <1>1, InitEstablishes, PTL DEF Spec

\* The types of the threads' state, of the tables and of the counters.
THEOREM TypeCorrect == Spec => []TypeOK
  <1>1. IInv => TypeOK
    BY DEF IInv
  <1> QED
    BY <1>1, Inductive, PTL

\* ProcessConnectData and CloseConnect keep one link at most for a connection, and list
\* the links that live and no others.
THEOREM OneLink == Spec => []OneLinkPerConnection
  <1>1. IInv => OneLinkPerConnection
    BY DEF IInv
  <1> QED
    BY <1>1, Inductive, PTL

\* Packets of a connection go where its datagrams came from.
THEOREM RouteHeard == Spec => []RouteWasHeard
  <1>1. IInv => RouteWasHeard
    BY DEF IInv, RouteInv
  <1> QED
    BY <1>1, Inductive, PTL

\* A link that is gone has left its chunks, numbered without gap or repetition, and its
\* release behind them.
THEOREM StreamLeft == Spec => []GoneLinkLeftItsStream
  <1>1. IInv => GoneLinkLeftItsStream
    BY DEF IInv, StreamInv, LinkStream, Told, Cached, GoneLinkLeftItsStream
  <1> QED
    BY <1>1, Inductive, PTL

\* The statistics tell everything once.
THEOREM StatisticsRight == Spec => []StatisticsAddUp
  <1>1. IInv => StatisticsAddUp
    BY DEF IInv
  <1> QED
    BY <1>1, Inductive, PTL

\* No handlers wait in a circle, over the mutexes of the trunk and the write_chunks_lock_
\* of every link: a write loop that holds its own never waits, since it may take it
\* again, a socket in out_links_ takes no other, and the timer waits for write loops only.
THEOREM NoCircle == Spec => []NobodyWaitsInCircle
  <1>1. IInv => NobodyWaitsInCircle
    <2> SUFFICES ASSUME IInv, NEW waiting \in (SUBSET Holders) \ {{}}
                 PROVE  \E who \in waiting : WaitsFor(who) \intersect waiting = {}
      BY DEF NobodyWaitsInCircle
    <2> USE NamesAssumption DEF IInv, LockInv
    <2>1. waiting # {} /\ Nobody \notin waiting /\ waiting \subseteq Sockets \union Links \union {Timer}
      BY DEF Holders, TypeOK
    <2>2. ASSUME NEW l \in waiting, l \in Links
          PROVE  WaitsFor(l) = {}
      <3>1. \A mutex : ~AsksFor(l, mutex)
        BY <2>2 DEF AsksFor
      <3>2. \A m \in Links : ~AsksForChunks(l, m)
        BY <2>2 DEF AsksForChunks, Open, ChunksLockInv
      <3> QED
        BY <3>1, <3>2 DEF WaitsFor
    <2>3. ASSUME NEW k \in waiting, k \in Sockets
          PROVE  WaitsFor(k) = {}
      <3>1. \A l \in Links : chunks_held[l] # k
        BY <2>3 DEF ChunksLockInv
      <3>2. held["out_links"] = k
        BY <2>3, <3>1 DEF Holders, Mutexes
      <3>3. socket[k].pc = "insert"
        BY <2>3, <3>2
      <3>4. \A mutex : ~AsksFor(k, mutex)
        BY <2>3, <3>3 DEF AsksFor
      <3>5. \A m \in Links : ~AsksForChunks(k, m)
        BY <2>3, <3>3 DEF AsksForChunks
      <3> QED
        BY <3>4, <3>5 DEF WaitsFor
    <2>4. CASE waiting = {Timer}
      <3>1. \A l \in Links : chunks_held[l] # Timer
        BY DEF ChunksLockInv
      <3>2. timer \in {"sending_live", "sending_cache"}
        BY <2>4, <3>1 DEF Holders, Mutexes
      <3>3. \A mutex \in Mutexes : AsksFor(Timer, mutex) => held[mutex] = Nobody
        BY <3>2 DEF AsksFor
      <3>4. Timer \notin WaitsFor(Timer)
        BY <3>1, <3>3 DEF WaitsFor
      <3> QED
        BY <2>4, <3>4
    <2>5. waiting = {Timer} \/ \E who \in waiting : who \in Links \/ who \in Sockets
      BY <2>1
    <2> QED
      BY <2>2, <2>3, <2>4, <2>5
  <1> QED
    BY <1>1, Inductive, PTL
=============================================================================
