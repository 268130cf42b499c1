--------------------------- MODULE OutLinkProofs ---------------------------
(***************************************************************************)
(* Theorems about OutLink, for every size of the thread pool, both ways of *)
(* making a link and every number of chunks, endpoints and reads.          *)
(***************************************************************************)
EXTENDS OutLink, TLAPS, SequenceTheorems, FiniteSetTheorems

\* The chunk indices of the stream.
Chunk == 0..(NumChunks - 1)

\* Connecting means that an endpoint is left, and a completed write took no
\* more than the buffer holds.
ShapeInv ==
  /\ starter = "connecting" => resolved_points > 0
  /\ starter # "started" => writer = "idle"
  /\ bytes_transferred <= Len(network_write_buffer)
  /\ writer # "written" => bytes_transferred = 0

\* Consecutive chunk indices from "first" on.
InOrder(seq, first) == \A i \in 1..Len(seq) : seq[i] = first + i - 1

\* StreamOrder without its concatenation.
StreamInv ==
  /\ Len(socket_out) + Len(network_write_buffer) = next_write_chunk_id + bytes_transferred
  /\ InOrder(socket_out, 0)
  /\ InOrder(network_write_buffer, Len(socket_out) - bytes_transferred)

\* The flags mirror the states of the two loops, and CloseConnect is called
\* once, by a link whose loops have ended.
ControlInv ==
  fault = "none" =>
    /\ read_processing <=> reader \in {"reading", "data", "eof"}
    /\ write_processing <=> writer \in {"waiting", "woken", "writing", "written", "broken"}
    /\ starter \notin {"reading_started", "started"} => reader = "idle" /\ writer = "idle"
    /\ starter = "reading_started" => writer = "idle"
    /\ posts > 0 \/ close_invoked =>
         starter \in {"reading_started", "started", "unresolved"}
    /\ starter = "reading_started" /\ (posts > 0 \/ close_invoked) => stop_write_immediate
    /\ close_invoked => ~socket_open /\ ~read_processing /\ ~write_processing
    /\ ~close_invoked => close_calls = 0 /\ closer = "idle"
    /\ closer = "closing" => close_calls = 0

\* What the data needs: nothing about threads is in it.
DataInv == TypeOK /\ ShapeInv /\ StreamInv

-----------------------------------------------------------------------------
(* Sequences of consecutive chunks.                                        *)

LEMMA Appending ==
  ASSUME NEW s \in Seq(Chunk), NEW t \in Seq(Chunk), NEW first \in Int,
         InOrder(s, first), InOrder(t, first + Len(s))
  PROVE  /\ s \o t \in Seq(Chunk)
         /\ Len(s \o t) = Len(s) + Len(t)
         /\ InOrder(s \o t, first)
  <1>1. /\ s \o t \in Seq(Chunk)
        /\ Len(s \o t) = Len(s) + Len(t)
        /\ \A i \in 1..(Len(s) + Len(t)) :
             (s \o t)[i] = IF i <= Len(s) THEN s[i] ELSE t[i - Len(s)]
    BY ConcatProperties
  <1>2. Len(s) \in Nat /\ Len(t) \in Nat
    OBVIOUS
  <1>3. ASSUME NEW i \in 1..(Len(s) + Len(t)) PROVE (s \o t)[i] = first + i - 1
    <2>1. CASE i <= Len(s)
      BY <1>1, <1>2, <2>1 DEF InOrder
    <2>2. CASE i > Len(s)
      <3>1. i - Len(s) \in 1..Len(t) /\ (s \o t)[i] = t[i - Len(s)]
        BY <1>1, <1>2, <2>2
      <3>2. t[i - Len(s)] = first + Len(s) + (i - Len(s)) - 1
        BY <3>1 DEF InOrder
      <3> QED
        BY <1>2, <3>1, <3>2
    <2> QED
      BY <1>2, <2>1, <2>2
  <1> QED
    BY <1>1, <1>3 DEF InOrder

LEMMA Slicing ==
  ASSUME NEW s \in Seq(Chunk), NEW first \in Int, InOrder(s, first), NEW n \in 0..Len(s)
  PROVE  /\ SubSeq(s, 1, n) \in Seq(Chunk)
         /\ Len(SubSeq(s, 1, n)) = n
         /\ InOrder(SubSeq(s, 1, n), first)
         /\ SubSeq(s, n + 1, Len(s)) \in Seq(Chunk)
         /\ Len(SubSeq(s, n + 1, Len(s))) = Len(s) - n
         /\ InOrder(SubSeq(s, n + 1, Len(s)), first + n)
  <1>1. Len(s) \in Nat /\ n \in Nat /\ (\A i \in 1..Len(s) : s[i] \in Chunk)
    OBVIOUS
  <1>2. /\ SubSeq(s, 1, n) \in Seq(Chunk)
        /\ Len(SubSeq(s, 1, n)) = IF 1 <= n THEN n - 1 + 1 ELSE 0
        /\ \A i \in 1..(n - 1 + 1) : SubSeq(s, 1, n)[i] = s[1 + i - 1]
    BY <1>1, SubSeqProperties
  <1>3. /\ SubSeq(s, n + 1, Len(s)) \in Seq(Chunk)
        /\ Len(SubSeq(s, n + 1, Len(s))) =
             IF n + 1 <= Len(s) THEN Len(s) - (n + 1) + 1 ELSE 0
        /\ \A i \in 1..(Len(s) - (n + 1) + 1) :
             SubSeq(s, n + 1, Len(s))[i] = s[n + 1 + i - 1]
    BY <1>1, SubSeqProperties
  <1>4. Len(SubSeq(s, 1, n)) = n /\ Len(SubSeq(s, n + 1, Len(s))) = Len(s) - n
    BY <1>1, <1>2, <1>3
  <1>5. InOrder(SubSeq(s, 1, n), first)
    BY <1>1, <1>2, <1>4 DEF InOrder
  <1>6. InOrder(SubSeq(s, n + 1, Len(s)), first + n)
    <2> SUFFICES ASSUME NEW i \in 1..(Len(s) - n)
                 PROVE  SubSeq(s, n + 1, Len(s))[i] = first + n + i - 1
      BY <1>4 DEF InOrder
    <2>1. n + i \in 1..Len(s) /\ SubSeq(s, n + 1, Len(s))[i] = s[n + i]
      BY <1>1, <1>3
    <2>2. s[n + i] = first + (n + i) - 1
      BY <2>1 DEF InOrder
    <2> QED
      BY <1>1, <2>1, <2>2
  <1> QED
    BY <1>2, <1>3, <1>4, <1>5, <1>6

-----------------------------------------------------------------------------
(* RequestWrite.                                                           *)

\* FillNetworkBuffer appends the chunks it takes, in order, and forgets them.
LEMMA FillAppends ==
  ASSUME TypeOK, NEW buffer \in Seq(Chunk), FillNetworkBuffer(buffer)
  PROVE  /\ next_write_chunk_id' \in next_write_chunk_id..NumChunks
         /\ write_chunks' \subseteq write_chunks \ (next_write_chunk_id..(next_write_chunk_id' - 1))
         /\ stop_after_all_write' \in BOOLEAN
         /\ network_write_buffer' \in Seq(Chunk)
         /\ Len(network_write_buffer') =
              Len(buffer) + next_write_chunk_id' - next_write_chunk_id
         /\ InOrder(buffer, next_write_chunk_id - Len(buffer)) =>
              InOrder(network_write_buffer', next_write_chunk_id - Len(buffer))
  <1> USE NumChunksAssumption
  <1>0. next_write_chunk_id \in Nat /\ Len(buffer) \in Nat
    BY DEF TypeOK
  <1>1. CASE StopReached(next_write_chunk_id)
    BY <1>0, <1>1 DEF FillNetworkBuffer, TypeOK
  <1>2. CASE ~StopReached(next_write_chunk_id)
    <2>1. PICK end \in next_write_chunk_id..NumChunks :
             /\ next_write_chunk_id' = end
             /\ network_write_buffer' =
                  buffer \o [i \in 1..(end - next_write_chunk_id) |->
                               next_write_chunk_id + i - 1]
             /\ stop_after_all_write' = (stop_after_all_write \/ StopReached(end))
             /\ write_chunks' = IF StopReached(end) THEN {}
                               ELSE write_chunks \ (next_write_chunk_id..(end - 1))
      BY <1>2 DEF FillNetworkBuffer
    <2> DEFINE added == [i \in 1..(end - next_write_chunk_id) |-> next_write_chunk_id + i - 1]
    <2>2. /\ added \in Seq(Chunk)
          /\ Len(added) = end - next_write_chunk_id
          /\ InOrder(added, next_write_chunk_id)
      BY DEF TypeOK, Chunk, InOrder
    <2> HIDE DEF added
    <2>3. network_write_buffer' = buffer \o added
      BY <2>1 DEF added
    <2>4. /\ buffer \o added \in Seq(Chunk)
          /\ Len(buffer \o added) = Len(buffer) + Len(added)
      BY <2>2, ConcatProperties
    <2>5. ASSUME InOrder(buffer, next_write_chunk_id - Len(buffer))
          PROVE  InOrder(buffer \o added, next_write_chunk_id - Len(buffer))
      <3>1. next_write_chunk_id - Len(buffer) \in Int
            /\ next_write_chunk_id - Len(buffer) + Len(buffer) = next_write_chunk_id
        BY <1>0
      <3> QED
        BY <2>2, <2>5, <3>1, Appending
    <2>6. stop_after_all_write' \in BOOLEAN
      BY <2>1 DEF StopReached, TypeOK
    <2>7. /\ next_write_chunk_id' \in next_write_chunk_id..NumChunks
          /\ write_chunks' \subseteq
               write_chunks \ (next_write_chunk_id..(next_write_chunk_id' - 1))
      BY <2>1
    <2>8. Len(network_write_buffer') =
            Len(buffer) + next_write_chunk_id' - next_write_chunk_id
      BY <1>0, <2>1, <2>2, <2>3, <2>4
    <2> QED
      BY <2>3, <2>4, <2>5, <2>6, <2>7, <2>8
  <1> QED
    BY <1>1, <1>2

\* What RequestWrite does to the data, whichever way it ends.
LEMMA RequestWriteData ==
  ASSUME TypeOK, NEW buffer \in Seq(Chunk), RequestWrite(buffer)
  PROVE  /\ next_write_chunk_id' \in next_write_chunk_id..NumChunks
         /\ write_chunks' \subseteq write_chunks \ (next_write_chunk_id..(next_write_chunk_id' - 1))
         /\ stop_after_all_write' \in BOOLEAN
         /\ network_write_buffer' \in Seq(Chunk)
         /\ Len(network_write_buffer') =
              Len(buffer) + next_write_chunk_id' - next_write_chunk_id
         /\ InOrder(buffer, next_write_chunk_id - Len(buffer)) =>
              InOrder(network_write_buffer', next_write_chunk_id - Len(buffer))
  <1>0. next_write_chunk_id \in Nat /\ Len(buffer) \in Nat
    BY NumChunksAssumption DEF TypeOK
  <1>1. CASE stop_write_immediate
    BY <1>0, <1>1, NumChunksAssumption DEF RequestWrite, TypeOK
  <1>2. CASE ~stop_write_immediate
    BY <1>2, FillAppends DEF RequestWrite
  <1> QED
    BY <1>1, <1>2

LEMMA CancelledKeeps ==
  /\ \A op \in Readers : Cancelled(op) \in Readers
  /\ \A op \in Writers : Cancelled(op) \in Writers
  BY DEF Cancelled, Readers, Writers

\* What RequestWrite does to the loops.
LEMMA RequestWriteControl ==
  ASSUME TypeOK, NEW buffer, RequestWrite(buffer)
  PROVE  /\ reader' \in Readers
         /\ writer' \in Writers
         /\ write_processing' \in BOOLEAN
         /\ stop_write_immediate' \in BOOLEAN
         /\ posts' \in Nat
         /\ fault' \in {"none", "stale_chunk", "bad_descriptor"}
  <1>1. EndWrite("stopped") \/ EndWrite("drained") \/ WriteOn("writing") \/ WriteOn("waiting")
    BY DEF RequestWrite
  <1>2. CASE EndWrite("stopped") \/ EndWrite("drained")
    <2>1. CASE socket_open
      <3>1. PICK reason \in {"stopped", "drained"} : EndWrite(reason)
        BY <1>2
      <3>2. reader \in Readers /\ posts \in Nat
        BY DEF TypeOK
      <3>3. reader' \in Readers /\ posts' \in Nat
        BY <2>1, <3>1, <3>2, CancelledKeeps DEF EndWrite
      <3>4. writer' \in Writers
        BY <2>1, <3>1 DEF EndWrite, Writers
      <3> QED
        BY <2>1, <3>1, <3>3, <3>4 DEF EndWrite, TypeOK
    <2>2. CASE ~socket_open
      BY <1>2, <2>2 DEF EndWrite, TypeOK
    <2> QED
      BY <2>1, <2>2
  <1>3. CASE WriteOn("writing") \/ WriteOn("waiting")
    BY <1>3 DEF WriteOn, TypeOK, Readers, Writers
  <1> QED
    BY <1>1, <1>2, <1>3

\* What is left of the buffer when the completed write is cut off.
LEMMA UnwrittenData ==
  ASSUME TypeOK, bytes_transferred <= Len(network_write_buffer)
  PROVE  /\ Unwritten(bytes_transferred) \in Seq(Chunk)
         /\ Len(Unwritten(bytes_transferred)) =
              Len(network_write_buffer) - bytes_transferred
         /\ \A first \in Int : InOrder(network_write_buffer, first) =>
              InOrder(Unwritten(bytes_transferred), first + bytes_transferred)
  <1>1. /\ network_write_buffer \in Seq(Chunk)
        /\ Len(network_write_buffer) \in Nat
        /\ bytes_transferred \in 0..Len(network_write_buffer)
    BY NumChunksAssumption DEF TypeOK, Chunk
  <1>2. \A first \in Int : InOrder(network_write_buffer, first) =>
          InOrder(Unwritten(bytes_transferred), first + bytes_transferred)
    BY <1>1, Slicing DEF Unwritten
  <1>3. /\ Unwritten(bytes_transferred) \in Seq(Chunk)
        /\ Len(Unwritten(bytes_transferred)) = IF bytes_transferred + 1 <= Len(network_write_buffer)
             THEN Len(network_write_buffer) - (bytes_transferred + 1) + 1 ELSE 0
    BY <1>1, SubSeqProperties DEF Unwritten
  <1> QED
    BY <1>1, <1>2, <1>3

-----------------------------------------------------------------------------
(* Type correctness.                                                       *)

LEMMA InitData == Init => DataInv
  <1> SUFFICES ASSUME Init PROVE DataInv
    OBVIOUS
  <1>0. socket_open \in BOOLEAN
    BY ConnectedAssumption DEF Init
  <1>1. TypeOK
    <2>1. /\ stop_write_chunk_id \in (0..NumChunks) \union {kUndefinedChunkID}
          /\ next_write_chunk_id \in 0..NumChunks
          /\ bytes_transferred \in 0..NumChunks
          /\ resolved_points \in 0..MaxPoints
      BY NumChunksAssumption, MaxPointsAssumption DEF Init
    <2>2. starter \in Starters /\ reader \in Readers /\ writer \in Writers
      BY DEF Init, Starters, Readers, Writers
    <2>3. /\ write_chunks \subseteq 0..(NumChunks - 1) /\ stops \subseteq {0, NumChunks}
          /\ network_write_buffer \in Seq(0..(NumChunks - 1))
          /\ socket_out \in Seq(0..(NumChunks - 1))
          /\ posts \in Nat /\ close_calls \in Nat /\ taken \in Nat
      BY DEF Init
    <2>4. /\ read_processing \in BOOLEAN /\ write_processing \in BOOLEAN
          /\ close_invoked \in BOOLEAN /\ stop_after_all_write \in BOOLEAN
          /\ stop_write_immediate \in BOOLEAN
      BY DEF Init
    <2> QED
      BY <1>0, <2>1, <2>2, <2>3, <2>4 DEF Init, TypeOK
  <1>2. ShapeInv /\ StreamInv
    BY DEF Init, ShapeInv, StreamInv, InOrder
  <1> QED
    BY <1>1, <1>2 DEF DataInv

\* RequestWrite and the steps that end in it: the three callers give it a
\* buffer of chunks and set bytes_transferred to 0.
LEMMA RequestWriteTypes ==
  ASSUME TypeOK, NEW buffer \in Seq(Chunk), RequestWrite(buffer),
         starter' = "started", read_processing' \in BOOLEAN, bytes_transferred' = 0
  PROVE  TypeOK' /\ ShapeInv'
  <1>1. /\ next_write_chunk_id' \in 0..NumChunks
        /\ write_chunks' \subseteq 0..(NumChunks - 1)
    <2>1. next_write_chunk_id' \in next_write_chunk_id..NumChunks
      BY RequestWriteData
    <2>2. write_chunks' \subseteq write_chunks
      BY RequestWriteData
    <2> QED
      BY <2>1, <2>2, NumChunksAssumption DEF TypeOK
  <1>4. stop_after_all_write' \in BOOLEAN /\ network_write_buffer' \in Seq(Chunk)
    BY RequestWriteData
  <1>2. /\ UNCHANGED <<socket_open, close_invoked, stop_write_chunk_id,
                      resolved_points, closer, close_calls>>
        /\ UNCHANGED <<socket_out, taken, stops>>
    BY DEF RequestWrite, history
  <1>3. TypeOK'
    <2>1. /\ reader' \in Readers /\ writer' \in Writers
          /\ write_processing' \in BOOLEAN /\ stop_write_immediate' \in BOOLEAN
          /\ posts' \in Nat /\ fault' \in {"none", "stale_chunk", "bad_descriptor"}
      BY RequestWriteControl
    <2>2. bytes_transferred' \in 0..NumChunks /\ starter' \in Starters
      BY NumChunksAssumption DEF Starters
    <2> QED
      BY <1>1, <1>2, <1>4, <2>1, <2>2 DEF TypeOK, Chunk
  <1> QED
    BY <1>3, SMTT(30) DEF ShapeInv, TypeOK

LEMMA TypeStep == TypeOK /\ ShapeInv /\ [Next]_vars => TypeOK' /\ ShapeInv'
  <1> SUFFICES ASSUME TypeOK, ShapeInv, [Next]_vars PROVE TypeOK' /\ ShapeInv'
    OBVIOUS
  <1> USE NumChunksAssumption, MaxPointsAssumption
      DEF flags, stopping, stream, fields, ending, history
  <1>0. network_write_buffer \in Seq(Chunk)
    BY DEF TypeOK, Chunk
  <1>1. CASE Run
    <2>1. /\ starter' \in Starters \ {"connecting", "started", "created"}
          /\ read_processing' \in BOOLEAN
          /\ reader' \in Readers
      BY <1>1 DEF Run, StartReading, TypeOK, Starters, Readers
    <2> QED
      BY <1>1, <2>1 DEF Run, TypeOK, ShapeInv
  <1>2. CASE ResolverProcessing
    BY <1>2 DEF ResolverProcessing, Connecting, TypeOK, ShapeInv, Starters
  <1>3. CASE RequestConnectProcessing
    <2>1. /\ socket_open' \in BOOLEAN /\ read_processing' \in BOOLEAN
          /\ reader' \in Readers /\ starter' \in Starters \ {"created", "started"}
      BY <1>3 DEF RequestConnectProcessing, Connecting, StartReading, TypeOK,
                  Starters, Readers
    <2>2. /\ resolved_points' \in 0..MaxPoints
          /\ starter' = "connecting" => resolved_points' > 0
      BY <1>3 DEF RequestConnectProcessing, Connecting, StartReading, TypeOK, ShapeInv
    <2> QED
      BY <1>3, <2>1, <2>2 DEF RequestConnectProcessing, TypeOK, ShapeInv
  <1>4. CASE StartWriting
    <2>1. starter' = "started" /\ read_processing' \in BOOLEAN /\ bytes_transferred' = 0
      BY <1>4 DEF StartWriting, TypeOK, ShapeInv
    <2> QED
      BY <1>0, <1>4, <2>1, RequestWriteTypes DEF StartWriting
  <1>5. ASSUME NEW result \in {"data", "eof"}, ReadCompletes(result) PROVE TypeOK' /\ ShapeInv'
    BY <1>5 DEF ReadCompletes, TypeOK, ShapeInv, Readers
  <1>6. CASE RequestReadProcessing
    <2>1. taken' \in Nat /\ reader' \in Readers
      BY <1>6 DEF RequestReadProcessing, TypeOK, Readers
    <2>2. read_processing' \in BOOLEAN
      BY <1>6 DEF RequestReadProcessing, TypeOK
    <2> QED
      BY <1>6, <2>1, <2>2 DEF RequestReadProcessing, TypeOK, ShapeInv
  <1>7. CASE ReaderCancels
    <2>1. writer' \in Writers /\ (writer = "idle" => writer' = "idle")
          /\ (writer = "written" => writer' = "written")
      BY <1>7, CancelledKeeps DEF ReaderCancels, Cancelled, TypeOK
    <2>2. reader' \in Readers /\ fault' \in {"none", "stale_chunk", "bad_descriptor"}
      BY <1>7 DEF ReaderCancels, TypeOK, Readers
    <2>3. UNCHANGED <<socket_open, flags, stopping, stream, bytes_transferred,
                      resolved_points, starter, posts, closer, close_calls, history>>
      BY <1>7 DEF ReaderCancels
    <2>6. TypeOK'
      BY <2>1, <2>2, <2>3 DEF TypeOK
    <2>7. ShapeInv'
      BY <2>1, <2>2, <2>3 DEF ShapeInv
    <2> QED
      BY <2>6, <2>7
  <1>8. CASE ReaderMarks
    BY <1>8 DEF ReaderMarks, Woken, TypeOK, ShapeInv, Readers, Writers
  <1>9. ASSUME NEW n \in 1..NumChunks, WriteCompletes(n) PROVE TypeOK' /\ ShapeInv'
    <2>1. \A i \in 1..n : network_write_buffer[i] \in Chunk
      BY <1>0, <1>9 DEF WriteCompletes
    <2>2. SubSeq(network_write_buffer, 1, n) \in Seq(Chunk)
      BY <2>1, SubSeqProperties
    <2>3. socket_out' \in Seq(Chunk)
      BY <1>9, <2>2, ConcatProperties DEF WriteCompletes, TypeOK, Chunk
    <2>4. bytes_transferred' \in 0..NumChunks /\ writer' \in Writers
      BY <1>9 DEF WriteCompletes, Writers
    <2> QED
      BY <1>9, <2>3, <2>4 DEF WriteCompletes, TypeOK, ShapeInv, Chunk
  <1>10. CASE WriteFails
    BY <1>10 DEF WriteFails, TypeOK, ShapeInv, Writers
  <1>11. CASE WriteSucceeded
    <2>1. starter' = "started" /\ read_processing' \in BOOLEAN /\ bytes_transferred' = 0
      BY <1>11 DEF WriteSucceeded, TypeOK, ShapeInv
    <2>2. Unwritten(bytes_transferred) \in Seq(Chunk)
      BY UnwrittenData DEF ShapeInv
    <2> QED
      BY <1>11, <2>1, <2>2, RequestWriteTypes DEF WriteSucceeded
  <1>12. CASE WriteFailed
    BY <1>12 DEF WriteFailed, TypeOK, ShapeInv, Writers
  <1>13. CASE WriterCancels
    BY <1>13, CancelledKeeps DEF WriterCancels, TypeOK, ShapeInv, Writers
  <1>14. CASE TimerExpires
    BY <1>14 DEF TimerExpires, TypeOK, ShapeInv, Writers
  <1>15. CASE TimerHandler
    <2>1. starter' = "started" /\ read_processing' \in BOOLEAN /\ bytes_transferred' = 0
      BY <1>15 DEF TimerHandler, TypeOK, ShapeInv
    <2> QED
      BY <1>0, <1>15, <2>1, RequestWriteTypes DEF TimerHandler
  <1>16. CASE CheckReadyCloseProcessing
    <2>1. posts' \in Nat /\ closer' \in {"idle", "closing"}
      BY <1>16 DEF CheckReadyCloseProcessing, TypeOK
    <2>2. close_invoked' \in BOOLEAN /\ socket_open' \in BOOLEAN
      BY <1>16 DEF CheckReadyCloseProcessing, TypeOK
    <2> QED
      BY <1>16, <2>1, <2>2 DEF CheckReadyCloseProcessing, TypeOK, ShapeInv
  <1>17. CASE CloseConnect
    BY <1>17 DEF CloseConnect, TypeOK, ShapeInv
  <1>18. ASSUME NEW chunk_id \in 0..(NumChunks - 1), SendData(chunk_id)
         PROVE  TypeOK' /\ ShapeInv'
    <2>1. write_chunks' \subseteq 0..(NumChunks - 1)
      BY <1>18 DEF SendData, TypeOK
    <2>2. writer' \in Writers /\ (writer = "idle" => writer' = "idle")
          /\ (writer = "written" => writer' = "written")
      BY <1>18 DEF SendData, Woken, Writers, TypeOK
    <2>3. fault' \in {"none", "stale_chunk", "bad_descriptor"}
      BY <1>18 DEF SendData, TypeOK
    <2>4. UNCHANGED <<socket_open, flags, stopping, next_write_chunk_id,
                      network_write_buffer, bytes_transferred, resolved_points,
                      starter, reader, posts, closer, close_calls, history>>
      BY <1>18 DEF SendData
    <2>6. TypeOK'
      BY <2>1, <2>2, <2>3, <2>4 DEF TypeOK
    <2>7. ShapeInv'
      BY <2>1, <2>2, <2>3, <2>4 DEF ShapeInv
    <2> QED
      BY <2>6, <2>7
  <1>19. ASSUME NEW stop_chunk \in {0, NumChunks}, Stop(stop_chunk)
         PROVE  TypeOK' /\ ShapeInv'
    <2>1. write_chunks' \subseteq 0..(NumChunks - 1) /\ stops' \subseteq {0, NumChunks}
      BY <1>19 DEF Stop, TypeOK
    <2>2. writer' \in Writers /\ (writer = "idle" => writer' = "idle")
          /\ (writer = "written" => writer' = "written")
      BY <1>19 DEF Stop, Woken, Writers, TypeOK
    <2>3. stop_write_chunk_id' \in (0..NumChunks) \union {kUndefinedChunkID}
      BY <1>19 DEF Stop, TypeOK
    <2>4. stop_after_all_write' \in BOOLEAN
      BY <1>19 DEF Stop, TypeOK
    <2>5. UNCHANGED <<socket_open, flags, stop_write_immediate, next_write_chunk_id,
                      network_write_buffer, bytes_transferred, resolved_points,
                      starter, reader, posts, closer, close_calls, fault,
                      socket_out, taken>>
      BY <1>19 DEF Stop
    <2>6. TypeOK'
      BY <2>1, <2>2, <2>3, <2>4, <2>5 DEF TypeOK
    <2>7. ShapeInv'
      BY <2>1, <2>2, <2>3, <2>4, <2>5 DEF ShapeInv
    <2> QED
      BY <2>6, <2>7
  <1>20. CASE UNCHANGED vars
    BY <1>20 DEF vars, TypeOK, ShapeInv
  <1> QED
    BY <1>1, <1>2, <1>3, <1>4, <1>5, <1>6, <1>7, <1>8, <1>9, <1>10, <1>11, <1>12,
       <1>13, <1>14, <1>15, <1>16, <1>17, <1>18, <1>19, <1>20
    DEF Next, RequestWriteProcessing

\* Every variable keeps its type: no counter leaves its range, no endpoint is
\* taken from an empty list, no handler meets a state it does not know.
THEOREM TypeCorrect == Spec => []TypeOK
  <1>1. Init => TypeOK /\ ShapeInv
    BY InitData DEF DataInv
  <1>2. TypeOK /\ ShapeInv /\ [Next]_vars => TypeOK' /\ ShapeInv'
    BY TypeStep
  <1> QED
    BY <1>1, <1>2, PTL DEF Spec

-----------------------------------------------------------------------------
(* The order of the stream.                                                *)

\* A step that ends in RequestWrite, given what is left to write.
LEMMA RequestWriteStream ==
  ASSUME TypeOK, NEW buffer \in Seq(Chunk), RequestWrite(buffer), bytes_transferred' = 0,
         Len(socket_out) + Len(buffer) = next_write_chunk_id,
         InOrder(socket_out, 0), InOrder(buffer, Len(socket_out))
  PROVE  StreamInv'
  <1>1. Len(socket_out) \in Nat /\ Len(buffer) \in Nat /\ next_write_chunk_id \in Nat
    BY NumChunksAssumption DEF TypeOK
  <1>2. next_write_chunk_id - Len(buffer) = Len(socket_out)
    BY <1>1
  <1>3. /\ next_write_chunk_id' \in Int
        /\ Len(network_write_buffer') =
             Len(buffer) + next_write_chunk_id' - next_write_chunk_id
        /\ InOrder(network_write_buffer', Len(socket_out))
    BY <1>1, <1>2, RequestWriteData
  <1>4. socket_out' = socket_out
    BY DEF RequestWrite, history
  <1>5. Len(socket_out') + Len(network_write_buffer') =
          next_write_chunk_id' + bytes_transferred'
    BY <1>1, <1>3, <1>4
  <1>6. Len(socket_out') - bytes_transferred' = Len(socket_out)
    BY <1>1, <1>4
  <1> QED
    BY <1>3, <1>4, <1>5, <1>6 DEF StreamInv

LEMMA StreamStep == DataInv /\ [Next]_vars => StreamInv'
  <1> SUFFICES ASSUME DataInv, [Next]_vars PROVE StreamInv'
    OBVIOUS
  <1> USE DEF flags, stopping, stream, fields, ending, history
  <1>1. /\ TypeOK /\ ShapeInv /\ StreamInv
        /\ network_write_buffer \in Seq(Chunk) /\ socket_out \in Seq(Chunk)
        /\ Len(network_write_buffer) \in Nat /\ Len(socket_out) \in Nat
        /\ bytes_transferred \in Nat /\ next_write_chunk_id \in Nat
    BY NumChunksAssumption DEF DataInv, TypeOK, Chunk
  <1>2. CASE UNCHANGED <<socket_out, network_write_buffer, next_write_chunk_id,
                         bytes_transferred>>
    BY <1>1, <1>2 DEF StreamInv
  <1>3. CASE StartWriting \/ TimerHandler
    <2>1. bytes_transferred = 0 /\ bytes_transferred' = 0 /\ RequestWrite(network_write_buffer)
      BY <1>1, <1>3 DEF StartWriting, TimerHandler, ShapeInv
    <2>2. /\ Len(socket_out) + Len(network_write_buffer) = next_write_chunk_id
          /\ Len(socket_out) - bytes_transferred = Len(socket_out)
      BY <1>1, <2>1 DEF StreamInv
    <2>3. InOrder(socket_out, 0) /\ InOrder(network_write_buffer, Len(socket_out))
      BY <1>1, <2>2 DEF StreamInv
    <2> QED
      BY <1>1, <2>1, <2>2, <2>3, RequestWriteStream
  <1>4. CASE WriteSucceeded
    <2> DEFINE rest == Unwritten(bytes_transferred)
    <2>1. bytes_transferred' = 0 /\ RequestWrite(rest)
      BY <1>4 DEF WriteSucceeded
    <2>2. Len(socket_out) - bytes_transferred \in Int
          /\ Len(socket_out) - bytes_transferred + bytes_transferred = Len(socket_out)
      BY <1>1
    <2>3. /\ rest \in Seq(Chunk)
          /\ Len(rest) = Len(network_write_buffer) - bytes_transferred
          /\ InOrder(rest, Len(socket_out) - bytes_transferred + bytes_transferred)
      BY <1>1, <2>2, UnwrittenData DEF ShapeInv, StreamInv
    <2> HIDE DEF rest
    <2>4. Len(socket_out) + Len(rest) = next_write_chunk_id
      BY <1>1, <2>3 DEF StreamInv
    <2> QED
      BY <1>1, <2>1, <2>2, <2>3, <2>4, RequestWriteStream DEF StreamInv
  <1>5. ASSUME NEW n \in 1..NumChunks, WriteCompletes(n) PROVE StreamInv'
    <2> DEFINE written == SubSeq(network_write_buffer, 1, n)
    <2>1. /\ n \in 0..Len(network_write_buffer) /\ n \in Nat /\ bytes_transferred = 0
          /\ socket_out' = socket_out \o written /\ bytes_transferred' = n
          /\ network_write_buffer' = network_write_buffer
          /\ next_write_chunk_id' = next_write_chunk_id
      BY <1>1, <1>5 DEF WriteCompletes, ShapeInv
    <2>2. Len(socket_out) - bytes_transferred = Len(socket_out) /\ Len(socket_out) = 0 + Len(socket_out)
      BY <1>1, <2>1
    <2>3. InOrder(network_write_buffer, Len(socket_out)) /\ InOrder(socket_out, 0)
      BY <1>1, <2>2 DEF StreamInv
    <2>4. written \in Seq(Chunk) /\ Len(written) = n /\ InOrder(written, Len(socket_out))
      BY <1>1, <2>1, <2>3, Slicing
    <2> HIDE DEF written
    <2>5. InOrder(socket_out \o written, 0) /\ Len(socket_out \o written) = Len(socket_out) + n
      <3>1. 0 \in Int /\ InOrder(written, 0 + Len(socket_out))
        BY <2>2, <2>4
      <3>2. InOrder(socket_out \o written, 0)
        BY <1>1, <2>3, <2>4, <3>1, Appending
      <3> QED
        BY <1>1, <2>4, <3>2, ConcatProperties
    <2>6. /\ Len(socket_out') - bytes_transferred' = Len(socket_out)
          /\ Len(socket_out') + Len(network_write_buffer') =
               next_write_chunk_id' + bytes_transferred'
      <3>1. Len(socket_out') = Len(socket_out) + n
        BY <2>1, <2>5
      <3>2. Len(socket_out) + Len(network_write_buffer) = next_write_chunk_id
        BY <1>1, <2>1 DEF StreamInv
      <3>3. /\ Len(network_write_buffer') = Len(network_write_buffer) /\ n \in Nat
            /\ next_write_chunk_id' = next_write_chunk_id /\ bytes_transferred' = n
        BY <2>1
      <3> QED
        BY <1>1, <3>1, <3>2, <3>3
    <2> QED
      BY <2>1, <2>3, <2>5, <2>6 DEF StreamInv
  <1>6. CASE Run \/ ResolverProcessing \/ RequestConnectProcessing
    BY <1>2, <1>6 DEF Run, ResolverProcessing, RequestConnectProcessing
  <1>7. CASE (\E result \in {"data", "eof"} : ReadCompletes(result))
             \/ RequestReadProcessing \/ ReaderCancels \/ ReaderMarks
    BY <1>2, <1>7 DEF ReadCompletes, RequestReadProcessing, ReaderCancels, ReaderMarks
  <1>8. CASE WriteFails \/ WriteFailed \/ WriterCancels \/ TimerExpires
    BY <1>2, <1>8 DEF WriteFails, WriteFailed, WriterCancels, TimerExpires
  <1>9. CASE CheckReadyCloseProcessing \/ CloseConnect
    BY <1>2, <1>9 DEF CheckReadyCloseProcessing, CloseConnect
  <1>10. CASE (\E chunk_id \in 0..(NumChunks - 1) : SendData(chunk_id))
              \/ (\E stop_chunk \in {0, NumChunks} : Stop(stop_chunk))
    BY <1>2, <1>10 DEF SendData, Stop
  <1>11. CASE UNCHANGED vars
    BY <1>2, <1>11 DEF vars
  <1> QED
    BY <1>3, <1>4, <1>5, <1>6, <1>7, <1>8, <1>9, <1>10, <1>11
    DEF Next, RequestWriteProcessing

\* The invariant in terms of lengths and order gives the equation on sequences.
LEMMA StreamInvGivesOrder == DataInv => StreamOrder
  <1> SUFFICES ASSUME DataInv PROVE StreamOrder
    OBVIOUS
  <1> DEFINE rest == Unwritten(bytes_transferred)
             whole == socket_out \o rest
  <1>1. /\ TypeOK /\ ShapeInv /\ StreamInv
        /\ socket_out \in Seq(Chunk) /\ Len(socket_out) \in Nat
        /\ Len(network_write_buffer) \in Nat
        /\ bytes_transferred \in Nat /\ next_write_chunk_id \in Nat
    BY NumChunksAssumption DEF DataInv, TypeOK, Chunk
  <1>2. Len(socket_out) - bytes_transferred \in Int
        /\ Len(socket_out) - bytes_transferred + bytes_transferred = 0 + Len(socket_out)
    BY <1>1
  <1>3. /\ rest \in Seq(Chunk)
        /\ Len(rest) = Len(network_write_buffer) - bytes_transferred
        /\ InOrder(rest, Len(socket_out) - bytes_transferred + bytes_transferred)
    BY <1>1, <1>2, UnwrittenData DEF ShapeInv, StreamInv
  <1> HIDE DEF rest
  <1>4. /\ whole \in Seq(Chunk)
        /\ Len(whole) = Len(socket_out) + Len(rest)
        /\ InOrder(whole, 0)
    <2>1. InOrder(socket_out, 0) /\ InOrder(rest, 0 + Len(socket_out)) /\ 0 \in Int
      BY <1>1, <1>2, <1>3 DEF StreamInv
    <2> QED
      BY <1>1, <1>3, <2>1, Appending
  <1>5. Len(whole) = next_write_chunk_id
    BY <1>1, <1>3, <1>4 DEF StreamInv
  <1> HIDE DEF whole
  <1>6. whole = [i \in 1..Len(whole) |-> whole[i]]
    BY <1>4
  <1>7. \A i \in 1..Len(whole) : whole[i] = i - 1
    BY <1>4 DEF InOrder
  <1>8. whole = [i \in 1..Len(whole) |-> i - 1]
    BY <1>6, <1>7, Zenon
  <1> QED
    BY <1>5, <1>8 DEF StreamOrder, rest, whole

\* For every number of chunks: what the peer has received and what waits in the
\* buffer is the stream up to next_write_chunk_id, each chunk once and in order.
THEOREM StreamOrdered == Spec => []StreamOrder
  <1>1. Init => DataInv
    BY InitData
  <1>2. DataInv /\ [Next]_vars => DataInv'
    BY TypeStep, StreamStep DEF DataInv
  <1>3. DataInv => StreamOrder
    BY StreamInvGivesOrder
  <1> QED
    BY <1>1, <1>2, <1>3, PTL DEF Spec

-----------------------------------------------------------------------------
(* The window of stored chunks, and the sleeping writer.                   *)

LEMMA WindowStep ==
  TypeOK /\ ShapeInv /\ PendingChunksInWindow /\ [Next]_vars => PendingChunksInWindow'
  <1> SUFFICES ASSUME TypeOK, ShapeInv, PendingChunksInWindow, [Next]_vars
               PROVE  PendingChunksInWindow'
    OBVIOUS
  <1> USE NumChunksAssumption DEF flags, stopping, stream, fields, ending, history
  <1>1. next_write_chunk_id \in Nat /\ write_chunks \subseteq Nat
        /\ network_write_buffer \in Seq(Chunk)
    BY DEF TypeOK, Chunk
  <1>2. CASE UNCHANGED <<write_chunks, next_write_chunk_id, stop_write_chunk_id>>
    BY <1>2 DEF PendingChunksInWindow, StopReached
  <1>3. ASSUME NEW buffer \in Seq(Chunk), RequestWrite(buffer) PROVE PendingChunksInWindow'
    <2>1. /\ next_write_chunk_id' \in next_write_chunk_id..NumChunks
          /\ write_chunks' \subseteq
               write_chunks \ (next_write_chunk_id..(next_write_chunk_id' - 1))
      BY <1>3, RequestWriteData
    <2>2. stop_write_chunk_id' = stop_write_chunk_id
      BY <1>3 DEF RequestWrite
    <2>3. next_write_chunk_id' \in Nat
      BY <1>1, <2>1
    <2>4. ASSUME NEW id \in write_chunks' PROVE id >= next_write_chunk_id' /\ ~StopReached(id)'
      <3>1. /\ id \in write_chunks /\ id \in Nat
            /\ id \notin next_write_chunk_id..(next_write_chunk_id' - 1)
        BY <1>1, <2>1
      <3>2. id >= next_write_chunk_id /\ ~StopReached(id)
        BY <3>1 DEF PendingChunksInWindow
      <3>3. id >= next_write_chunk_id'
        <4>1. ASSUME NEW next \in Nat, NEW end \in Nat, id >= next, id \notin next..(end - 1)
              PROVE  id >= end
          BY <3>1, <4>1
        <4> QED
          BY <1>1, <2>3, <3>1, <3>2, <4>1
      <3> QED
        BY <2>2, <3>2, <3>3 DEF StopReached
    <2> QED
      BY <2>4 DEF PendingChunksInWindow
  <1>4. CASE StartWriting \/ TimerHandler
    BY <1>1, <1>3, <1>4 DEF StartWriting, TimerHandler
  <1>5. CASE WriteSucceeded
    BY <1>3, <1>5, UnwrittenData DEF WriteSucceeded, ShapeInv
  <1>6. ASSUME NEW chunk_id \in 0..(NumChunks - 1), SendData(chunk_id)
        PROVE  PendingChunksInWindow'
    <2>1. UNCHANGED <<next_write_chunk_id, stop_write_chunk_id>>
      BY <1>6 DEF SendData
    <2>2. CASE write_chunks' = write_chunks
      BY <1>2, <2>1, <2>2
    <2>3. CASE /\ write_chunks' = write_chunks \union {chunk_id}
               /\ ~TooOld(chunk_id) /\ ~TooLate(chunk_id)
      BY <1>1, <2>1, <2>3 DEF PendingChunksInWindow, StopReached, TooOld, TooLate
    <2> QED
      BY <1>6, <2>2, <2>3 DEF SendData
  <1>7. ASSUME NEW stop_chunk \in {0, NumChunks}, Stop(stop_chunk)
        PROVE  PendingChunksInWindow'
    <2>1. next_write_chunk_id' = next_write_chunk_id
      BY <1>7 DEF Stop
    <2>2. CASE write_chunks' = {}
      BY <2>2 DEF PendingChunksInWindow
    <2>3. CASE /\ stop_write_chunk_id' = stop_chunk
               /\ write_chunks' = {id \in write_chunks : id < stop_chunk}
      BY <1>1, <2>1, <2>3 DEF PendingChunksInWindow, StopReached
    <2> QED
      BY <1>7, <2>2, <2>3 DEF Stop
  <1>8. CASE Run \/ ResolverProcessing \/ RequestConnectProcessing
    BY <1>2, <1>8 DEF Run, ResolverProcessing, RequestConnectProcessing
  <1>9. CASE (\E result \in {"data", "eof"} : ReadCompletes(result))
             \/ RequestReadProcessing \/ ReaderCancels \/ ReaderMarks
    BY <1>2, <1>9 DEF ReadCompletes, RequestReadProcessing, ReaderCancels, ReaderMarks
  <1>10. CASE (\E n \in 1..NumChunks : WriteCompletes(n)) \/ WriteFails \/ WriteFailed
              \/ WriterCancels \/ TimerExpires
    BY <1>2, <1>10 DEF WriteCompletes, WriteFails, WriteFailed, WriterCancels, TimerExpires
  <1>11. CASE CheckReadyCloseProcessing \/ CloseConnect
    BY <1>2, <1>11 DEF CheckReadyCloseProcessing, CloseConnect
  <1>12. CASE UNCHANGED vars
    BY <1>2, <1>12 DEF vars
  <1> QED
    BY <1>4, <1>5, <1>6, <1>7, <1>8, <1>9, <1>10, <1>11, <1>12
    DEF Next, RequestWriteProcessing

\* The assertion of FillNetworkBuffer never fails, and no chunk at or past the
\* stop index is ever kept, in any order of SendData and Stop.
THEOREM PendingInWindow == Spec => []PendingChunksInWindow
  <1>1. Init => TypeOK /\ ShapeInv /\ PendingChunksInWindow
    BY InitData DEF DataInv, Init, PendingChunksInWindow
  <1>2. TypeOK /\ ShapeInv /\ PendingChunksInWindow /\ [Next]_vars
          => TypeOK' /\ ShapeInv' /\ PendingChunksInWindow'
    BY TypeStep, WindowStep
  <1> QED
    BY <1>1, <1>2, PTL DEF Spec

\* FillNetworkBuffer leaves nothing to do, unless it raises stop_after_all_write_.
LEMMA FillLeavesNothing ==
  ASSUME NEW buffer, FillNetworkBuffer(buffer),
         stop_write_chunk_id' = stop_write_chunk_id, ~stop_after_all_write'
  PROVE  /\ next_write_chunk_id' \notin write_chunks'
         /\ ~StopReached(next_write_chunk_id)'
  <1>1. ~StopReached(next_write_chunk_id)
    BY DEF FillNetworkBuffer
  <1>2. PICK end \in next_write_chunk_id..NumChunks :
          /\ TakesUpTo(end)
          /\ next_write_chunk_id' = end
          /\ stop_after_all_write' = (stop_after_all_write \/ StopReached(end))
          /\ write_chunks' = IF StopReached(end) THEN {}
                            ELSE write_chunks \ (next_write_chunk_id..(end - 1))
    BY <1>1 DEF FillNetworkBuffer
  <1>3. ~StopReached(end)
    BY <1>2
  <1>4. end \notin write_chunks
    BY <1>2, <1>3 DEF TakesUpTo
  <1> QED
    BY <1>2, <1>3, <1>4 DEF StopReached

LEMMA IdleStep ==
  TypeOK /\ ShapeInv /\ IdleWriterHasNothingToDo /\ [Next]_vars => IdleWriterHasNothingToDo'
  <1> SUFFICES ASSUME TypeOK, ShapeInv, IdleWriterHasNothingToDo, [Next]_vars, writer' = "waiting"
               PROVE  /\ next_write_chunk_id' \notin write_chunks'
                      /\ ~StopReached(next_write_chunk_id)'
                      /\ ~stop_after_all_write' /\ ~stop_write_immediate'
    BY DEF IdleWriterHasNothingToDo
  <1> USE DEF flags, stopping, stream, fields, ending, history
  <1>1. CASE writer = "waiting" /\ UNCHANGED <<stopping, write_chunks, next_write_chunk_id>>
    BY <1>1 DEF IdleWriterHasNothingToDo, StopReached
  <1>2. ASSUME NEW buffer, RequestWrite(buffer), writer # "waiting"
        PROVE  /\ next_write_chunk_id' \notin write_chunks'
               /\ ~StopReached(next_write_chunk_id)'
               /\ ~stop_after_all_write' /\ ~stop_write_immediate'
    <2>1. /\ FillNetworkBuffer(buffer)
          /\ stop_write_chunk_id' = stop_write_chunk_id
          /\ ~stop_after_all_write' /\ ~stop_write_immediate'
      <3>1. ~EndWrite("stopped") /\ ~EndWrite("drained") /\ ~WriteOn("writing")
        BY <1>2 DEF EndWrite, WriteOn
      <3>2. FillNetworkBuffer(buffer) /\ ~stop_write_immediate
            /\ ~stop_after_all_write' /\ WriteOn("waiting")
        BY <1>2, <3>1 DEF RequestWrite
      <3> QED
        BY <1>2, <3>2 DEF RequestWrite, WriteOn
    <2> QED
      BY <2>1, FillLeavesNothing
  <1>3. CASE StartWriting \/ TimerHandler \/ WriteSucceeded
    BY <1>2, <1>3 DEF StartWriting, TimerHandler, WriteSucceeded, ShapeInv
  <1>4. ASSUME NEW chunk_id \in 0..(NumChunks - 1), SendData(chunk_id)
        PROVE  /\ next_write_chunk_id' \notin write_chunks'
               /\ ~StopReached(next_write_chunk_id)'
               /\ ~stop_after_all_write' /\ ~stop_write_immediate'
    <2>1. writer = "waiting"
      BY <1>4 DEF SendData, Woken
    <2>2. UNCHANGED <<stopping, next_write_chunk_id>>
      BY <1>4 DEF SendData
    <2>3. next_write_chunk_id \notin write_chunks'
      BY <1>4, <2>1 DEF SendData, Awaited, Woken, IdleWriterHasNothingToDo
    <2> QED
      BY <2>1, <2>2, <2>3 DEF IdleWriterHasNothingToDo, StopReached
  <1>5. ASSUME NEW stop_chunk \in {0, NumChunks}, Stop(stop_chunk)
        PROVE  /\ next_write_chunk_id' \notin write_chunks'
               /\ ~StopReached(next_write_chunk_id)'
               /\ ~stop_after_all_write' /\ ~stop_write_immediate'
    <2>1. /\ writer = "waiting"
          /\ stop_chunk > next_write_chunk_id
          /\ stop_write_chunk_id' = stop_chunk
          /\ write_chunks' = {id \in write_chunks : id < stop_chunk}
      BY <1>5 DEF Stop, Woken
    <2>2. UNCHANGED <<stop_after_all_write, stop_write_immediate, next_write_chunk_id>>
      BY <1>5, <2>1 DEF Stop, Woken
    <2>3. ~StopReached(next_write_chunk_id)'
      BY <2>1, <2>2, NumChunksAssumption DEF StopReached, TypeOK
    <2> QED
      BY <2>1, <2>2, <2>3 DEF IdleWriterHasNothingToDo
  <1>6. CASE Run \/ ResolverProcessing \/ RequestConnectProcessing
    BY <1>1, <1>6 DEF Run, ResolverProcessing, RequestConnectProcessing
  <1>7. CASE (\E result \in {"data", "eof"} : ReadCompletes(result)) \/ RequestReadProcessing
    BY <1>1, <1>7 DEF ReadCompletes, RequestReadProcessing
  <1>8. CASE ReaderCancels
    <2>1. writer = "waiting"
      BY <1>8 DEF ReaderCancels, Cancelled, TypeOK, Writers
    <2> QED
      BY <1>1, <1>8, <2>1 DEF ReaderCancels
  <1>9. CASE ReaderMarks
    BY <1>9 DEF ReaderMarks, Woken
  <1>10. CASE (\E n \in 1..NumChunks : WriteCompletes(n)) \/ WriteFails \/ WriteFailed
              \/ WriterCancels \/ TimerExpires
    BY <1>1, <1>10 DEF WriteCompletes, WriteFails, WriteFailed, WriterCancels, TimerExpires
  <1>11. CASE CheckReadyCloseProcessing \/ CloseConnect
    BY <1>1, <1>11 DEF CheckReadyCloseProcessing, CloseConnect
  <1>12. CASE UNCHANGED vars
    BY <1>1, <1>12 DEF vars
  <1> QED
    BY <1>3, <1>4, <1>5, <1>6, <1>7, <1>8, <1>9, <1>10, <1>11, <1>12
    DEF Next, RequestWriteProcessing

\* No lost wake-up: a writer asleep on the idle timer has no chunk it could
\* write and no order to stop, whichever thread called SendData, Stop or the
\* error path of the reader, and when.
THEOREM IdleWriterIsIdle == Spec => []IdleWriterHasNothingToDo
  <1>1. Init => TypeOK /\ ShapeInv /\ IdleWriterHasNothingToDo
    BY InitData DEF DataInv, Init, IdleWriterHasNothingToDo
  <1>2. TypeOK /\ ShapeInv /\ IdleWriterHasNothingToDo /\ [Next]_vars
          => TypeOK' /\ ShapeInv' /\ IdleWriterHasNothingToDo'
    BY TypeStep, IdleStep
  <1> QED
    BY <1>1, <1>2, PTL DEF Spec

-----------------------------------------------------------------------------
(* The writer that has written everything.                                 *)

\* What the writer has left to do once a stop is reached: nothing.  Only Stop(0) stops a
\* link before its last chunk, and a writer drains when its buffer is empty.
DrainInv ==
  /\ 0 \notin stops => stop_write_chunk_id \in {kUndefinedChunkID, NumChunks}
  /\ 0 \notin stops /\ stop_after_all_write => next_write_chunk_id = NumChunks
  /\ writer = "drained" => stop_after_all_write /\ network_write_buffer = <<>>

\* FillNetworkBuffer ends the writing only behind the chunk of the stop.
LEMMA FillStops ==
  ASSUME NEW buffer, FillNetworkBuffer(buffer), stop_after_all_write'
  PROVE  stop_after_all_write \/ (StopReached(next_write_chunk_id')
                                    /\ stop_write_chunk_id # kUndefinedChunkID)
  BY DEF FillNetworkBuffer, StopReached

LEMMA RequestWriteDrains ==
  ASSUME TypeOK, DrainInv, NEW buffer \in Seq(Chunk), RequestWrite(buffer), writer # "drained"
  PROVE  DrainInv'
  <1> USE NumChunksAssumption
  <1>1. /\ UNCHANGED <<stop_write_chunk_id, stops>>
        /\ next_write_chunk_id \in 0..NumChunks
        /\ next_write_chunk_id' \in next_write_chunk_id..NumChunks
    BY RequestWriteData DEF RequestWrite, history, TypeOK
  <1>2. ASSUME 0 \notin stops, stop_after_all_write' PROVE next_write_chunk_id' = NumChunks
    <2>1. CASE stop_after_all_write
      <3>1. next_write_chunk_id = NumChunks
        BY <1>2, <2>1 DEF DrainInv
      <3> QED
        BY <1>1, <3>1
    <2>2. CASE ~stop_after_all_write
      <3>1. FillNetworkBuffer(buffer)
        BY <1>2, <2>2 DEF RequestWrite
      <3>2. StopReached(next_write_chunk_id') /\ stop_write_chunk_id # kUndefinedChunkID
        BY <1>2, <2>2, <3>1, FillStops
      <3>3. stop_write_chunk_id = NumChunks
        BY <1>2, <3>2 DEF DrainInv
      <3>4. NumChunks <= next_write_chunk_id'
        BY <3>2, <3>3 DEF StopReached
      <3> QED
        BY <1>1, <3>4
    <2> QED
      BY <2>1, <2>2
  <1>3. ASSUME writer' = "drained" PROVE stop_after_all_write' /\ network_write_buffer' = <<>>
    BY <1>3 DEF RequestWrite, EndWrite, WriteOn
  <1> QED
    BY <1>1, <1>2, <1>3 DEF DrainInv

LEMMA DrainStep == TypeOK /\ ShapeInv /\ DrainInv /\ [Next]_vars => DrainInv'
  <1> SUFFICES ASSUME TypeOK, ShapeInv, DrainInv, [Next]_vars PROVE DrainInv'
    OBVIOUS
  <1> USE DEF flags, stopping, stream, fields, ending, history
  <1>1. network_write_buffer \in Seq(Chunk)
    BY DEF TypeOK, Chunk
  <1>2. CASE /\ UNCHANGED <<stop_write_chunk_id, stops, stop_after_all_write,
                            next_write_chunk_id, network_write_buffer>>
             /\ writer' = "drained" => writer = "drained"
    BY <1>2 DEF DrainInv
  <1>3. CASE StartWriting \/ TimerHandler
    <2>1. RequestWrite(network_write_buffer) /\ writer # "drained"
      BY <1>3 DEF StartWriting, TimerHandler, ShapeInv
    <2> QED
      BY <1>1, <2>1, RequestWriteDrains
  <1>4. CASE WriteSucceeded
    <2>1. Unwritten(bytes_transferred) \in Seq(Chunk) /\ writer # "drained"
      BY <1>4, UnwrittenData DEF WriteSucceeded, ShapeInv
    <2> QED
      BY <1>4, <2>1, RequestWriteDrains DEF WriteSucceeded
  <1>5. ASSUME NEW stop_chunk \in {0, NumChunks}, Stop(stop_chunk) PROVE DrainInv'
    <2>1. /\ stops' = stops \union {stop_chunk}
          /\ UNCHANGED <<next_write_chunk_id, network_write_buffer>>
          /\ next_write_chunk_id \in 0..NumChunks
          /\ writer' = "drained" => writer = "drained"
      BY <1>5 DEF Stop, Woken, TypeOK
    <2>2. CASE /\ stop_chunk <= next_write_chunk_id /\ stop_after_all_write'
               /\ stop_write_chunk_id' = next_write_chunk_id
      <3>1. 0 \notin stops' => next_write_chunk_id = NumChunks
        BY <2>1, <2>2, NumChunksAssumption
      <3> QED
        BY <2>1, <2>2, <3>1 DEF DrainInv
    <2>3. CASE /\ stop_chunk > next_write_chunk_id /\ UNCHANGED stop_after_all_write
               /\ stop_write_chunk_id' = stop_chunk
      BY <2>1, <2>3 DEF DrainInv
    <2> QED
      BY <1>5, <2>2, <2>3 DEF Stop
  <1>6. CASE Run \/ ResolverProcessing \/ RequestConnectProcessing
    BY <1>2, <1>6 DEF Run, ResolverProcessing, RequestConnectProcessing
  <1>7. CASE (\E result \in {"data", "eof"} : ReadCompletes(result)) \/ RequestReadProcessing
    BY <1>2, <1>7 DEF ReadCompletes, RequestReadProcessing
  <1>8. CASE ReaderCancels \/ ReaderMarks
    BY <1>2, <1>8 DEF ReaderCancels, ReaderMarks, Cancelled, Woken
  <1>9. CASE (\E n \in 1..NumChunks : WriteCompletes(n)) \/ WriteFails \/ WriteFailed
             \/ WriterCancels \/ TimerExpires
    BY <1>2, <1>9 DEF WriteCompletes, WriteFails, WriteFailed, WriterCancels, TimerExpires
  <1>10. CASE CheckReadyCloseProcessing \/ CloseConnect
    BY <1>2, <1>10 DEF CheckReadyCloseProcessing, CloseConnect
  <1>11. CASE \E chunk_id \in 0..(NumChunks - 1) : SendData(chunk_id)
    BY <1>2, <1>11 DEF SendData, Woken
  <1>12. CASE UNCHANGED vars
    BY <1>2, <1>12 DEF vars
  <1> QED
    BY <1>3, <1>4, <1>5, <1>6, <1>7, <1>8, <1>9, <1>10, <1>11, <1>12
    DEF Next, RequestWriteProcessing

\* For every number of chunks: a writer that ends because everything was written has
\* given the peer every chunk up to the release of the other side, unless the link was
\* told to stop at once (FillNetworkBuffer, Stop).
THEOREM GracefulStopDelivers == Spec => []GracefulStopDeliversAll
  <1>1. Init => DataInv /\ DrainInv
    BY InitData DEF Init, DrainInv
  <1>2. DataInv /\ DrainInv /\ [Next]_vars => DataInv' /\ DrainInv'
    BY TypeStep, StreamStep, DrainStep DEF DataInv
  <1>3. DataInv /\ DrainInv => GracefulStopDeliversAll
    <2> SUFFICES ASSUME DataInv, DrainInv, writer = "drained"
                 PROVE  /\ Len(socket_out) = next_write_chunk_id
                        /\ 0 \notin stops => next_write_chunk_id = NumChunks
      BY DEF GracefulStopDeliversAll
    <2>1. stop_after_all_write /\ Len(network_write_buffer) = 0 /\ bytes_transferred = 0
      BY DEF DrainInv, DataInv, ShapeInv
    <2>2. Len(socket_out) \in Nat /\ next_write_chunk_id \in Nat
      BY NumChunksAssumption DEF DataInv, TypeOK
    <2>3. Len(socket_out) = next_write_chunk_id
      BY <2>1, <2>2 DEF DataInv, StreamInv
    <2> QED
      BY <2>1, <2>3 DEF DrainInv
  <1> QED
    BY <1>1, <1>2, <1>3, PTL DEF Spec

-----------------------------------------------------------------------------
(* The flags and the close.                                                *)

\* How a call of RequestWrite ends.
LEMMA RequestWriteEnds ==
  ASSUME NEW buffer, RequestWrite(buffer)
  PROVE  /\ UNCHANGED <<socket_open, close_invoked, closer, close_calls, socket_out, taken>>
         /\ \/ /\ ~stop_write_immediate
               /\ writer' \in {"waiting", "writing"} /\ write_processing' = TRUE
               /\ UNCHANGED <<reader, stop_write_immediate, posts, fault>>
            \/ /\ socket_open
               /\ writer' \in {"stopped", "drained"} /\ write_processing' = FALSE
               /\ reader' = Cancelled(reader) /\ stop_write_immediate' = TRUE
               /\ posts' = posts + 1 /\ fault' = fault
            \/ fault' = "bad_descriptor"
  <1>1. UNCHANGED <<socket_open, close_invoked, closer, close_calls, socket_out, taken>>
    BY DEF RequestWrite, history
  <1>2. \/ EndWrite("stopped") \/ EndWrite("drained")
        \/ ~stop_write_immediate /\ WriteOn("writing")
        \/ ~stop_write_immediate /\ WriteOn("waiting")
    BY DEF RequestWrite
  <1>3. CASE EndWrite("stopped")
    BY <1>1, <1>3 DEF EndWrite
  <1>4. CASE EndWrite("drained")
    BY <1>1, <1>4 DEF EndWrite
  <1>5. CASE ~stop_write_immediate /\ WriteOn("writing")
    BY <1>1, <1>5 DEF WriteOn
  <1>6. CASE ~stop_write_immediate /\ WriteOn("waiting")
    BY <1>1, <1>6 DEF WriteOn
  <1> QED
    BY <1>2, <1>3, <1>4, <1>5, <1>6

LEMMA CancelledReader ==
  ASSUME TypeOK
  PROVE  /\ Cancelled(reader) \in {"reading", "data", "eof"} <=>
              reader \in {"reading", "data", "eof"}
         /\ Cancelled(reader) = "idle" <=> reader = "idle"
         /\ Cancelled(reader) \in {"idle", "ended"} <=> reader \in {"idle", "ended"}
         /\ Cancelled(reader) # "reading"
  BY DEF TypeOK, Readers, Cancelled

LEMMA ActiveWriter ==
  ASSUME NEW op \in Writers
  PROVE  /\ Cancelled(op) \in {"waiting", "woken", "writing", "written", "broken"} <=>
              op \in {"waiting", "woken", "writing", "written", "broken"}
         /\ Woken(op) \in {"waiting", "woken", "writing", "written", "broken"} <=>
              op \in {"waiting", "woken", "writing", "written", "broken"}
         /\ Cancelled(op) = "idle" <=> op = "idle"
         /\ Woken(op) = "idle" <=> op = "idle"
         /\ op \in {"idle", "drained", "stopped", "failed"} =>
              Cancelled(op) = op /\ Woken(op) = op
  BY DEF Writers, Cancelled, Woken

LEMMA ControlStep == TypeOK /\ ControlInv /\ [Next]_vars => ControlInv'
  <1> SUFFICES ASSUME TypeOK, ControlInv, [Next]_vars, fault = "none", fault' = "none"
               PROVE  ControlInv'
    BY DEF ControlInv, Next, vars, ending, Run, Free, ResolverProcessing, RequestConnectProcessing,
           StartWriting, ReadCompletes, RequestReadProcessing, ReaderCancels, ReaderMarks,
           WriteCompletes, WriteFails, RequestWriteProcessing, WriteSucceeded, WriteFailed,
           WriterCancels, TimerExpires, TimerHandler, CheckReadyCloseProcessing,
           CloseConnect, SendData, Known, Stop
  <1> USE DEF flags, stopping, stream, fields, ending, history
  <1>1. CASE Run
    BY <1>1 DEF Run, StartReading, ControlInv
  <1>2. CASE ResolverProcessing
    BY <1>2 DEF ResolverProcessing, Connecting, TypeOK, ControlInv
  <1>3. CASE RequestConnectProcessing
    BY <1>3 DEF RequestConnectProcessing, StartReading, Connecting, ControlInv
  <1>4. CASE StartWriting
    BY <1>4, RequestWriteEnds, CancelledReader DEF StartWriting, TypeOK, ControlInv
  <1>5. ASSUME NEW result \in {"data", "eof"}, ReadCompletes(result) PROVE ControlInv'
    BY <1>5 DEF ReadCompletes, ControlInv
  <1>6. CASE RequestReadProcessing
    BY <1>6 DEF RequestReadProcessing, ControlInv
  <1>7. CASE ReaderCancels
    BY <1>7, ActiveWriter DEF ReaderCancels, TypeOK, ControlInv
  <1>8. CASE ReaderMarks
    BY <1>8, ActiveWriter DEF ReaderMarks, TypeOK, ControlInv
  <1>9. ASSUME NEW n \in 1..NumChunks, WriteCompletes(n) PROVE ControlInv'
    BY <1>9 DEF WriteCompletes, ControlInv
  <1>10. CASE WriteFails
    BY <1>10 DEF WriteFails, ControlInv
  <1>11. CASE WriteSucceeded
    BY <1>11, RequestWriteEnds, CancelledReader DEF WriteSucceeded, TypeOK, ControlInv
  <1>12. CASE WriteFailed
    BY <1>12 DEF WriteFailed, ControlInv
  <1>13. CASE WriterCancels
    BY <1>13, CancelledReader DEF WriterCancels, TypeOK, ControlInv
  <1>14. CASE TimerExpires
    BY <1>14 DEF TimerExpires, ControlInv
  <1>15. CASE TimerHandler
    BY <1>15, RequestWriteEnds, CancelledReader DEF TimerHandler, TypeOK, ControlInv
  <1>16. CASE CheckReadyCloseProcessing
    BY <1>16 DEF CheckReadyCloseProcessing, CloseDue, ReadyClose, TypeOK, ControlInv
  <1>17. CASE CloseConnect
    BY <1>17 DEF CloseConnect, ControlInv
  <1>18. ASSUME NEW chunk_id \in 0..(NumChunks - 1), SendData(chunk_id) PROVE ControlInv'
    BY <1>18, ActiveWriter DEF SendData, TypeOK, ControlInv
  <1>19. ASSUME NEW stop_chunk \in {0, NumChunks}, Stop(stop_chunk) PROVE ControlInv'
    BY <1>19, ActiveWriter DEF Stop, TypeOK, ControlInv
  <1>20. CASE UNCHANGED vars
    BY <1>20 DEF vars, ControlInv
  <1> QED
    BY <1>1, <1>2, <1>3, <1>4, <1>5, <1>6, <1>7, <1>8, <1>9, <1>10, <1>11, <1>12,
       <1>13, <1>14, <1>15, <1>16, <1>17, <1>18, <1>19, <1>20
    DEF Next, RequestWriteProcessing

\* DataInv and ControlInv together are inductive.
Inv == DataInv /\ ControlInv

LEMMA InvInvariant == Spec => []Inv
  <1>1. Init => Inv
    BY InitData DEF Inv, Init, ControlInv
  <1>2. Inv /\ [Next]_vars => Inv'
    BY TypeStep, StreamStep, ControlStep DEF Inv, DataInv
  <1> QED
    BY <1>1, <1>2, PTL DEF Spec

-----------------------------------------------------------------------------
(* Refinement.                                                             *)

LEMMA LinkStep == Inv /\ Inv' /\ [Next]_vars => [Link!Next]_(Link!vars)
  <1> SUFFICES ASSUME Inv, Inv', [Next]_vars PROVE [Link!Next]_(Link!vars)
    OBVIOUS
  <1> USE DEF flags, stopping, stream, fields, ending, history
  <1>1. /\ TypeOK /\ StreamInv /\ StreamInv' /\ ControlInv
        /\ socket_out \in Seq(Chunk) /\ network_write_buffer \in Seq(Chunk)
        /\ Len(socket_out) \in Nat
    BY NumChunksAssumption, SMTT(30) DEF Inv, DataInv, TypeOK, Chunk
  <1>2. CASE UNCHANGED <<socket_out, taken, close_calls>>
    BY <1>2 DEF Link!vars
  <1>3. ASSUME NEW n \in 1..NumChunks, WriteCompletes(n) PROVE Link!Deliver
    <2>1. close_calls = 0
      BY <1>1, <1>3 DEF WriteCompletes, ControlInv
    <2>2. \A u \in 1..Len(socket_out') : socket_out'[u] = u - 1
      BY <1>1 DEF StreamInv, InOrder
    <2>3. Len(socket_out') > Len(socket_out)
      <3>1. /\ SubSeq(network_write_buffer, 1, n) \in Seq(Chunk)
            /\ Len(SubSeq(network_write_buffer, 1, n)) = n
            /\ n \in Nat /\ n > 0
        BY <1>1, <1>3, SubSeqProperties DEF WriteCompletes
      <3>2. Len(socket_out') = Len(socket_out) + n
        BY <1>1, <1>3, <3>1, ConcatProperties DEF WriteCompletes
      <3> QED
        BY <1>1, <3>1, <3>2
    <2> QED
      BY <1>3, <2>1, <2>2, <2>3 DEF WriteCompletes, Link!Deliver
  <1>4. CASE RequestReadProcessing
    <2>1. CASE reader = "data"
      <3>1. close_calls = 0
        BY <1>1, <1>4, <2>1 DEF RequestReadProcessing, Free, ControlInv
      <3> QED
        BY <1>4, <2>1, <3>1 DEF RequestReadProcessing, Link!Next, Link!Take
    <2>2. CASE reader # "data"
      BY <1>2, <1>4, <2>2 DEF RequestReadProcessing
    <2> QED
      BY <2>1, <2>2
  <1>5. CASE CloseConnect
    <2>1. close_calls = 0 /\ close_calls' = 1
      BY <1>1, <1>5 DEF CloseConnect, ControlInv, TypeOK
    <2> QED
      BY <1>5, <2>1 DEF CloseConnect, Link!Next, Link!Close
  <1>6. CASE Run \/ ResolverProcessing \/ RequestConnectProcessing
    BY <1>2, <1>6 DEF Run, ResolverProcessing, RequestConnectProcessing
  <1>7. CASE StartWriting \/ TimerHandler \/ WriteSucceeded
    BY <1>2, <1>7, RequestWriteEnds DEF StartWriting, TimerHandler, WriteSucceeded
  <1>8. CASE (\E result \in {"data", "eof"} : ReadCompletes(result))
             \/ ReaderCancels \/ ReaderMarks
    BY <1>2, <1>8 DEF ReadCompletes, ReaderCancels, ReaderMarks
  <1>9. CASE WriteFails \/ WriteFailed \/ WriterCancels \/ TimerExpires
    BY <1>2, <1>9 DEF WriteFails, WriteFailed, WriterCancels, TimerExpires
  <1>10. CASE CheckReadyCloseProcessing
    BY <1>2, <1>10 DEF CheckReadyCloseProcessing
  <1>11. CASE (\E chunk_id \in 0..(NumChunks - 1) : SendData(chunk_id))
              \/ (\E stop_chunk \in {0, NumChunks} : Stop(stop_chunk))
    BY <1>2, <1>11 DEF SendData, Stop
  <1>12. CASE UNCHANGED vars
    BY <1>2, <1>12 DEF vars
  <1> QED
    BY <1>3, <1>4, <1>5, <1>6, <1>7, <1>8, <1>9, <1>10, <1>11, <1>12
    DEF Next, RequestWriteProcessing, Link!Next

\* Whatever the threads do, the link is an OrderedLink: the peer receives the
\* stream in order, CloseConnect is called at most once, and after it nothing is
\* delivered to the peer or taken from it.
THEOREM LinkImplementsOrderedLink == Spec => ImplementsOrderedLink
  <1>1. Init => Link!Init
    BY DEF Init, Link!Init
  <1>2. Inv /\ Inv' /\ [Next]_vars => [Link!Next]_(Link!vars)
    BY LinkStep
  <1> QED
    BY <1>1, <1>2, InvInvariant, PTL DEF Spec, Link!Spec, ImplementsOrderedLink

-----------------------------------------------------------------------------
(* One thread.                                                             *)

LEMMA OneThreadIsFree ==
  ASSUME PoolSize = 1, Free
  PROVE  /\ starter # "reading_started"
         /\ reader \notin {"cancelling", "marking"}
         /\ writer # "failing"
  <1> DEFINE parts == {<<1, starter>>, <<2, reader>>, <<3, writer>>, <<4, closer>>}
             middle == {"reading_started", "cancelling", "marking", "failing", "closing"}
             busy == {p \in parts : p[2] \in middle}
  <1>1. IsFiniteSet(busy)
    <2>1. IsFiniteSet(parts)
      <3>1. IsFiniteSet({} \union {<<1, starter>>})
        BY FS_EmptySet, FS_AddElement
      <3>2. IsFiniteSet(({} \union {<<1, starter>>}) \union {<<2, reader>>})
        BY <3>1, FS_AddElement
      <3>3. IsFiniteSet((({} \union {<<1, starter>>}) \union {<<2, reader>>})
                          \union {<<3, writer>>})
        BY <3>2, FS_AddElement
      <3>4. IsFiniteSet(((({} \union {<<1, starter>>}) \union {<<2, reader>>})
                          \union {<<3, writer>>}) \union {<<4, closer>>})
        BY <3>3, FS_AddElement
      <3>5. parts = ((({} \union {<<1, starter>>}) \union {<<2, reader>>})
                          \union {<<3, writer>>}) \union {<<4, closer>>}
        BY Zenon
      <3> QED
        BY <3>4, <3>5, Zenon
    <2> QED
      BY <2>1, FS_Subset
  <1>2. Cardinality(busy) \in Nat /\ Cardinality(busy) < 1
    BY <1>1, FS_CardinalityType DEF Free, Busy
  <1>3. busy = {}
    BY <1>1, <1>2, FS_EmptySet
  <1>4. \A p \in parts : p[2] \notin middle
    BY <1>3
  <1>5. starter \notin middle /\ reader \notin middle /\ writer \notin middle
    <2>1. <<1, starter>> \in parts /\ <<2, reader>> \in parts /\ <<3, writer>> \in parts
      OBVIOUS
    <2>2. <<1, starter>>[2] \notin middle /\ <<2, reader>>[2] \notin middle
          /\ <<3, writer>>[2] \notin middle
      BY <1>4, <2>1
    <2> QED
      BY <2>2
  <1> QED
    BY <1>5

LEMMA CloseStep ==
  PoolSize = 1 /\ Inv /\ StoppedBeforeClose /\ [Next]_vars => StoppedBeforeClose'
  <1> SUFFICES ASSUME PoolSize = 1, Inv, StoppedBeforeClose, [Next]_vars
               PROVE  StoppedBeforeClose'
    OBVIOUS
  <1> USE DEF flags, stopping, stream, fields, ending, history
  <1>0. TypeOK /\ ControlInv
    BY DEF Inv, DataInv
  <1>1. CASE UNCHANGED <<closer, close_calls, starter, reader, writer>>
    BY <1>1 DEF StoppedBeforeClose
  <1>2. CASE Run \/ ResolverProcessing \/ RequestConnectProcessing
    BY <1>0, <1>2 DEF Run, ResolverProcessing, RequestConnectProcessing, Free,
                      StoppedBeforeClose, ControlInv
  <1>3. CASE StartWriting
    BY <1>0, <1>3, RequestWriteEnds DEF StartWriting, StoppedBeforeClose
  <1>4. CASE TimerHandler \/ WriteSucceeded
    BY <1>0, <1>4, RequestWriteEnds DEF TimerHandler, WriteSucceeded, StoppedBeforeClose
  <1>5. CASE (\E result \in {"data", "eof"} : ReadCompletes(result))
             \/ RequestReadProcessing \/ ReaderCancels \/ ReaderMarks
    BY <1>5 DEF ReadCompletes, RequestReadProcessing, ReaderCancels, ReaderMarks,
                StoppedBeforeClose
  <1>6. CASE (\E n \in 1..NumChunks : WriteCompletes(n)) \/ WriteFails \/ WriteFailed
             \/ WriterCancels \/ TimerExpires
    BY <1>6 DEF WriteCompletes, WriteFails, WriteFailed, WriterCancels, TimerExpires,
                StoppedBeforeClose
  <1>7. CASE CheckReadyCloseProcessing
    <2>1. CASE CloseDue
      <3>1. ~read_processing /\ ~write_processing /\ fault = "none"
            /\ UNCHANGED <<starter, reader, writer>>
        BY <1>7, <2>1 DEF CheckReadyCloseProcessing, CloseDue, ReadyClose, Free
      <3>2. /\ starter # "reading_started"
            /\ reader \notin {"cancelling", "marking"}
            /\ writer # "failing"
        BY <1>7, OneThreadIsFree DEF CheckReadyCloseProcessing
      <3>3. reader \in {"idle", "ended"}
            /\ writer \in {"idle", "drained", "stopped", "failed"}
        BY <1>0, <3>1, <3>2 DEF ControlInv, TypeOK, Readers, Writers
      <3> QED
        BY <3>1, <3>2, <3>3 DEF StoppedBeforeClose
    <2>2. CASE ~CloseDue
      BY <1>1, <1>7, <2>2 DEF CheckReadyCloseProcessing
    <2> QED
      BY <2>1, <2>2
  <1>8. CASE CloseConnect
    BY <1>8 DEF CloseConnect, StoppedBeforeClose
  <1>9. CASE \E chunk_id \in 0..(NumChunks - 1) : SendData(chunk_id)
    BY <1>0, <1>9, ActiveWriter DEF SendData, StoppedBeforeClose, TypeOK
  <1>10. CASE \E stop_chunk \in {0, NumChunks} : Stop(stop_chunk)
    BY <1>0, <1>10, ActiveWriter DEF Stop, StoppedBeforeClose, TypeOK
  <1>11. CASE UNCHANGED vars
    BY <1>1, <1>11 DEF vars
  <1> QED
    BY <1>2, <1>3, <1>4, <1>5, <1>6, <1>7, <1>8, <1>9, <1>10, <1>11
    DEF Next, RequestWriteProcessing

\* With one thread (the client) the assumption of RemoveOutLink holds: a link
\* that calls CloseConnect has no operation left.  The client needs it for every
\* number of chunks; with more threads it is false.
THEOREM OneThreadStopsBeforeClose ==
  ASSUME PoolSize = 1
  PROVE  Spec => []StoppedBeforeClose
  <1>1. Init => StoppedBeforeClose
    BY DEF Init, StoppedBeforeClose
  <1>2. Inv /\ StoppedBeforeClose /\ [Next]_vars => StoppedBeforeClose'
    BY CloseStep
  <1> QED
    BY <1>1, <1>2, InvInvariant, PTL DEF Spec
=============================================================================
