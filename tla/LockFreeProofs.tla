---------------------------- MODULE LockFreeProofs ----------------------------
(***************************************************************************)
(* Proofs about the places where a thread shares data with the backend     *)
(* without a lock.                                                         *)
(*                                                                         *)
(* BoundedSPSCQueue, for every capacity, position width, batch size and    *)
(* set of message sizes: the positions keep their order, no reservation    *)
(* overwrites an unread message, the reader only ever sees whole published *)
(* messages, and the ring is the queue of FrontendQueue.                   *)
(*                                                                         *)
(* The two slots of the RdtscClock, in the whole of BackendLifecycle, for  *)
(* every program, lag, gap and interval: no time is ever made of halves of *)
(* two bases.                                                              *)
(*                                                                         *)
(* The flag in the frame of a signal handler that the backend sets to      *)
(* answer its flush, for all workloads: the handler goes on only when what *)
(* its thread logged has been read.                                        *)
(***************************************************************************)
EXTENDS BoundedSPSCQueue, BackendLifecycle, SequenceTheorems, FiniteSetTheorems, TLAPS

(***************************************************************************)
(* The bounded queue: its inductive invariant.  Besides the properties     *)
(* themselves it says what the two program counters promise: how large a   *)
(* reservation is, which of its bytes are encoded, and that a reader with  *)
(* a pointer has something to read.                                        *)
(***************************************************************************)
WriterInv ==
  /\ wpc = "reserved" => /\ wsize > 0
                         /\ wsize <= Sub(reader_pos_cache_plus_capacity, writer_pos)
                         /\ \A k \in 0..(written - 1) :
                              storage[Offset(writer_pos) + k] = ByteOf(writer_pos, wsize, k)
  /\ wpc # "reserved" => written = 0

ReaderInv ==
  /\ rpc \in {"reading", "decoded"} => writer_pos_cache # reader_pos
  /\ rpc = "decoded" => rsize = SizeAt(reader_pos)

BytesIntact ==
  \A s \in starts : \A k \in 0..(SizeAt(s) - 1) :
    storage[Offset(s) + k] = ByteOf(s, SizeAt(s), k)

IInv == /\ TypeOK /\ PositionsOrdered /\ MessagesTiled
        /\ BytesIntact /\ WriterInv /\ ReaderInv

-----------------------------------------------------------------------------
(***************************************************************************)
(* Arithmetic.                                                             *)
(***************************************************************************)

\* The position type holds at least two laps of the ring.
LEMMA PosModFacts == PosMod \in Nat /\ PosMod >= 2 * Capacity /\ Capacity \in Nat /\ Capacity > 0
<1>1. Capacity \in Nat /\ Capacity > 0 /\ Laps \in Nat /\ Laps >= 2
  BY CapacityAssumption, LapsAssumption
<1>2. Capacity * (Laps - 2) >= 0
  BY <1>1
<1>3. Capacity * Laps = Capacity * (Laps - 2) + 2 * Capacity
  BY <1>1
<1> QED BY <1>1, <1>2, <1>3 DEF PosMod

\* pos & _mask is an address of the first half of the storage.
LEMMA OffsetRange == ASSUME NEW a \in Pos
                     PROVE  Offset(a) \in 0..(Capacity - 1)
BY PosModFacts DEF Offset, Pos

\* No multiple of the capacity lies strictly between zero and the capacity.
LEMMA NoSmallMultiple == ASSUME NEW m \in Int, 0 < Capacity * m, Capacity * m < Capacity
                         PROVE  FALSE
<1>1. CASE m <= 0
  <2>1. Capacity * (0 - m) >= 0
    BY <1>1, PosModFacts
  <2>2. Capacity * (0 - m) = 0 - Capacity * m
    BY PosModFacts
  <2> QED BY <2>1, <2>2, PosModFacts
<1>2. CASE m >= 1
  <2>1. Capacity * (m - 1) >= 0
    BY <1>2, PosModFacts
  <2>2. Capacity * (m - 1) = Capacity * m - Capacity
    BY PosModFacts
  <2> QED BY <2>1, <2>2, PosModFacts
<1> QED BY <1>1, <1>2

\* Two bytes whose positions differ by less than the capacity never share an
\* address, whichever half of the storage each of them falls in.
LEMMA AddressesDiffer ==
  ASSUME NEW a \in Pos, NEW b \in Pos, NEW i \in Nat, NEW j \in Nat,
         i < Sub(b, a) + j, Sub(b, a) + j - i < Capacity
  PROVE  Offset(a) + i # Offset(b) + j
<1> SUFFICES ASSUME Offset(a) + i = Offset(b) + j PROVE FALSE
  OBVIOUS
<1> DEFINE qa == a \div Capacity
           qb == b \div Capacity
<1>1. a \in Nat /\ b \in Nat /\ Laps \in Nat /\ Capacity \in Nat /\ Capacity > 0
  BY PosModFacts, LapsAssumption DEF Pos
<1>2. /\ qa \in Int /\ a = Capacity * qa + Offset(a) /\ Offset(a) \in Int
      /\ qb \in Int /\ b = Capacity * qb + Offset(b) /\ Offset(b) \in Int
  BY <1>1 DEF Offset
<1> HIDE DEF qa, qb
<1>3. CASE b >= a
  <2>1. Sub(b, a) = b - a
    BY <1>3 DEF Sub
  <2>2. Capacity * (qb - qa) = Capacity * qb - Capacity * qa
    BY <1>1, <1>2
  <2>3. Sub(b, a) + j - i = Capacity * (qb - qa)
    BY <1>1, <1>2, <2>1, <2>2
  <2>4. 0 < Capacity * (qb - qa) /\ Capacity * (qb - qa) < Capacity
    BY <1>1, <2>1, <2>3
  <2> QED BY <1>2, <2>4, NoSmallMultiple
<1>4. CASE ~(b >= a)
  <2>1. Sub(b, a) = b - a + Capacity * Laps
    BY <1>4 DEF Sub, PosMod
  <2>2. Capacity * (qb - qa + Laps) = Capacity * qb - Capacity * qa + Capacity * Laps
    BY <1>1, <1>2
  <2>3. Sub(b, a) + j - i = Capacity * (qb - qa + Laps)
    BY <1>1, <1>2, <2>1, <2>2
  <2>4. Sub(b, a) \in Int
    BY <1>1, <2>1
  <2>5. 0 < Capacity * (qb - qa + Laps) /\ Capacity * (qb - qa + Laps) < Capacity
    BY <2>3, <2>4
  <2> QED BY <1>1, <1>2, <2>5, NoSmallMultiple
<1> QED BY <1>3, <1>4

\* Distances on the ring of positions.
LEMMA SubType == ASSUME NEW a \in Pos, NEW b \in Pos
                 PROVE  Sub(a, b) \in Nat /\ Sub(a, b) < PosMod
BY PosModFacts DEF Sub, Pos

\* A position is no distance from itself.
LEMMA SubSelf == ASSUME NEW a \in Pos
                 PROVE  Sub(a, a) = 0
BY PosModFacts DEF Sub, Pos

\* Positions at the same distance are the same.
LEMMA SubInjective == ASSUME NEW a \in Pos, NEW b \in Pos, NEW c \in Pos, Sub(a, c) = Sub(b, c)
                      PROVE  a = b
BY PosModFacts DEF Sub, Pos

\* Distances along the ring add up.
LEMMA SubChain == ASSUME NEW a \in Pos, NEW b \in Pos, NEW c \in Pos, Sub(b, c) <= Sub(a, c)
                  PROVE  Sub(a, b) = Sub(a, c) - Sub(b, c)
BY PosModFacts DEF Sub, Pos

\* Advancing a position gives a position.
LEMMA AddType == ASSUME NEW a \in Pos, NEW n \in Nat, n < PosMod
                 PROVE  Add(a, n) \in Pos
BY PosModFacts DEF Add, Pos

\* Advancing a position adds to its distance.
LEMMA SubAdd == ASSUME NEW a \in Pos, NEW b \in Pos, NEW n \in Nat, Sub(a, b) + n < PosMod
                PROVE  Add(a, n) \in Pos /\ Sub(Add(a, n), b) = Sub(a, b) + n
BY PosModFacts DEF Add, Sub, Pos

-----------------------------------------------------------------------------

\* A new queue satisfies the inductive invariant.
LEMMA InitIInv == Init => IInv
<1> SUFFICES ASSUME Init PROVE IInv
  OBVIOUS
<1>1. 0 \in Pos /\ Capacity \in Pos /\ Sub(0, 0) = 0 /\ Sub(Capacity, 0) = Capacity
  BY PosModFacts DEF Pos, Sub
<1>2. TypeOK
  <2>1. NoByte \in Byte
    BY <1>1 DEF NoByte, Byte
  <2>2. storage \in [0..(2 * Capacity - 1) -> Byte]
    BY <2>1 DEF Init
  <2>3. total_read \in BOOLEAN /\ starts \subseteq Pos
    BY DEF Init
  <2> QED BY <1>1, <2>2, <2>3 DEF Init, TypeOK
<1>3. PositionsOrdered
  BY <1>1, PosModFacts DEF Init, PositionsOrdered, Ahead
<1>4. MessagesTiled
  BY <1>1 DEF Init, MessagesTiled
<1>5. BytesIntact /\ WriterInv /\ ReaderInv
  BY DEF Init, BytesIntact, WriterInv, ReaderInv
<1> QED BY <1>2, <1>3, <1>4, <1>5 DEF IInv

\* The invariant's facts about positions and sizes, in the form the steps use.
LEMMA Typing ==
  ASSUME IInv
  PROVE  /\ reader_pos \in Pos /\ atomic_reader_pos \in Pos /\ writer_pos_cache \in Pos
         /\ writer_pos \in Pos /\ atomic_writer_pos \in Pos
         /\ reader_pos_cache_plus_capacity \in Pos
         /\ wsize \in Nat /\ written \in Nat /\ written <= wsize /\ rsize \in Nat
         /\ \A s \in starts : s \in Pos
BY DEF IInv, TypeOK

\* The distances of the positions from the reader are numbers in order.
LEMMA Distances ==
  ASSUME IInv
  PROVE  /\ Ahead(reader_pos) \in Nat /\ Ahead(writer_pos_cache) \in Nat
         /\ Ahead(atomic_writer_pos) \in Nat /\ Ahead(writer_pos) \in Nat
         /\ Sub(reader_pos_cache_plus_capacity, writer_pos) \in Nat
         /\ \A s \in starts : Ahead(s) \in Nat
         /\ Ahead(writer_pos) <= Capacity
<1>1. /\ Ahead(reader_pos) \in Nat /\ Ahead(writer_pos_cache) \in Nat
      /\ Ahead(atomic_writer_pos) \in Nat /\ Ahead(writer_pos) \in Nat
      /\ Sub(reader_pos_cache_plus_capacity, writer_pos) \in Nat
      /\ \A s \in starts : Ahead(s) \in Nat
  BY Typing, SubType DEF Ahead
<1> QED BY <1>1, PosModFacts DEF IInv, PositionsOrdered

\* The size stored at a position is a number.
LEMMA SizeType == ASSUME IInv, NEW s \in Pos PROVE SizeAt(s) \in Nat
<1>1. Offset(s) \in 0..(2 * Capacity - 1)
  BY OffsetRange, PosModFacts
<1>2. storage[Offset(s)] \in Byte
  BY <1>1 DEF IInv, TypeOK
<1> QED BY <1>2 DEF Byte, SizeAt

\* A reader that has not reached its cached writer position stands on a message
\* that ends at or before that position.
LEMMA ReaderHasMessage ==
  ASSUME IInv, writer_pos_cache # reader_pos
  PROVE  /\ reader_pos \in starts
         /\ SizeAt(reader_pos) \in Nat /\ SizeAt(reader_pos) > 0
         /\ Ahead(reader_pos) + SizeAt(reader_pos) <= Ahead(writer_pos_cache)
<1>1. /\ reader_pos \in Pos /\ writer_pos_cache \in Pos /\ writer_pos \in Pos /\ atomic_reader_pos \in Pos
      /\ Ahead(reader_pos) \in Nat /\ Ahead(writer_pos_cache) \in Nat /\ Ahead(writer_pos) \in Nat
      /\ Ahead(atomic_writer_pos) \in Nat
  BY SubType DEF IInv, TypeOK, Ahead
<1>2. Ahead(reader_pos) # Ahead(writer_pos_cache)
  BY <1>1, SubInjective DEF Ahead
<1>3. /\ Ahead(reader_pos) < Ahead(writer_pos_cache)
      /\ Ahead(writer_pos_cache) <= Ahead(writer_pos)
  BY <1>1, <1>2 DEF IInv, PositionsOrdered
<1>4. reader_pos # writer_pos
  BY <1>1, <1>3
<1>5. reader_pos \in starts
  BY <1>4 DEF IInv, MessagesTiled
<1>6. SizeAt(reader_pos) \in Nat /\ SizeAt(reader_pos) > 0
  BY <1>1, <1>5, SizeType DEF IInv, MessagesTiled
<1>7. writer_pos_cache \in starts \/ writer_pos_cache = writer_pos
  BY DEF IInv, MessagesTiled
<1> QED BY <1>3, <1>5, <1>6, <1>7 DEF IInv, MessagesTiled

\* What a reservation changes: the program counter and, perhaps, the cache.
LEMMA PrepareWritePreserves ==
  ASSUME IInv, NEW n \in Sizes,
         PrepareWriteCached(n) \/ PrepareWriteReload(n) \/ PrepareWriteFull(n)
  PROVE  IInv'
<1> USE DEF Fits, Reserve, Asks, ReloadedReaderPos
<1>1. n \in Nat /\ n > 0
  BY SizesAssumption
<1>2. /\ reader_pos_cache_plus_capacity' \in Pos
      /\ Ahead(writer_pos) + Sub(reader_pos_cache_plus_capacity', writer_pos) <= Capacity
  <2>1. CASE reader_pos_cache_plus_capacity' = reader_pos_cache_plus_capacity
    BY <2>1 DEF IInv, TypeOK, PositionsOrdered
  <2>2. CASE reader_pos_cache_plus_capacity' = Add(atomic_reader_pos, Capacity)
    <3>1. Add(atomic_reader_pos, Capacity) \in Pos /\ Ahead(Add(atomic_reader_pos, Capacity)) = Capacity
      BY PosModFacts, SubSelf, SubAdd DEF Ahead, IInv, TypeOK
    <3>2. Sub(Add(atomic_reader_pos, Capacity), writer_pos) = Capacity - Ahead(writer_pos)
      BY <3>1, Typing, Distances, SubChain DEF Ahead
    <3> QED BY <2>2, <3>1, <3>2, Distances, PosModFacts
  <2> QED BY <2>1, <2>2 DEF PrepareWriteCached, PrepareWriteReload, PrepareWriteFull
<1>3. UNCHANGED <<storage, writer_pos, atomic_writer_pos, rvars, starts>>
  BY DEF PrepareWriteCached, PrepareWriteReload, PrepareWriteFull
<1>4. TypeOK'
  BY <1>1, <1>2, <1>3 DEF IInv, TypeOK, WriterInv, rvars, PrepareWriteCached, PrepareWriteReload, PrepareWriteFull
<1>5. PositionsOrdered'
  BY <1>2, <1>3 DEF IInv, PositionsOrdered, Ahead, rvars
<1>6. MessagesTiled' /\ BytesIntact' /\ ReaderInv'
  BY <1>3 DEF IInv, MessagesTiled, BytesIntact, ReaderInv, Ahead, SizeAt, rvars
<1>7. WriterInv'
  BY <1>1, <1>3 DEF IInv, WriterInv, rvars, PrepareWriteCached, PrepareWriteReload, PrepareWriteFull
<1> QED BY <1>4, <1>5, <1>6, <1>7 DEF IInv

\* A byte written into the reservation leaves every unread message alone.
LEMMA WriteBytePreserves ==
  ASSUME IInv, WriteByte
  PROVE  IInv' /\ \A s \in starts : SizeAt(s)' = SizeAt(s)
<1> DEFINE addr == Offset(writer_pos) + written
<1>1. /\ writer_pos \in Pos /\ wsize \in Nat /\ written \in Nat /\ written < wsize
      /\ Ahead(writer_pos) + wsize <= Capacity
      /\ \A s \in starts : s \in Pos
  <2>1. wsize <= Sub(reader_pos_cache_plus_capacity, writer_pos)
    BY DEF IInv, WriterInv, WriteByte
  <2> QED BY <2>1, Typing, Distances, PosModFacts DEF IInv, PositionsOrdered, WriteByte
<1>2. ASSUME NEW s \in starts, NEW k \in 0..(SizeAt(s) - 1)
      PROVE  /\ Offset(s) + k # addr
             /\ Offset(s) + k \in 0..(2 * Capacity - 1)
  <2>1. /\ s \in Pos /\ SizeAt(s) \in Nat /\ k \in Nat
        /\ Ahead(s) + SizeAt(s) <= Ahead(writer_pos)
    BY <1>1, SizeType DEF IInv, MessagesTiled
  <2>2. /\ Sub(writer_pos, s) = Ahead(writer_pos) - Ahead(s)
        /\ Ahead(s) \in Nat /\ Ahead(writer_pos) \in Nat
    <3>1. Ahead(s) \in Nat /\ Ahead(writer_pos) \in Nat
      BY Distances
    <3>2. Ahead(s) <= Ahead(writer_pos)
      BY <2>1, <3>1
    <3> QED BY <1>1, <2>1, <3>1, <3>2, Typing, SubChain DEF Ahead
  <2>3. k < Sub(writer_pos, s) + written /\ Sub(writer_pos, s) + written - k < Capacity
    BY <1>1, <2>1, <2>2, PosModFacts
  <2>4. Offset(s) + k # addr
    BY <1>1, <2>1, <2>3, AddressesDiffer
  <2> QED BY <1>1, <2>1, <2>2, <2>4, OffsetRange, PosModFacts
<1>3. ASSUME NEW s \in starts
      PROVE  SizeAt(s)' = SizeAt(s)
  <2>1. 0 \in 0..(SizeAt(s) - 1) /\ Offset(s) \in 0..(Capacity - 1)
    BY <1>1, OffsetRange, SizeType DEF IInv, MessagesTiled
  <2>2. Offset(s) # addr
    BY <1>2, <2>1
  <2> QED BY <2>1, <2>2, PosModFacts DEF WriteByte, SizeAt, IInv, TypeOK
<1>4. TypeOK'
  <2>1. ByteOf(writer_pos, wsize, written) \in Byte
    BY <1>1 DEF Byte, ByteOf
  <2>2. storage' \in [0..(2 * Capacity - 1) -> Byte]
    BY <2>1 DEF IInv, TypeOK, WriteByte
  <2> QED BY <1>1, <2>2 DEF IInv, TypeOK, WriteByte, rvars
<1>5. PositionsOrdered'
  BY DEF IInv, PositionsOrdered, WriteByte, Ahead, rvars
<1>6. MessagesTiled'
  BY <1>3 DEF IInv, MessagesTiled, WriteByte, Ahead, rvars
<1>7. BytesIntact'
  BY <1>2, <1>3, PosModFacts DEF IInv, TypeOK, BytesIntact, WriteByte
<1>8. WriterInv'
  <2>1. ASSUME NEW k \in 0..written
        PROVE  storage'[Offset(writer_pos) + k] = ByteOf(writer_pos, wsize, k)
    <3>1. Offset(writer_pos) + k \in 0..(2 * Capacity - 1)
      <4>1. Ahead(writer_pos) \in Nat
        BY <1>1, SubType DEF Ahead, IInv, TypeOK
      <4> QED BY <1>1, <4>1, OffsetRange, PosModFacts
    <3>2. CASE k = written
      BY <3>1, <3>2 DEF IInv, TypeOK, WriteByte
    <3>3. CASE k < written
      <4>1. storage'[Offset(writer_pos) + k] = storage[Offset(writer_pos) + k]
        BY <1>1, <3>1, <3>3, OffsetRange, PosModFacts DEF IInv, TypeOK, WriteByte
      <4> QED BY <1>1, <3>3, <4>1 DEF IInv, WriterInv, WriteByte
    <3> QED BY <1>1, <3>2, <3>3
  <2> QED BY <1>1, <2>1 DEF IInv, WriterInv, WriteByte
<1>9. ReaderInv'
  BY <1>3, ReaderHasMessage DEF IInv, ReaderInv, WriteByte, rvars
<1> QED BY <1>3, <1>4, <1>5, <1>6, <1>7, <1>8, <1>9 DEF IInv

\* What the writer finishes: the message carries its size, and the position moves on by it.
LEMMA WrittenSize == ASSUME IInv, wpc = "reserved", written = wsize PROVE SizeAt(writer_pos) = wsize
<1>1. wsize \in Nat /\ wsize > 0
  BY Typing DEF IInv, WriterInv
<1>2. storage[Offset(writer_pos) + 0] = ByteOf(writer_pos, wsize, 0)
  BY <1>1 DEF IInv, WriterInv
<1>3. Offset(writer_pos) + 0 = Offset(writer_pos)
  BY Typing, OffsetRange, PosModFacts
<1> QED BY <1>2, <1>3 DEF ByteOf, SizeAt

LEMMA FinishAdvances ==
  ASSUME IInv, wpc = "reserved", writer_pos' = Add(writer_pos, wsize), UNCHANGED atomic_reader_pos
  PROVE  /\ wsize \in Nat /\ wsize > 0 /\ writer_pos' \in Pos
         /\ Ahead(writer_pos)' = Ahead(writer_pos) + wsize
         /\ Ahead(writer_pos) + wsize <= Capacity
         /\ Sub(writer_pos', writer_pos) = wsize
<1>1. wsize \in Nat /\ wsize > 0 /\ wsize <= Sub(reader_pos_cache_plus_capacity, writer_pos)
  BY Typing DEF IInv, WriterInv
<1>2. Ahead(writer_pos) + wsize <= Capacity
  BY <1>1, Distances, PosModFacts DEF IInv, PositionsOrdered
<1>3. Add(writer_pos, wsize) \in Pos /\ Ahead(Add(writer_pos, wsize)) = Ahead(writer_pos) + wsize
  BY <1>1, <1>2, Typing, Distances, PosModFacts, SubAdd DEF Ahead
<1>4. Sub(Add(writer_pos, wsize), writer_pos) = wsize
  BY <1>1, <1>2, Typing, Distances, PosModFacts, SubAdd, SubSelf DEF Ahead
<1> QED BY <1>1, <1>2, <1>3, <1>4 DEF Ahead

\* A finished message extends the tiling, whether or not it is published at once.
LEMMA FinishWritePreserves ==
  ASSUME IInv, FinishWrite \/ FinishAndCommitWrite
  PROVE  IInv'
<1>1. /\ wpc = "reserved" /\ written = wsize
      /\ writer_pos' = Add(writer_pos, wsize) /\ starts' = starts \cup {writer_pos}
      /\ wpc' \in {"idle", "finished"} /\ wsize' = 0 /\ written' = 0
      /\ atomic_writer_pos' = atomic_writer_pos \/ atomic_writer_pos' = writer_pos'
      /\ UNCHANGED <<storage, reader_pos_cache_plus_capacity, rvars>>
  BY DEF FinishWrite, FinishAndCommitWrite
<1>2. wsize \in Nat /\ wsize > 0 /\ wsize <= Sub(reader_pos_cache_plus_capacity, writer_pos)
  BY <1>1, Typing DEF IInv, WriterInv
<1>3. Ahead(writer_pos) + wsize <= Capacity
  BY <1>2, Distances, PosModFacts DEF IInv, PositionsOrdered
<1>4. /\ writer_pos' \in Pos
      /\ Ahead(writer_pos)' = Ahead(writer_pos) + wsize
      /\ Sub(writer_pos', writer_pos) = wsize
  BY <1>1, FinishAdvances DEF rvars
<1>5. Sub(reader_pos_cache_plus_capacity, writer_pos') = Sub(reader_pos_cache_plus_capacity, writer_pos) - wsize
  BY <1>2, <1>4, Typing, SubChain
<1>6. SizeAt(writer_pos) = wsize
  BY <1>1, WrittenSize
<1>7. \A s \in Pos : SizeAt(s)' = SizeAt(s) /\ Ahead(s)' = Ahead(s)
  BY <1>1 DEF SizeAt, Ahead, rvars
<1>8. TypeOK'
  <2>1. atomic_writer_pos' \in Pos /\ starts' \subseteq Pos /\ written' \in 0..wsize' /\ wsize' \in Nat
    BY <1>1, <1>4, Typing
  <2> QED BY <1>1, <1>4, <2>1 DEF IInv, TypeOK, rvars
<1>9. PositionsOrdered'
  <2>1. Ahead(atomic_writer_pos)' = Ahead(atomic_writer_pos) \/ Ahead(atomic_writer_pos)' = Ahead(writer_pos)'
    BY <1>1 DEF Ahead, rvars
  <2>2. /\ Ahead(reader_pos)' = Ahead(reader_pos)
        /\ Ahead(writer_pos_cache)' = Ahead(writer_pos_cache)
        /\ reader_pos_cache_plus_capacity' = reader_pos_cache_plus_capacity
    BY <1>1 DEF Ahead, rvars
  <2> QED BY <1>2, <1>4, <1>5, <2>1, <2>2, Distances, PosModFacts DEF IInv, PositionsOrdered
<1>10. MessagesTiled'
  <2>1. ({reader_pos, writer_pos_cache, atomic_writer_pos} \subseteq starts \cup {writer_pos})'
    BY <1>1 DEF IInv, MessagesTiled, rvars
  <2>2. ASSUME NEW s \in starts'
        PROVE  /\ Ahead(reader_pos)' <= Ahead(s)'
               /\ SizeAt(s)' > 0
               /\ Ahead(s)' + SizeAt(s)' <= Ahead(writer_pos)'
               /\ Add(s, SizeAt(s)') \in starts' \cup {writer_pos'}
    <3>1. Ahead(reader_pos)' = Ahead(reader_pos)
      BY <1>1 DEF Ahead, rvars
    <3>2. CASE s = writer_pos
      BY <1>1, <1>2, <1>4, <1>6, <1>7, <3>1, <3>2, Typing, Distances DEF IInv, PositionsOrdered
    <3>3. CASE s \in starts
      <4>1. s \in Pos /\ Ahead(s) \in Nat /\ SizeAt(s) \in Nat
        BY <3>3, Typing, Distances, SizeType
      <4> QED BY <1>1, <1>2, <1>4, <1>7, <3>1, <3>3, <4>1, Distances DEF IInv, MessagesTiled
    <3> QED BY <1>1, <3>2, <3>3
  <2>3. ASSUME NEW s \in starts', NEW t \in starts', Ahead(s)' < Ahead(t)'
        PROVE  Ahead(s)' + SizeAt(s)' <= Ahead(t)'
    <3>1. s \in Pos /\ t \in Pos
      BY <1>1, Typing
    <3>2. CASE s \in starts
      BY <1>1, <1>7, <2>3, <3>1, <3>2 DEF IInv, MessagesTiled
    <3>3. CASE s = writer_pos
      <4>1. Ahead(t) <= Ahead(writer_pos) /\ Ahead(t) \in Nat
        BY <1>1, <3>1, Distances, SizeType DEF IInv, MessagesTiled
      <4> QED BY <1>7, <2>3, <3>1, <3>3, <4>1, Distances
    <3> QED BY <1>1, <3>2, <3>3
  <2> QED BY <2>1, <2>2, <2>3 DEF MessagesTiled
<1>11. BytesIntact'
  BY <1>1, <1>6, <1>7, Typing DEF IInv, BytesIntact, WriterInv
<1>12. WriterInv'
  BY <1>1 DEF WriterInv
<1>13. ReaderInv'
  BY <1>1 DEF IInv, ReaderInv, SizeAt, rvars
<1> QED BY <1>8, <1>9, <1>10, <1>11, <1>12, <1>13 DEF IInv

\* commit_write only publishes a position the writer had reached.
LEMMA CommitWritePreserves == ASSUME IInv, CommitWrite PROVE IInv'
<1>1. TypeOK'
  BY DEF IInv, TypeOK, CommitWrite, rvars
<1>2. PositionsOrdered'
  BY Distances DEF IInv, PositionsOrdered, Ahead, CommitWrite, rvars
<1>3. MessagesTiled' /\ BytesIntact'
  BY DEF IInv, MessagesTiled, BytesIntact, Ahead, SizeAt, CommitWrite, rvars
<1>4. WriterInv' /\ ReaderInv'
  BY DEF IInv, WriterInv, ReaderInv, SizeAt, CommitWrite, rvars
<1> QED BY <1>1, <1>2, <1>3, <1>4 DEF IInv

\* Taking the read pointer and decoding the header move no shared position.
LEMMA PrepareReadPreserves ==
  ASSUME IInv, PrepareReadCached \/ PrepareReadReload
  PROVE  IInv'
<1>1. /\ UNCHANGED <<storage, wvars, reader_pos, atomic_reader_pos, rsize, total_read, starts>>
      /\ writer_pos_cache' = writer_pos_cache \/ writer_pos_cache' = atomic_writer_pos
      /\ rpc' \in {"idle", "reading", "commit"}
      /\ rpc' = "reading" => writer_pos_cache' # reader_pos
  BY DEF PrepareReadCached, PrepareReadReload
<1>2. TypeOK'
  BY <1>1 DEF IInv, TypeOK, wvars
<1>3. PositionsOrdered'
  BY <1>1, Distances DEF IInv, PositionsOrdered, Ahead, wvars
<1>4. MessagesTiled' /\ BytesIntact'
  BY <1>1 DEF IInv, MessagesTiled, BytesIntact, Ahead, SizeAt, wvars
<1>5. WriterInv' /\ ReaderInv'
  BY <1>1 DEF IInv, WriterInv, ReaderInv, wvars
<1> QED BY <1>2, <1>3, <1>4, <1>5 DEF IInv

\* Decoding finds the size of a published message.
LEMMA DecodePreserves == ASSUME IInv, DecodeMessage PROVE IInv'
<1>1. rsize' = SizeAt(reader_pos) /\ rsize' \in Nat
  BY Typing, SizeType DEF DecodeMessage, SizeAt
<1>2. TypeOK'
  BY <1>1 DEF IInv, TypeOK, DecodeMessage, wvars
<1>3. PositionsOrdered' /\ MessagesTiled' /\ BytesIntact'
  BY DEF IInv, PositionsOrdered, MessagesTiled, BytesIntact, Ahead, SizeAt, DecodeMessage, wvars
<1>4. WriterInv'
  BY DEF IInv, WriterInv, DecodeMessage, wvars
<1>5. ReaderInv'
  BY <1>1 DEF IInv, ReaderInv, SizeAt, DecodeMessage
<1> QED BY <1>2, <1>3, <1>4, <1>5 DEF IInv

\* Finishing a read takes the first message off the tiling and lands on a boundary.
LEMMA FinishReadPreserves == ASSUME IInv, FinishRead PROVE IInv'
<1>1. writer_pos_cache # reader_pos /\ rsize = SizeAt(reader_pos)
  BY DEF IInv, ReaderInv, FinishRead
<1>2. /\ reader_pos \in starts /\ rsize \in Nat /\ rsize > 0
      /\ Ahead(reader_pos) + rsize <= Ahead(writer_pos_cache)
  BY <1>1, ReaderHasMessage
<1>3. Ahead(writer_pos_cache) <= Ahead(writer_pos) /\ Ahead(writer_pos) <= Capacity
  BY Distances DEF IInv, PositionsOrdered
<1>4. /\ reader_pos' \in Pos
      /\ Ahead(reader_pos') = Ahead(reader_pos) + rsize
  <2>1. Ahead(reader_pos) + rsize < PosMod
    BY <1>2, <1>3, Distances, PosModFacts
  <2> QED BY <1>2, <2>1, Typing, SubAdd DEF Ahead, FinishRead
<1>5. /\ UNCHANGED <<storage, wvars, atomic_reader_pos, writer_pos_cache>>
      /\ starts' = starts \ {reader_pos}
  BY DEF FinishRead
<1>6. ASSUME NEW s \in Pos, Ahead(s) > Ahead(reader_pos)
      PROVE  s # reader_pos
  BY <1>6, Distances
<1>7. ASSUME NEW s \in starts'
      PROVE  /\ s \in starts /\ s \in Pos /\ Ahead(s) \in Nat /\ SizeAt(s) \in Nat
             /\ Ahead(s) > Ahead(reader_pos)
             /\ Ahead(reader_pos') <= Ahead(s)
  <2>1. s \in starts /\ s # reader_pos /\ s \in Pos /\ Ahead(s) \in Nat /\ SizeAt(s) \in Nat
    BY <1>5, Typing, Distances, SizeType
  <2>2. Ahead(s) # Ahead(reader_pos)
    BY <2>1, Typing, SubInjective DEF Ahead
  <2>3. Ahead(reader_pos) < Ahead(s)
    BY <2>1, <2>2, Distances DEF IInv, MessagesTiled
  <2> QED BY <1>1, <1>2, <1>4, <2>1, <2>3 DEF IInv, MessagesTiled
<1>8. TypeOK'
  <2>1. starts' \subseteq Pos /\ rsize' \in Nat /\ total_read' \in BOOLEAN
    BY Typing DEF FinishRead
  <2> QED BY <1>4, <2>1 DEF IInv, TypeOK, FinishRead, wvars
<1>9. PositionsOrdered'
  <2>1. Ahead(reader_pos)' = Ahead(reader_pos')
    BY <1>5 DEF Ahead
  <2> QED BY <1>2, <1>4, <1>5, <2>1 DEF IInv, PositionsOrdered, Ahead, wvars
<1>10. MessagesTiled'
  <2>1. ({reader_pos, writer_pos_cache, atomic_writer_pos} \subseteq starts \cup {writer_pos})'
    <3>1. Ahead(writer_pos_cache) > Ahead(reader_pos) /\ Ahead(atomic_writer_pos) > Ahead(reader_pos)
      BY <1>2, Distances DEF IInv, PositionsOrdered
    <3>2. writer_pos_cache # reader_pos /\ atomic_writer_pos # reader_pos
      BY <1>6, <3>1, Typing
    <3>3. Ahead(reader_pos') > Ahead(reader_pos)
      BY <1>2, <1>4, Distances
    <3>4. reader_pos' # reader_pos
      BY <1>4, <1>6, <3>3
    <3>5. reader_pos' \in starts \cup {writer_pos}
      BY <1>1, <1>2 DEF IInv, MessagesTiled, FinishRead
    <3> QED BY <1>5, <3>2, <3>4, <3>5 DEF IInv, MessagesTiled, wvars
  <2>2. ASSUME NEW s \in starts'
        PROVE  /\ Ahead(reader_pos)' <= Ahead(s)'
               /\ SizeAt(s)' > 0
               /\ Ahead(s)' + SizeAt(s)' <= Ahead(writer_pos)'
               /\ Add(s, SizeAt(s)') \in starts' \cup {writer_pos'}
    <3>1. Ahead(s)' = Ahead(s) /\ SizeAt(s)' = SizeAt(s) /\ Ahead(writer_pos)' = Ahead(writer_pos)
      BY <1>5 DEF Ahead, SizeAt, wvars
    <3>2. Ahead(reader_pos)' = Ahead(reader_pos')
      BY <1>5 DEF Ahead
    <3>3. /\ SizeAt(s) > 0 /\ Ahead(s) + SizeAt(s) <= Ahead(writer_pos)
          /\ Add(s, SizeAt(s)) \in starts \cup {writer_pos}
      BY <1>7 DEF IInv, MessagesTiled
    <3>4. Add(s, SizeAt(s)) \in Pos /\ Ahead(Add(s, SizeAt(s))) = Ahead(s) + SizeAt(s)
      <4>1. Ahead(s) + SizeAt(s) < PosMod
        BY <1>3, <1>7, <3>3, Distances, PosModFacts
      <4> QED BY <1>7, <4>1, Typing, SubAdd DEF Ahead
    <3>5. Add(s, SizeAt(s)) # reader_pos
      BY <1>6, <1>7, <3>3, <3>4, Distances
    <3> QED BY <1>5, <1>7, <3>1, <3>2, <3>3, <3>5 DEF wvars
  <2>3. ASSUME NEW s \in starts', NEW t \in starts', Ahead(s)' < Ahead(t)'
        PROVE  Ahead(s)' + SizeAt(s)' <= Ahead(t)'
    <3>1. Ahead(s)' = Ahead(s) /\ Ahead(t)' = Ahead(t) /\ SizeAt(s)' = SizeAt(s)
      BY <1>5 DEF Ahead, SizeAt
    <3> QED BY <1>7, <2>3, <3>1 DEF IInv, MessagesTiled
  <2> QED BY <2>1, <2>2, <2>3 DEF MessagesTiled
<1>11. BytesIntact'
  BY <1>5, <1>7 DEF IInv, BytesIntact, SizeAt
<1>12. WriterInv'
  BY <1>5 DEF IInv, WriterInv, wvars
<1>13. ReaderInv'
  BY DEF ReaderInv, FinishRead
<1> QED BY <1>8, <1>9, <1>10, <1>11, <1>12, <1>13 DEF IInv

\* Publishing the read position moves the origin of every distance to it.
LEMMA CommitReadPreserves == ASSUME IInv, CommitRead PROVE IInv'
<1>1. /\ UNCHANGED <<storage, wvars, reader_pos, writer_pos_cache, rsize, starts>>
      /\ rpc' = "idle" /\ total_read' = FALSE
      /\ atomic_reader_pos' = atomic_reader_pos \/ atomic_reader_pos' = reader_pos
  BY DEF CommitRead
<1>2. TypeOK'
  <2>1. total_read' \in BOOLEAN /\ atomic_reader_pos' \in Pos
    BY <1>1, Typing
  <2> QED BY <1>1, <2>1 DEF IInv, TypeOK, wvars
<1>3. BytesIntact' /\ WriterInv' /\ ReaderInv'
  BY <1>1 DEF IInv, BytesIntact, WriterInv, ReaderInv, SizeAt, wvars
<1>4. CASE atomic_reader_pos' = atomic_reader_pos
  <2>1. PositionsOrdered' /\ MessagesTiled'
    BY <1>1, <1>4 DEF IInv, PositionsOrdered, MessagesTiled, Ahead, SizeAt, wvars
  <2> QED BY <1>2, <1>3, <2>1 DEF IInv
<1>5. CASE atomic_reader_pos' = reader_pos
  <2> DEFINE lag == Ahead(reader_pos)
  <2>1. ASSUME NEW s \in Pos, Ahead(reader_pos) <= Ahead(s)
        PROVE  Sub(s, reader_pos) = Ahead(s) - lag
    BY <2>1, Typing, SubChain DEF Ahead
  <2>2. /\ Ahead(reader_pos)' = Ahead(reader_pos) - lag
        /\ Ahead(writer_pos_cache)' = Ahead(writer_pos_cache) - lag
        /\ Ahead(atomic_writer_pos)' = Ahead(atomic_writer_pos) - lag
        /\ Ahead(writer_pos)' = Ahead(writer_pos) - lag
    <3>1. /\ lag <= Ahead(writer_pos_cache) /\ lag <= Ahead(atomic_writer_pos)
          /\ lag <= Ahead(writer_pos) /\ lag <= Ahead(reader_pos)
      BY Distances DEF IInv, PositionsOrdered
    <3> QED BY <1>1, <1>5, <2>1, <3>1, Typing DEF Ahead, wvars
  <2>3. ASSUME NEW s \in starts
        PROVE  Ahead(s)' = Ahead(s) - lag /\ SizeAt(s)' = SizeAt(s) /\ SizeAt(s) \in Nat
    <3>1. s \in Pos /\ lag <= Ahead(s) /\ SizeAt(s) \in Nat
      BY Typing, SizeType DEF IInv, MessagesTiled
    <3> QED BY <1>1, <1>5, <2>1, <3>1 DEF Ahead, SizeAt
  <2>4. PositionsOrdered'
    BY <1>1, <2>2, Distances, PosModFacts DEF IInv, PositionsOrdered, wvars
  <2>5. MessagesTiled'
    <3>1. ({reader_pos, writer_pos_cache, atomic_writer_pos} \subseteq starts \cup {writer_pos})'
      BY <1>1 DEF IInv, MessagesTiled, wvars
    <3>2. ASSUME NEW s \in starts'
          PROVE  /\ Ahead(reader_pos)' <= Ahead(s)'
                 /\ SizeAt(s)' > 0
                 /\ Ahead(s)' + SizeAt(s)' <= Ahead(writer_pos)'
                 /\ Add(s, SizeAt(s)') \in starts' \cup {writer_pos'}
      <4>1. s \in starts
        BY <1>1
      <4> QED BY <1>1, <2>2, <2>3, <4>1, Distances DEF IInv, MessagesTiled, wvars
    <3>3. ASSUME NEW s \in starts', NEW t \in starts', Ahead(s)' < Ahead(t)'
          PROVE  Ahead(s)' + SizeAt(s)' <= Ahead(t)'
      <4>1. s \in starts /\ t \in starts
        BY <1>1
      <4>2. Ahead(s) < Ahead(t)
        BY <2>3, <3>3, <4>1, Distances
      <4>3. Ahead(s) + SizeAt(s) <= Ahead(t)
        BY <4>1, <4>2 DEF IInv, MessagesTiled
      <4> QED BY <2>3, <4>1, <4>3, Distances
    <3> QED BY <3>1, <3>2, <3>3 DEF MessagesTiled
  <2> QED BY <1>2, <1>3, <2>4, <2>5 DEF IInv
<1> QED BY <1>1, <1>4, <1>5

-----------------------------------------------------------------------------

\* A step that changes nothing keeps the invariant.
LEMMA StutterPreserves == ASSUME IInv, UNCHANGED vars PROVE IInv'
BY DEF IInv, TypeOK, PositionsOrdered, MessagesTiled, BytesIntact, WriterInv, ReaderInv,
       Ahead, SizeAt, vars, wvars, rvars

\* Every step keeps the inductive invariant.
LEMMA NextIInv == ASSUME IInv, [Next]_vars PROVE IInv'
<1>1. ASSUME NEW n \in Sizes, PrepareWriteCached(n) \/ PrepareWriteReload(n) \/ PrepareWriteFull(n)
      PROVE  IInv'
  BY <1>1, PrepareWritePreserves
<1>2. CASE WriteByte
  BY <1>2, WriteBytePreserves
<1>3. CASE FinishWrite \/ FinishAndCommitWrite
  BY <1>3, FinishWritePreserves
<1>4. CASE CommitWrite
  BY <1>4, CommitWritePreserves
<1>5. CASE PrepareReadCached \/ PrepareReadReload
  BY <1>5, PrepareReadPreserves
<1>6. CASE DecodeMessage
  BY <1>6, DecodePreserves
<1>7. CASE FinishRead
  BY <1>7, FinishReadPreserves
<1>8. CASE CommitRead
  BY <1>8, CommitReadPreserves
<1>9. CASE UNCHANGED vars
  BY <1>9, StutterPreserves
<1> QED BY <1>1, <1>2, <1>3, <1>4, <1>5, <1>6, <1>7, <1>8, <1>9 DEF Next, Writer, Reader

\* Every reachable state of the queue satisfies the inductive invariant.
THEOREM Invariance == Spec => []IInv
<1>1. IInv /\ [Next]_vars => IInv'
  BY NextIInv
<1> QED BY <1>1, InitIInv, PTL DEF Spec

\* The types of the queue's variables, for every capacity and position width.
THEOREM TypeCorrectness == Spec => []TypeOK
<1>1. IInv => TypeOK
  BY DEF IInv
<1> QED BY <1>1, Invariance, PTL

\* The unsigned positions of BoundedSPSCQueueImpl never overtake each other.
THEOREM PositionsStayOrdered == Spec => []PositionsOrdered
<1>1. IInv => PositionsOrdered
  BY DEF IInv
<1> QED BY <1>1, Invariance, PTL

\* Readers and writers always stand on message boundaries.
THEOREM MessagesStayTiled == Spec => []MessagesTiled
<1>1. IInv => MessagesTiled
  BY DEF IInv
<1> QED BY <1>1, Invariance, PTL

\* prepare_write never hands out bytes of an unread message or beyond the storage.
THEOREM NeverOverwrites == Spec => []NoOverwrite
<1>1. IInv => NoOverwrite
  <2> SUFFICES ASSUME IInv, wpc = "reserved" PROVE NoOverwrite
    BY DEF NoOverwrite
  <2>1. /\ wsize \in Nat /\ writer_pos \in Pos
        /\ Ahead(writer_pos) + wsize <= Capacity /\ Ahead(writer_pos) \in Nat
    <3>1. wsize <= Sub(reader_pos_cache_plus_capacity, writer_pos)
      BY DEF IInv, WriterInv
    <3> QED BY <3>1, Typing, Distances, PosModFacts DEF IInv, PositionsOrdered
  <2>2. Offset(writer_pos) + wsize <= 2 * Capacity
    BY <2>1, OffsetRange, PosModFacts
  <2>3. ASSUME NEW s \in starts, NEW i \in 0..(SizeAt(s) - 1), NEW j \in 0..(wsize - 1)
        PROVE  Offset(s) + i # Offset(writer_pos) + j
    <3>1. /\ s \in Pos /\ SizeAt(s) \in Nat /\ i \in Nat /\ j \in Nat /\ Ahead(s) \in Nat
          /\ Ahead(s) + SizeAt(s) <= Ahead(writer_pos)
      BY <2>1, Typing, Distances, SizeType DEF IInv, MessagesTiled
    <3>2. Ahead(s) <= Ahead(writer_pos)
      BY <2>1, <3>1
    <3>3. Sub(writer_pos, s) = Ahead(writer_pos) - Ahead(s)
      BY <2>1, <3>1, <3>2, Typing, SubChain DEF Ahead
    <3>4. i < Sub(writer_pos, s) + j /\ Sub(writer_pos, s) + j - i < Capacity
      BY <2>1, <3>1, <3>3, PosModFacts
    <3> QED BY <2>1, <3>1, <3>4, AddressesDiffer
  <2>4. ASSUME NEW s \in starts
        PROVE  Addresses(writer_pos, wsize) \cap Addresses(s, SizeAt(s)) = {}
    BY <2>3 DEF Addresses
  <2> QED BY <2>2, <2>4 DEF NoOverwrite
<1> QED BY <1>1, Invariance, PTL

\* Between prepare_read and finish_read the reader holds one whole published message.
THEOREM ReadsAreWhole == Spec => []ReadsWholeMessage
<1>1. IInv => ReadsWholeMessage
  <2> SUFFICES ASSUME IInv, rpc \in {"reading", "decoded"} PROVE ReadsWholeMessage
    BY DEF ReadsWholeMessage
  <2>1. writer_pos_cache # reader_pos
    BY DEF IInv, ReaderInv
  <2>2. /\ reader_pos \in starts
        /\ SizeAt(reader_pos) \in Nat /\ SizeAt(reader_pos) > 0
        /\ Ahead(reader_pos) + SizeAt(reader_pos) <= Ahead(writer_pos_cache)
    BY <2>1, ReaderHasMessage
  <2>3. Sub(writer_pos_cache, reader_pos) = Ahead(writer_pos_cache) - Ahead(reader_pos)
    BY Typing, SubChain DEF Ahead, IInv, PositionsOrdered
  <2>4. SizeAt(reader_pos) <= Sub(writer_pos_cache, reader_pos)
    BY <2>2, <2>3, Distances
  <2> QED BY <2>2, <2>4 DEF IInv, BytesIntact, ReaderInv, ReadsWholeMessage
<1> QED BY <1>1, Invariance, PTL

-----------------------------------------------------------------------------
(***************************************************************************)
(* The ring as a queue.  Its published messages are numbered by their      *)
(* distance from the reader, so a sequence of their positions in that      *)
(* order is the queue of the abstract specification.                       *)
(***************************************************************************)

\* All that was written is published, but for the one message between
\* finish_write and commit_write.
CommitRight ==
  /\ wpc # "finished" => atomic_writer_pos = writer_pos
  /\ wpc = "finished" => /\ atomic_writer_pos \in starts
                         /\ Add(atomic_writer_pos, SizeAt(atomic_writer_pos)) = writer_pos

InOrder(q) ==
  /\ q \in Seq(Pos)
  /\ \A i \in 1..Len(q) : q[i] \in PublishedStarts
  /\ \A s \in PublishedStarts : \E i \in 1..Len(q) : q[i] = s
  /\ \A i, j \in 1..Len(q) : i < j => Ahead(q[i]) < Ahead(q[j])

Messages(q) == [i \in 1..Len(q) |-> <<q[i], SizeAt(q[i])>>]

QueueInv == IInv /\ CommitRight /\ \E q : InOrder(q)

\* The first n entries of a sequence without repetitions are n elements.
LEMMA CountFirst ==
  ASSUME NEW q, NEW n \in Nat, \A i, j \in 1..n : i # j => q[i] # q[j]
  PROVE  IsFiniteSet({q[j] : j \in 1..n}) /\ Cardinality({q[j] : j \in 1..n}) = n
<1> DEFINE T == {q[j] : j \in 1..n}
           f == [j \in 1..n |-> q[j]]
<1>1. f \in Bijection(1..n, T)
  <2>1. f \in [1..n -> T] /\ \A i \in 1..n : f[i] = q[i]
    OBVIOUS
  <2>2. \A t \in T : \E i \in 1..n : q[i] = t
    OBVIOUS
  <2> HIDE DEF f, T
  <2>3. f \in Injection(1..n, T)
    BY <2>1 DEF Injection, IsInjective
  <2>4. f \in Surjection(1..n, T)
    BY <2>1, <2>2 DEF Surjection
  <2> QED BY <2>3, <2>4 DEF Bijection
<1>2. ExistsBijection(1..n, T)
  BY <1>1 DEF ExistsBijection
<1> HIDE DEF T, f
<1>3. IsFiniteSet(T) /\ Cardinality(T) = n
  BY <1>2, FS_NatBijection, FS_CountingElements
<1> QED BY <1>3 DEF T

\* Positions in order are the published messages.
LEMMA PublishedInOrder == ASSUME IInv, NEW q, InOrder(q) PROVE Published = Messages(q)
<1> DEFINE n == Len(q)
<1>1. /\ n \in Nat /\ \A i \in 1..n : q[i] \in starts /\ Ahead(q[i]) \in Nat
      /\ \A i, j \in 1..n : i < j => Ahead(q[i]) < Ahead(q[j])
  BY Distances DEF InOrder, PublishedStarts
<1>2. \A i, j \in 1..n : i # j => q[i] # q[j]
  BY <1>1
<1> HIDE DEF n
<1>3. PublishedStarts = {q[j] : j \in 1..n}
  BY DEF InOrder, n
<1>4. Cardinality(PublishedStarts) = n
  BY <1>1, <1>2, <1>3, CountFirst
<1>5. ASSUME NEW i \in 1..n PROVE Cardinality(Before(q[i])) = i - 1
  <2>1. Before(q[i]) = {q[j] : j \in 1..(i - 1)}
    <3>1. ASSUME NEW j \in 1..n PROVE Ahead(q[j]) < Ahead(q[i]) <=> j < i
      BY <1>1
    <3>2. ASSUME NEW t PROVE t \in Before(q[i]) <=> \E j \in 1..n : t = q[j] /\ j < i
      BY <1>3, <3>1 DEF Before
    <3>3. ASSUME NEW t PROVE t \in {q[j] : j \in 1..(i - 1)} <=> \E j \in 1..n : t = q[j] /\ j < i
      BY <1>1
    <3> QED BY <3>2, <3>3
  <2>2. i - 1 \in Nat /\ \A j, k \in 1..(i - 1) : j # k => q[j] # q[k]
    BY <1>1, <1>2
  <2> QED BY <2>1, <2>2, CountFirst
<1>6. ASSUME NEW i \in 1..n PROVE NthPublished(i) = q[i]
  <2>1. q[i] \in PublishedStarts /\ Cardinality(Before(q[i])) = i - 1
    BY <1>3, <1>5
  <2>2. ASSUME NEW s \in PublishedStarts, Cardinality(Before(s)) = i - 1 PROVE s = q[i]
    <3>1. PICK j \in 1..n : s = q[j]
      BY <1>3
    <3>2. j - 1 = i - 1
      BY <1>5, <2>2, <3>1
    <3> QED BY <1>1, <3>1, <3>2
  <2> QED BY <2>1, <2>2 DEF NthPublished
<1> QED BY <1>4, <1>6 DEF Published, Messages, n

\* The same after a step.
LEMMA PublishedInOrderNext == (\A q : IInv /\ InOrder(q) => Published = Messages(q))'
<1>1. \A q : IInv /\ InOrder(q) => Published = Messages(q)
  BY PublishedInOrder
<1> QED BY <1>1, PTL

-----------------------------------------------------------------------------

\* What a step does to the positions in order.
Kept(q) == InOrder(q)' /\ Messages(q)' = Messages(q)
Extended(q) ==
  \E r : /\ InOrder(r)' /\ Len(r) = Len(q) + 1 /\ \A i \in 1..Len(q) : r[i] = q[i]
         /\ \A i \in 1..Len(q) : SizeAt(q[i])' = SizeAt(q[i])
Shortened(q) == q # <<>> /\ InOrder(Tail(q))' /\ \A i \in 1..Len(q) : SizeAt(q[i])' = SizeAt(q[i])

\* A step that keeps the published messages, their order and their sizes.
LEMMA SameMessages ==
  ASSUME NEW q, InOrder(q), PublishedStarts' = PublishedStarts,
         \A s \in PublishedStarts : SizeAt(s)' = SizeAt(s),
         \A s, t \in PublishedStarts : Ahead(s) < Ahead(t) => Ahead(s)' < Ahead(t)'
  PROVE  Kept(q)
<1>1. \A i \in 1..Len(q) : q[i] \in PublishedStarts
  BY DEF InOrder
<1>2. InOrder(q)'
  BY <1>1 DEF InOrder
<1> QED BY <1>1, <1>2 DEF Kept, Messages

\* Steps that change neither positions nor bytes.
LEMMA QuietSteps ==
  ASSUME QueueInv, NEW q, InOrder(q),
         UNCHANGED <<storage, starts, atomic_writer_pos, atomic_reader_pos, writer_pos>>,
         wpc' = wpc \/ {wpc, wpc'} \subseteq {"idle", "blocked", "reserved"}
  PROVE  CommitRight' /\ Kept(q)
<1>1. \A s : SizeAt(s)' = SizeAt(s) /\ Ahead(s)' = Ahead(s)
  BY DEF SizeAt, Ahead
<1>2. PublishedStarts' = PublishedStarts
  BY <1>1 DEF PublishedStarts
<1>3. CommitRight'
  BY <1>1 DEF QueueInv, CommitRight
<1> QED BY <1>1, <1>2, <1>3, SameMessages

\* A byte of a message that is not yet published.
LEMMA WriteByteKeepsQueue ==
  ASSUME QueueInv, NEW q, InOrder(q), WriteByte
  PROVE  CommitRight' /\ Kept(q)
<1>1. \A s : Ahead(s)' = Ahead(s)
  BY DEF WriteByte, rvars, Ahead
<1>2. PublishedStarts' = PublishedStarts /\ \A s \in PublishedStarts : SizeAt(s)' = SizeAt(s)
  BY <1>1, WriteBytePreserves DEF PublishedStarts, WriteByte, QueueInv
<1>3. CommitRight'
  BY WriteBytePreserves DEF QueueInv, CommitRight, WriteByte
<1> QED BY <1>1, <1>2, <1>3, SameMessages

\* finish_write alone publishes nothing.
LEMMA FinishWriteKeepsQueue ==
  ASSUME QueueInv, NEW q, InOrder(q), FinishWrite
  PROVE  CommitRight' /\ Kept(q)
<1>1. /\ IInv /\ atomic_writer_pos = writer_pos /\ wpc' = "finished"
      /\ writer_pos' = Add(writer_pos, wsize) /\ starts' = starts \cup {writer_pos}
      /\ UNCHANGED <<storage, atomic_writer_pos, atomic_reader_pos>>
  BY DEF QueueInv, CommitRight, FinishWrite, rvars
<1>2. \A s : SizeAt(s)' = SizeAt(s) /\ Ahead(s)' = Ahead(s)
  BY <1>1 DEF SizeAt, Ahead
<1>3. PublishedStarts' = PublishedStarts
  BY <1>1, <1>2, Distances DEF PublishedStarts
<1>4. SizeAt(writer_pos) = wsize
  BY <1>1, WrittenSize DEF FinishWrite
<1>5. CommitRight'
  BY <1>1, <1>2, <1>4 DEF CommitRight
<1> QED BY <1>2, <1>3, <1>5, SameMessages

\* One message joins the others at the far end.
LEMMA OneMore ==
  ASSUME IInv, NEW q, InOrder(q), NEW s \in Pos, s \notin PublishedStarts,
         PublishedStarts' = PublishedStarts \cup {s},
         \A t \in PublishedStarts : SizeAt(t)' = SizeAt(t) /\ Ahead(t)' = Ahead(t) /\ Ahead(t) < Ahead(s)',
         Ahead(s)' \in Nat
  PROVE  Extended(q)
<1> DEFINE r == Append(q, s)
<1>1. q \in Seq(Pos) /\ Len(q) \in Nat /\ \A i \in 1..Len(q) : q[i] \in PublishedStarts
  BY DEF InOrder
<1>2. /\ r \in Seq(Pos) /\ Len(r) = Len(q) + 1 /\ r[Len(q) + 1] = s
      /\ \A i \in 1..Len(q) : r[i] = q[i]
  BY <1>1
<1> HIDE DEF r
<1>3. \A i \in 1..Len(r) : i \in 1..Len(q) \/ i = Len(q) + 1
  BY <1>1, <1>2
<1>4. \A i \in 1..Len(r) : r[i] \in PublishedStarts'
  BY <1>1, <1>2, <1>3
<1>5. \A t \in PublishedStarts' : \E i \in 1..Len(r) : r[i] = t
  <2>1. Len(q) + 1 \in 1..Len(r) /\ \A i \in 1..Len(q) : i \in 1..Len(r)
    BY <1>1, <1>2
  <2> QED BY <1>2, <2>1 DEF InOrder
<1>6. ASSUME NEW i \in 1..Len(r), NEW j \in 1..Len(r), i < j PROVE Ahead(r[i])' < Ahead(r[j])'
  <2>1. i \in 1..Len(q) /\ q[i] \in PublishedStarts /\ r[i] = q[i]
    BY <1>1, <1>2, <1>6
  <2>2. CASE j \in 1..Len(q)
    <3>1. q[j] \in PublishedStarts /\ r[j] = q[j] /\ Ahead(q[i]) < Ahead(q[j])
      BY <1>1, <1>2, <1>6, <2>1, <2>2 DEF InOrder
    <3> QED BY <2>1, <3>1
  <2>3. CASE j = Len(q) + 1
    BY <1>2, <2>1, <2>3
  <2> QED BY <1>3, <2>2, <2>3
<1>7. InOrder(r)'
  BY <1>2, <1>4, <1>5, <1>6 DEF InOrder
<1> QED BY <1>1, <1>2, <1>7 DEF Extended

\* commit_write publishes the message that was finished.
LEMMA CommitWritePublishes ==
  ASSUME QueueInv, NEW q, InOrder(q), CommitWrite
  PROVE  CommitRight' /\ Extended(q)
<1> DEFINE s == atomic_writer_pos
<1>1. /\ IInv /\ s \in starts /\ Add(s, SizeAt(s)) = writer_pos /\ atomic_writer_pos' = writer_pos /\ wpc' = "idle"
      /\ UNCHANGED <<storage, starts, writer_pos, atomic_reader_pos>>
  BY DEF QueueInv, CommitRight, CommitWrite, rvars
<1>2. \A t : SizeAt(t)' = SizeAt(t) /\ Ahead(t)' = Ahead(t)
  BY <1>1 DEF SizeAt, Ahead
<1>3. /\ s \in Pos /\ Ahead(s) \in Nat /\ SizeAt(s) \in Nat /\ SizeAt(s) > 0
      /\ Ahead(s) + SizeAt(s) <= Ahead(writer_pos) /\ Ahead(writer_pos) \in Nat /\ Ahead(writer_pos) <= Capacity
  BY <1>1, Typing, Distances, SizeType DEF IInv, MessagesTiled
<1>4. Ahead(writer_pos) = Ahead(s) + SizeAt(s)
  BY <1>1, <1>3, Typing, SubAdd, PosModFacts DEF Ahead
<1>5. PublishedStarts' = PublishedStarts \cup {s}
  <2>1. ASSUME NEW t \in starts PROVE Ahead(t) < Ahead(writer_pos) /\ (Ahead(t) < Ahead(s) \/ t = s)
    <3>1. t \in Pos /\ Ahead(t) \in Nat /\ SizeAt(t) \in Nat /\ SizeAt(t) > 0 /\ Ahead(t) + SizeAt(t) <= Ahead(writer_pos)
      BY <1>1, Typing, Distances, SizeType DEF IInv, MessagesTiled
    <3>2. ~(Ahead(s) < Ahead(t))
      <4>1. Ahead(s) < Ahead(t) => Ahead(s) + SizeAt(s) <= Ahead(t)
        BY <1>1 DEF IInv, MessagesTiled
      <4> QED BY <1>3, <1>4, <3>1, <4>1
    <3>3. Ahead(t) = Ahead(s) => t = s
      BY <1>1, <1>3, <3>1, Typing, SubInjective DEF Ahead
    <3> QED BY <1>3, <3>1, <3>2, <3>3
  <2>2. Ahead(s) < Ahead(writer_pos)
    BY <1>3
  <2> QED BY <1>1, <1>2, <2>1, <2>2 DEF PublishedStarts
<1>6. s \notin PublishedStarts
  BY <1>3 DEF PublishedStarts
<1>7. CommitRight'
  BY <1>1 DEF CommitRight
<1>8. \A t \in PublishedStarts : SizeAt(t)' = SizeAt(t) /\ Ahead(t)' = Ahead(t) /\ Ahead(t) < Ahead(s)
  BY <1>2 DEF PublishedStarts
<1>9. PICK p \in Pos : p = s
  BY <1>3
<1>10. Ahead(p)' = Ahead(p) /\ Ahead(p) = Ahead(s)
  BY <1>2, <1>9
<1>11. Extended(q)
  <2> HIDE DEF s
  <2>1. /\ p \notin PublishedStarts /\ PublishedStarts' = PublishedStarts \cup {p} /\ Ahead(p)' \in Nat
        /\ \A t \in PublishedStarts : SizeAt(t)' = SizeAt(t) /\ Ahead(t)' = Ahead(t) /\ Ahead(t) < Ahead(p)'
    BY <1>3, <1>5, <1>6, <1>8, <1>9, <1>10
  <2> QED BY <1>1, <2>1, OneMore
<1> QED BY <1>7, <1>11

\* finish_and_commit_write publishes it at once.
LEMMA FinishAndCommitPublishes ==
  ASSUME QueueInv, NEW q, InOrder(q), FinishAndCommitWrite
  PROVE  CommitRight' /\ Extended(q)
<1>1. /\ IInv /\ atomic_writer_pos = writer_pos /\ wpc' = "idle"
      /\ writer_pos' = Add(writer_pos, wsize) /\ atomic_writer_pos' = writer_pos' /\ starts' = starts \cup {writer_pos}
      /\ UNCHANGED <<storage, atomic_reader_pos>>
  BY DEF QueueInv, CommitRight, FinishAndCommitWrite, rvars
<1>2. \A t : SizeAt(t)' = SizeAt(t) /\ Ahead(t)' = Ahead(t)
  BY <1>1 DEF SizeAt, Ahead
<1>3. writer_pos \in Pos /\ Ahead(writer_pos) \in Nat
  BY <1>1, Typing, Distances
<1>4. wsize \in Nat /\ wsize > 0 /\ Ahead(writer_pos)' = Ahead(writer_pos) + wsize
  BY <1>1, FinishAdvances DEF FinishAndCommitWrite
<1>5. PublishedStarts = starts /\ writer_pos \notin starts /\ \A t \in starts : Ahead(t) < Ahead(writer_pos)
  <2>1. ASSUME NEW t \in starts PROVE Ahead(t) < Ahead(writer_pos)
    <3>1. Ahead(t) \in Nat /\ SizeAt(t) \in Nat /\ SizeAt(t) > 0 /\ Ahead(t) + SizeAt(t) <= Ahead(writer_pos)
      BY <1>1, Typing, Distances, SizeType DEF IInv, MessagesTiled
    <3> QED BY <1>3, <3>1
  <2> QED BY <1>1, <1>3, <2>1 DEF PublishedStarts
<1>6. PICK p \in Pos : p = writer_pos
  BY <1>3
<1>7. Ahead(p)' = Ahead(p) /\ Ahead(p) = Ahead(writer_pos)
  BY <1>2, <1>6
<1>8. PublishedStarts' = PublishedStarts \cup {p}
  <2>1. Ahead(atomic_writer_pos)' = Ahead(writer_pos)'
    BY <1>1 DEF Ahead
  <2>2. Ahead(atomic_writer_pos)' = Ahead(p) + wsize
    BY <1>4, <1>7, <2>1
  <2>3. \A t \in starts \cup {p} : Ahead(t)' < Ahead(atomic_writer_pos)'
    <3>1. ASSUME NEW t \in starts PROVE Ahead(t)' < Ahead(p) + wsize
      BY <1>1, <1>2, <1>3, <1>4, <1>5, <1>7, Distances
    <3>2. Ahead(p)' < Ahead(p) + wsize
      BY <1>3, <1>4, <1>7
    <3> QED BY <2>2, <3>1, <3>2
  <2> QED BY <1>1, <1>5, <1>6, <2>3 DEF PublishedStarts
<1>9. CommitRight'
  BY <1>1 DEF CommitRight
<1>10. Extended(q)
  <2>1. /\ p \notin PublishedStarts /\ Ahead(p)' \in Nat
        /\ \A t \in PublishedStarts : SizeAt(t)' = SizeAt(t) /\ Ahead(t)' = Ahead(t) /\ Ahead(t) < Ahead(p)'
    BY <1>2, <1>3, <1>5, <1>6, <1>7
  <2> QED BY <1>1, <1>8, <2>1, OneMore
<1> QED BY <1>9, <1>10

\* finish_read takes the nearest message away.
LEMMA FinishReadTakesFirst ==
  ASSUME QueueInv, NEW q, InOrder(q), FinishRead
  PROVE  CommitRight' /\ Shortened(q)
<1>1. /\ IInv /\ starts' = starts \ {reader_pos} /\ writer_pos_cache # reader_pos
      /\ UNCHANGED <<storage, atomic_writer_pos, atomic_reader_pos, writer_pos, wpc>>
  BY DEF QueueInv, IInv, ReaderInv, FinishRead, wvars
<1>2. \A t : SizeAt(t)' = SizeAt(t) /\ Ahead(t)' = Ahead(t)
  BY <1>1 DEF SizeAt, Ahead
<1>3. /\ reader_pos \in starts /\ Ahead(reader_pos) \in Nat /\ Ahead(reader_pos) < Ahead(atomic_writer_pos)
      /\ \A t \in starts : Ahead(reader_pos) <= Ahead(t) /\ Ahead(t) \in Nat
  <2>1. /\ reader_pos \in starts /\ SizeAt(reader_pos) \in Nat /\ SizeAt(reader_pos) > 0
        /\ Ahead(reader_pos) + SizeAt(reader_pos) <= Ahead(writer_pos_cache)
    BY <1>1, ReaderHasMessage
  <2>2. Ahead(writer_pos_cache) <= Ahead(atomic_writer_pos)
    BY <1>1 DEF IInv, PositionsOrdered
  <2> QED BY <1>1, <2>1, <2>2, Distances DEF IInv, MessagesTiled
<1>4. reader_pos \in PublishedStarts /\ PublishedStarts' = PublishedStarts \ {reader_pos}
  BY <1>1, <1>2, <1>3 DEF PublishedStarts
<1>5. /\ q \in Seq(Pos) /\ Len(q) \in Nat /\ \A i \in 1..Len(q) : q[i] \in PublishedStarts /\ Ahead(q[i]) \in Nat
  BY <1>3 DEF InOrder, PublishedStarts
<1>6. Len(q) >= 1 /\ q[1] = reader_pos
  <2>1. PICK i \in 1..Len(q) : q[i] = reader_pos
    BY <1>4 DEF InOrder
  <2>2. i = 1
    <3>1. SUFFICES ASSUME 1 < i PROVE FALSE
      OBVIOUS
    <3>2. 1 \in 1..Len(q) /\ Ahead(q[1]) < Ahead(q[i])
      BY <1>5, <3>1 DEF InOrder
    <3>3. q[1] \in starts
      BY <1>5, <3>2 DEF PublishedStarts
    <3> QED BY <1>3, <1>5, <2>1, <3>2, <3>3
  <2> QED BY <1>5, <2>1, <2>2
<1>7. PICK r \in Seq(Pos) : /\ r = Tail(q) /\ Len(r) = Len(q) - 1 /\ \A i \in 1..Len(r) : r[i] = q[i + 1]
  <2>1. q # <<>>
    BY <1>6
  <2>2. Tail(q) \in Seq(Pos) /\ Len(Tail(q)) = Len(q) - 1 /\ \A i \in 1..Len(Tail(q)) : Tail(q)[i] = q[i + 1]
    BY <1>5, <2>1, HeadTailProperties
  <2> QED BY <2>2
<1>8. \A i \in 1..Len(r) : i + 1 \in 1..Len(q) /\ i + 1 # 1
  BY <1>5, <1>7
<1>9. \A i, j \in 1..Len(q) : i < j => Ahead(q[i]) < Ahead(q[j])
  BY DEF InOrder
<1>10. \A i \in 1..Len(r) : q[i + 1] # reader_pos
  <2>1. ASSUME NEW i \in 1..Len(r) PROVE Ahead(q[1]) < Ahead(q[i + 1])
    BY <1>5, <1>6, <1>8, <1>9
  <2> QED BY <1>3, <1>6, <2>1
<1>11. InOrder(r)'
  <2>1. \A i \in 1..Len(r) : r[i] \in PublishedStarts'
    BY <1>4, <1>5, <1>7, <1>8, <1>10
  <2>2. ASSUME NEW s \in PublishedStarts' PROVE \E i \in 1..Len(r) : r[i] = s
    <3>1. PICK k \in 1..Len(q) : q[k] = s
      BY <1>4 DEF InOrder
    <3>2. k # 1
      BY <1>4, <1>6, <3>1
    <3>3. k - 1 \in 1..Len(r) /\ r[k - 1] = q[(k - 1) + 1] /\ (k - 1) + 1 = k
      BY <1>5, <1>7, <3>2
    <3> QED BY <3>1, <3>3
  <2>3. \A i, j \in 1..Len(r) : i < j => Ahead(r[i])' < Ahead(r[j])'
    <3>1. ASSUME NEW i \in 1..Len(r), NEW j \in 1..Len(r), i < j PROVE Ahead(q[i + 1]) < Ahead(q[j + 1])
      <4>1. i + 1 < j + 1 /\ i + 1 \in 1..Len(q) /\ j + 1 \in 1..Len(q)
        BY <1>5, <1>8, <3>1
      <4> QED BY <1>9, <4>1
    <3> QED BY <1>2, <1>7, <3>1
  <2> QED BY <2>1, <2>2, <2>3 DEF InOrder
<1>12. CommitRight'
  <2>1. wpc = "finished" => atomic_writer_pos # reader_pos
    BY <1>3
  <2> QED BY <1>1, <1>2, <2>1 DEF QueueInv, CommitRight
<1>13. q # <<>>
  BY <1>6
<1> QED BY <1>2, <1>7, <1>11, <1>12, <1>13 DEF Shortened

\* commit_read moves the origin of the distances, not the messages.
LEMMA CommitReadKeepsQueue ==
  ASSUME QueueInv, NEW q, InOrder(q), CommitRead
  PROVE  CommitRight' /\ Kept(q)
<1>1. /\ IInv /\ UNCHANGED <<storage, starts, atomic_writer_pos, writer_pos, wpc, reader_pos>>
      /\ atomic_reader_pos' = atomic_reader_pos \/ atomic_reader_pos' = reader_pos
  BY DEF QueueInv, CommitRead, wvars
<1>2. \A s : SizeAt(s)' = SizeAt(s)
  BY <1>1 DEF SizeAt
<1>3. PICK lag \in Nat : \A s \in starts \cup {atomic_writer_pos} : Ahead(s)' = Ahead(s) - lag /\ Ahead(s) \in Nat
  <2> DEFINE X == starts \cup {atomic_writer_pos}
  <2>1. \A s \in X : s \in Pos /\ Ahead(s) \in Nat /\ Ahead(reader_pos) <= Ahead(s)
    BY <1>1, Typing, Distances DEF IInv, MessagesTiled, PositionsOrdered
  <2>2. CASE atomic_reader_pos' = atomic_reader_pos
    <3>1. \A s \in X : Ahead(s)' = Ahead(s) - 0
      <4>1. \A s : Ahead(s)' = Ahead(s)
        BY <1>1, <2>2 DEF Ahead
      <4> QED BY <2>1, <4>1
    <3> QED BY <1>1, <2>1, <3>1
  <2>3. CASE atomic_reader_pos' = reader_pos
    <3>1. \A s \in X : Ahead(s)' = Ahead(s) - Ahead(reader_pos)
      <4>1. ASSUME NEW s \in X PROVE Sub(s, reader_pos) = Ahead(s) - Ahead(reader_pos)
        BY <1>1, <2>1, Typing, SubChain DEF Ahead
      <4>2. ASSUME NEW s \in Pos PROVE Ahead(s)' = Sub(s, reader_pos)
        BY <2>3 DEF Ahead
      <4>3. ASSUME NEW s \in starts PROVE Ahead(s)' = Ahead(s) - Ahead(reader_pos)
        BY <2>1, <4>1, <4>2
      <4>4. Ahead(atomic_writer_pos)' = Ahead(atomic_writer_pos) - Ahead(reader_pos)
        <5>1. Ahead(atomic_writer_pos)' = Sub(atomic_writer_pos, reader_pos)
          BY <1>1, <2>3 DEF Ahead
        <5> QED BY <4>1, <5>1
      <4> QED BY <1>1, <4>3, <4>4
    <3>2. Ahead(reader_pos) \in Nat
      BY <1>1, Distances
    <3> QED BY <2>1, <3>1, <3>2
  <2> QED BY <1>1, <2>2, <2>3
<1>4. PublishedStarts' = PublishedStarts
  BY <1>1, <1>3 DEF PublishedStarts
<1>5. \A s, t \in PublishedStarts : Ahead(s) < Ahead(t) => Ahead(s)' < Ahead(t)'
  BY <1>3 DEF PublishedStarts
<1>6. CommitRight'
  BY <1>1, <1>2 DEF QueueInv, CommitRight
<1> QED BY <1>2, <1>4, <1>5, <1>6, SameMessages

-----------------------------------------------------------------------------

\* The invariant, and every step as one of the queue.
LEMMA QueueInvNext ==
  ASSUME QueueInv, [Next]_vars, NEW q, InOrder(q)
  PROVE  QueueInv' /\ (Kept(q) \/ Extended(q) \/ Shortened(q))
<1>1. IInv'
  BY NextIInv DEF QueueInv
<1>2. CommitRight' /\ (Kept(q) \/ Extended(q) \/ Shortened(q))
  <2>1. CASE \/ \E n \in Sizes : PrepareWriteCached(n) \/ PrepareWriteReload(n) \/ PrepareWriteFull(n)
             \/ PrepareReadCached \/ PrepareReadReload \/ DecodeMessage \/ UNCHANGED vars
    <3>1. /\ UNCHANGED <<storage, starts, atomic_writer_pos, atomic_reader_pos, writer_pos>>
          /\ wpc' = wpc \/ {wpc, wpc'} \subseteq {"idle", "blocked", "reserved"}
      BY <2>1 DEF PrepareWriteCached, PrepareWriteReload, PrepareWriteFull, Asks, Reserve,
         PrepareReadCached, PrepareReadReload, DecodeMessage, vars, wvars, rvars
    <3> QED BY <3>1, QuietSteps
  <2>2. CASE WriteByte
    BY <2>2, WriteByteKeepsQueue
  <2>3. CASE FinishWrite
    BY <2>3, FinishWriteKeepsQueue
  <2>4. CASE CommitWrite
    BY <2>4, CommitWritePublishes
  <2>5. CASE FinishAndCommitWrite
    BY <2>5, FinishAndCommitPublishes
  <2>6. CASE FinishRead
    BY <2>6, FinishReadTakesFirst
  <2>7. CASE CommitRead
    BY <2>7, CommitReadKeepsQueue
  <2> QED BY <2>1, <2>2, <2>3, <2>4, <2>5, <2>6, <2>7 DEF Next, Writer, Reader
<1>3. \E r : InOrder(r)'
  BY <1>2 DEF Kept, Extended, Shortened
<1> QED BY <1>1, <1>2, <1>3 DEF QueueInv

LEMMA QueueInitRight == Init => QueueInv /\ Published = <<>>
<1> SUFFICES ASSUME Init PROVE QueueInv /\ Published = <<>>
  OBVIOUS
<1>1. IInv /\ CommitRight
  BY InitIInv DEF Init, CommitRight
<1>2. PublishedStarts = {}
  BY DEF Init, PublishedStarts
<1>3. InOrder(<<>>)
  BY <1>2 DEF InOrder
<1>4. Published = <<>>
  BY <1>1, <1>3, PublishedInOrder DEF Messages
<1> QED BY <1>1, <1>3, <1>4 DEF QueueInv

\* The byte ring is a first-in first-out queue of whole messages: commit_write and
\* finish_and_commit_write append one, finish_read takes the first, and no other
\* call changes it.  (That all come out in the end needs fairness.)
THEOREM RingRefinesFrontendQueue == Spec => Fifo!Spec
<1>1. Init => Fifo!Init
  BY QueueInitRight DEF Fifo!Init
<1>2. ASSUME QueueInv, [Next]_vars PROVE [Fifo!Next]_Published
  <2>1. PICK q : InOrder(q)
    BY <1>2 DEF QueueInv
  <2>2. IInv' /\ Published = Messages(q) /\ q \in Seq(Pos) /\ Len(q) \in Nat
    BY <1>2, <2>1, QueueInvNext, PublishedInOrder DEF QueueInv, InOrder
  <2> DEFINE M == Pos \X {SizeAt(p) : p \in Pos}
  <2>3. Messages(q) \in Seq(M) /\ Len(Messages(q)) = Len(q) /\ \A i \in 1..Len(q) : Messages(q)[i] = <<q[i], SizeAt(q[i])>>
    BY <2>2 DEF Messages
  <2>4. CASE Kept(q)
    BY <2>2, <2>4, PublishedInOrderNext DEF Kept
  <2>5. CASE Extended(q)
    <3>1. PICK r : /\ InOrder(r)' /\ Len(r) = Len(q) + 1 /\ \A i \in 1..Len(q) : r[i] = q[i]
                   /\ \A i \in 1..Len(q) : SizeAt(q[i])' = SizeAt(q[i])
      BY <2>5 DEF Extended
    <3>2. Published' = [i \in 1..Len(r) |-> <<r[i], SizeAt(r[i])'>>]
      BY <2>2, <3>1, PublishedInOrderNext DEF Messages
    <3>3. Len(Published') = Len(q) + 1 /\ \A i \in 1..Len(q) : Published'[i] = Published[i]
      <4>1. \A i \in 1..Len(q) : i \in 1..Len(r)
        BY <2>2, <3>1
      <4>2. \A i \in 1..Len(q) : Published'[i] = <<r[i], SizeAt(r[i])'>>
        BY <3>2, <4>1
      <4>3. ASSUME NEW i \in 1..Len(q) PROVE Published'[i] = <<q[i], SizeAt(q[i])>>
        BY <3>1, <4>2
      <4>4. \A i \in 1..Len(q) : Published'[i] = Published[i]
        BY <2>2, <2>3, <4>3
      <4>5. Len(r) \in Nat
        BY <2>2, <3>1
      <4>6. Len(Published') = Len(r)
        BY <3>2, <4>5
      <4> QED BY <3>1, <4>4, <4>6
    <3>4. SubSeq(Published', 1, Len(q)) = Published
      <4>1. \A i \in 1..Len(q) : Published'[i] \in M
        BY <2>2, <2>3, <3>3
      <4>2. /\ SubSeq(Published', 1, Len(q)) \in Seq(M) /\ Len(SubSeq(Published', 1, Len(q))) = Len(q)
            /\ \A i \in 1..Len(q) : SubSeq(Published', 1, Len(q))[i] = Published'[i]
        BY <2>2, <4>1, SubSeqProperties
      <4> QED BY <2>2, <2>3, <3>3, <4>2, SeqEqual
    <3> QED BY <2>2, <2>3, <3>3, <3>4 DEF Fifo!Enqueue, Fifo!Next
  <2>6. CASE Shortened(q)
    <3>1. /\ q # <<>> /\ InOrder(Tail(q))' /\ \A i \in 1..Len(q) : SizeAt(q[i])' = SizeAt(q[i])
          /\ Tail(q) \in Seq(Pos) /\ Len(Tail(q)) = Len(q) - 1 /\ \A i \in 1..Len(Tail(q)) : Tail(q)[i] = q[i + 1]
      BY <2>2, <2>6, HeadTailProperties DEF Shortened
    <3>2. Published' = [i \in 1..Len(Tail(q)) |-> <<Tail(q)[i], SizeAt(Tail(q)[i])'>>]
      BY <2>2, <3>1, PublishedInOrderNext DEF Messages
    <3>3. Published # <<>>
      BY <2>2, <2>3, <3>1
    <3>4. /\ Tail(Published) \in Seq(M) /\ Len(Tail(Published)) = Len(q) - 1
          /\ \A i \in 1..(Len(q) - 1) : Tail(Published)[i] = Published[i + 1]
      BY <2>2, <2>3, <3>3, HeadTailProperties
    <3>5. \A i \in 1..(Len(q) - 1) : Published'[i] = Published[i + 1]
      BY <2>2, <2>3, <3>1, <3>2
    <3>6. Published' \in Seq(M) /\ Len(Published') = Len(q) - 1
      <4>1. \A i \in 1..(Len(q) - 1) : <<Tail(q)[i], SizeAt(Tail(q)[i])'>> \in M
        BY <2>2, <2>3, <3>1
      <4> QED BY <2>2, <3>1, <3>2, <4>1
    <3>7. Published' = Tail(Published)
      BY <3>4, <3>5, <3>6, SeqEqual
    <3> QED BY <3>3, <3>7 DEF Fifo!Dequeue, Fifo!Next
  <2> QED BY <1>2, <2>1, <2>4, <2>5, <2>6, QueueInvNext DEF QueueInv
<1>3. Init => QueueInv
  BY QueueInitRight
<1>4. QueueInv /\ [Next]_vars => QueueInv'
  BY QueueInvNext DEF QueueInv
<1> QED BY <1>1, <1>2, <1>3, <1>4, PTL DEF Spec, Fifo!Spec

-----------------------------------------------------------------------------
(***************************************************************************)
(* The clock.  A base that was written whole pairs a counter value with    *)
(* its time.  The slot in use is such a base, or was never written as long *)
(* as the version is 0; the other one may be half written.  A reader's version is no newer than     *)
(* the clock's, and what it has loaded is what the slot in use holds if it *)
(* is the same.                                                            *)
(***************************************************************************)
TimeBase == [time : Int, tsc : Int]

GoodBase(base) == base.time - (Epoch + base.tsc) \in (0 - Lag)..Lag

SlotsRight ==
  /\ DOMAIN clock = {"version", "base", "interval", "original"}
  /\ clock.version \in Nat /\ clock.base \in [0..1 -> TimeBase]
  /\ IF clock.version = 0 THEN CurrentBase = NoBase ELSE GoodBase(CurrentBase)

ResyncRight ==
  /\ counter \in Nat
  /\ sync \in [pc : {"idle", "time", "tsc", "version"}, base : TimeBase]
  /\ sync.pc # "idle" => GoodBase(sync.base)
  /\ sync.pc \in {"tsc", "version"} => clock.base[Slot(clock.version + 1)].time = sync.base.time
  /\ sync.pc = "version" => clock.base[Slot(clock.version + 1)].tsc = sync.base.tsc

Reading == [pc : {"none", "version", "tsc", "time", "check", "done"}, value : Int, version : Nat,
            base : TimeBase, result : Int]

ReadingRight(r) ==
  LET own == reading[r]
      current == own.version = clock.version
  IN  /\ own.pc \in {"tsc", "time", "check"} => own.version <= clock.version
      /\ own.pc = "time" /\ current => own.base.tsc = CurrentBase.tsc
      /\ own.pc = "check" => own.base # NoBase /\ (current => own.base = CurrentBase)
      /\ own.pc = "done" => Accurate(own.result, own.value)

\* The last time of the backend was converted with such a base, or with none.
TimeRight == IF time.synchronised THEN Near(time.time, time.value) ELSE time.time = time.value

ClockInv ==
  /\ SlotsRight /\ ResyncRight
  /\ reading \in [Readers -> Reading] /\ \A r \in Readers : ReadingRight(r)
  /\ TimeRight

\* The records of the queue have times of the counter.
QueueStamped == \E S : queue \in Seq(S) /\ \A record \in S : record.stamp \in Int

ClockIInv == ClockInv /\ QueueStamped

\* Slots alternate.
LEMMA SlotFacts ==
  ASSUME NEW v \in Nat
  PROVE  Slot(v) \in 0..1 /\ Slot(v + 1) \in 0..1 /\ Slot(v + 1) # Slot(v)
  BY DEF Slot

\* The average of two readings of the counter is half their distance from each.
LEMMA AverageIsNear ==
  ASSUME NEW first \in Nat, NEW delay \in 0..(2 * Lag), NEW read \in 0..delay
  PROVE  LET base == [time |-> Epoch + first + read, tsc |-> (2 * first + delay) \div 2]
         IN  base \in TimeBase /\ GoodBase(base)
<1> PICK e \in Nat, g \in Nat : e = Epoch /\ g = Lag
  BY ClockAssumption
<1> DEFINE half == (2 * first + delay) \div 2
<1>1. delay \in Nat /\ delay <= 2 * g /\ read \in Nat /\ read <= delay
  OBVIOUS
<1>2. half \in Int /\ 2 * half <= 2 * first + delay /\ 2 * first + delay < 2 * half + 2
  BY <1>1
<1> HIDE DEF half
<1>3. e + first + read - (e + half) \in (0 - g)..g
  BY <1>1, <1>2
<1>4. e + first + read \in Int
  BY <1>1
<1> QED BY <1>2, <1>3, <1>4 DEF half, TimeBase, GoodBase

\* What a right base makes of a counter value.
LEMMA ConversionIsAccurate ==
  ASSUME NEW base \in TimeBase, GoodBase(base), NEW value \in Int
  PROVE  TimeOf(base, value) \in Int /\ Near(TimeOf(base, value), value)
<1> PICK e \in Nat, g \in Nat : e = Epoch /\ g = Lag
  BY ClockAssumption
<1> QED BY DEF TimeBase, GoodBase, TimeOf, Near

-----------------------------------------------------------------------------

LEMMA ClockInitRight == LifecycleInit => ClockIInv
<1> SUFFICES ASSUME LifecycleInit PROVE ClockIInv
  OBVIOUS
<1>1. SlotsRight
  BY DEF LifecycleInit, ClockInit, SlotsRight, CurrentBase, Slot, NoBase, TimeBase
<1>2. ResyncRight
  BY DEF LifecycleInit, ClockInit, ResyncRight, NoBase, TimeBase
<1>3. reading \in [Readers -> Reading] /\ \A r \in Readers : ReadingRight(r)
  BY DEF LifecycleInit, ClockInit, Reading, ReadingRight, NotReading, NoBase, TimeBase
<1>4. TimeRight
  BY DEF LifecycleInit, TimeRight
<1>5. QueueStamped
  <2>1. queue = <<>>
    BY DEF LifecycleInit, SignalInit
  <2>2. queue \in Seq({}) /\ \A record \in {} : record.stamp \in Int
    BY <2>1
  <2> QED BY <2>2 DEF QueueStamped
<1> QED BY <1>1, <1>2, <1>3, <1>4, <1>5 DEF ClockIInv, ClockInv

\* What the slot in use and the version say of the readers stays true while both stay.
LEMMA ReadingKept ==
  ASSUME UNCHANGED reading, clock'.version = clock.version, CurrentBase' = CurrentBase,
         NEW r \in Readers, ReadingRight(r)
  PROVE  ReadingRight(r)'
  BY DEF ReadingRight, Accurate, Near

\* The clock is configured.
LEMMA ReconfigureKeeps ==
  ASSUME ClockInv, NEW interval, Reconfigure(interval)
  PROVE  SlotsRight' /\ ResyncRight' /\ reading' = reading /\ \A r \in Readers : ReadingRight(r)'
<1>1. DOMAIN clock' = DOMAIN clock /\ clock'.version = clock.version /\ clock'.base = clock.base
  BY DEF Reconfigure, ClockInv, SlotsRight
<1>2. CurrentBase' = CurrentBase
  BY <1>1 DEF CurrentBase
<1>3. SlotsRight' /\ ResyncRight'
  BY <1>1, <1>2 DEF Reconfigure, ClockInv, SlotsRight, ResyncRight
<1> QED BY <1>1, <1>2, <1>3, ReadingKept DEF Reconfigure, ClockInv

\* A resync begins, or its attempts were too slow.
LEMMA BeginResyncKeeps ==
  ASSUME ClockInv, NEW lag \in {Lag, 2 * Lag}, BeginResync(lag) \/ FailResync
  PROVE  SlotsRight' /\ ResyncRight' /\ reading' = reading /\ \A r \in Readers : ReadingRight(r)'
<1>1. /\ DOMAIN clock' = DOMAIN clock /\ clock'.version = clock.version /\ clock'.base = clock.base
      /\ reading' = reading
  BY DEF BeginResync, FailResync, ClockInv, SlotsRight
<1>2. CurrentBase' = CurrentBase
  BY <1>1 DEF CurrentBase
<1>3. SlotsRight'
  BY <1>1, <1>2 DEF ClockInv, SlotsRight
<1>4. ResyncRight'
  <2>1. CASE BeginResync(lag)
    <3> PICK g \in Nat : g = Lag
      BY ClockAssumption
    <3>1. PICK delay \in 0..lag : \E read \in 0..delay :
            LET first == counter + Gap
            IN  /\ sync' = [pc |-> "time", base |-> [time |-> Epoch + first + read, tsc |-> (2 * first + delay) \div 2]]
                /\ counter' = first + delay
      BY <2>1 DEF BeginResync
    <3>2. PICK first \in Nat : first = counter + Gap
      BY ClockAssumption DEF ClockInv, ResyncRight
    <3>3. PICK read \in 0..delay : sync' = [pc |-> "time", base |-> [time |-> Epoch + first + read, tsc |-> (2 * first + delay) \div 2]]
      BY <3>1, <3>2
    <3>4. delay \in 0..(2 * Lag)
      OBVIOUS
    <3>5. sync'.base \in TimeBase /\ GoodBase(sync'.base) /\ sync'.pc = "time" /\ sync' = [pc |-> sync'.pc, base |-> sync'.base]
      BY <3>2, <3>3, <3>4, AverageIsNear
    <3>6. counter' \in Nat
      BY <3>1, <3>2
    <3> QED BY <3>5, <3>6 DEF ResyncRight, GoodBase
  <2>2. CASE FailResync
    <3>1. counter' \in Nat /\ sync' = sync /\ sync.pc = "idle"
      BY <2>2, ClockAssumption DEF FailResync, ClockInv, ResyncRight
    <3> QED BY <3>1 DEF ClockInv, ResyncRight
  <2> QED BY <2>1, <2>2
<1> QED BY <1>1, <1>2, <1>3, <1>4, ReadingKept DEF ClockInv

\* The slot that is not in use is written, first the time and then the counter
\* value, and then taken into use.
LEMMA ResyncStepKeeps ==
  ASSUME ClockInv, ResyncStep
  PROVE  SlotsRight' /\ ResyncRight' /\ reading' = reading /\ \A r \in Readers : ReadingRight(r)'
<1> DEFINE v == clock.version
<1> USE DEF ClockInv, SlotsRight, ResyncRight
<1>1. v \in Nat /\ Slot(v) \in 0..1 /\ Slot(v + 1) \in 0..1 /\ Slot(v + 1) # Slot(v)
  BY SlotFacts
<1>2. CASE WriteTime \/ WriteTsc
  <2>1. /\ DOMAIN clock' = DOMAIN clock /\ clock'.version = v /\ reading' = reading /\ counter' = counter
        /\ sync'.base = sync.base /\ sync.pc \in {"time", "tsc"}
        /\ sync' \in [pc : {"idle", "time", "tsc", "version"}, base : TimeBase]
    BY <1>2 DEF WriteTime, WriteTsc
  <2>2. /\ clock'.base \in [0..1 -> TimeBase] /\ clock'.base[Slot(v)] = clock.base[Slot(v)]
        /\ clock'.base[Slot(v + 1)].time = sync.base.time
        /\ sync'.pc = "version" => clock'.base[Slot(v + 1)].tsc = sync.base.tsc
    BY <1>1, <1>2 DEF WriteTime, WriteTsc, TimeBase
  <2>3. CurrentBase' = CurrentBase
    BY <2>1, <2>2 DEF CurrentBase
  <2>4. SlotsRight' /\ ResyncRight'
    BY <2>1, <2>2, <2>3 DEF GoodBase
  <2> QED BY <2>1, <2>3, <2>4, ReadingKept
<1>3. CASE PublishBase
  <2>1. /\ DOMAIN clock' = DOMAIN clock /\ clock'.version = v + 1 /\ clock'.base = clock.base
        /\ reading' = reading /\ counter' = counter
        /\ sync' = [pc |-> "idle", base |-> NoBase] /\ sync.pc = "version"
    BY <1>3 DEF PublishBase
  <2>2. CurrentBase' = clock.base[Slot(v + 1)]
    BY <2>1 DEF CurrentBase
  <2>3. clock.base[Slot(v + 1)] = sync.base
    BY <1>1, <2>1 DEF TimeBase
  <2>4. SlotsRight' /\ ResyncRight'
    BY <1>1, <2>1, <2>2, <2>3 DEF GoodBase, NoBase, TimeBase
  <2>5. ASSUME NEW r \in Readers PROVE ReadingRight(r)'
    <3>1. ReadingRight(r) /\ reading[r].version \in Nat
      BY DEF Reading
    <3> QED BY <1>1, <2>1, <3>1 DEF ReadingRight, Accurate, Near
  <2> QED BY <2>1, <2>4, <2>5
<1> QED BY <1>2, <1>3 DEF ResyncStep

\* A reader loads the version, the base and the version again.
LEMMA ReaderKeeps ==
  ASSUME ClockInv, NEW t \in Readers, ReadStep(t) \/ EndConversion(t) \/ BeginConversion(t, counter)
  PROVE  /\ UNCHANGED <<counter, clock, sync>>
         /\ reading' \in [Readers -> Reading] /\ \A r \in Readers : ReadingRight(r)'
<1> DEFINE own == reading[t]
<1> USE DEF ClockInv
<1>1. UNCHANGED <<counter, clock, sync>> /\ CurrentBase' = CurrentBase
  BY DEF ReadStep, LoadVersion, LoadTsc, LoadTime, CheckVersion, EndConversion, BeginConversion, CurrentBase
<1>2. /\ reading \in [Readers -> Reading] /\ own \in Reading /\ ReadingRight(t)
      /\ clock.version \in Nat /\ CurrentBase \in TimeBase /\ counter \in Nat
  BY SlotFacts DEF SlotsRight, ResyncRight, CurrentBase
<1>3. own.base \in TimeBase /\ own.value \in Int /\ own.version \in Nat /\ own.result \in Int
  BY <1>2 DEF Reading
<1>4. \E new \in Reading :
        /\ reading' = [reading EXCEPT ![t] = new]
        /\ LET current == new.version = clock.version
           IN  /\ new.pc \in {"tsc", "time", "check"} => new.version <= clock.version
               /\ new.pc = "time" /\ current => new.base.tsc = CurrentBase.tsc
               /\ new.pc = "check" => new.base # NoBase /\ (current => new.base = CurrentBase)
               /\ new.pc = "done" => Accurate(new.result, new.value)
  <2> DEFINE Right(new) ==
        LET current == new.version = clock.version
        IN  /\ new.pc \in {"tsc", "time", "check"} => new.version <= clock.version
            /\ new.pc = "time" /\ current => new.base.tsc = CurrentBase.tsc
            /\ new.pc = "check" => new.base # NoBase /\ (current => new.base = CurrentBase)
            /\ new.pc = "done" => Accurate(new.result, new.value)
  <2> SUFFICES \E new \in Reading : reading' = [reading EXCEPT ![t] = new] /\ Right(new)
    OBVIOUS
  <2>1. CASE LoadVersion(t)
    <3> DEFINE new == [own EXCEPT !.version = clock.version, !.pc = "tsc"]
    <3>1. new \in Reading /\ new.pc = "tsc" /\ new.version = clock.version
      BY <1>2 DEF Reading
    <3>2. reading' = [reading EXCEPT ![t] = new]
      BY <1>2, <2>1 DEF LoadVersion
    <3>3. Right(new)
      BY <1>2, <3>1
    <3> QED BY <3>1, <3>2, <3>3
  <2>2. CASE LoadTsc(t)
    <3> DEFINE slot == clock.base[Slot(own.version)]
               new == [own EXCEPT !.base.tsc = slot.tsc, !.pc = "time"]
    <3>1. slot \in TimeBase /\ (own.version = clock.version => slot = CurrentBase)
      BY <1>3, SlotFacts DEF SlotsRight, CurrentBase
    <3>2. new \in Reading /\ new.pc = "time" /\ new.version = own.version /\ new.base.tsc = slot.tsc
      BY <1>2, <1>3, <3>1 DEF Reading, TimeBase
    <3>3. reading' = [reading EXCEPT ![t] = new] /\ own.pc = "tsc"
      BY <1>2, <2>2 DEF LoadTsc, Reading
    <3>4. Right(new)
      BY <1>2, <3>1, <3>2, <3>3 DEF ReadingRight
    <3> QED BY <3>2, <3>3, <3>4
  <2>3. CASE LoadTime(t)
    <3> DEFINE slot == clock.base[Slot(own.version)]
               base == [own.base EXCEPT !.time = slot.time]
               new == [own EXCEPT !.base = base, !.pc = IF base = NoBase THEN "done" ELSE "check",
                                  !.result = IF base = NoBase THEN 0 ELSE @]
    <3>1. slot \in TimeBase /\ (own.version = clock.version => slot = CurrentBase)
      BY <1>3, SlotFacts DEF SlotsRight, CurrentBase
    <3>2. base \in TimeBase /\ base.time = slot.time /\ base.tsc = own.base.tsc
      BY <1>3, <3>1 DEF TimeBase
    <3>3. reading' = [reading EXCEPT ![t] = new] /\ own.pc = "time"
      BY <1>2, <2>3 DEF LoadTime, Reading
    <3>4. own.version = clock.version => base = CurrentBase
      BY <1>2, <3>1, <3>2, <3>3 DEF ReadingRight, TimeBase
    <3> HIDE DEF base, slot
    <3>5. /\ new \in Reading /\ new.version = own.version /\ new.base = base
          /\ base = NoBase => new.pc = "done" /\ new.result = 0
          /\ base # NoBase => new.pc = "check"
      <4>1. CASE base = NoBase
        <5>1. new = [own EXCEPT !.base = base, !.pc = "done", !.result = 0]
          BY <4>1
        <5> HIDE DEF new
        <5>2. new = [pc |-> "done", value |-> own.value, version |-> own.version, base |-> base, result |-> 0]
          BY <1>2, <5>1 DEF Reading
        <5> QED BY <1>3, <3>2, <4>1, <5>2 DEF Reading
      <4>2. CASE base # NoBase
        <5>1. new = [own EXCEPT !.base = base, !.pc = "check"]
          BY <1>2, <4>2 DEF Reading
        <5> HIDE DEF new
        <5> QED BY <1>2, <1>3, <3>2, <4>2, <5>1 DEF Reading
      <4> QED BY <4>1, <4>2
    <3> HIDE DEF new
    <3>6. Right(new)
      BY <1>2, <3>3, <3>4, <3>5 DEF ReadingRight, Accurate
    <3>7. reading' = [reading EXCEPT ![t] = new]
      BY <3>3 DEF new, base, slot
    <3> QED BY <3>5, <3>6, <3>7
  <2>4. CASE CheckVersion(t)
    <3>1. own.pc = "check"
      BY <2>4 DEF CheckVersion
    <3>2. CASE own.version = clock.version
      <4> DEFINE result == TimeOf(own.base, own.value)
                 new == [own EXCEPT !.pc = "done", !.result = result]
      <4>1. GoodBase(own.base)
        BY <1>2, <3>1, <3>2 DEF ReadingRight, SlotsRight
      <4>2. result \in Int /\ Accurate(result, own.value)
        BY <1>3, <4>1, ConversionIsAccurate DEF Accurate
      <4>3. reading' = [reading EXCEPT ![t] = new]
        BY <1>2, <2>4, <3>2 DEF CheckVersion
      <4> HIDE DEF result
      <4>4. new \in Reading /\ new.pc = "done" /\ new.result = result /\ new.value = own.value
        BY <1>2, <4>2 DEF Reading
      <4>5. Right(new)
        BY <4>2, <4>4
      <4> QED BY <4>3, <4>4, <4>5
    <3>3. CASE own.version # clock.version
      <4> DEFINE new == [own EXCEPT !.pc = "version"]
      <4>1. new \in Reading /\ new.pc = "version" /\ reading' = [reading EXCEPT ![t] = new]
        BY <1>2, <2>4, <3>3 DEF CheckVersion, Reading
      <4> QED BY <4>1
    <3> QED BY <3>2, <3>3
  <2>5. CASE EndConversion(t)
    <3>1. NotReading \in Reading /\ NotReading.pc = "none" /\ reading' = [reading EXCEPT ![t] = NotReading]
      BY <2>5 DEF EndConversion, NotReading, NoBase, Reading, TimeBase
    <3> QED BY <3>1
  <2>6. CASE BeginConversion(t, counter)
    <3>. NotReading \in Reading
      BY DEF NotReading, NoBase, Reading, TimeBase
    <3>1. PICK none \in Reading : none = NotReading
      OBVIOUS
    <3> DEFINE new == [none EXCEPT !.pc = "version", !.value = counter]
    <3>2. reading' = [reading EXCEPT ![t] = new]
      BY <2>6, <3>1 DEF BeginConversion
    <3>3. counter \in Int
      BY <1>2
    <3>4. new \in Reading /\ new.pc = "version"
      BY <3>3 DEF Reading
    <3> QED BY <3>2, <3>4
  <2> QED BY <2>1, <2>2, <2>3, <2>4, <2>5, <2>6 DEF ReadStep
<1>5. reading' \in [Readers -> Reading]
  BY <1>2, <1>4
<1>6. ASSUME NEW r \in Readers PROVE ReadingRight(r)'
  <2>1. CASE r = t
    BY <1>1, <1>2, <1>4, <2>1 DEF ReadingRight, Accurate, Near
  <2>2. CASE r # t
    <3>1. reading'[r] = reading[r]
      BY <1>2, <1>4, <2>2
    <3> QED BY <1>1, <3>1 DEF ReadingRight, Accurate, Near
  <2> QED BY <2>1, <2>2
<1> QED BY <1>1, <1>5, <1>6

-----------------------------------------------------------------------------
(***************************************************************************)
(* What the steps of the program, of its signal handlers and of the        *)
(* backend do to the clock.                                                *)
(***************************************************************************)

ClockStep ==
  \/ BeginResync(Lag) \/ BeginResync(2 * Lag) \/ FailResync \/ ResyncStep
  \/ \E interval : Reconfigure(interval)
  \/ \E t \in Threads : BeginConversion(t, counter) \/ ReadStep(t) \/ EndConversion(t)

LEMMA ClockSteps == ASSUME LifecycleNext PROVE ClockStep \/ UNCHANGED clockVars
<1>1. ASSUME NEW t \in Threads, Handles(t) \/ Deliver(t) PROVE UNCHANGED clockVars
  BY <1>1 DEF Handles, Deliver
<1>2. ASSUME AlarmGoesOff \/ OtherCopy PROVE UNCHANGED clockVars
  BY <1>2 DEF AlarmGoesOff, OtherCopy
<1>3. ASSUME NEW t \in Threads, ConvertTime(t) \/ ConvertStep(t) PROVE ClockStep \/ UNCHANGED clockVars
  BY <1>3 DEF ConvertTime, ConvertStep, ClockStep
<1>4. ASSUME NEW t \in Threads, Program(t) PROVE ClockStep \/ UNCHANGED clockVars
  <2> HIDE DEF ClockStep
  <2>1. \/ ConvertTime(t) \/ ConvertStep(t)
        \/ UNCHANGED clockVars
    BY <1>4 DEF Program, LogStatement, CreateLogger, Wait, Validate, SimpleLoggerImpl, SimpleLogger, CallOnce,
       BlockSignals, Install, OpenLock, Flock, Spawn, Spawned, Finish, Catch, Stop, Exit, StopLocked, StopWorker,
       Join, Unlink, Close, ResetFlag, Deinit, End, Acquire, InitManual, PollManual, PollReturns, ShutdownReturns
  <2> QED BY <1>3, <2>1
<1>5. ASSUME Driver PROVE ClockStep \/ UNCHANGED clockVars
  BY <1>5 DEF Driver, ReadRecord, ConfigureClock, SynchroniseClock, PublishClock, ResyncFirst, ConvertRecord,
     IdleResync, KeepClock, ClockStep
<1>6. ASSUME InitWorker \/ BeginWorker \/ LeaveLoop \/ ExitWorker PROVE UNCHANGED clockVars
  BY <1>6 DEF InitWorker, BeginWorker, LeaveLoop, ExitWorker
<1> HIDE DEF ClockStep
<1> QED BY <1>1, <1>2, <1>4, <1>5, <1>6 DEF LifecycleNext, Worker

\* The time of the last conversion changes with a record that has a counter value.
LEMMA TimeSteps ==
  ASSUME LifecycleNext
  PROVE  time' = time \/ ConvertRecord
<1>1. ASSUME NEW t \in Threads, Handles(t) \/ Deliver(t) PROVE time' = time
  BY <1>1 DEF Handles, Deliver, lifeVars
<1>2. ASSUME AlarmGoesOff \/ OtherCopy PROVE time' = time
  BY <1>2 DEF AlarmGoesOff, OtherCopy, lifeVars
<1>3. ASSUME NEW t \in Threads, Program(t) PROVE time' = time
  BY <1>3 DEF Program, LogStatement, CreateLogger, Wait, ConvertTime, ConvertStep, Validate, SimpleLoggerImpl,
     SimpleLogger, CallOnce, BlockSignals, Install, OpenLock, Flock, Spawn, Spawned, Finish, Catch, Stop, Exit,
     StopLocked, StopWorker, Join, Unlink, Close, ResetFlag, Deinit, End, Acquire, InitManual, PollManual,
     PollReturns, ShutdownReturns, lifeVars
<1>4. ASSUME Worker PROVE time' = time \/ ConvertRecord
  BY <1>4 DEF Worker, InitWorker, BeginWorker, LeaveLoop, ExitWorker, Driver, ReadRecord, ConfigureClock,
     SynchroniseClock, PublishClock, ResyncFirst, IdleResync, KeepClock, lifeVars
<1> QED BY <1>1, <1>2, <1>3, <1>4 DEF LifecycleNext

\* Records are added behind the others, each with a value of the counter or none,
\* and the first one is read.
Added(record) ==
  /\ record.stamp \in Int
  /\ queue' = Append(queue, record) \/ queue' = queue \o <<record>>

QueueStep ==
  \/ queue' = queue \/ queue' = queue \o <<>>
  \/ queue # <<>> /\ queue' = Tail(queue)
  \/ \E record : Added(record)

LEMMA QueueSteps == ASSUME counter \in Nat, LifecycleNext PROVE QueueStep
<1>1. ASSUME NEW t \in Threads, Handles(t) PROVE QueueStep
  <2>1. HandlerStep(t, IdOf(t), work.options, counter)
    BY <1>1 DEF Handles
  <2>2. CASE LogReceived(t, counter) \/ LogTerminated(t, counter)
    <3>1. PICK level, text : queue' = queue \o Statement(t, level, text, counter)
      BY <2>2 DEF LogReceived, LogTerminated
    <3>2. CASE level < Logger(t).level
      BY <3>1, <3>2 DEF Statement, QueueStep
    <3>3. CASE ~(level < Logger(t).level)
      <4> DEFINE record == [by |-> t, kind |-> "log", stamp |-> Stamp(Logger(t), counter),
                            text |-> text, signal |-> Description(Frame(t).signal)]
      <4>1. queue' = queue \o <<record>>
        BY <3>1, <3>3 DEF Statement
      <4>2. record.stamp \in Int
        BY DEF Stamp
      <4> HIDE DEF record
      <4> QED BY <4>1, <4>2 DEF QueueStep, Added
    <3> QED BY <3>2, <3>3
  <2>3. CASE Flush(t, counter)
    <3> DEFINE record == [by |-> t, kind |-> "flush", stamp |-> Stamp(Logger(t), counter), frame |-> Len(frames[t])]
    <3>1. queue' = Append(queue, record)
      BY <2>3 DEF Flush
    <3>2. record.stamp \in Int
      BY DEF Stamp
    <3> HIDE DEF record
    <3> QED BY <3>1, <3>2 DEF QueueStep, Added
  <2>4. CASE UNCHANGED queue
    BY <2>4 DEF QueueStep
  <2>5. \/ LogReceived(t, counter) \/ LogTerminated(t, counter) \/ Flush(t, counter)
        \/ UNCHANGED queue
    BY <2>1 DEF HandlerStep, Enter, Store, FindBackend, ByName, FirstValid, HandlerFlushed, Raise
  <2> QED BY <2>2, <2>3, <2>4, <2>5
<1>2. ASSUME \/ AlarmGoesOff \/ OtherCopy \/ \E t \in Threads : Deliver(t) PROVE queue' = queue
  BY <1>2 DEF AlarmGoesOff, OnAlarm, OtherCopy, Deliver, Interrupt, signalVars
<1>3. ASSUME NEW t \in Threads, Program(t) PROVE QueueStep
  <2>1. CASE LogStatement(t)
    <3> DEFINE record == [by |-> t, kind |-> "log", stamp |-> IF Op(t).tsc THEN counter ELSE 0]
    <3>1. queue' = Append(queue, record)
      BY <2>1 DEF LogStatement
    <3>2. record.stamp \in Int
      OBVIOUS
    <3> HIDE DEF record
    <3> QED BY <3>1, <3>2 DEF QueueStep, Added
  <2>2. LogStatement(t) \/ UNCHANGED queue
    BY <1>3 DEF Program, CreateLogger, Wait, ConvertTime, ConvertStep, Validate, SimpleLoggerImpl,
       SimpleLogger, CallOnce, BlockSignals, Install, OpenLock, Flock, Spawn, Spawned, Finish, Catch, Stop, Exit,
       StopLocked, StopWorker, Join, Unlink, Close, ResetFlag, Deinit, End, Acquire, InitManual, PollManual,
       PollReturns, ShutdownReturns, signalVars
  <2> QED BY <2>1, <2>2 DEF QueueStep
<1>4. ASSUME Worker PROVE QueueStep
  BY <1>4 DEF Worker, InitWorker, BeginWorker, LeaveLoop, ExitWorker, Driver, ReadRecord, ConfigureClock,
     SynchroniseClock, PublishClock, ResyncFirst, ConvertRecord, IdleResync, KeepClock, signalVars, Reads, QueueStep
<1>5. queue' = queue => QueueStep
  BY DEF QueueStep
<1> HIDE DEF QueueStep
<1> QED BY <1>1, <1>2, <1>3, <1>4, <1>5 DEF LifecycleNext

\* The queue stays one of stamped records.
LEMMA QueueStampedNext == ASSUME QueueStamped, QueueStep PROVE QueueStamped'
<1>1. PICK S : queue \in Seq(S) /\ \A record \in S : record.stamp \in Int
  BY DEF QueueStamped
<1>2. CASE \/ queue' = queue \/ queue' = queue \o <<>>
           \/ queue # <<>> /\ queue' = Tail(queue)
  <2>1. queue' \in Seq(S)
    BY <1>1, <1>2
  <2> QED BY <1>1, <2>1 DEF QueueStamped
<1>3. CASE \E record : Added(record)
  <2>1. PICK record : Added(record)
    BY <1>3
  <2> DEFINE T == S \cup {record}
  <2>2. queue \in Seq(T) /\ record \in T /\ \A r \in T : r.stamp \in Int
    BY <1>1, <2>1, SeqMonotonic DEF Added
  <2> HIDE DEF T
  <2>3. queue' \in Seq(T)
    BY <2>1, <2>2 DEF Added
  <2> QED BY <2>2, <2>3 DEF QueueStamped
<1> QED BY <1>2, <1>3 DEF QueueStep

\* The backend converts with the slot in use.
LEMMA ConvertRecordKeeps ==
  ASSUME ClockIInv, ConvertRecord
  PROVE  TimeRight'
<1>1. PICK S : queue \in Seq(S) /\ \A record \in S : record.stamp \in Int
  BY DEF ClockIInv, QueueStamped
<1>2. queue # <<>>
  BY DEF ConvertRecord, Reads
<1>3. Head(queue).stamp \in Int
  BY <1>1, <1>2
<1>4. /\ CurrentBase \in TimeBase /\ clock.version \in Nat
      /\ IF clock.version = 0 THEN CurrentBase = NoBase ELSE GoodBase(CurrentBase)
  BY SlotFacts DEF ClockIInv, ClockInv, SlotsRight, CurrentBase
<1>5. /\ time'.value = Head(queue).stamp /\ time'.time = TimeOf(CurrentBase, Head(queue).stamp)
      /\ time'.synchronised <=> clock.version > 0
  BY Zenon DEF ConvertRecord
<1>6. CASE clock.version = 0
  <2>1. ~ time'.synchronised
    BY <1>5, <1>6
  <2>2. TimeOf(CurrentBase, Head(queue).stamp) = Head(queue).stamp
    BY <1>3, <1>4, <1>6 DEF TimeOf, NoBase
  <2> QED BY <1>5, <2>1, <2>2 DEF TimeRight
<1>7. CASE clock.version > 0
  <2>1. time'.synchronised
    BY <1>5, <1>7
  <2>2. Near(TimeOf(CurrentBase, Head(queue).stamp), Head(queue).stamp)
    BY <1>3, <1>4, <1>7, ConversionIsAccurate
  <2>3. Near(time'.time, time'.value)
    BY <1>5, <2>2
  <2> QED BY <2>1, <2>3 DEF TimeRight, Near
<1> QED BY <1>4, <1>6, <1>7

LEMMA ClockNextRight == ClockIInv /\ [LifecycleNext]_lifecycleVars => ClockIInv'
<1> SUFFICES ASSUME ClockIInv, [LifecycleNext]_lifecycleVars PROVE ClockIInv'
  OBVIOUS
<1>1. CASE UNCHANGED lifecycleVars
  BY <1>1 DEF lifecycleVars, lifeVars, clockVars, signalVars, ClockIInv, ClockInv, SlotsRight, ResyncRight, CurrentBase,
     ReadingRight, Accurate, Near, TimeRight, QueueStamped
<1>2. CASE LifecycleNext
  <2>1. ClockInv /\ counter \in Nat /\ QueueStamped
    BY DEF ClockIInv, ClockInv, ResyncRight
  <2>2. /\ SlotsRight' /\ ResyncRight'
        /\ reading' \in [Readers -> Reading] /\ \A r \in Readers : ReadingRight(r)'
    <3>1. CASE UNCHANGED clockVars
      BY <2>1, <3>1 DEF clockVars, ClockInv, SlotsRight, ResyncRight, CurrentBase, ReadingRight, Accurate, Near
    <3>2. CASE \/ BeginResync(Lag) \/ BeginResync(2 * Lag) \/ FailResync \/ ResyncStep
               \/ \E interval : Reconfigure(interval)
      BY <2>1, <3>2, BeginResyncKeeps, ResyncStepKeeps, ReconfigureKeeps DEF ClockInv
    <3>3. CASE \E t \in Threads : BeginConversion(t, counter) \/ ReadStep(t) \/ EndConversion(t)
      <4>1. PICK t \in Readers : BeginConversion(t, counter) \/ ReadStep(t) \/ EndConversion(t)
        BY <3>3, ThreadsAssumption
      <4>2. /\ UNCHANGED <<counter, clock, sync>>
            /\ reading' \in [Readers -> Reading] /\ \A r \in Readers : ReadingRight(r)'
        BY <2>1, <4>1, ReaderKeeps
      <4> QED BY <2>1, <4>2 DEF ClockInv, SlotsRight, ResyncRight, CurrentBase
    <3> QED BY <1>2, <3>1, <3>2, <3>3, ClockSteps DEF ClockStep
  <2>3. TimeRight'
    <3>1. CASE time' = time
      BY <2>1, <3>1 DEF ClockInv, TimeRight, Near
    <3>2. CASE ConvertRecord
      BY <3>2, ConvertRecordKeeps
    <3> QED BY <1>2, <3>1, <3>2, TimeSteps
  <2>4. QueueStamped'
    BY <1>2, <2>1, QueueSteps, QueueStampedNext
  <2> QED BY <2>2, <2>3, <2>4 DEF ClockIInv, ClockInv
<1> QED BY <1>1, <1>2

\* The clock's invariant, through start, stop, signals and resyncs.
THEOREM ClockInvariance == LifecycleSpec => []ClockIInv
<1> QED BY ClockInitRight, ClockNextRight, PTL DEF LifecycleSpec

\* A time is never made of halves of two bases: neither one that a thread
\* converts without a lock (time_since_epoch_safe) nor one of the backend's.
THEOREM TimesAreRight == LifecycleSpec => []TimesRight
<1>1. ClockIInv => TimesRight
  BY DEF ClockIInv, ClockInv, ReadingRight, TimeRight, TimesRight, ConversionsRight
<1> QED BY <1>1, ClockInvariance, PTL

-----------------------------------------------------------------------------
(***************************************************************************)
(* A signal handler goes on when what its thread logged has been read.     *)
(* Handlers may be nested: the outer one may have been answered before an  *)
(* inner one logs.                                                         *)
(***************************************************************************)

FrameFields == {"signal", "pc", "mask", "reraise", "found"}

\* A handler that found a logger logs, flushes, and waits for the answer.
FrameRight(t, i) ==
  LET fr == frames[t][i]
  IN  /\ DOMAIN fr = FrameFields
      /\ fr.pc \in {"log", "critical", "flush", "wait"} => fr.found # <<>>
      /\ fr.found # <<>> => fr.pc \in {"log", "critical", "flush", "wait", "raise"}
      /\ fr.pc = "raise" /\ fr.found # <<>> => i \in flushed[t]

\* No handler that interrupted the i-th one has a logger.
Undisturbed(t, i) == \A j \in (i + 1)..Len(frames[t]) : frames[t][j].found = <<>>

\* A flush in the queue is waited for by its handler, and behind it there are
\* only records of handlers that interrupted that one.
FlushRight(t, k) ==
  LET d == queue[k].frame
  IN  /\ d \in 1..Len(frames[t]) /\ frames[t][d].pc = "wait" /\ d \notin flushed[t]
      /\ \A m \in (k + 1)..Len(queue) :
           queue[m].by = t => ~Undisturbed(t, d) /\ (queue[m].kind = "flush" => queue[m].frame # d)

\* One that was answered has nothing in the queue, until another interrupts it.
AnsweredRight(t, i) ==
  frames[t][i].pc \in {"wait", "raise"} /\ frames[t][i].found # <<>> /\ i \in flushed[t] /\ Undisturbed(t, i) =>
    \A k \in 1..Len(queue) : queue[k].by # t

ThreadRight(t) ==
  /\ \E S : frames[t] \in Seq(S)
  /\ \A i \in 1..Len(frames[t]) : FrameRight(t, i) /\ AnsweredRight(t, i)
  /\ \A k \in 1..Len(queue) : queue[k].by = t /\ queue[k].kind = "flush" => FlushRight(t, k)

FlushIInv ==
  /\ \E R : queue \in Seq(R)
  /\ DOMAIN frames = Threads /\ DOMAIN flushed = Threads
  /\ \A t \in Threads : ThreadRight(t)

LEMMA TopReplaced ==
  ASSUME NEW S, NEW s \in Seq(S), s # <<>>, NEW x
  PROVE  /\ \E T : Append(Front(s), x) \in Seq(T) /\ Front(s) \in Seq(T)
         /\ Len(s) \in Nat /\ Len(s) > 0 /\ Len(Append(Front(s), x)) = Len(s)
         /\ Append(Front(s), x)[Len(s)] = x /\ \A i \in 1..(Len(s) - 1) : Append(Front(s), x)[i] = s[i]
         /\ Len(Front(s)) = Len(s) - 1 /\ \A i \in 1..(Len(s) - 1) : Front(s)[i] = s[i]
         /\ Front(s) \o <<x>> = Append(Front(s), x)
<1> DEFINE r == Front(s)  T == S \cup {x}  n == Len(s)
<1>1. n \in Nat /\ n > 0
  BY EmptySeq
<1>2. r \in Seq(S) /\ Len(r) = n - 1 /\ \A i \in 1..(n - 1) : r[i] = s[i]
  <2>1. r = SubSeq(s, 1, n - 1)
    BY DEF Front
  <2>2. 1..(n - 1) \subseteq 1..n
    BY <1>1
  <2>3. \A i \in 1..(n - 1) : s[i] \in S
    BY <2>2
  <2> HIDE DEF r
  <2>4. SubSeq(s, 1, n - 1) = [i \in 1..(n - 1) |-> s[i]]
    BY <1>1
  <2>5. n - 1 \in Nat
    BY <1>1
  <2> HIDE DEF n
  <2>6. [i \in 1..(n - 1) |-> s[i]] \in Seq(S) /\ Len([i \in 1..(n - 1) |-> s[i]]) = n - 1
    BY <2>3, <2>5
  <2> QED BY <2>1, <2>4, <2>6
<1>3. r \in Seq(T) /\ x \in T
  BY <1>2, SeqMonotonic
<1> HIDE DEF r, T
<1>4. /\ Append(r, x) \in Seq(T) /\ Len(Append(r, x)) = Len(r) + 1
      /\ \A i \in 1..Len(r) : Append(r, x)[i] = r[i]
      /\ Append(r, x)[Len(r) + 1] = x
  BY <1>3, AppendProperties
<1>5. r \o <<x>> = Append(r, x)
  BY <1>3
<1>6. Len(r) + 1 = n /\ Len(r) = n - 1
  BY <1>1, <1>2
<1> QED BY <1>1, <1>2, <1>3, <1>4, <1>5, <1>6 DEF r, n

\* The innermost handler.
LEMMA TopFrame ==
  ASSUME NEW t \in Threads, ThreadRight(t), Handling(t)
  PROVE  /\ Len(frames[t]) \in Nat /\ Len(frames[t]) > 0 /\ Frame(t) = frames[t][Len(frames[t])]
         /\ FrameRight(t, Len(frames[t])) /\ DOMAIN Frame(t) = FrameFields
<1>1. PICK S : frames[t] \in Seq(S)
  BY DEF ThreadRight
<1>2. Len(frames[t]) \in Nat /\ Len(frames[t]) > 0
  BY <1>1, EmptySeq DEF Handling
<1>3. Frame(t) = frames[t][Len(frames[t])]
  BY DEF Frame, Last
<1>4. FrameRight(t, Len(frames[t]))
  BY <1>2 DEF ThreadRight
<1> QED BY <1>2, <1>3, <1>4 DEF FrameRight

LEMMA FramesSame ==
  ASSUME NEW t \in Threads, ThreadRight(t), frames'[t] = frames[t], flushed'[t] = flushed[t], queue' = queue
  PROVE  ThreadRight(t)'
BY DEF ThreadRight, FrameRight, AnsweredRight, FlushRight, Undisturbed

\* A record that no handler of the thread waits for, or one of another thread.
LEMMA RecordAdded ==
  ASSUME NEW t \in Threads, ThreadRight(t), frames'[t] = frames[t], flushed'[t] = flushed[t],
         NEW R, queue \in Seq(R), NEW record, queue' = Append(queue, record),
         record.by # t \/ (frames[t] = <<>> /\ record.kind # "flush")
  PROVE  ThreadRight(t)'
<1> DEFINE n == Len(queue)
<1>1. n \in Nat /\ Len(queue') = n + 1 /\ queue'[n + 1] = record /\ \A k \in 1..n : queue'[k] = queue[k]
  <2> DEFINE T == R \cup {record}
  <2>1. queue \in Seq(T) /\ record \in T
    BY SeqMonotonic
  <2> HIDE DEF T
  <2> QED BY <2>1, AppendProperties
<1> HIDE DEF n
<1>2. ASSUME NEW i \in 1..Len(frames'[t]) PROVE FrameRight(t, i)' /\ AnsweredRight(t, i)'
  <2>1. FrameRight(t, i) /\ AnsweredRight(t, i)
    BY <1>2 DEF ThreadRight
  <2>2. frames[t] # <<>>
    BY <1>2
  <2> QED BY <1>1, <2>1, <2>2 DEF FrameRight, AnsweredRight, Undisturbed, n
<1>3. ASSUME NEW k \in 1..Len(queue'), queue'[k].by = t, queue'[k].kind = "flush" PROVE FlushRight(t, k)'
  <2>1. k \in 1..n
    BY <1>1, <1>3
  <2>2. FlushRight(t, k) /\ queue'[k] = queue[k]
    BY <1>1, <1>3, <2>1 DEF ThreadRight, n
  <2>3. frames[t] # <<>>
    BY <2>2 DEF FlushRight
  <2>4. \A m \in (k + 1)..Len(queue') : queue'[m].by = t => m \in (k + 1)..n /\ queue'[m] = queue[m]
    BY <1>1, <2>1, <2>3
  <2> QED BY <1>1, <2>2, <2>4 DEF FlushRight, Undisturbed, n
<1>4. \E S : frames'[t] \in Seq(S)
  BY DEF ThreadRight
<1> QED BY <1>2, <1>3, <1>4 DEF ThreadRight

\* The backend reads the first record, which may answer a flush.
LEMMA RecordRead ==
  ASSUME NEW t \in Threads, ThreadRight(t), frames'[t] = frames[t], DOMAIN flushed = Threads,
         NEW R, queue \in Seq(R), queue # <<>>, queue' = Tail(queue), flushed' = Answered(Head(queue))
  PROVE  ThreadRight(t)'
<1> DEFINE n == Len(queue)  first == queue[1]
<1>1. /\ n \in Nat /\ n > 0 /\ Len(queue') = n - 1 /\ \A k \in 1..(n - 1) : queue'[k] = queue[k + 1]
      /\ Head(queue) = first
  BY EmptySeq
<1>2. flushed'[t] = IF first.kind = "flush" /\ first.by = t THEN flushed[t] \cup {first.frame} ELSE flushed[t]
  BY <1>1 DEF Answered
<1> HIDE DEF n
<1>3. ASSUME first.kind = "flush", first.by = t
      PROVE  /\ first.frame \in 1..Len(frames[t]) /\ frames[t][first.frame].pc = "wait"
             /\ first.frame \notin flushed[t]
             /\ \A m \in 2..n : queue[m].by = t =>
                  /\ ~Undisturbed(t, first.frame)
                  /\ queue[m].kind = "flush" => queue[m].frame # first.frame
  <2>1. FlushRight(t, 1)
    BY <1>1, <1>3 DEF ThreadRight, n
  <2> QED BY <2>1 DEF FlushRight, n
<1>4. ASSUME NEW i \in 1..Len(frames'[t]) PROVE FrameRight(t, i)' /\ AnsweredRight(t, i)'
  <2>1. FrameRight(t, i) /\ AnsweredRight(t, i)
    BY <1>4 DEF ThreadRight
  <2>2. FrameRight(t, i)'
    BY <1>2, <2>1 DEF FrameRight
  <2>3. Undisturbed(t, i)' = Undisturbed(t, i)
    BY DEF Undisturbed
  <2>4. ASSUME frames[t][i].pc \in {"wait", "raise"}, frames[t][i].found # <<>>, i \in flushed'[t],
               Undisturbed(t, i), NEW k \in 1..Len(queue'), queue'[k].by = t
        PROVE  FALSE
    <3>1. k + 1 \in 2..n /\ k + 1 \in 1..n /\ queue'[k] = queue[k + 1] /\ 1 \in 1..n
      BY <1>1, <2>4
    <3>2. CASE i \in flushed[t]
      BY <2>1, <2>4, <3>1, <3>2 DEF AnsweredRight, n
    <3>3. CASE i \notin flushed[t]
      <4>1. first.kind = "flush" /\ first.by = t /\ i = first.frame
        BY <1>2, <2>4, <3>3
      <4> QED BY <1>3, <2>4, <3>1, <4>1
    <3> QED BY <3>2, <3>3
  <2> QED BY <2>2, <2>3, <2>4 DEF AnsweredRight
<1>5. ASSUME NEW k \in 1..Len(queue'), queue'[k].by = t, queue'[k].kind = "flush" PROVE FlushRight(t, k)'
  <2>1. k \in 1..(n - 1) /\ k + 1 \in 2..n /\ k + 1 \in 1..n /\ queue'[k] = queue[k + 1]
    BY <1>1, <1>5
  <2>2. FlushRight(t, k + 1)
    BY <1>5, <2>1 DEF ThreadRight, n
  <2>3. PICK d : d = queue[k + 1].frame
    OBVIOUS
  <2>4. /\ d \in 1..Len(frames[t]) /\ frames[t][d].pc = "wait" /\ d \notin flushed[t]
        /\ \A m \in (k + 2)..n :
             queue[m].by = t => ~Undisturbed(t, d) /\ (queue[m].kind = "flush" => queue[m].frame # d)
    <3>1. (k + 1) + 1 = k + 2
      BY <2>1
    <3> QED BY <2>2, <2>3, <3>1 DEF FlushRight, n
  <2>5. d \notin flushed'[t]
    BY <1>2, <1>3, <1>5, <2>1, <2>3, <2>4
  <2>6. ASSUME NEW m \in (k + 1)..Len(queue'), queue'[m].by = t
        PROVE  ~Undisturbed(t, d) /\ (queue'[m].kind = "flush" => queue'[m].frame # d)
    <3>1. m \in 1..(n - 1) /\ m + 1 \in (k + 2)..n
      BY <1>1, <2>1
    <3>2. queue'[m] = queue[m + 1]
      BY <1>1, <3>1
    <3> QED BY <2>4, <2>6, <3>1, <3>2
  <2>7. Undisturbed(t, d)' = Undisturbed(t, d)
    BY DEF Undisturbed
  <2>8. queue'[k].frame = d
    BY <2>1, <2>3
  <2>9. d \in 1..Len(frames'[t]) /\ frames'[t][d].pc = "wait"
    BY <2>4
  <2>10. \A m \in (k + 1)..Len(queue') :
           queue'[m].by = t => ~Undisturbed(t, d)' /\ (queue'[m].kind = "flush" => queue'[m].frame # d)
    BY <2>6, <2>7
  <2> HIDE DEF n
  <2> QED BY <2>5, <2>8, <2>9, <2>10 DEF FlushRight, Undisturbed
<1>6. \E S : frames'[t] \in Seq(S)
  BY DEF ThreadRight
<1> QED BY <1>4, <1>5, <1>6 DEF ThreadRight

\* The innermost handler goes on, and keeps the loggers that it found.
TopSet(t, fr) ==
  /\ Handling(t) /\ frames'[t] = Append(Front(frames[t]), fr)
  /\ DOMAIN fr = FrameFields /\ (Frame(t).found # <<>> => fr.found # <<>>)

LEMMA TopChanges ==
  ASSUME NEW t \in Threads, ThreadRight(t), NEW fr, TopSet(t, fr), NEW n, n = Len(frames[t])
  PROVE  /\ n \in Nat /\ n > 0 /\ Len(frames'[t]) = n /\ frames'[t][n] = fr /\ frames[t][n] = Frame(t)
         /\ \A i \in 1..(n - 1) : frames'[t][i] = frames[t][i]
         /\ \E S : frames'[t] \in Seq(S)
         /\ \A i \in 1..n : Undisturbed(t, i)' => Undisturbed(t, i)
         /\ fr.found # <<>> => \A i \in 1..(n - 1) : ~Undisturbed(t, i)'
<1>1. PICK S : frames[t] \in Seq(S)
  BY DEF ThreadRight
<1>2. /\ n \in Nat /\ n > 0 /\ Len(frames'[t]) = n /\ frames'[t][n] = fr /\ \E T : frames'[t] \in Seq(T)
      /\ \A i \in 1..(n - 1) : frames'[t][i] = frames[t][i]
  <2>1. PICK s \in Seq(S) : s = frames[t]
    BY <1>1
  <2>2. s # <<>> /\ frames'[t] = Append(Front(s), fr)
    BY <2>1 DEF TopSet, Handling
  <2>3. /\ \E T : Append(Front(s), fr) \in Seq(T) /\ Front(s) \in Seq(T)
        /\ Len(s) \in Nat /\ Len(s) > 0 /\ Len(Append(Front(s), fr)) = Len(s)
        /\ Append(Front(s), fr)[Len(s)] = fr
        /\ \A i \in 1..(Len(s) - 1) : Append(Front(s), fr)[i] = s[i]
    BY <2>2, TopReplaced
  <2> QED BY <2>1, <2>2, <2>3
<1>3. frames[t][n] = Frame(t)
  BY TopFrame DEF TopSet
<1>4. ASSUME NEW i \in 1..n, Undisturbed(t, i)' PROVE Undisturbed(t, i)
  <2> SUFFICES ASSUME NEW j \in (i + 1)..n PROVE frames[t][j].found = <<>>
    BY DEF Undisturbed
  <2>1. frames'[t][j].found = <<>>
    BY <1>2, <1>4 DEF Undisturbed
  <2>2. CASE j = n
    BY <1>2, <1>3, <2>1, <2>2 DEF TopSet
  <2>3. CASE j # n
    <3>1. j \in 1..(n - 1)
      BY <1>2, <2>3
    <3> QED BY <1>2, <2>1, <3>1
  <2> QED BY <2>2, <2>3
<1>5. ASSUME fr.found # <<>>, NEW i \in 1..(n - 1) PROVE ~Undisturbed(t, i)'
  <2>1. n \in (i + 1)..Len(frames'[t])
    BY <1>2
  <2> QED BY <1>2, <1>5, <2>1 DEF Undisturbed
<1> QED BY <1>2, <1>3, <1>4, <1>5

\* What a flush in the queue needs of the frames when the innermost one changes.
LEMMA FlushKept ==
  ASSUME NEW t \in Threads, ThreadRight(t), NEW fr, TopSet(t, fr), NEW n, n = Len(frames[t]),
         Frame(t).pc # "wait" \/ n \in flushed[t],
         NEW k \in 1..Len(queue), queue[k].by = t, queue[k].kind = "flush", NEW d, d = queue[k].frame
  PROVE  /\ d \in 1..(n - 1) /\ frames'[t][d].pc = "wait" /\ d \notin flushed[t]
         /\ \A m \in (k + 1)..Len(queue) :
              queue[m].by = t => ~Undisturbed(t, d)' /\ (queue[m].kind = "flush" => queue[m].frame # d)
<1>1. FlushRight(t, k)
  BY DEF ThreadRight
<1>2. /\ n \in Nat /\ frames[t][n] = Frame(t)
      /\ \A i \in 1..(n - 1) : frames'[t][i] = frames[t][i]
      /\ \A i \in 1..n : Undisturbed(t, i)' => Undisturbed(t, i)
  BY TopChanges
<1>3. d \in 1..n /\ frames[t][d].pc = "wait" /\ d \notin flushed[t]
  BY <1>1 DEF FlushRight
<1>4. d \in 1..(n - 1)
  BY <1>2, <1>3
<1> QED BY <1>1, <1>2, <1>3, <1>4 DEF FlushRight

\* It goes on without a record.
LEMMA TopStep ==
  ASSUME NEW t \in Threads, ThreadRight(t), NEW fr, TopSet(t, fr), flushed'[t] = flushed[t], queue' = queue,
         \/ Frame(t).pc # "wait" /\ fr.pc # "wait" /\ (fr.pc = "raise" => fr.found = <<>>)
         \/ /\ Frame(t).pc = "wait" /\ Len(frames[t]) \in flushed[t]
            /\ fr.pc = "raise" /\ fr.found = Frame(t).found,
         fr.pc \in {"log", "critical", "flush"} => fr.found # <<>>,
         fr.found # <<>> => fr.pc \in {"log", "critical", "flush", "raise"}
  PROVE  ThreadRight(t)'
<1>1. PICK n : n = Len(frames[t])
  OBVIOUS
<1>2. /\ n \in Nat /\ n > 0 /\ Len(frames'[t]) = n /\ frames'[t][n] = fr /\ frames[t][n] = Frame(t)
      /\ \A i \in 1..(n - 1) : frames'[t][i] = frames[t][i]
      /\ \E S : frames'[t] \in Seq(S)
      /\ \A i \in 1..n : Undisturbed(t, i)' => Undisturbed(t, i)
  BY <1>1, TopChanges
<1>3. ASSUME NEW i \in 1..Len(frames'[t]) PROVE FrameRight(t, i)' /\ AnsweredRight(t, i)'
  <2>1. FrameRight(t, i) /\ AnsweredRight(t, i) /\ i \in 1..n
    BY <1>1, <1>2 DEF ThreadRight
  <2>2. CASE i # n
    <3>1. i \in 1..(n - 1)
      BY <1>2, <2>1, <2>2
    <3>2. frames'[t][i] = frames[t][i]
      BY <1>2, <3>1
    <3> QED BY <1>2, <2>1, <3>2 DEF FrameRight, AnsweredRight
  <2>3. CASE i = n
    <3>1. FrameRight(t, i)'
      BY <1>1, <1>2, <2>3 DEF FrameRight, TopSet
    <3>2. AnsweredRight(t, i)'
      BY <1>1, <1>2, <2>1, <2>3 DEF AnsweredRight
    <3> QED BY <3>1, <3>2
  <2> QED BY <2>2, <2>3
<1>4. ASSUME NEW k \in 1..Len(queue'), queue'[k].by = t, queue'[k].kind = "flush" PROVE FlushRight(t, k)'
  <2>1. PICK d : d = queue[k].frame
    OBVIOUS
  <2>2. /\ d \in 1..(n - 1) /\ frames'[t][d].pc = "wait" /\ d \notin flushed[t]
        /\ \A m \in (k + 1)..Len(queue) :
             queue[m].by = t => ~Undisturbed(t, d)' /\ (queue[m].kind = "flush" => queue[m].frame # d)
    BY <1>1, <1>4, <2>1, FlushKept
  <2>3. d \in 1..Len(frames'[t])
    BY <1>2, <2>2
  <2> QED BY <2>1, <2>2, <2>3 DEF FlushRight
<1> QED BY <1>2, <1>3, <1>4 DEF ThreadRight

\* It logs a statement, or asks for a flush.
LEMMA TopLogs ==
  ASSUME NEW t \in Threads, ThreadRight(t), NEW fr, TopSet(t, fr), fr.found # <<>>,
         Frame(t).pc # "wait",
         NEW R, queue \in Seq(R), NEW record, queue' = Append(queue, record), record.by = t,
         \/ record.kind = "log" /\ fr.pc \in {"critical", "flush"} /\ flushed'[t] = flushed[t]
         \/ /\ record.kind = "flush" /\ record.frame = Len(frames[t]) /\ fr.pc = "wait"
            /\ flushed'[t] = flushed[t] \ {Len(frames[t])}
  PROVE  ThreadRight(t)'
<1>1. PICK n, q : n = Len(frames[t]) /\ q = Len(queue)
  OBVIOUS
<1>2. /\ n \in Nat /\ n > 0 /\ Len(frames'[t]) = n /\ frames'[t][n] = fr /\ frames[t][n] = Frame(t)
      /\ \A i \in 1..(n - 1) : frames'[t][i] = frames[t][i]
      /\ \E S : frames'[t] \in Seq(S)
      /\ \A i \in 1..(n - 1) : ~Undisturbed(t, i)'
  BY <1>1, TopChanges
<1>3. q \in Nat /\ Len(queue') = q + 1 /\ queue'[q + 1] = record /\ \A k \in 1..q : queue'[k] = queue[k]
  <2> DEFINE T == R \cup {record}
  <2>1. queue \in Seq(T) /\ record \in T
    BY SeqMonotonic
  <2> HIDE DEF T
  <2> QED BY <1>1, <2>1, AppendProperties
<1>4. \A i \in 1..(n - 1) : i \in flushed'[t] <=> i \in flushed[t]
  BY <1>1, <1>2
<1>5. ASSUME NEW i \in 1..Len(frames'[t]) PROVE FrameRight(t, i)' /\ AnsweredRight(t, i)'
  <2>1. FrameRight(t, i) /\ i \in 1..n
    BY <1>1, <1>2 DEF ThreadRight
  <2>2. CASE i # n
    <3>1. i \in 1..(n - 1)
      BY <1>2, <2>1, <2>2
    <3>2. frames'[t][i] = frames[t][i] /\ ~Undisturbed(t, i)' /\ (i \in flushed'[t] <=> i \in flushed[t])
      BY <1>2, <1>4, <3>1
    <3> QED BY <2>1, <3>2 DEF FrameRight, AnsweredRight
  <2>3. CASE i = n
    <3>1. FrameRight(t, i)'
      BY <1>2, <2>3 DEF FrameRight, TopSet
    <3>2. AnsweredRight(t, i)'
      BY <1>1, <1>2, <2>3 DEF AnsweredRight
    <3> QED BY <3>1, <3>2
  <2> QED BY <2>2, <2>3
<1>6. ASSUME NEW k \in 1..Len(queue'), queue'[k].by = t, queue'[k].kind = "flush" PROVE FlushRight(t, k)'
  <2>1. CASE k = q + 1
    <3>1. record.kind = "flush" /\ record.frame = n /\ fr.pc = "wait" /\ flushed'[t] = flushed[t] \ {n}
      BY <1>1, <1>3, <1>6, <2>1
    <3>2. ~\E m \in (k + 1)..Len(queue') : TRUE
      BY <1>3, <2>1
    <3>3. queue'[k].frame = n /\ n \in 1..Len(frames'[t]) /\ n \notin flushed'[t] /\ frames'[t][n].pc = "wait"
      BY <1>2, <1>3, <2>1, <3>1
    <3> QED BY <3>2, <3>3 DEF FlushRight
  <2>2. CASE k # q + 1
    <3>1. k \in 1..q /\ queue'[k] = queue[k]
      BY <1>3, <1>6, <2>2
    <3>2. PICK d : d = queue[k].frame
      OBVIOUS
    <3>3. /\ d \in 1..(n - 1) /\ frames'[t][d].pc = "wait" /\ d \notin flushed[t]
          /\ \A m \in (k + 1)..q :
               queue[m].by = t => ~Undisturbed(t, d)' /\ (queue[m].kind = "flush" => queue[m].frame # d)
      BY <1>1, <1>6, <3>1, <3>2, FlushKept
    <3>4. d \in 1..Len(frames'[t]) /\ d \notin flushed'[t] /\ d # n
      BY <1>2, <1>4, <3>3
    <3>5. ASSUME NEW m \in (k + 1)..Len(queue'), queue'[m].by = t
          PROVE  ~Undisturbed(t, d)' /\ (queue'[m].kind = "flush" => queue'[m].frame # d)
      <4>1. CASE m = q + 1
        <5>1. queue'[m] = record
          BY <1>3, <4>1
        <5> QED BY <1>1, <1>2, <3>3, <3>4, <5>1
      <4>2. CASE m # q + 1
        <5>1. m \in (k + 1)..q /\ m \in 1..q
          BY <1>3, <3>1, <4>2
        <5> QED BY <1>3, <3>3, <3>5, <5>1
      <4> QED BY <4>1, <4>2
    <3>6. queue'[k].frame = d
      BY <3>1, <3>2
    <3> QED BY <3>3, <3>4, <3>5, <3>6 DEF FlushRight
  <2> QED BY <2>1, <2>2
<1> QED BY <1>2, <1>5, <1>6 DEF ThreadRight

\* A handler that paused may go on.
Goes(f, g) == f = g \/ (g.pc = "pause" /\ f.pc = "store" /\ f.found = g.found /\ DOMAIN f = FrameFields)

LEMMA ResumedFrames ==
  ASSUME NEW S, NEW s \in Seq(S), \A i \in 1..Len(s) : DOMAIN s[i] = FrameFields
  PROVE  /\ \E T : Resumed(s) \in Seq(T)
         /\ Len(Resumed(s)) = Len(s) /\ \A i \in 1..Len(s) : Goes(Resumed(s)[i], s[i])
<1>1. CASE ~(s # <<>> /\ Last(s).pc = "pause")
  BY <1>1 DEF Resumed, Goes
<1>2. CASE s # <<>> /\ Last(s).pc = "pause"
  <2>1. PICK x : x = [Last(s) EXCEPT !.pc = "store"]
    OBVIOUS
  <2>2. Resumed(s) = Front(s) \o <<x>>
    BY <1>2, <2>1 DEF Resumed
  <2>3. /\ \E T : Append(Front(s), x) \in Seq(T) /\ Front(s) \in Seq(T)
        /\ Len(s) \in Nat /\ Len(s) > 0 /\ Len(Append(Front(s), x)) = Len(s)
        /\ Append(Front(s), x)[Len(s)] = x
        /\ \A i \in 1..(Len(s) - 1) : Append(Front(s), x)[i] = s[i]
        /\ Front(s) \o <<x>> = Append(Front(s), x)
    BY <1>2, TopReplaced
  <2>4. Last(s) = s[Len(s)] /\ DOMAIN s[Len(s)] = FrameFields
    BY <2>3 DEF Last
  <2>5. Goes(x, s[Len(s)])
    BY <1>2, <2>1, <2>4 DEF Goes, FrameFields
  <2>6. \A i \in 1..Len(s) : i = Len(s) \/ i \in 1..(Len(s) - 1)
    BY <2>3
  <2> QED BY <2>2, <2>3, <2>5, <2>6 DEF Goes
<1> QED BY <1>1, <1>2

\* The innermost handler may have returned.
LEMMA HandlerReturns ==
  ASSUME NEW t \in Threads, ThreadRight(t), NEW n \in Nat,
         n = Len(frames[t]) \/ (Handling(t) /\ n + 1 = Len(frames[t]) /\ Frame(t).pc = "raise"),
         NEW S, frames'[t] \in Seq(S), Len(frames'[t]) = n,
         \A i \in 1..n : Goes(frames'[t][i], frames[t][i]),
         flushed'[t] = flushed[t], queue' = queue
  PROVE  ThreadRight(t)'
<1>1. PICK l \in Nat : l = Len(frames[t]) /\ n <= l
  <2>1. CASE n = Len(frames[t])
    BY <2>1
  <2>2. CASE n + 1 = Len(frames[t])
    BY <2>2
  <2> QED BY <2>1, <2>2
<1>2. \A i \in 1..n : i \in 1..l /\ FrameRight(t, i) /\ AnsweredRight(t, i)
  BY <1>1 DEF ThreadRight
<1>3. \A i \in 1..n : frames'[t][i].found = frames[t][i].found
  BY DEF Goes
<1>4. ASSUME NEW i \in 1..n PROVE FrameRight(t, i)'
  BY <1>2 DEF FrameRight, Goes
<1>5. CASE \E k \in 1..Len(queue) : queue[k].by = t
  <2>1. n = l \/ (n + 1 = l /\ frames[t][l].pc = "raise" /\ frames[t][l].found = <<>>)
    <3>1. SUFFICES ASSUME n + 1 = l, Handling(t), Frame(t).pc = "raise"
                   PROVE  frames[t][l].pc = "raise" /\ frames[t][l].found = <<>>
      BY <1>1
    <3>2. frames[t][l] = Frame(t) /\ l \in 1..l /\ FrameRight(t, l) /\ AnsweredRight(t, l)
      BY <1>1, <3>1, TopFrame DEF ThreadRight
    <3>3. Undisturbed(t, l)
      BY <1>1 DEF Undisturbed
    <3>4. frames[t][l].found = <<>>
      BY <1>5, <3>1, <3>2, <3>3 DEF FrameRight, AnsweredRight
    <3> QED BY <3>1, <3>2, <3>4
  <2>2. ASSUME NEW i \in 1..n PROVE Undisturbed(t, i)' => Undisturbed(t, i)
    <3> SUFFICES ASSUME Undisturbed(t, i)', NEW j \in (i + 1)..l PROVE frames[t][j].found = <<>>
      BY <1>1 DEF Undisturbed
    <3>1. CASE j \in 1..n
      <4>1. j \in (i + 1)..Len(frames'[t])
        BY <3>1
      <4> QED BY <1>3, <3>1, <4>1 DEF Undisturbed
    <3>2. CASE j \notin 1..n
      <4>1. j = l /\ n + 1 = l
        BY <1>1, <2>1, <3>2
      <4> QED BY <2>1, <4>1
    <3> QED BY <3>1, <3>2
  <2>3. ASSUME NEW i \in 1..n PROVE AnsweredRight(t, i)'
    BY <1>2, <2>2 DEF AnsweredRight, Goes
  <2>4. ASSUME NEW k \in 1..Len(queue), queue[k].by = t, queue[k].kind = "flush" PROVE FlushRight(t, k)'
    <3>1. FlushRight(t, k)
      BY <2>4 DEF ThreadRight
    <3>2. PICK d : d = queue[k].frame
      OBVIOUS
    <3>3. /\ d \in 1..l /\ frames[t][d].pc = "wait" /\ d \notin flushed[t]
          /\ \A m \in (k + 1)..Len(queue) :
               queue[m].by = t => ~Undisturbed(t, d) /\ (queue[m].kind = "flush" => queue[m].frame # d)
      BY <1>1, <3>1, <3>2 DEF FlushRight
    <3>4. d \in 1..n
      BY <2>1, <3>3
    <3>5. frames'[t][d].pc = "wait"
      BY <3>3, <3>4 DEF Goes
    <3>6. ASSUME NEW m \in (k + 1)..Len(queue), queue[m].by = t PROVE ~Undisturbed(t, d)'
      <4>1. ~Undisturbed(t, d)
        BY <3>3, <3>6
      <4>2. ASSUME ~Undisturbed(t, d) PROVE ~Undisturbed(t, d)'
        <5>1. PICK j \in (d + 1)..l : frames[t][j].found # <<>>
          BY <1>1, <4>2 DEF Undisturbed
        <5>2. j \in 1..n
          <6>1. ~(n + 1 = l /\ j = l)
            BY <2>1, <5>1
          <6>2. n = l \/ n + 1 = l
            BY <2>1
          <6> QED BY <1>1, <3>4, <5>1, <6>1, <6>2
        <5>3. j \in (d + 1)..Len(frames'[t]) /\ frames'[t][j].found # <<>>
          BY <1>3, <5>1, <5>2
        <5> QED BY <5>3 DEF Undisturbed
      <4> QED BY <4>1, <4>2
    <3> QED BY <3>2, <3>3, <3>4, <3>5, <3>6 DEF FlushRight
  <2> QED BY <1>4, <2>3, <2>4 DEF ThreadRight
<1>6. CASE ~\E k \in 1..Len(queue) : queue[k].by = t
  BY <1>4, <1>6 DEF ThreadRight, AnsweredRight
<1> QED BY <1>5, <1>6

\* A signal comes, perhaps while a handler runs.
LEMMA HandlerBegins ==
  ASSUME NEW t \in Threads, ThreadRight(t), NEW fr, frames'[t] = Append(frames[t], fr),
         DOMAIN fr = FrameFields, fr.pc = "enter", fr.found = <<>>, flushed'[t] = flushed[t], queue' = queue
  PROVE  ThreadRight(t)'
<1>1. PICK n : n = Len(frames[t])
  OBVIOUS
<1>2. /\ n \in Nat /\ Len(frames'[t]) = n + 1 /\ frames'[t][n + 1] = fr
      /\ \A i \in 1..n : frames'[t][i] = frames[t][i]
      /\ \E S : frames'[t] \in Seq(S)
  <2>1. PICK S : frames[t] \in Seq(S)
    BY DEF ThreadRight
  <2>2. PICK T : T = S \cup {fr}
    OBVIOUS
  <2>3. frames[t] \in Seq(T) /\ fr \in T
    BY <2>1, <2>2, SeqMonotonic
  <2> QED BY <1>1, <2>3, AppendProperties
<1>3. ASSUME NEW i \in 1..n PROVE Undisturbed(t, i)' <=> Undisturbed(t, i)
  <2>1. \A j \in (i + 1)..(n + 1) : j = n + 1 \/ (j \in (i + 1)..n /\ j \in 1..n)
    BY <1>2
  <2>2. \A j \in (i + 1)..n : j \in (i + 1)..(n + 1) /\ j \in 1..n
    BY <1>2
  <2> QED BY <1>1, <1>2, <2>1, <2>2 DEF Undisturbed
<1>4. ASSUME NEW i \in 1..Len(frames'[t]) PROVE FrameRight(t, i)' /\ AnsweredRight(t, i)'
  <2>1. CASE i = n + 1
    BY <1>2, <2>1 DEF FrameRight, AnsweredRight
  <2>2. CASE i # n + 1
    <3>1. i \in 1..n
      BY <1>2, <2>2
    <3>2. FrameRight(t, i) /\ AnsweredRight(t, i) /\ frames'[t][i] = frames[t][i]
      BY <1>1, <1>2, <3>1 DEF ThreadRight
    <3> QED BY <1>3, <3>1, <3>2 DEF FrameRight, AnsweredRight
  <2> QED BY <2>1, <2>2
<1>5. ASSUME NEW k \in 1..Len(queue), queue[k].by = t, queue[k].kind = "flush" PROVE FlushRight(t, k)'
  <2>1. FlushRight(t, k)
    BY <1>5 DEF ThreadRight
  <2>2. PICK d : d = queue[k].frame
    OBVIOUS
  <2>3. d \in 1..n
    BY <1>1, <2>1, <2>2 DEF FlushRight
  <2>4. d \in 1..Len(frames'[t]) /\ frames'[t][d] = frames[t][d] /\ (Undisturbed(t, d)' <=> Undisturbed(t, d))
    BY <1>2, <1>3, <2>3
  <2> QED BY <2>1, <2>2, <2>4 DEF FlushRight
<1> QED BY <1>2, <1>4, <1>5 DEF ThreadRight

-----------------------------------------------------------------------------
(***************************************************************************)
(* The steps of a handler.                                                 *)
(***************************************************************************)

LEMMA OneThread ==
  ASSUME FlushIInv, NEW t \in Threads, ThreadRight(t)', DOMAIN frames' = Threads, DOMAIN flushed' = Threads,
         \A u \in Threads \ {t} : frames'[u] = frames[u] /\ flushed'[u] = flushed[u],
         queue' = queue \/ \E record : record.by = t /\ queue' = Append(queue, record)
  PROVE  FlushIInv'
<1>1. PICK R : queue \in Seq(R)
  BY DEF FlushIInv
<1>2. CASE queue' = queue
  <2>1. \A u \in Threads : u # t => ThreadRight(u)'
    BY <1>2, FramesSame DEF FlushIInv
  <2> QED BY <1>1, <1>2, <2>1 DEF FlushIInv
<1>3. CASE \E record : record.by = t /\ queue' = Append(queue, record)
  <2>1. PICK record : record.by = t /\ queue' = Append(queue, record)
    BY <1>3
  <2>2. ASSUME NEW u \in Threads, u # t PROVE ThreadRight(u)'
    BY <1>1, <2>1, <2>2, RecordAdded DEF FlushIInv
  <2>3. \E T : queue' \in Seq(T)
    <3>1. PICK T : T = R \cup {record}
      OBVIOUS
    <3>2. queue \in Seq(T) /\ record \in T
      BY <1>1, <3>1, SeqMonotonic
    <3> QED BY <2>1, <3>2
  <2> QED BY <2>2, <2>3 DEF FlushIInv
<1> QED BY <1>2, <1>3

\* The innermost handler is set to another state.
LEMMA FrameIsSet ==
  ASSUME FlushIInv, NEW t \in Threads, Handling(t), NEW fr, SetFrame(t, fr),
         DOMAIN fr = FrameFields, Frame(t).found # <<>> => fr.found # <<>>
  PROVE  /\ ThreadRight(t) /\ TopSet(t, fr) /\ DOMAIN frames' = Threads
         /\ \A u \in Threads \ {t} : frames'[u] = frames[u]
BY DEF FlushIInv, SetFrame, TopSet

LEMMA FrameStep ==
  ASSUME FlushIInv, NEW t \in Threads, Handling(t), NEW fr, SetFrame(t, fr), UNCHANGED <<queue, flushed>>,
         DOMAIN fr = FrameFields, Frame(t).found # <<>> => fr.found # <<>>,
         \/ Frame(t).pc # "wait" /\ fr.pc # "wait" /\ (fr.pc = "raise" => fr.found = <<>>)
         \/ /\ Frame(t).pc = "wait" /\ Len(frames[t]) \in flushed[t]
            /\ fr.pc = "raise" /\ fr.found = Frame(t).found,
         fr.pc \in {"log", "critical", "flush"} => fr.found # <<>>,
         fr.found # <<>> => fr.pc \in {"log", "critical", "flush", "raise"}
  PROVE  FlushIInv'
<1>1. /\ ThreadRight(t) /\ TopSet(t, fr) /\ DOMAIN frames' = Threads
      /\ \A u \in Threads \ {t} : frames'[u] = frames[u]
  BY FrameIsSet
<1>2. ThreadRight(t)'
  BY <1>1, TopStep
<1> QED BY <1>1, <1>2, OneThread DEF FlushIInv

\* What FlushIInv says of the innermost handler.
LEMMA TopRight ==
  ASSUME FlushIInv, NEW t \in Threads, Handling(t)
  PROVE  /\ DOMAIN Frame(t) = FrameFields
         /\ Frame(t).pc \in {"log", "critical", "flush", "wait"} => Frame(t).found # <<>>
         /\ Frame(t).found # <<>> => Frame(t).pc \in {"log", "critical", "flush", "wait", "raise"}
BY TopFrame DEF FlushIInv, FrameRight

\* A step before there is a logger.
LEMMA BeforeLogger ==
  ASSUME FlushIInv, NEW t \in Threads, Handling(t), Frame(t).pc \in {"enter", "store", "alarm", "backend", "logger", "valid"},
         NEW fr, SetFrame(t, fr), UNCHANGED <<queue, flushed>>, DOMAIN fr = FrameFields,
         \/ fr.found = Frame(t).found /\ fr.pc \in {"store", "pause", "alarm", "backend", "logger", "valid", "raise"}
         \/ fr.found # <<>> /\ fr.pc = "log"
  PROVE  FlushIInv'
<1>1. Frame(t).found = <<>>
  BY TopRight
<1> QED BY <1>1, FrameStep

LEMMA EarlySteps ==
  ASSUME FlushIInv, NEW t \in Threads, NEW options, NEW id,
         \/ Enter(t) \/ Store(t, options.timeout) \/ FindBackend(t, id, options.reraise)
         \/ ByName(t, options) \/ FirstValid(t, options)
  PROVE  FlushIInv'
<1> USE DEF At
<1>1. Handling(t) /\ DOMAIN Frame(t) = FrameFields
  BY TopRight DEF Enter, Store, FindBackend, ByName, FirstValid
<1>2. UNCHANGED <<queue, flushed>>
  BY DEF Enter, Store, FindBackend, ByName, FirstValid
<1>3. ASSUME frames' = frames PROVE FlushIInv'
  BY <1>2, <1>3, FramesSame DEF FlushIInv
<1>4. ASSUME NEW pc_, Goto(t, pc_), pc_ \in {"store", "pause", "alarm", "backend", "valid", "raise"},
             Frame(t).pc \in {"enter", "store", "alarm", "backend", "logger", "valid"}
      PROVE  FlushIInv'
  <2>1. PICK fr : fr = [Frame(t) EXCEPT !.pc = pc_]
    OBVIOUS
  <2>2. SetFrame(t, fr)
    BY <1>4, <2>1 DEF Goto
  <2>3. DOMAIN fr = FrameFields /\ fr.pc = pc_ /\ fr.found = Frame(t).found
    BY <1>1, <2>1 DEF FrameFields
  <2> QED BY <1>1, <1>2, <1>4, <2>2, <2>3, BeforeLogger
<1>5. CASE Enter(t)
  BY <1>4, <1>5 DEF Enter
<1>6. CASE Store(t, options.timeout)
  BY <1>4, <1>6 DEF Store
<1>7. CASE FindBackend(t, id, options.reraise)
  <2>1. CASE UNCHANGED frames
    BY <1>3, <2>1
  <2>2. CASE ~UNCHANGED frames
    <3>1. PICK pc_ \in {"raise", "logger"} : SetFrame(t, [Frame(t) EXCEPT !.pc = pc_, !.reraise = options.reraise])
      BY <1>7, <2>2 DEF FindBackend, ExitSuccess
    <3>2. PICK fr : fr = [Frame(t) EXCEPT !.pc = pc_, !.reraise = options.reraise]
      OBVIOUS
    <3>3. DOMAIN fr = FrameFields /\ fr.pc = pc_ /\ fr.found = Frame(t).found
      BY <1>1, <3>2 DEF FrameFields
    <3>4. Frame(t).pc = "backend"
      BY <1>7 DEF FindBackend
    <3> QED BY <1>1, <1>2, <3>1, <3>2, <3>3, <3>4, BeforeLogger
  <2> QED BY <2>1, <2>2
<1>8. CASE ByName(t, options)
  <2> PICK found : found = NamedLogger(registry.loggers, options.name)
    OBVIOUS
  <2>1. PICK fr : fr = [Frame(t) EXCEPT !.pc = "log", !.found = found]
    OBVIOUS
  <2>2. Goto(t, "valid") \/ (found # <<>> /\ SetFrame(t, fr))
    BY <1>8, <2>1 DEF ByName
  <2>3. Frame(t).pc = "logger"
    BY <1>8 DEF ByName
  <2>4. CASE Goto(t, "valid")
    BY <1>4, <2>3, <2>4
  <2>5. CASE found # <<>> /\ SetFrame(t, fr)
    <3>1. DOMAIN fr = FrameFields /\ fr.pc = "log" /\ fr.found = found
      BY <1>1, <2>1 DEF FrameFields
    <3> QED BY <1>1, <1>2, <2>3, <2>5, <3>1, BeforeLogger
  <2> QED BY <2>2, <2>4, <2>5
<1>9. CASE FirstValid(t, options)
  <2> PICK found : found = GetValidLogger(registry.loggers, options.excluded)
    OBVIOUS
  <2>1. PICK fr : fr = [Frame(t) EXCEPT !.pc = "log", !.found = found]
    OBVIOUS
  <2>2. \/ Goto(t, "raise") \/ UNCHANGED frames
        \/ found # <<>> /\ SetFrame(t, fr)
    BY <1>9, <2>1 DEF FirstValid, ExitSuccess
  <2>3. Frame(t).pc = "valid"
    BY <1>9 DEF FirstValid
  <2>4. CASE Goto(t, "raise")
    BY <1>4, <2>3, <2>4
  <2>5. CASE found # <<>> /\ SetFrame(t, fr)
    <3>1. DOMAIN fr = FrameFields /\ fr.pc = "log" /\ fr.found = found
      BY <1>1, <2>1 DEF FrameFields
    <3> QED BY <1>1, <1>2, <2>3, <2>5, <3>1, BeforeLogger
  <2> QED BY <1>3, <2>2, <2>4, <2>5
<1> QED BY <1>5, <1>6, <1>7, <1>8, <1>9

\* A handler logs its statements, which the logger may be set to leave out.
LEMMA StatementStep ==
  ASSUME FlushIInv, NEW t \in Threads, NEW level, NEW text, NEW now, NEW next_, next_ \in {"critical", "flush"},
         Handling(t), Frame(t).pc \in {"log", "critical"}, Goto(t, next_),
         queue' = queue \o Statement(t, level, text, now), UNCHANGED flushed
  PROVE  FlushIInv'
<1>1. DOMAIN Frame(t) = FrameFields /\ Frame(t).found # <<>>
  BY TopRight
<1>2. PICK fr : fr = [Frame(t) EXCEPT !.pc = next_]
  OBVIOUS
<1>3. SetFrame(t, fr) /\ DOMAIN fr = FrameFields /\ fr.pc = next_ /\ fr.found = Frame(t).found
  BY <1>1, <1>2 DEF FrameFields, Goto
<1>4. PICK R : queue \in Seq(R)
  BY DEF FlushIInv
<1>5. CASE level < Logger(t).level
  <2>1. queue' = queue
    BY <1>4, <1>5 DEF Statement
  <2> QED BY <1>1, <1>3, <2>1, FrameStep
<1>6. CASE ~(level < Logger(t).level)
  <2>1. PICK record : record = [by |-> t, kind |-> "log", stamp |-> Stamp(Logger(t), now),
                                text |-> text, signal |-> Description(Frame(t).signal)]
    OBVIOUS
  <2>2. record.by = t /\ record.kind = "log"
    BY <2>1
  <2>3. queue' = queue \o <<record>>
    BY <1>6, <2>1 DEF Statement
  <2>4. queue' = Append(queue, record)
    <3>1. PICK T : T = R \cup {record}
      OBVIOUS
    <3>2. queue \in Seq(T) /\ record \in T
      BY <1>4, <3>1, SeqMonotonic
    <3> QED BY <2>3, <3>2
  <2>5. /\ ThreadRight(t) /\ TopSet(t, fr) /\ DOMAIN frames' = Threads
        /\ \A u \in Threads \ {t} : frames'[u] = frames[u]
    BY <1>1, <1>3, FrameIsSet
  <2>6. ThreadRight(t)'
    BY <1>1, <1>3, <1>4, <2>2, <2>4, <2>5, TopLogs
  <2> QED BY <2>2, <2>4, <2>5, <2>6, OneThread DEF FlushIInv
<1> QED BY <1>5, <1>6

LEMMA FlushStep ==
  ASSUME FlushIInv, NEW t \in Threads, NEW now, Flush(t, now)
  PROVE  FlushIInv'
<1>1. Handling(t) /\ Frame(t).pc = "flush"
  BY DEF Flush, At
<1>2. DOMAIN Frame(t) = FrameFields /\ Frame(t).found # <<>>
  BY <1>1, TopRight
<1>3. PICK fr : fr = [Frame(t) EXCEPT !.pc = "wait"]
  OBVIOUS
<1>4. SetFrame(t, fr) /\ DOMAIN fr = FrameFields /\ fr.pc = "wait" /\ fr.found = Frame(t).found
  BY <1>2, <1>3 DEF FrameFields, Flush, Goto
<1>5. PICK R : queue \in Seq(R)
  BY DEF FlushIInv
<1>6. PICK record : record = [by |-> t, kind |-> "flush", stamp |-> Stamp(Logger(t), now), frame |-> Len(frames[t])]
  OBVIOUS
<1>7. record.by = t /\ record.kind = "flush" /\ record.frame = Len(frames[t]) /\ queue' = Append(queue, record)
  BY <1>6 DEF Flush
<1>8. /\ flushed'[t] = flushed[t] \ {Len(frames[t])} /\ DOMAIN flushed' = Threads
      /\ \A u \in Threads \ {t} : flushed'[u] = flushed[u]
  BY DEF Flush, FlushIInv
<1>9. /\ ThreadRight(t) /\ TopSet(t, fr) /\ DOMAIN frames' = Threads
      /\ \A u \in Threads \ {t} : frames'[u] = frames[u]
  BY <1>1, <1>2, <1>4, FrameIsSet
<1>10. ThreadRight(t)'
  BY <1>1, <1>2, <1>4, <1>5, <1>7, <1>8, <1>9, TopLogs
<1> QED BY <1>7, <1>8, <1>9, <1>10, OneThread

LEMMA FlushedStep ==
  ASSUME FlushIInv, NEW t \in Threads, HandlerFlushed(t)
  PROVE  FlushIInv'
<1>1. Handling(t) /\ Frame(t).pc = "wait" /\ Len(frames[t]) \in flushed[t] /\ UNCHANGED <<queue, flushed>>
  BY DEF HandlerFlushed, At
<1>2. CASE frames' = frames
  BY <1>1, <1>2, FramesSame DEF FlushIInv
<1>3. CASE Goto(t, "raise")
  <2>1. DOMAIN Frame(t) = FrameFields
    BY <1>1, TopRight
  <2>2. PICK fr : fr = [Frame(t) EXCEPT !.pc = "raise"]
    OBVIOUS
  <2>3. SetFrame(t, fr) /\ DOMAIN fr = FrameFields /\ fr.pc = "raise" /\ fr.found = Frame(t).found
    BY <1>3, <2>1, <2>2 DEF FrameFields, Goto
  <2> QED BY <1>1, <2>3, FrameStep
<1> QED BY <1>2, <1>3 DEF HandlerFlushed, ExitSuccess

\* Handlers that pause go on, after the innermost has returned perhaps.
LEMMA ResumedStep ==
  ASSUME FlushIInv, NEW t \in Threads, UNCHANGED <<queue, flushed>>,
         NEW s, frames' = [frames EXCEPT ![t] = Resumed(s)],
         s = frames[t] \/ (Handling(t) /\ Frame(t).pc = "raise" /\ s = Front(frames[t]))
  PROVE  FlushIInv'
<1>1. ThreadRight(t) /\ DOMAIN frames = Threads /\ DOMAIN flushed = Threads
  BY DEF FlushIInv
<1>2. /\ Len(s) \in Nat /\ \A i \in 1..Len(s) : s[i] = frames[t][i] /\ DOMAIN s[i] = FrameFields
      /\ \E S : s \in Seq(S)
      /\ Len(s) = Len(frames[t]) \/ Len(s) + 1 = Len(frames[t])
  <2>1. PICK S : frames[t] \in Seq(S)
    BY <1>1 DEF ThreadRight
  <2>2. \A i \in 1..Len(frames[t]) : DOMAIN frames[t][i] = FrameFields
    BY <1>1 DEF ThreadRight, FrameRight
  <2>3. CASE s = frames[t]
    BY <2>1, <2>2, <2>3
  <2>4. CASE Handling(t) /\ s = Front(frames[t])
    <3>1. PICK r \in Seq(S) : r = frames[t] /\ r # <<>> /\ s = Front(r)
      BY <2>1, <2>4 DEF Handling
    <3>2. /\ \E T : Front(r) \in Seq(T)
          /\ Len(r) \in Nat /\ Len(r) > 0
          /\ Len(Front(r)) = Len(r) - 1 /\ \A i \in 1..(Len(r) - 1) : Front(r)[i] = r[i]
      BY <3>1, TopReplaced
    <3>3. \A i \in 1..(Len(r) - 1) : i \in 1..Len(r)
      BY <3>2
    <3>4. Len(r) - 1 \in Nat /\ (Len(r) - 1) + 1 = Len(r)
      BY <3>2
    <3> QED BY <2>2, <3>1, <3>2, <3>3, <3>4
  <2> QED BY <2>3, <2>4
<1>3. /\ \E T : Resumed(s) \in Seq(T)
      /\ Len(Resumed(s)) = Len(s) /\ \A i \in 1..Len(s) : Goes(Resumed(s)[i], s[i])
  BY <1>2, ResumedFrames
<1>4. frames'[t] = Resumed(s) /\ DOMAIN frames' = Threads /\ \A u \in Threads \ {t} : frames'[u] = frames[u]
  BY <1>1
<1>5. PICK n \in Nat : n = Len(s)
  BY <1>2
<1>6. n = Len(frames[t]) \/ (Handling(t) /\ n + 1 = Len(frames[t]) /\ Frame(t).pc = "raise")
  BY <1>2, <1>5
<1>7. PICK T : frames'[t] \in Seq(T)
  BY <1>3, <1>4
<1>8. Len(frames'[t]) = n /\ \A i \in 1..n : Goes(frames'[t][i], frames[t][i])
  BY <1>2, <1>3, <1>4, <1>5
<1>9. ThreadRight(t)'
  BY <1>1, <1>6, <1>7, <1>8, HandlerReturns
<1> QED BY <1>1, <1>4, <1>9, OneThread

\* A signal comes to a thread, the alarm among them, or a handler ends.
LEMMA SignalSteps ==
  ASSUME FlushIInv, NEW t \in Threads, NEW s, Interrupt(t, s) \/ OnAlarm(t) \/ Raise(t)
  PROVE  FlushIInv'
<1>1. UNCHANGED <<queue, flushed>>
  BY DEF Interrupt, OnAlarm, Raise
<1>2. CASE frames' = frames
  BY <1>1, <1>2, FramesSame DEF FlushIInv
<1>3. CASE frames' = [frames EXCEPT ![t] = Resumed(@)]
  BY <1>1, <1>3, ResumedStep
<1>4. CASE Raise(t) /\ frames' = [frames EXCEPT ![t] = Resumed(Front(@))]
  <2>1. Handling(t) /\ Frame(t).pc = "raise"
    BY <1>4 DEF Raise, At
  <2> QED BY <1>1, <1>4, <2>1, ResumedStep
<1>5. CASE \E m : frames' = [frames EXCEPT ![t] = Append(@, [signal |-> s, pc |-> "enter", mask |-> m,
                                                             reraise |-> TRUE, found |-> <<>>])]
  <2>1. PICK m : frames' = [frames EXCEPT ![t] = Append(@, [signal |-> s, pc |-> "enter", mask |-> m,
                                                            reraise |-> TRUE, found |-> <<>>])]
    BY <1>5
  <2>2. PICK fr : fr = [signal |-> s, pc |-> "enter", mask |-> m, reraise |-> TRUE, found |-> <<>>]
    OBVIOUS
  <2>3. DOMAIN fr = FrameFields /\ fr.pc = "enter" /\ fr.found = <<>>
    BY <2>2 DEF FrameFields
  <2>4. /\ frames'[t] = Append(frames[t], fr) /\ DOMAIN frames' = Threads
        /\ \A u \in Threads \ {t} : frames'[u] = frames[u]
    BY <2>1, <2>2 DEF FlushIInv
  <2>5. ThreadRight(t)'
    BY <1>1, <2>3, <2>4, HandlerBegins DEF FlushIInv
  <2> QED BY <1>1, <2>4, <2>5, OneThread DEF FlushIInv
<1>6. CASE Interrupt(t, s)
  <2>1. \/ frames' = frames \/ frames' = [frames EXCEPT ![t] = Resumed(@)]
        \/ frames' = [frames EXCEPT ![t] = Append(@, [signal |-> s, pc |-> "enter", mask |-> mask[t],
                                                      reraise |-> TRUE, found |-> <<>>])]
    BY <1>6 DEF Interrupt
  <2> QED BY <1>2, <1>3, <1>5, <2>1
<1>7. CASE OnAlarm(t)
  <2>1. frames' = frames \/ frames' = [frames EXCEPT ![t] = Resumed(@)]
    BY <1>7 DEF OnAlarm
  <2> QED BY <1>2, <1>3, <2>1
<1>8. CASE Raise(t)
  <2>1. frames' = frames \/ frames' = [frames EXCEPT ![t] = Resumed(Front(@))]
    BY <1>8 DEF Raise, Reraise, Return
  <2> QED BY <1>2, <1>4, <1>8, <2>1
<1> QED BY <1>6, <1>7, <1>8

LEMMA HandlesKeep == ASSUME FlushIInv, NEW t \in Threads, Handles(t) PROVE FlushIInv'
<1>1. HandlerStep(t, IdOf(t), work.options, counter)
  BY DEF Handles
<1>2. CASE LogReceived(t, counter)
  <2>1. PICK next_ \in {"critical", "flush"} : Goto(t, next_)
    BY <1>2 DEF LogReceived
  <2>2. /\ Handling(t) /\ Frame(t).pc \in {"log", "critical"} /\ UNCHANGED flushed
        /\ queue' = queue \o Statement(t, Info, "received", counter)
    BY <1>2 DEF LogReceived, At
  <2> QED BY <2>1, <2>2, StatementStep
<1>3. CASE LogTerminated(t, counter)
  <2>1. /\ Handling(t) /\ Frame(t).pc \in {"log", "critical"} /\ UNCHANGED flushed /\ Goto(t, "flush")
        /\ queue' = queue \o Statement(t, Critical, "terminated", counter)
    BY <1>3 DEF LogTerminated, At
  <2> QED BY <2>1, StatementStep
<1> QED BY <1>1, <1>2, <1>3, EarlySteps, FlushStep, FlushedStep, SignalSteps DEF HandlerStep

LEMMA LogStatementKeeps == ASSUME FlushIInv, NEW t \in Threads, LogStatement(t) PROVE FlushIInv'
<1>1. PICK R : queue \in Seq(R)
  BY DEF FlushIInv
<1>2. PICK record : record = [by |-> t, kind |-> "log", stamp |-> IF Op(t).tsc THEN counter ELSE 0]
  OBVIOUS
<1>3. /\ queue' = Append(queue, record) /\ record.by = t /\ record.kind = "log"
      /\ frames' = frames /\ flushed' = flushed /\ frames[t] = <<>>
  BY <1>2 DEF LogStatement, Calls, Runs, Handling
<1>4. ThreadRight(t)'
  BY <1>1, <1>3, RecordAdded DEF FlushIInv
<1> QED BY <1>3, <1>4, OneThread DEF FlushIInv

\* The backend reads a record.
LEMMA ReadKeeps ==
  ASSUME FlushIInv, queue # <<>>, queue' = Tail(queue), flushed' = Answered(Head(queue)), frames' = frames
  PROVE  FlushIInv'
<1>1. PICK R : queue \in Seq(R)
  BY DEF FlushIInv
<1>2. DOMAIN frames' = Threads /\ DOMAIN flushed' = Threads
  BY DEF FlushIInv, Answered
<1>3. queue' \in Seq(R)
  BY <1>1
<1>4. \A t \in Threads : ThreadRight(t)'
  BY <1>1, RecordRead DEF FlushIInv
<1> QED BY <1>2, <1>3, <1>4 DEF FlushIInv

LEMMA FlushNext == FlushIInv /\ [LifecycleNext]_lifecycleVars => FlushIInv'
<1> SUFFICES ASSUME FlushIInv, [LifecycleNext]_lifecycleVars PROVE FlushIInv'
  OBVIOUS
<1>1. CASE UNCHANGED <<frames, flushed, queue>>
  BY <1>1, FramesSame DEF FlushIInv
<1>2. CASE UNCHANGED lifecycleVars
  BY <1>1, <1>2 DEF lifecycleVars, signalVars
<1>3. ASSUME NEW t \in Threads, Deliver(t) PROVE FlushIInv'
  <2>1. UNCHANGED <<frames, flushed, queue>> \/ \E s : Interrupt(t, s)
    BY <1>3 DEF Deliver
  <2> QED BY <1>1, <2>1, SignalSteps
<1>4. CASE AlarmGoesOff
  BY <1>4, SignalSteps DEF AlarmGoesOff
<1>5. CASE OtherCopy
  BY <1>1, <1>5 DEF OtherCopy, signalVars
<1>6. ASSUME NEW t \in Threads, Program(t) PROVE FlushIInv'
  <2>1. LogStatement(t) \/ UNCHANGED <<frames, flushed, queue>>
    BY <1>6 DEF Program, CreateLogger, Wait, ConvertTime, ConvertStep, Validate, SimpleLoggerImpl,
       SimpleLogger, CallOnce, BlockSignals, Install, OpenLock, Flock, Spawn, Spawned, Finish, Catch, Stop, Exit,
       StopLocked, StopWorker, Join, Unlink, Close, ResetFlag, Deinit, End, Acquire, InitManual, PollManual,
       PollReturns, ShutdownReturns, signalVars
  <2> QED BY <1>1, <2>1, LogStatementKeeps
<1>7. CASE Worker
  <2>1. \/ UNCHANGED <<frames, flushed, queue>>
        \/ queue # <<>> /\ queue' = Tail(queue) /\ flushed' = Answered(Head(queue)) /\ frames' = frames
    BY <1>7 DEF Worker, InitWorker, BeginWorker, LeaveLoop, ExitWorker, Driver, ReadRecord, ConfigureClock,
       SynchroniseClock, PublishClock, ResyncFirst, ConvertRecord, IdleResync, KeepClock, signalVars, Reads
  <2> QED BY <1>1, <2>1, ReadKeeps
<1>8. CASE LifecycleNext
  BY <1>3, <1>4, <1>5, <1>6, <1>7, <1>8, HandlesKeep DEF LifecycleNext
<1> QED BY <1>2, <1>8

LEMMA FlushInitRight == LifecycleInit => FlushIInv
BY DEF LifecycleInit, SignalInit, FlushIInv, ThreadRight

\* A handler that goes on after its flush, or ends the process then, has had all
\* read that its thread logged, however handlers interrupt each other.
THEOREM HandlersFlush == LifecycleSpec => []HandlerFlushes
<1>1. FlushIInv => HandlerFlushes
  <2> SUFFICES ASSUME FlushIInv, NEW t \in Threads, Handling(t), Frame(t).found # <<>>,
                      Frame(t).pc \in {"wait", "raise"}, Len(frames[t]) \in flushed[t]
               PROVE  \A i \in DOMAIN queue : queue[i].by # t
    BY DEF HandlerFlushes
  <2>1. PICK n : n = Len(frames[t])
    OBVIOUS
  <2>2. n \in Nat /\ n > 0 /\ Frame(t) = frames[t][n]
    BY <2>1, TopFrame DEF FlushIInv
  <2>3. AnsweredRight(t, n) /\ Undisturbed(t, n)
    BY <2>1, <2>2 DEF FlushIInv, ThreadRight, Undisturbed
  <2>4. PICK R : queue \in Seq(R)
    BY DEF FlushIInv
  <2>5. DOMAIN queue = 1..Len(queue)
    BY <2>4
  <2> QED BY <2>1, <2>2, <2>3, <2>5 DEF AnsweredRight
<1> QED BY <1>1, FlushInitRight, FlushNext, PTL DEF LifecycleSpec

=============================================================================
