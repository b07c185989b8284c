-------------------------- MODULE BoundedSPSCQueue --------------------------
(***************************************************************************)
(* quill::detail::BoundedSPSCQueueImpl: the byte ring between one logging  *)
(* thread (the writer) and the backend thread (the reader).                *)
(*                                                                         *)
(* Positions are unsigned integers that wrap at PosMod = 2^w.  The storage *)
(* holds 2 * Capacity bytes, so that a message that starts near the end of *)
(* the first half is still contiguous.  Each side keeps a private position *)
(* and a cache of the other side's published position; the two atomics are *)
(* the only shared words.  Every action has at most one access to a shared *)
(* word (or writes one byte of the storage), so the interleavings of the   *)
(* actions are those of the two threads under release/acquire ordering.    *)
(*                                                                         *)
(* A byte of the storage records start, size and index: the position where *)
(* its message starts, the size that the message's header encodes and the  *)
(* index of the byte in the message.  The payload is abstracted to this    *)
(* identity, which tells a fresh byte from a stale or a torn one.          *)
(***************************************************************************)
EXTENDS Integers, FiniteSets

CONSTANTS Capacity,            \* _capacity
          Laps,                \* 2^w / _capacity
          ReaderStorePercent,  \* constructor argument, 5 by default
          Sizes                \* message sizes the writer asks for

ASSUME CapacityAssumption == Capacity \in Nat \ {0}

\* _validate_capacity rejects a capacity whose double does not fit the position type.
ASSUME LapsAssumption == Laps \in Nat \ {0, 1}

ASSUME PercentAssumption == ReaderStorePercent \in 0..100

ASSUME SizesAssumption == Sizes \subseteq Nat \ {0}

VARIABLES
  storage,
  writer_pos, atomic_writer_pos, reader_pos_cache_plus_capacity,
  reader_pos, atomic_reader_pos, writer_pos_cache,
  wpc,      \* the writer: "idle", "blocked" in the retry loop, "reserved", "finished"
  wsize,    \* the bytes it asks for or holds
  written,  \* how many bytes of the reservation are already encoded
  rpc,      \* the reader: "idle", "reading", "decoded", or "commit"
  rsize,    \* the size it decoded from the header
  total_read,  \* whether this pass of the read loop has consumed anything
  starts    \* history: start positions of the messages written and not yet read

wvars == <<writer_pos, atomic_writer_pos, reader_pos_cache_plus_capacity,
           wpc, wsize, written>>
rvars == <<reader_pos, atomic_reader_pos, writer_pos_cache, rpc, rsize, total_read>>
vars == <<storage, wvars, rvars, starts>>

PosMod == Capacity * Laps
Pos == 0..(PosMod - 1)

\* Unsigned arithmetic of integer_type.
Add(a, n) == IF a + n >= PosMod THEN a + n - PosMod ELSE a + n
Sub(a, b) == IF a >= b THEN a - b ELSE a - b + PosMod

\* pos & _mask
Offset(pos) == pos % Capacity

BytesPerBatch == (Capacity * ReaderStorePercent) \div 100

NoByte == [start |-> 0, size |-> 0, index |-> 0]
ByteOf(s, n, k) == [start |-> s, size |-> n, index |-> k]
Byte == [start : Pos, size : Nat, index : Nat]

-----------------------------------------------------------------------------

Init ==
  /\ storage = [a \in 0..(2 * Capacity - 1) |-> NoByte]
  /\ writer_pos = 0 /\ atomic_writer_pos = 0
  /\ reader_pos_cache_plus_capacity = Capacity
  /\ reader_pos = 0 /\ atomic_reader_pos = 0 /\ writer_pos_cache = 0
  /\ wpc = "idle" /\ wsize = 0 /\ written = 0
  /\ rpc = "idle" /\ rsize = 0 /\ total_read = FALSE
  /\ starts = {}

(***************************************************************************)
(* The writer.                                                             *)
(***************************************************************************)

\* Mutant: the message is compared with the ring, not with the free space.
FitsInRing(cache_plus_capacity, n) == Capacity >= n

\* The writer believes that n more bytes fit.
Fits(cache_plus_capacity, n) == Sub(cache_plus_capacity, writer_pos) >= n

Reserve(n) == wpc' = "reserved" /\ wsize' = n /\ written' = 0

\* The caller asks for n bytes; in the retry loop it asks for the same n again.
Asks(n) == \/ wpc = "idle" /\ n \in Sizes
           \/ wpc = "blocked" /\ n = wsize

\* The cached value is enough: no shared word is read.
PrepareWriteCached(n) ==
  /\ wpc = "idle" /\ n \in Sizes
  /\ Fits(reader_pos_cache_plus_capacity, n)
  /\ Reserve(n)
  /\ UNCHANGED <<storage, writer_pos, atomic_writer_pos,
                 reader_pos_cache_plus_capacity, rvars, starts>>

\* The published reader position, as the writer caches it.
ReloadedReaderPos == Add(atomic_reader_pos, Capacity)

\* prepare_write reloads the reader position and checks again.
PrepareWriteReload(n) ==
  /\ Asks(n)
  /\ ~Fits(reader_pos_cache_plus_capacity, n)
  /\ reader_pos_cache_plus_capacity' = ReloadedReaderPos
  /\ Fits(reader_pos_cache_plus_capacity', n)
  /\ Reserve(n)
  /\ UNCHANGED <<storage, writer_pos, atomic_writer_pos, rvars, starts>>

\* Still no room: prepare_write returns nullptr.  A dropping queue gives the
\* message up, a blocking one retries (it throws beforehand for n > Capacity).
PrepareWriteFull(n) ==
  /\ Asks(n)
  /\ ~Fits(reader_pos_cache_plus_capacity, n)
  /\ reader_pos_cache_plus_capacity' = ReloadedReaderPos
  /\ ~Fits(reader_pos_cache_plus_capacity', n)
  /\ \/ wpc' = "blocked" /\ n <= Capacity /\ wsize' = n
     \/ wpc = "idle" /\ wpc' = "idle" /\ wsize' = 0
  /\ UNCHANGED <<storage, writer_pos, atomic_writer_pos, written, rvars, starts>>

\* Mutant: a byte past the first half wraps instead of using the mirrored half.
WriteByteWrapped ==
  /\ wpc = "reserved" /\ written < wsize
  /\ storage' = [storage EXCEPT ![Offset(writer_pos + written)]
                                   = ByteOf(writer_pos, wsize, written)]
  /\ written' = written + 1
  /\ UNCHANGED <<writer_pos, atomic_writer_pos, reader_pos_cache_plus_capacity,
                 wpc, wsize, rvars, starts>>

\* One byte of the header or of the arguments is stored through the pointer.
WriteByte ==
  /\ wpc = "reserved" /\ written < wsize
  /\ storage' = [storage EXCEPT ![Offset(writer_pos) + written]
                                   = ByteOf(writer_pos, wsize, written)]
  /\ written' = written + 1
  /\ UNCHANGED <<writer_pos, atomic_writer_pos, reader_pos_cache_plus_capacity,
                 wpc, wsize, rvars, starts>>

\* finish_write, which every caller follows by commit_write: between the two the
\* message is complete but not published.
FinishWrite ==
  /\ wpc = "reserved" /\ written = wsize
  /\ writer_pos' = Add(writer_pos, wsize)
  /\ starts' = starts \cup {writer_pos}
  /\ wpc' = "finished" /\ wsize' = 0 /\ written' = 0
  /\ UNCHANGED <<storage, atomic_writer_pos, reader_pos_cache_plus_capacity, rvars>>

CommitWrite ==
  /\ wpc = "finished"
  /\ atomic_writer_pos' = writer_pos
  /\ wpc' = "idle"
  /\ UNCHANGED <<storage, writer_pos, reader_pos_cache_plus_capacity,
                 wsize, written, rvars, starts>>

FinishAndCommitWrite ==
  /\ wpc = "reserved" /\ written = wsize
  /\ writer_pos' = Add(writer_pos, wsize)
  /\ atomic_writer_pos' = writer_pos'
  /\ starts' = starts \cup {writer_pos}
  /\ wpc' = "idle" /\ wsize' = 0 /\ written' = 0
  /\ UNCHANGED <<storage, reader_pos_cache_plus_capacity, rvars>>

(***************************************************************************)
(* The reader, in the loop of BackendWorker::_read_and_decode_frontend_    *)
(* queue: messages are consumed until the queue is empty or a limit is     *)
(* reached, then the position is committed once if anything was consumed.  *)
(***************************************************************************)

\* empty() when the cached writer position is not yet reached.
PrepareReadCached ==
  /\ rpc = "idle" /\ writer_pos_cache # reader_pos
  /\ rpc' = "reading"
  /\ UNCHANGED <<storage, wvars, reader_pos, atomic_reader_pos, writer_pos_cache,
                 rsize, total_read, starts>>

\* empty() reloads the published writer position before it answers.
PrepareReadReload ==
  /\ rpc = "idle" /\ writer_pos_cache = reader_pos
  /\ writer_pos_cache' = atomic_writer_pos
  /\ rpc' = IF writer_pos_cache' # reader_pos THEN "reading"
            ELSE IF total_read THEN "commit" ELSE "idle"
  /\ UNCHANGED <<storage, wvars, reader_pos, atomic_reader_pos, rsize, total_read, starts>>

\* The header tells the reader how long the message is.
DecodeMessage ==
  /\ rpc = "reading"
  /\ rsize' = storage[Offset(reader_pos)].size
  /\ rpc' = "decoded"
  /\ UNCHANGED <<storage, wvars, reader_pos, atomic_reader_pos, writer_pos_cache,
                 total_read, starts>>

\* Mutant: all that prepare_read found is taken for one message.
FinishReadAll ==
  /\ rpc = "decoded"
  /\ reader_pos' = writer_pos_cache
  /\ starts' = {s \in starts : Sub(s, reader_pos) >= Sub(writer_pos_cache, reader_pos)}
  /\ rsize' = 0 /\ total_read' = TRUE
  /\ rpc' \in {"idle", "commit"}
  /\ UNCHANGED <<storage, wvars, atomic_reader_pos, writer_pos_cache>>

\* finish_read(bytes_read); the loop goes on or stops at a limit.
FinishRead ==
  /\ rpc = "decoded"
  /\ reader_pos' = Add(reader_pos, rsize)
  /\ starts' = starts \ {reader_pos}
  /\ rsize' = 0 /\ total_read' = TRUE
  /\ rpc' \in {"idle", "commit"}
  /\ UNCHANGED <<storage, wvars, atomic_reader_pos, writer_pos_cache>>

\* Mutant: the read position is published in full batches only.
PublishesBatchesOnly == Sub(reader_pos, atomic_reader_pos) >= BytesPerBatch

\* A full batch was consumed, or the queue is drained as far as the reader knows.
PublishesReadPos ==
  \/ Sub(reader_pos, atomic_reader_pos) >= BytesPerBatch
  \/ writer_pos_cache = reader_pos

CommitRead ==
  /\ rpc = "commit"
  /\ atomic_reader_pos' = IF PublishesReadPos THEN reader_pos ELSE atomic_reader_pos
  /\ rpc' = "idle" /\ total_read' = FALSE
  /\ UNCHANGED <<storage, wvars, reader_pos, writer_pos_cache, rsize, starts>>

-----------------------------------------------------------------------------

Writer == \/ \E n \in Sizes : PrepareWriteCached(n) \/ PrepareWriteReload(n) \/ PrepareWriteFull(n)
          \/ WriteByte \/ FinishWrite \/ CommitWrite \/ FinishAndCommitWrite

Reader == PrepareReadCached \/ PrepareReadReload \/ DecodeMessage \/ FinishRead \/ CommitRead

Next == Writer \/ Reader

Spec == Init /\ [][Next]_vars

\* The backend thread polls for as long as it runs, and a thread in the retry
\* loop of a blocking queue keeps asking; nothing makes a thread log.
FairSpec == /\ Spec
            /\ WF_vars(Reader)
            /\ WF_vars(wpc = "blocked" /\ \E n \in Sizes : PrepareWriteReload(n))

-----------------------------------------------------------------------------

\* Every variable has its type; the positions stay within the width of theirs.
TypeOK ==
  /\ storage \in [0..(2 * Capacity - 1) -> Byte]
  /\ writer_pos \in Pos /\ atomic_writer_pos \in Pos
  /\ reader_pos_cache_plus_capacity \in Pos
  /\ reader_pos \in Pos /\ atomic_reader_pos \in Pos /\ writer_pos_cache \in Pos
  /\ wpc \in {"idle", "blocked", "reserved", "finished"} /\ wsize \in Nat /\ written \in 0..wsize
  /\ rpc \in {"idle", "reading", "decoded", "commit"} /\ rsize \in Nat
  /\ total_read \in BOOLEAN
  /\ starts \subseteq Pos

\* How far a position lies ahead of what the reader has given back.
Ahead(pos) == Sub(pos, atomic_reader_pos)

\* The six positions keep their circular order across every wrap of the unsigned
\* type, and neither cache is ever ahead of what the other side published.
PositionsOrdered ==
  /\ Ahead(reader_pos) <= Ahead(writer_pos_cache)
  /\ Ahead(writer_pos_cache) <= Ahead(atomic_writer_pos)
  /\ Ahead(atomic_writer_pos) <= Ahead(writer_pos)
  /\ Ahead(writer_pos) + Sub(reader_pos_cache_plus_capacity, writer_pos) <= Capacity

\* The size that the header at a position encodes.
SizeAt(pos) == storage[Offset(pos)].size

\* The messages written and not yet read lie end to end from the reader's
\* position to the writer's, and every position either side can observe is a
\* boundary between two of them, so no side ever lands inside a message.
MessagesTiled ==
  /\ {reader_pos, writer_pos_cache, atomic_writer_pos} \subseteq starts \cup {writer_pos}
  /\ \A s \in starts :
       /\ Ahead(reader_pos) <= Ahead(s)
       /\ SizeAt(s) > 0
       /\ Ahead(s) + SizeAt(s) <= Ahead(writer_pos)
       /\ Add(s, SizeAt(s)) \in starts \cup {writer_pos}
  /\ \A s, t \in starts : Ahead(s) < Ahead(t) => Ahead(s) + SizeAt(s) <= Ahead(t)

\* The addresses of the n bytes that start at a position.
Addresses(pos, n) == {Offset(pos) + k : k \in 0..(n - 1)}

\* The reservation stays inside the storage and shares no byte with a message
\* that was written and not yet read, wherever the two wrap in the storage.
NoOverwrite ==
  wpc = "reserved" =>
    /\ Offset(writer_pos) + wsize <= 2 * Capacity
    /\ \A s \in starts : Addresses(writer_pos, wsize) \cap Addresses(s, SizeAt(s)) = {}

\* From prepare_read to finish_read the pointer leads to one whole published
\* message, never to stale, torn or unpublished bytes.
ReadsWholeMessage ==
  rpc \in {"reading", "decoded"} =>
    LET n == SizeAt(reader_pos)
    IN  /\ n > 0
        /\ n <= Sub(writer_pos_cache, reader_pos)
        /\ \A k \in 0..(n - 1) : storage[Offset(reader_pos) + k] = ByteOf(reader_pos, n, k)
        /\ rpc = "decoded" => rsize = n

\* A thread blocked on a message that fits the capacity eventually gets its bytes:
\* whatever lag the reader keeps back is released once it drains the queue.
BlockedWriterProceeds == (wpc = "blocked") ~> (wpc = "reserved")

\* The messages that were published and not yet read, and the i-th of them from
\* the reader's end.
PublishedStarts == {s \in starts : Ahead(s) < Ahead(atomic_writer_pos)}
Before(s) == {t \in PublishedStarts : Ahead(t) < Ahead(s)}
NthPublished(i) == CHOOSE s \in PublishedStarts : Cardinality(Before(s)) = i - 1

Published == [i \in 1..Cardinality(PublishedStarts) |-> <<NthPublished(i), SizeAt(NthPublished(i))>>]

\* The published messages, as the queue of the abstract specification.
Fifo == INSTANCE FrontendQueue WITH queue <- Published

\* The ring is the queue of whole messages that the backend relies on: each
\* message commit_write publishes is delivered once, in order, and in the end.
ImplementsFrontendQueue == Fifo!FairSpec

=============================================================================
