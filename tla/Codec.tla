-------------------------------- MODULE Codec --------------------------------
(***************************************************************************)
(* How the arguments of a log statement become bytes in a frontend queue   *)
(* and values again on the backend: Codec.h, the codecs of quill/std and   *)
(* the codecs for user-defined types.                                      *)
(*                                                                         *)
(* A codec has three parts that have to agree although nothing in the      *)
(* queue says how long a record is: the size is computed first and some of *)
(* it remembered in a cache of sizes, encoding consumes that cache in the  *)
(* same order, and decoding finds its way by itself.                       *)
(*                                                                         *)
(* A type is a record: its kind k and what its codec depends on.  Bytes    *)
(* are 0..255; addresses, counts and values are below 2^30.                *)
(***************************************************************************)
EXTENDS Integers, SequencesExt

CONSTANTS Null,             \* an absent char const*, optional, variant or pointer
          MaxStringLength,  \* clamp_encoded_string_length: UINT32_MAX - 1 in the code
          InlineCapacity    \* of SizeCacheVector: 12 in the code

ASSUME CodecAssumption == MaxStringLength \in Nat \ {0} /\ InlineCapacity \in Nat \ {0}

-----------------------------------------------------------------------------
(***************************************************************************)
(* InlinedVector, the cache of sizes.                                      *)
(***************************************************************************)

EmptyCache == [items |-> <<>>, capacity |-> InlineCapacity]

\* The storage doubles when it is full, and leaves the object for the heap.
Pushed(cache, value) ==
  [items |-> Append(cache.items, value),
   capacity |-> IF Len(cache.items) = cache.capacity THEN cache.capacity * 2 ELSE cache.capacity]

Reserve(cache, capacity) ==
  IF capacity <= cache.capacity THEN cache ELSE [cache EXCEPT !.capacity = capacity]

\* operator[]; index counts from 0.  Beyond the end it throws, which the model shows as a 0.
Item(cache, index) == IF index < Len(cache.items) THEN cache.items[index + 1] ELSE 0

\* clear keeps the storage.
Clear(cache) == [cache EXCEPT !.items = <<>>]

-----------------------------------------------------------------------------
(***************************************************************************)
(* Bytes, and the states the three parts of a codec work on: the size so   *)
(* far and the cache; the bytes written at an address, the cache and the   *)
(* position in it; the bytes, the position, and the value decoded last.    *)
(***************************************************************************)

SizeOfSize == 8   \* sizeof(size_t), sizeof(uintptr_t)
SizeOfLen == 4    \* sizeof(uint32_t)

\* What padding holds, and what a read beyond the record finds.
Junk == 0

Word(v, width) == [i \in 1..width |-> IF i <= 4 THEN (v \div 256^(i - 1)) % 256 ELSE 0]

\* Of a misread number the lower 30 bits.
Value(bytes) ==
  FoldLeftDomain(LAMBDA v, i : CASE i <= 3 -> v + bytes[i] * 256^(i - 1)
                                 [] i = 4  -> v + (bytes[i] % 64) * 256^3
                                 [] OTHER  -> v, 0, bytes)

AddSize(s, n) == [s EXCEPT !.size = @ + n]

\* Caches a size and returns it, as push_back does.
CacheSize(s, n) == [s EXCEPT !.size = @ + n, !.cache = Pushed(@, n)]

Write(s, bytes) == [s EXCEPT !.bytes = @ \o bytes]

CachedSize(s) == Item(s.cache, s.index)

\* conditional_arg_size_cache_index++
Consume(s) == [s EXCEPT !.index = @ + 1]

Peek(s, n) == [i \in 1..n |-> IF s.pos + i <= Len(s.bytes) THEN s.bytes[s.pos + i] ELSE Junk]

Read(s, n, v) == [s EXCEPT !.pos = @ + n, !.val = v]

\* The address of the next byte, to be written or read.
WriteAddress(s) == s.base + Len(s.bytes)
ReadAddress(s) == s.base + s.pos

-----------------------------------------------------------------------------
(***************************************************************************)
(* Numbers, enumerations and pointers; strings.                            *)
(***************************************************************************)

ArithmeticSize(t, v, s) == AddSize(s, t.width)

ArithmeticEncode(t, v, s) == Write(s, Word(v, t.width))

ArithmeticDecode(t, s) == Read(s, t.width, Value(Peek(s, t.width)))

EncodeSize(n, s) == Write(s, Word(n, SizeOfSize))

DecodeSize(s) == Read(s, SizeOfSize, Value(Peek(s, SizeOfSize)))

Clamp(n) == IF n > MaxStringLength THEN MaxStringLength ELSE n

\* safe_strnlen(str, maxlen), for a string in memory.
Strnlen(chars, max) ==
  LET zeros == {i \in 1..max : chars[i] = 0}
  IN  IF zeros = {} THEN max ELSE (CHOOSE i \in zeros : \A j \in zeros : i <= j) - 1

\* Char arrays: the characters before the first 0, or all of them, and a 0.
CharArraySize(t, v, s) == CacheSize(s, Clamp(Strnlen(v, t.n) + 1))

CharArrayEncode(t, v, s) ==
  LET len == CachedSize(s)
  IN  Consume(Write(s, IF len > t.n THEN Append(v, 0) ELSE SubSeq(v, 1, len)))

\* char const*: a null pointer is written as the empty string.
CStringSize(t, v, s) == CacheSize(s, Clamp((IF v = Null THEN 0 ELSE Len(v)) + 1))

CStringEncode(t, v, s) ==
  LET len == CachedSize(s)
  IN  Consume(Write(s, Append(IF v = Null THEN <<>> ELSE SubSeq(v, 1, len - 1), 0)))

\* Both are read up to the 0, whatever the length was.
CStringDecode(t, s) ==
  LET rest == Len(s.bytes) - s.pos
      len == Strnlen(Peek(s, rest), rest)
  IN  Read(s, len + 1, Peek(s, len))

\* std::string and std::string_view: length and characters, which may be 0.
StringSize(t, v, s) == AddSize(s, SizeOfLen + Clamp(Len(v)))

StringEncode(t, v, s) ==
  Write(s, Word(Clamp(Len(v)), SizeOfLen) \o SubSeq(v, 1, Clamp(Len(v))))

StringDecode(t, s) ==
  LET len == Value(Peek(s, SizeOfLen))
      after == Read(s, SizeOfLen, <<>>)
  IN  Read(after, len, Peek(after, len))

-----------------------------------------------------------------------------
(***************************************************************************)
(* Types made of other types.                                              *)
(***************************************************************************)

RECURSIVE ComputeSize(_, _, _), Encode(_, _, _), Decode(_, _)

IsArithmetic(t) == t.k = "arithmetic"

\* Elements one after the other.
ElementsSize(e, v, s) == FoldLeft(LAMBDA acc, x : ComputeSize(e, x, acc), s, v)

ElementsEncode(e, v, s) == FoldLeft(LAMBDA acc, x : Encode(e, x, acc), s, v)

\* The values are gathered in the order they are read.
Gathered(before, last) == [last EXCEPT !.val = Append(before.val, @)]
DecodeNext(e, s) == Gathered(s, Decode(e, s))

ElementsDecode(e, n, s) ==
  FoldLeft(LAMBDA acc, i : DecodeNext(e, acc), [s EXCEPT !.val = <<>>], [i \in 1..n |-> i])

\* T[N] and std::array: no count.  Arithmetic elements are copied as a block.
ArraySize(t, v, s) ==
  IF IsArithmetic(t.elem) THEN AddSize(s, t.elem.width * t.n) ELSE ElementsSize(t.elem, v, s)

ArrayEncode(t, v, s) == ElementsEncode(t.elem, v, s)

ArrayDecode(t, s) == ElementsDecode(t.elem, t.n, s)

StdArraySize(t, v, s) ==
  IF IsArithmetic(t.elem) THEN AddSize(s, t.elem.width * t.n) ELSE ElementsSize(t.elem, v, s)

StdArrayEncode(t, v, s) == IF t.n = 0 THEN s ELSE ElementsEncode(t.elem, v, s)

StdArrayDecode(t, s) == ElementsDecode(t.elem, t.n, s)

\* A count, then the elements; those of arithmetic type need not be visited for the size.
CountedSize(e, v, s) ==
  LET counted == AddSize(s, SizeOfSize)
  IN  IF IsArithmetic(e) THEN AddSize(counted, e.width * Len(v)) ELSE ElementsSize(e, v, counted)

CountedEncode(e, v, s) == ElementsEncode(e, v, EncodeSize(Len(v), s))

CountedDecode(e, s) == LET n == DecodeSize(s) IN ElementsDecode(e, n.val, n)

VectorSize(t, v, s) == CountedSize(t.elem, v, s)
VectorEncode(t, v, s) == CountedEncode(t.elem, v, s)
VectorDecode(t, s) == CountedDecode(t.elem, s)

DequeSize(t, v, s) == CountedSize(t.elem, v, s)
DequeEncode(t, v, s) == CountedEncode(t.elem, v, s)
DequeDecode(t, s) == CountedDecode(t.elem, s)

ListSize(t, v, s) == CountedSize(t.elem, v, s)
ListEncode(t, v, s) == CountedEncode(t.elem, v, s)
ListDecode(t, s) == CountedDecode(t.elem, s)

\* std::forward_list does not know its size: all elements are visited, and
\* counted when they are encoded.
ForwardListSize(t, v, s) == ElementsSize(t.elem, v, AddSize(s, SizeOfSize))
ForwardListEncode(t, v, s) == CountedEncode(t.elem, v, s)
ForwardListDecode(t, s) == CountedDecode(t.elem, s)

\* A set is a sequence in its own order.
StdSetSize(t, v, s) == CountedSize(t.elem, v, s)
StdSetEncode(t, v, s) == CountedEncode(t.elem, v, s)
StdSetDecode(t, s) == CountedDecode(t.elem, s)

\* Hashed containers are written in the order they are visited; the ones that
\* are built from it have an order of their own.
UnorderedSetSize(t, v, s) == CountedSize(t.elem, v, s)
UnorderedSetEncode(t, v, s) == CountedEncode(t.elem, v, s)
UnorderedSetDecode(t, s) ==
  LET all == CountedDecode(t.elem, s) IN [all EXCEPT !.val = ToSet(@)]

PairSize(t, v, s) == ComputeSize(t.second, v[2], ComputeSize(t.first, v[1], s))
PairEncode(t, v, s) == Encode(t.second, v[2], Encode(t.first, v[1], s))
PairDecode(t, s) == DecodeNext(t.second, DecodeNext(t.first, [s EXCEPT !.val = <<>>]))

\* A map is a sequence of pairs in key order.
KeyAndValue(t) == [k |-> "pair", first |-> t.first, second |-> t.second]

StdMapSize(t, v, s) ==
  LET counted == AddSize(s, SizeOfSize)
  IN  IF IsArithmetic(t.first) /\ IsArithmetic(t.second)
      THEN AddSize(counted, (t.first.width + t.second.width) * Len(v))
      ELSE ElementsSize(KeyAndValue(t), v, counted)
StdMapEncode(t, v, s) == CountedEncode(KeyAndValue(t), v, s)
StdMapDecode(t, s) == CountedDecode(KeyAndValue(t), s)

UnorderedMapSize(t, v, s) == StdMapSize(t, v, s)
UnorderedMapEncode(t, v, s) == CountedEncode(KeyAndValue(t), v, s)
UnorderedMapDecode(t, s) ==
  LET all == CountedDecode(KeyAndValue(t), s) IN [all EXCEPT !.val = ToSet(@)]

\* Arguments and members are visited from left to right.
TupleSize(t, v, s) ==
  FoldLeftDomain(LAMBDA acc, i : ComputeSize(t.types[i], v[i], acc), s, t.types)
TupleEncode(t, v, s) ==
  FoldLeftDomain(LAMBDA acc, i : Encode(t.types[i], v[i], acc), s, t.types)
TupleDecode(t, s) ==
  FoldLeft(LAMBDA acc, e : DecodeNext(e, acc), [s EXCEPT !.val = <<>>], t.types)

\* The members of a user's type: compute_total_encoded_size, encode_members and
\* decode_members, which its codec calls with the members in one order.
MembersSize(t, v, s) == TupleSize(t, v, s)
MembersEncode(t, v, s) == TupleEncode(t, v, s)
MembersDecode(t, s) == TupleDecode(t, s)

\* Real and imaginary part.
ComplexSize(t, v, s) == ComputeSize(t.elem, v[2], ComputeSize(t.elem, v[1], s))
ComplexEncode(t, v, s) == Encode(t.elem, v[2], Encode(t.elem, v[1], s))
ComplexDecode(t, s) == DecodeNext(t.elem, DecodeNext(t.elem, [s EXCEPT !.val = <<>>]))

\* One byte says whether there is a value.
OptionalSize(t, v, s) ==
  LET flag == AddSize(s, 1) IN IF v = Null THEN flag ELSE ComputeSize(t.elem, v[1], flag)
OptionalEncode(t, v, s) ==
  IF v = Null THEN Write(s, <<0>>) ELSE Encode(t.elem, v[1], Write(s, <<1>>))
OptionalDecode(t, s) ==
  LET flag == Read(s, 1, Null)
  IN  IF Peek(s, 1) = <<0>> THEN flag
      ELSE [Decode(t.elem, flag) EXCEPT !.val = <<@>>]

\* N bits in as many bytes as they need; a value is the set of the bits that are set.
BitsetBytes(n) == (n + 7) \div 8
BitsetSize(t, v, s) == AddSize(s, BitsetBytes(t.n))
BitsetEncode(t, v, s) ==
  LET bit(byte, b) == IF 8 * (byte - 1) + b \in v THEN 2^b ELSE 0
  IN  Write(s, [byte \in 1..BitsetBytes(t.n) |->
                  FoldLeft(LAMBDA sum, b : sum + bit(byte, b), 0, <<0, 1, 2, 3, 4, 5, 6, 7>>)])
BitsetDecode(t, s) ==
  LET bytes == Peek(s, BitsetBytes(t.n))
  IN  Read(s, BitsetBytes(t.n),
           {b \in 0..(t.n - 1) : (bytes[b \div 8 + 1] \div 2^(b % 8)) % 2 = 1})

-----------------------------------------------------------------------------
(***************************************************************************)
(* Objects, formatted arguments and references.                            *)
(***************************************************************************)

Align(address, alignment) == ((address + alignment - 1) \div alignment) * alignment

\* DeferredFormatCodec: trivially copyable objects are copied byte by byte,
\* others are constructed at the next aligned address, in room for the worst case.
ObjectRoom(t) == IF t.memcpy THEN t.width ELSE t.width + t.align - 1

DeferredSize(t, v, s) == AddSize(s, ObjectRoom(t))

DeferredEncode(t, v, s) ==
  LET skip == IF t.memcpy THEN 0 ELSE Align(WriteAddress(s), t.align) - WriteAddress(s)
      room == ObjectRoom(t)
  IN  Write(s, [i \in 1..room |-> IF i - skip \in 1..t.width THEN Word(v, t.width)[i - skip] ELSE Junk])

DeferredDecode(t, s) ==
  LET skip == IF t.memcpy THEN 0 ELSE Align(ReadAddress(s), t.align) - ReadAddress(s)
  IN  Read(s, ObjectRoom(t), Value(SubSeq(Peek(s, skip + t.width), skip + 1, skip + t.width)))

\* A valueless variant is stored as an object, like the above.
StoredObjectSize(t, s) == DeferredSize(t, 0, s)
StoredObjectEncode(t, s) == DeferredEncode(t, 0, s)
StoredObjectDecode(t, s) == [DeferredDecode(t, s) EXCEPT !.val = Null]

\* std::variant: the index of the alternative (variant_npos for none) and its
\* value.  t.stored is the object a valueless one is kept as, or Null when the
\* alternatives change their type by decoding and nothing is kept.
NPos == 2^30 - 1

VariantSize(t, v, s) ==
  LET index == AddSize(s, SizeOfSize)
  IN  IF v # Null THEN ComputeSize(t.types[v[1] + 1], v[2], index)
      ELSE IF t.stored # Null THEN StoredObjectSize(t.stored, index) ELSE index

VariantEncode(t, v, s) ==
  IF v # Null THEN Encode(t.types[v[1] + 1], v[2], EncodeSize(v[1], s))
  ELSE IF t.stored # Null THEN StoredObjectEncode(t.stored, EncodeSize(NPos, s))
  ELSE EncodeSize(NPos, s)

\* decode_alternative of the alternative with that index.
DecodeByIndex(t, index) ==
  [Decode(t.types[index.val + 1], index) EXCEPT !.val = <<index.val, @>>]

\* An index out of range aborts; only a misread record has one.
VariantDecode(t, s) ==
  LET index == DecodeSize(s)
  IN  IF index.val = NPos
      THEN IF t.stored # Null THEN StoredObjectDecode(t.stored, index) ELSE [index EXCEPT !.val = Null]
      ELSE IF index.val >= Len(t.types) THEN [index EXCEPT !.val = Null]
      ELSE DecodeByIndex(t, index)

\* std::monostate needs no bytes.
MonostateDecode(t, s) == [s EXCEPT !.val = Null]

\* DirectFormatCodec: the text, formatted once for its length and again to be written.
DirectSize(t, v, s) == AddSize(CacheSize(s, Clamp(Len(v))), SizeOfLen)
DirectEncode(t, v, s) ==
  LET len == CachedSize(s) IN Consume(Write(s, Word(len, SizeOfLen) \o SubSeq(v, 1, len)))
DirectDecode(t, s) == StringDecode(t, s)

\* BinaryData: a length and bytes, none for a null pointer.
BinarySize(t, v, s) == AddSize(s, SizeOfLen + (IF v = Null THEN 0 ELSE Len(v)))
BinaryEncode(t, v, s) ==
  LET data == IF v = Null THEN <<>> ELSE v IN Write(s, Word(Len(data), SizeOfLen) \o data)
BinaryDecode(t, s) ==
  LET size == Value(Peek(s, SizeOfLen))
      after == Read(s, SizeOfLen, <<>>)
  IN  Read(after, size, Peek(after, size))

\* StringRef: where the characters are and how many, not the characters.
StringRefSize(t, v, s) == AddSize(s, SizeOfSize + SizeOfSize)
StringRefEncode(t, v, s) == Write(s, Word(v.data, SizeOfSize) \o Word(v.size, SizeOfSize))
StringRefDecode(t, s) ==
  LET data == DecodeSize(s)
      size == DecodeSize(data)
  IN  [size EXCEPT !.val = [data |-> data.val, size |-> size.val]]

\* fs::path is its native string.
PathSize(t, v, s) == StringSize(t, v, s)
PathEncode(t, v, s) == StringEncode(t, v, s)
PathDecode(t, s) == StringDecode(t, s)

\* std::error_code: name and message are asked for once, and kept in the cache
\* of sizes in words of four characters.
WordsOf(str) ==
  [w \in 1..((Len(str) + SizeOfLen - 1) \div SizeOfLen) |->
     SubSeq(str, (w - 1) * SizeOfLen + 1, IF w * SizeOfLen < Len(str) THEN w * SizeOfLen ELSE Len(str))]

CacheString(str, s) ==
  LET kept == SubSeq(str, 1, Clamp(Len(str)))
      room == Reserve(s.cache, Len(s.cache.items) + 1 + Len(WordsOf(kept)))
  IN  [s EXCEPT !.size = @ + SizeOfLen + Len(kept),
                !.cache = FoldLeft(Pushed, Pushed(room, Len(kept)), WordsOf(kept))]

EncodeCachedString(s) ==
  LET len == CachedSize(s)
      words == (len + SizeOfLen - 1) \div SizeOfLen
  IN  FoldLeft(LAMBDA acc, i : Consume(Write(acc, CachedSize(acc))),
               Consume(Write(s, Word(len, SizeOfLen))), [i \in 1..words |-> i])

ErrorCodeSize(t, v, s) == CacheString(v.message, CacheString(v.category, AddSize(s, 4)))
ErrorCodeEncode(t, v, s) == EncodeCachedString(EncodeCachedString(Write(s, Word(v.value, 4))))
ErrorCodeDecode(t, s) ==
  LET value == Read(s, 4, Value(Peek(s, 4)))
      category == StringDecode(t, value)
      message == StringDecode(t, category)
  IN  [message EXCEPT !.val = [value |-> value.val, category |-> category.val, message |-> message.val]]

-----------------------------------------------------------------------------
(***************************************************************************)
(* The codec of a type, and the arguments of a statement.                  *)
(***************************************************************************)

ComputeSize(t, v, s) ==
  CASE t.k \in {"arithmetic", "enum"} -> ArithmeticSize(t, v, s)
    [] t.k = "chars"     -> CharArraySize(t, v, s)
    [] t.k = "cstring"   -> CStringSize(t, v, s)
    [] t.k = "string"    -> StringSize(t, v, s)
    [] t.k = "array"     -> ArraySize(t, v, s)
    [] t.k = "stdarray"  -> StdArraySize(t, v, s)
    [] t.k = "vector"    -> VectorSize(t, v, s)
    [] t.k = "deque"     -> DequeSize(t, v, s)
    [] t.k = "list"      -> ListSize(t, v, s)
    [] t.k = "forwardlist" -> ForwardListSize(t, v, s)
    [] t.k = "set"       -> StdSetSize(t, v, s)
    [] t.k = "hashset"   -> UnorderedSetSize(t, v, s)
    [] t.k = "map"       -> StdMapSize(t, v, s)
    [] t.k = "hashmap"   -> UnorderedMapSize(t, v, s)
    [] t.k = "pair"      -> PairSize(t, v, s)
    [] t.k = "tuple"     -> TupleSize(t, v, s)
    [] t.k = "members"   -> MembersSize(t, v, s)
    [] t.k = "complex"   -> ComplexSize(t, v, s)
    [] t.k = "optional"  -> OptionalSize(t, v, s)
    [] t.k = "bitset"    -> BitsetSize(t, v, s)
    [] t.k = "object"    -> DeferredSize(t, v, s)
    [] t.k = "variant"   -> VariantSize(t, v, s)
    [] t.k = "direct"    -> DirectSize(t, v, s)
    [] t.k = "binary"    -> BinarySize(t, v, s)
    [] t.k = "stringref" -> StringRefSize(t, v, s)
    [] t.k = "path"      -> PathSize(t, v, s)
    [] t.k = "errorcode" -> ErrorCodeSize(t, v, s)
    [] t.k = "monostate" -> s

Encode(t, v, s) ==
  CASE t.k \in {"arithmetic", "enum"} -> ArithmeticEncode(t, v, s)
    [] t.k = "chars"     -> CharArrayEncode(t, v, s)
    [] t.k = "cstring"   -> CStringEncode(t, v, s)
    [] t.k = "string"    -> StringEncode(t, v, s)
    [] t.k = "array"     -> ArrayEncode(t, v, s)
    [] t.k = "stdarray"  -> StdArrayEncode(t, v, s)
    [] t.k = "vector"    -> VectorEncode(t, v, s)
    [] t.k = "deque"     -> DequeEncode(t, v, s)
    [] t.k = "list"      -> ListEncode(t, v, s)
    [] t.k = "forwardlist" -> ForwardListEncode(t, v, s)
    [] t.k = "set"       -> StdSetEncode(t, v, s)
    [] t.k = "hashset"   -> UnorderedSetEncode(t, v, s)
    [] t.k = "map"       -> StdMapEncode(t, v, s)
    [] t.k = "hashmap"   -> UnorderedMapEncode(t, v, s)
    [] t.k = "pair"      -> PairEncode(t, v, s)
    [] t.k = "tuple"     -> TupleEncode(t, v, s)
    [] t.k = "members"   -> MembersEncode(t, v, s)
    [] t.k = "complex"   -> ComplexEncode(t, v, s)
    [] t.k = "optional"  -> OptionalEncode(t, v, s)
    [] t.k = "bitset"    -> BitsetEncode(t, v, s)
    [] t.k = "object"    -> DeferredEncode(t, v, s)
    [] t.k = "variant"   -> VariantEncode(t, v, s)
    [] t.k = "direct"    -> DirectEncode(t, v, s)
    [] t.k = "binary"    -> BinaryEncode(t, v, s)
    [] t.k = "stringref" -> StringRefEncode(t, v, s)
    [] t.k = "path"      -> PathEncode(t, v, s)
    [] t.k = "errorcode" -> ErrorCodeEncode(t, v, s)
    [] t.k = "monostate" -> s

Decode(t, s) ==
  CASE t.k \in {"arithmetic", "enum"} -> ArithmeticDecode(t, s)
    [] t.k \in {"chars", "cstring"}   -> CStringDecode(t, s)
    [] t.k = "string"    -> StringDecode(t, s)
    [] t.k = "array"     -> ArrayDecode(t, s)
    [] t.k = "stdarray"  -> StdArrayDecode(t, s)
    [] t.k = "vector"    -> VectorDecode(t, s)
    [] t.k = "deque"     -> DequeDecode(t, s)
    [] t.k = "list"      -> ListDecode(t, s)
    [] t.k = "forwardlist" -> ForwardListDecode(t, s)
    [] t.k = "set"       -> StdSetDecode(t, s)
    [] t.k = "hashset"   -> UnorderedSetDecode(t, s)
    [] t.k = "map"       -> StdMapDecode(t, s)
    [] t.k = "hashmap"   -> UnorderedMapDecode(t, s)
    [] t.k = "pair"      -> PairDecode(t, s)
    [] t.k = "tuple"     -> TupleDecode(t, s)
    [] t.k = "members"   -> MembersDecode(t, s)
    [] t.k = "complex"   -> ComplexDecode(t, s)
    [] t.k = "optional"  -> OptionalDecode(t, s)
    [] t.k = "bitset"    -> BitsetDecode(t, s)
    [] t.k = "object"    -> DeferredDecode(t, s)
    [] t.k = "variant"   -> VariantDecode(t, s)
    [] t.k = "direct"    -> DirectDecode(t, s)
    [] t.k = "binary"    -> BinaryDecode(t, s)
    [] t.k = "stringref" -> StringRefDecode(t, s)
    [] t.k = "path"      -> PathDecode(t, s)
    [] t.k = "errorcode" -> ErrorCodeDecode(t, s)
    [] t.k = "monostate" -> MonostateDecode(t, s)

-----------------------------------------------------------------------------
(***************************************************************************)
(* All arguments of a statement.                                           *)
(***************************************************************************)

\* Types that need no cached size.
Uncached(t) == t.k \in {"arithmetic", "string"}

\* compute_encoded_size_and_cache_string_lengths: the cache of the thread is
\* cleared unless no argument can use it.
ArgumentsSize(types, args, cache) ==
  TupleSize([types |-> types], args,
            [size |-> 0, cache |-> IF \A i \in DOMAIN types : Uncached(types[i]) THEN cache
                                   ELSE Clear(cache)])

\* encode: the position in the cache starts at 0.
ArgumentsEncode(types, args, s) == TupleEncode([types |-> types], args, [s EXCEPT !.index = 0])

\* The text a value is printed as.  Characters are told apart, other values not.
IsText(t) == t.k \in {"chars", "cstring", "string", "direct", "path"}
Char(c) == <<"char", c>>
Chars(codes) == [i \in DOMAIN codes |-> Char(codes[i])]
Printed(t, v) == IF IsText(t) THEN Chars(v) ELSE << <<t.k, v>> >>

\* DynamicFormatArgStore::push_back, and has_string_related_type.
StoredArg(t, v) == [text |-> Printed(t, v), stringRelated |-> ~(t.k \in {"arithmetic", "enum"})]

\* DeferredFormatCodec::decode_and_store_arg: an object that throws when it is
\* copied is replaced by a placeholder.
Fallback == [text |-> << <<"text", "[Quill deferred decode failed]">> >>, stringRelated |-> TRUE]
DecodeAndStore(t, s) ==
  [Decode(t, s) EXCEPT !.val = IF t.k = "object" /\ t.throws THEN Fallback ELSE StoredArg(t, @)]

\* decode_and_store_args: the store of the statement.
ArgumentsDecode(types, s) ==
  FoldLeft(LAMBDA acc, t : Gathered(acc, DecodeAndStore(t, acc)), [s EXCEPT !.val = <<>>], types)

-----------------------------------------------------------------------------
(***************************************************************************)
(* What a decoded value should be.                                         *)
(***************************************************************************)

\* The longest string that is kept, with the 0 of a C string.
Kept(chars, max) == SubSeq(chars, 1, IF Len(chars) > max THEN max ELSE Len(chars))

RECURSIVE Meant(_, _)
Meant(t, v) ==
  CASE t.k = "cstring" -> IF v = Null THEN <<>> ELSE Kept(v, MaxStringLength - 1)
    [] t.k \in {"string", "direct", "path"} -> Kept(v, MaxStringLength)
    [] t.k = "binary" -> IF v = Null THEN <<>> ELSE v
    [] t.k = "chars" -> SubSeq(v, 1, Strnlen(v, t.n))
    [] t.k \in {"array", "stdarray", "vector", "deque", "list", "forwardlist", "set"} ->
         [i \in DOMAIN v |-> Meant(t.elem, v[i])]
    [] t.k = "hashset" -> {Meant(t.elem, v[i]) : i \in DOMAIN v}
    [] t.k = "pair" -> <<Meant(t.first, v[1]), Meant(t.second, v[2])>>
    [] t.k = "map" -> [i \in DOMAIN v |-> Meant(KeyAndValue(t), v[i])]
    [] t.k = "hashmap" -> {Meant(KeyAndValue(t), v[i]) : i \in DOMAIN v}
    [] t.k \in {"tuple", "members"} -> [i \in DOMAIN v |-> Meant(t.types[i], v[i])]
    [] t.k = "optional" -> IF v = Null THEN v ELSE <<Meant(t.elem, v[1])>>
    [] t.k = "variant" -> IF v = Null THEN v ELSE <<v[1], Meant(t.types[v[1] + 1], v[2])>>
    [] OTHER -> v

MeantArg(t, v) == IF t.k = "object" /\ t.throws THEN Fallback ELSE StoredArg(t, Meant(t, v))
=============================================================================
