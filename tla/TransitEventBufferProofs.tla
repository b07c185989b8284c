---------------------- MODULE TransitEventBufferProofs ----------------------
(***************************************************************************)
(* The transit event buffer keeps its events, in their order, for every    *)
(* initial capacity, every capacity it grows to and every width of its     *)
(* positions.  A logger's backtrace, which the backend fills with these    *)
(* events, remembers the last ones, for every capacity.                    *)
(***************************************************************************)
EXTENDS TransitEventBuffer, SequenceTheorems, TLAPS

\* The three properties are inductive together.
IInv == TypeOK /\ SizeIsRight /\ EventsIntact

-----------------------------------------------------------------------------
(***************************************************************************)
(* Arithmetic of positions and slots.                                      *)
(***************************************************************************)

\* A capacity divides the range of the positions.
LEMMA CapacityFacts ==
  ASSUME NEW c \in Capacities
  PROVE  c \in Nat /\ c > 0 /\ c < Wrap /\ Wrap \in Nat /\ \E k \in Int : Wrap = c * k
<1>1. c \in Nat /\ c > 0 /\ c < Wrap /\ Wrap \in Nat /\ Wrap % c = 0
  BY ConstantsAssumption
<1>2. Wrap \div c \in Int /\ Wrap = c * (Wrap \div c)
  BY <1>1
<1> QED BY <1>1, <1>2

\* The quotient and the remainder of a position.
LEMMA Division ==
  ASSUME NEW a \in Int, NEW c \in Nat, c > 0
  PROVE  a \div c \in Int /\ a % c \in 0..(c - 1) /\ a = c * (a \div c) + (a % c)
BY SMT

\* A non-zero multiple of c is at least c away from zero.
LEMMA NoSmallMultiple ==
  ASSUME NEW c \in Nat, c > 0, NEW m \in Int, 0 - c < c * m, c * m < c
  PROVE  m = 0
<1>1. CASE m <= -1
  <2>1. c * (0 - m - 1) >= 0 /\ c * (0 - m - 1) = 0 - c * m - c
    BY <1>1
  <2> QED BY <2>1
<1>2. CASE m >= 1
  <2>1. c * (m - 1) >= 0 /\ c * (m - 1) = c * m - c
    BY <1>2
  <2> QED BY <2>1
<1> QED BY <1>1, <1>2

\* A remainder is determined by the number up to multiples of c.
LEMMA SameRemainder ==
  ASSUME NEW a \in Int, NEW b \in Int, NEW c \in Nat, c > 0, NEW q \in Int, a = b + c * q
  PROVE  a % c = b % c
<1> DEFINE qa == a \div c  ra == a % c  qb == b \div c  rb == b % c
<1>1. /\ qa \in Int /\ ra \in 0..(c - 1) /\ a = c * qa + ra
      /\ qb \in Int /\ rb \in 0..(c - 1) /\ b = c * qb + rb
  BY Division
<1> HIDE DEF qa, ra, qb, rb
<1>2. c * (qb + q - qa) = ra - rb
  <2>1. c * (qb + q - qa) = c * qb + c * q - c * qa
    BY <1>1
  <2> QED BY <2>1, <1>1
<1>3. qb + q - qa = 0
  <2>1. 0 - c < ra - rb /\ ra - rb < c
    BY <1>1
  <2> QED BY <2>1, <1>1, <1>2, NoSmallMultiple
<1>4. c * (qb + q - qa) = 0
  BY <1>1, <1>3
<1>5. ra = rb
  BY <1>1, <1>2, <1>4
<1> QED BY <1>5 DEF ra, rb

\* A number below c is its own remainder.
LEMMA SmallRemainder ==
  ASSUME NEW c \in Nat, c > 0, NEW a \in 0..(c - 1)
  PROVE  a % c = a
BY SMT

\* Numbers less than c apart have different remainders.
LEMMA SlotsDiffer ==
  ASSUME NEW a \in Int, NEW b \in Int, NEW c \in Nat, c > 0, a < b, b < a + c
  PROVE  a % c # b % c
<1> SUFFICES ASSUME a % c = b % c PROVE FALSE
  OBVIOUS
<1> DEFINE qa == a \div c  qb == b \div c
<1>1. /\ qa \in Int /\ a % c \in 0..(c - 1) /\ a = c * qa + (a % c)
      /\ qb \in Int /\ b = c * qb + (b % c)
  BY Division
<1> HIDE DEF qa, qb
<1>2. c * (qb - qa) = b - a
  <2>1. c * (qb - qa) = c * qb - c * qa
    BY <1>1
  <2> QED BY <2>1, <1>1
<1>3. qb - qa = 0
  BY <1>1, <1>2, NoSmallMultiple
<1>4. c * (qb - qa) = 0
  BY <1>1, <1>3
<1> QED BY <1>2, <1>4

\* Moving from slot s to its distance from r, and back.
LEMMA MoveAndBack ==
  ASSUME NEW c \in Nat, c > 0, NEW s \in 0..(c - 1), NEW r \in Int
  PROVE  (r + ((s - r) % c)) % c = s
<1> DEFINE i == (s - r) % c  q == (s - r) \div c
           x == (r + i) % c  p == (r + i) \div c
<1>1. q \in Int /\ i \in Int /\ s - r = c * q + i
  BY Division
<1>2. p \in Int /\ x \in 0..(c - 1) /\ r + i = c * p + x
  <2>1. r + i \in Int
    BY <1>1
  <2> QED BY <2>1, Division
<1> HIDE DEF i, q, p, x
<1>3. c * (q + p) = s - x
  <2>1. c * (q + p) = c * q + c * p
    BY <1>1, <1>2
  <2> QED BY <1>1, <1>2, <2>1
<1>4. q + p = 0
  <2>1. 0 - c < s - x /\ s - x < c
    BY <1>2
  <2> QED BY <1>1, <1>2, <1>3, <2>1, NoSmallMultiple
<1>5. c * (q + p) = 0
  BY <1>4
<1>6. x = s
  BY <1>2, <1>3, <1>5
<1> QED BY <1>6 DEF x, i

\* A lap of the positions does not change a slot.
LEMMA LapKeepsSlot ==
  ASSUME NEW a \in Int, NEW c \in Capacities
  PROVE  (a - Wrap) % c = a % c
<1>1. PICK k \in Int : Wrap = c * k
  BY CapacityFacts
<1>2. c \in Nat /\ c > 0 /\ Wrap \in Nat
  BY CapacityFacts
<1>3. PICK b \in Int : b = a - Wrap
  BY <1>2
<1>4. a = b + c * k
  BY <1>1, <1>2, <1>3
<1>5. a % c = b % c
  BY <1>2, <1>4, SameRemainder
<1> QED BY <1>3, <1>5

\* Wrapping a number between minus one and two laps.
LEMMA WrapCases ==
  ASSUME NEW a \in Int, Wrap \in Nat, Wrap > 0
  PROVE  /\ 0 <= a /\ a < Wrap => a % Wrap = a
         /\ Wrap <= a /\ a < 2 * Wrap => a % Wrap = a - Wrap
         /\ 0 - Wrap <= a /\ a < 0 => a % Wrap = a + Wrap
<1>1. 0 <= a /\ a < Wrap => a % Wrap = a
  BY SmallRemainder
<1>2. ASSUME Wrap <= a, a < 2 * Wrap PROVE a % Wrap = a - Wrap
  <2>1. a = (a - Wrap) + Wrap * 1 /\ a - Wrap \in 0..(Wrap - 1)
    BY <1>2
  <2>2. a % Wrap = (a - Wrap) % Wrap
    BY <2>1, SameRemainder
  <2> QED BY <2>1, <2>2, SmallRemainder
<1>3. ASSUME 0 - Wrap <= a, a < 0 PROVE a % Wrap = a + Wrap
  <2>1. a = (a + Wrap) + Wrap * (-1) /\ a + Wrap \in 0..(Wrap - 1)
    BY <1>3
  <2>2. a % Wrap = (a + Wrap) % Wrap
    BY <2>1, SameRemainder
  <2> QED BY <2>1, <2>2, SmallRemainder
<1> QED BY <1>1, <1>2, <1>3
\* Wrapping a position does not change its slot.
LEMMA WrapKeepsSlot ==
  ASSUME NEW a \in Int, 0 <= a, a < 2 * Wrap, NEW c \in Capacities
  PROVE  (a % Wrap) % c = a % c
<1>1. Wrap \in Nat /\ Wrap > 0
  BY CapacityFacts
<1>2. CASE a < Wrap
  BY <1>1, <1>2, WrapCases
<1>3. CASE a >= Wrap
  <2>1. a % Wrap = a - Wrap
    BY <1>1, <1>3, WrapCases
  <2> QED BY <2>1, LapKeepsSlot
<1> QED BY <1>1, <1>2, <1>3

\* The slot of the i-th event after the reader.
LEMMA SlotAfter ==
  ASSUME NEW c \in Capacities, NEW r \in 0..(Wrap - 1), NEW i \in 0..(Wrap - 1)
  PROVE  ((r + i) % Wrap) % c = (r + i) % c
<1>1. Wrap \in Nat /\ Wrap > 0
  BY CapacityFacts
<1>2. r + i \in Int /\ 0 <= r + i /\ r + i < 2 * Wrap
  BY <1>1
<1> QED BY <1>2, WrapKeepsSlot

\* The writer is size() positions ahead of the reader.
LEMMA SizeFacts ==
  ASSUME Wrap \in Nat, Wrap > 0, NEW r \in 0..(Wrap - 1), NEW w \in 0..(Wrap - 1)
  PROVE  /\ (w - r) % Wrap \in 0..(Wrap - 1)
         /\ w = (r + ((w - r) % Wrap)) % Wrap
         /\ (w - r) % Wrap = 0 <=> w = r
         /\ (w - r) % Wrap < Wrap - 1 =>
              (((w + 1) % Wrap) - r) % Wrap = ((w - r) % Wrap) + 1
         /\ w # r => (w - ((r + 1) % Wrap)) % Wrap = ((w - r) % Wrap) - 1
<1> DEFINE sz == (w - r) % Wrap
<1>1. sz = IF w >= r THEN w - r ELSE w - r + Wrap
  BY WrapCases
<1> HIDE DEF sz
<1>2. sz \in 0..(Wrap - 1) /\ (sz = 0 <=> w = r)
  BY <1>1
<1>3. w = (r + sz) % Wrap
  <2>1. r + sz \in Int /\ 0 <= r + sz /\ r + sz < 2 * Wrap
    BY <1>2
  <2>2. w = IF r + sz < Wrap THEN r + sz ELSE r + sz - Wrap
    BY <1>1
  <2>3. CASE r + sz < Wrap
    BY <2>1, <2>2, <2>3, WrapCases
  <2>4. CASE r + sz >= Wrap
    <3>1. PICK b \in Int : b = r + sz
      BY <2>1
    <3>2. b % Wrap = b - Wrap
      BY <2>1, <2>4, <3>1, WrapCases
    <3>3. w = b - Wrap
      BY <1>2, <2>2, <2>4, <3>1
    <3> QED BY <3>1, <3>2, <3>3
  <2> QED BY <2>1, <2>3, <2>4
<1>4. ASSUME sz < Wrap - 1 PROVE (((w + 1) % Wrap) - r) % Wrap = sz + 1
  <2>1. CASE w + 1 < Wrap
    <3>1. (w + 1) % Wrap = w + 1
      BY <2>1, WrapCases
    <3>2. (w + 1 - r) % Wrap = IF w + 1 >= r THEN w + 1 - r ELSE w + 1 - r + Wrap
      BY <2>1, WrapCases
    <3> QED BY <1>1, <1>4, <2>1, <3>1, <3>2
  <2>2. CASE w + 1 = Wrap
    <3>1. (w + 1) % Wrap = 0
      BY <2>2, WrapCases
    <3>2. r # 0
      BY <1>1, <1>4, <2>2
    <3>3. (0 - r) % Wrap = 0 - r + Wrap
      BY <3>2, WrapCases
    <3> QED BY <1>1, <2>2, <3>1, <3>3
  <2> QED BY <2>1, <2>2
<1>5. ASSUME w # r PROVE (w - ((r + 1) % Wrap)) % Wrap = sz - 1
  <2>1. CASE r + 1 < Wrap
    <3>1. (r + 1) % Wrap = r + 1
      BY <2>1, WrapCases
    <3>2. (w - (r + 1)) % Wrap = IF w >= r + 1 THEN w - (r + 1) ELSE w - (r + 1) + Wrap
      BY <2>1, WrapCases
    <3> QED BY <1>1, <1>5, <2>1, <3>1, <3>2
  <2>2. CASE r + 1 = Wrap
    <3>1. (r + 1) % Wrap = 0
      BY <2>2, WrapCases
    <3>2. (w - 0) % Wrap = w
      BY WrapCases
    <3> QED BY <1>1, <1>5, <2>2, <3>1, <3>2
  <2> QED BY <2>1, <2>2
<1> QED BY <1>2, <1>3, <1>4, <1>5 DEF sz

-----------------------------------------------------------------------------
(***************************************************************************)
(* The invariant.                                                          *)
(***************************************************************************)

\* What every step may use: the sizes, and the events by their slots.
LEMMA StateFacts ==
  ASSUME IInv
  PROVE  /\ capacity \in Capacities /\ capacity \in Nat /\ capacity > 0 /\ capacity < Wrap
         /\ Wrap \in Nat /\ Wrap > 0
         /\ Size \in 0..(Wrap - 1) /\ Size = Len(content) /\ Size <= capacity
         /\ writerPos % capacity = (readerPos + Size) % capacity
         /\ \A i \in 1..Len(content) : storage[(readerPos + i - 1) % capacity] = content[i]
<1>1. /\ capacity \in Capacities /\ capacity \in Nat /\ capacity > 0 /\ capacity < Wrap
      /\ Wrap \in Nat /\ Wrap > 0 /\ readerPos \in 0..(Wrap - 1) /\ writerPos \in 0..(Wrap - 1)
  BY CapacityFacts DEF IInv, TypeOK
<1>2. Size \in 0..(Wrap - 1) /\ writerPos = (readerPos + Size) % Wrap
  BY <1>1, SizeFacts DEF Size
<1>3. Size = Len(content) /\ Size <= capacity
  BY DEF IInv, SizeIsRight
<1>4. writerPos % capacity = (readerPos + Size) % capacity
  BY <1>1, <1>2, SlotAfter
<1>5. ASSUME NEW i \in 1..Len(content)
      PROVE  storage[(readerPos + i - 1) % capacity] = content[i]
  <2>1. i - 1 \in 0..(Wrap - 1) /\ readerPos + i - 1 = readerPos + (i - 1)
    BY <1>1, <1>2, <1>3
  <2>2. ((readerPos + i - 1) % Wrap) % capacity = (readerPos + i - 1) % capacity
    BY <1>1, <2>1, SlotAfter
  <2> QED BY <2>2 DEF IInv, EventsIntact, At
<1> QED BY <1>1, <1>2, <1>3, <1>4, <1>5

\* The initial buffer is empty.
LEMMA InitIInv == Init => IInv
<1> SUFFICES ASSUME Init PROVE IInv
  OBVIOUS
<1>1. /\ InitialCapacity \in Capacities /\ InitialCapacity \in Nat
      /\ Wrap \in Nat /\ Wrap > 0 /\ InitialCapacity > 0
  BY ConstantsAssumption
<1>2. TypeOK
  <2>1. storage \in [Slots -> Events \cup {NoEvent}]
    BY DEF Init
  <2>2. 0 \in 0..(Wrap - 1)
    BY <1>1
  <2>3. content \in Seq(Events)
    BY DEF Init
  <2> QED BY <1>1, <2>1, <2>2, <2>3 DEF Init, TypeOK
<1>3. SizeIsRight
  <2>1. Size = 0
    BY <1>1, SizeFacts DEF Init, Size
  <2> QED BY <1>1, <2>1 DEF Init, SizeIsRight
<1>4. EventsIntact
  BY DEF Init, EventsIntact
<1> QED BY <1>2, <1>3, <1>4 DEF IInv

\* back() takes a slot that holds no event.
LEMMA BackStep == ASSUME IInv, NEW e \in Events, Back(e) PROVE IInv'
<1>0. TypeOK /\ SizeIsRight
  BY DEF IInv
<1>1. writerPos % capacity \in Slots
  BY <1>0, StateFacts, Division DEF Slots, TypeOK
<1>2. TypeOK'
  BY <1>0, <1>1 DEF Back, TypeOK, Slots
<1>3. Size' = Size /\ Size < capacity
  BY <1>0, StateFacts DEF Back, Size
<1>4. storage'[writerPos % capacity] = e
  BY <1>0, <1>1 DEF Back, TypeOK
<1>5. SizeIsRight'
  BY <1>0, <1>3, <1>4 DEF Back, SizeIsRight, At
<1>6. ASSUME NEW i \in 1..Len(content')
      PROVE  At((readerPos + i - 1) % Wrap)' = content'[i]
  <2>1. content' = content /\ readerPos' = readerPos /\ capacity' = capacity
    BY DEF Back
  <2>2. /\ i \in Int /\ 1 <= i /\ i <= Size /\ Size \in Int /\ capacity \in Int
        /\ i - 1 \in 0..(Wrap - 1) /\ readerPos \in 0..(Wrap - 1)
        /\ readerPos + i - 1 = readerPos + (i - 1)
    BY <1>0, <2>1, StateFacts DEF TypeOK
  <2>3. ((readerPos + i - 1) % Wrap) % capacity = (readerPos + i - 1) % capacity
    BY <2>2, StateFacts, SlotAfter
  <2>4. (readerPos + i - 1) % capacity # (readerPos + Size) % capacity
    <3>1. /\ readerPos + i - 1 \in Int /\ readerPos + Size \in Int
          /\ readerPos + i - 1 < readerPos + Size
          /\ readerPos + Size < readerPos + i - 1 + capacity
      BY <1>3, <2>2
    <3> QED BY <3>1, StateFacts, SlotsDiffer
  <2>5. (readerPos + i - 1) % capacity \in Slots
    BY <2>2, StateFacts, Division DEF Slots
  <2>6. storage'[(readerPos + i - 1) % capacity] = storage[(readerPos + i - 1) % capacity]
    BY <1>0, <2>4, <2>5, StateFacts DEF Back, TypeOK
  <2> QED BY <2>1, <2>3, <2>6, StateFacts DEF At
<1> QED BY <1>2, <1>5, <1>6 DEF IInv, EventsIntact

\* Expanding moves the events to the front in their order.
LEMMA ExpandStep == ASSUME IInv, Expand PROVE IInv'
<1>0. TypeOK /\ SizeIsRight
  BY DEF IInv
<1>1. /\ capacity' = 2 * capacity /\ capacity' \in Capacities /\ readerPos' = 0
      /\ writerPos' = Size /\ content' = content /\ Size = capacity /\ ~filled'
  BY DEF Expand
<1>2. ASSUME NEW i \in 0..(Size - 1)
      PROVE  /\ At((readerPos + i) % Wrap) = content[i + 1]
             /\ content[i + 1] \in Events
  <2>1. /\ i + 1 \in 1..Len(content) /\ i \in 0..(Wrap - 1) /\ readerPos \in 0..(Wrap - 1)
        /\ readerPos + (i + 1) - 1 = readerPos + i
    BY <1>0, StateFacts DEF TypeOK
  <2>2. ((readerPos + i) % Wrap) % capacity = (readerPos + i) % capacity
    BY <2>1, StateFacts, SlotAfter
  <2>3. storage[(readerPos + (i + 1) - 1) % capacity] = content[i + 1]
    BY <2>1, StateFacts
  <2> QED BY <1>0, <2>1, <2>2, <2>3 DEF At, TypeOK
<1>3. storage' = [i \in 0..(2 * capacity - 1) |->
                    IF i < Size THEN At((readerPos + i) % Wrap) ELSE NoEvent]
  BY DEF Expand
<1>4. TypeOK'
  <2>1. storage' \in [0..(capacity' - 1) -> Events \cup {NoEvent}]
    <3>1. \A i \in 0..(2 * capacity - 1) : i < Size => i \in 0..(Size - 1)
      BY StateFacts
    <3> QED BY <1>1, <1>2, <1>3, <3>1
  <2>2. Size \in 0..(Wrap - 1)
    BY StateFacts
  <2>3. 0 \in 0..(Wrap - 1)
    BY StateFacts
  <2> QED BY <1>0, <1>1, <2>1, <2>2, <2>3 DEF Expand, TypeOK, Slots
<1>5. Size' = Size
  <2>1. (Size - 0) % Wrap = Size
    BY StateFacts, WrapCases
  <2> QED BY <1>1, <2>1 DEF Size
<1>6. SizeIsRight'
  <2>1. Size <= 2 * capacity
    BY StateFacts
  <2> QED BY <1>0, <1>1, <1>5, <2>1 DEF SizeIsRight
<1>7. ASSUME NEW i \in 1..Len(content')
      PROVE  At((readerPos + i - 1) % Wrap)' = content'[i]
  <2>1. /\ i - 1 \in 0..(Size - 1) /\ i - 1 \in 0..(Wrap - 1) /\ i - 1 \in 0..(2 * capacity - 1)
        /\ 0 + i - 1 = i - 1 /\ (i - 1) + 1 = i
    BY <1>1, StateFacts
  <2>2. (0 + i - 1) % Wrap = i - 1
    BY <2>1, StateFacts, SmallRemainder
  <2>3. (i - 1) % (2 * capacity) = i - 1
    <3>1. PICK d \in Nat : d = 2 * capacity
      BY StateFacts
    <3>2. d > 0 /\ i - 1 \in 0..(d - 1)
      BY <2>1, <3>1, StateFacts
    <3> QED BY <3>1, <3>2, SmallRemainder
  <2>4. storage'[i - 1] = content[i]
    <3>1. PICK j \in 0..(Size - 1) : j = i - 1
      BY <2>1
    <3>2. At((readerPos + j) % Wrap) = content[j + 1]
      BY <1>2
    <3>3. j < Size /\ j \in 0..(2 * capacity - 1) /\ j + 1 = i
      BY <2>1, <3>1, StateFacts
    <3> QED BY <1>3, <3>1, <3>2, <3>3
  <2> QED BY <1>1, <2>2, <2>3, <2>4 DEF At
<1> QED BY <1>4, <1>6, <1>7 DEF IInv, EventsIntact

\* A failed expansion moves every event back to its slot.
LEMMA ExpandThrowsStep == ASSUME IInv, ExpandThrows PROVE IInv'
<1>0. TypeOK
  BY DEF IInv
<1>1. ASSUME NEW s \in Slots
      PROVE  storage'[s] = storage[s]
  <2> DEFINE i == (s - readerPos) % capacity
  <2>1. s \in Int /\ readerPos \in 0..(Wrap - 1) /\ s \in 0..(capacity - 1) /\ s - readerPos \in Int
    BY <1>0, StateFacts DEF Slots, TypeOK
  <2>2. i \in 0..(capacity - 1)
    BY <2>1, StateFacts, Division
  <2>3. i \in 0..(Size - 1) /\ i \in 0..(Wrap - 1)
    BY <2>2, StateFacts DEF ExpandThrows
  <2>4. (readerPos + i) % capacity = s
    <3>1. capacity \in Nat /\ capacity > 0 /\ readerPos \in Int
      BY <2>1, StateFacts
    <3> QED BY <2>1, <3>1, MoveAndBack
  <2>5. ((readerPos + i) % Wrap) % capacity = s
    BY <2>1, <2>3, <2>4, StateFacts, SlotAfter
  <2>6. storage'[s] = At((readerPos + i) % Wrap)
    BY <2>3 DEF ExpandThrows
  <2> QED BY <2>5, <2>6 DEF At
<1>2. storage' = storage
  <2>1. storage \in [Slots -> Events \cup {NoEvent}]
    BY <1>0 DEF TypeOK
  <2>2. storage' = [s \in Slots |-> storage'[s]]
    BY DEF ExpandThrows
  <2> QED BY <1>1, <2>1, <2>2
<1> QED BY <1>2 DEF ExpandThrows, IInv, TypeOK, SizeIsRight, EventsIntact, Size, At, Slots

\* push_back() adds the event that fills the slot at the writer.
LEMMA PushBackStep == ASSUME IInv, PushBack PROVE IInv'
<1>0. TypeOK /\ SizeIsRight
  BY DEF IInv
<1>1. /\ readerPos \in 0..(Wrap - 1) /\ writerPos \in 0..(Wrap - 1) /\ content \in Seq(Events)
      /\ pending \in Events /\ Size < capacity /\ At(writerPos) = pending
  BY <1>0 DEF TypeOK, SizeIsRight, PushBack
<1>2. writerPos' \in 0..(Wrap - 1)
  BY <1>1, StateFacts, Division DEF PushBack
<1>3. content' \in Seq(Events) /\ Len(content') = Len(content) + 1
  BY <1>1 DEF PushBack
<1>4. TypeOK'
  BY <1>0, <1>2, <1>3 DEF PushBack, TypeOK, Slots
<1>5. Size' = Size + 1
  <2>1. Wrap \in Nat /\ Wrap > 0 /\ Size < Wrap - 1
    BY <1>1, StateFacts
  <2>2. (((writerPos + 1) % Wrap) - readerPos) % Wrap = ((writerPos - readerPos) % Wrap) + 1
    BY <1>1, <2>1, SizeFacts DEF Size
  <2> QED BY <2>2 DEF PushBack, Size
<1>6. SizeIsRight'
  BY <1>1, <1>3, <1>5, StateFacts DEF PushBack, SizeIsRight
<1>7. ASSUME NEW i \in 1..Len(content')
      PROVE  At((readerPos + i - 1) % Wrap)' = content'[i]
  <2>1. capacity' = capacity /\ storage' = storage /\ readerPos' = readerPos
    BY DEF PushBack
  <2>2. /\ i \in Int /\ i - 1 \in 0..(Wrap - 1)
        /\ readerPos + i - 1 = readerPos + (i - 1)
    BY <1>1, <1>3, StateFacts
  <2>3. ((readerPos + i - 1) % Wrap) % capacity = (readerPos + i - 1) % capacity
    BY <1>1, <2>2, StateFacts, SlotAfter
  <2>4. CASE i <= Len(content)
    <3>1. i \in 1..Len(content) /\ content'[i] = content[i]
      BY <1>1, <2>2, <2>4 DEF PushBack
    <3> QED BY <2>1, <2>3, <3>1, StateFacts DEF At
  <2>5. CASE i = Len(content) + 1
    <3>1. content'[i] = pending
      BY <1>1, <2>5 DEF PushBack
    <3>2. readerPos + i - 1 = readerPos + Size
      <4>1. Size = Len(content) /\ Size \in Int /\ readerPos \in Int
        BY <1>1, StateFacts
      <4> QED BY <2>5, <4>1
    <3>3. storage[writerPos % capacity] = pending
      BY <1>1 DEF At
    <3> QED BY <2>1, <2>3, <3>1, <3>2, <3>3, StateFacts DEF At
  <2> QED BY <1>1, <1>3, <2>2, <2>4, <2>5
<1> QED BY <1>4, <1>6, <1>7 DEF IInv, EventsIntact

\* pop_front() removes the first event.
LEMMA PopFrontStep == ASSUME IInv, PopFront PROVE IInv'
<1>0. TypeOK /\ SizeIsRight
  BY DEF IInv
<1>1. /\ readerPos \in 0..(Wrap - 1) /\ writerPos \in 0..(Wrap - 1) /\ content \in Seq(Events)
      /\ readerPos # writerPos
  BY <1>0 DEF TypeOK, PopFront
<1>2. readerPos' \in 0..(Wrap - 1)
  BY <1>1, StateFacts, Division DEF PopFront
<1>3. Size' = Size - 1 /\ Size > 0
  <2>1. Wrap \in Nat /\ Wrap > 0 /\ Size \in 0..(Wrap - 1)
    BY StateFacts
  <2>2. Size # 0
    BY <1>1, <2>1, SizeFacts DEF Size
  <2>3. (writerPos - ((readerPos + 1) % Wrap)) % Wrap = ((writerPos - readerPos) % Wrap) - 1
    BY <1>1, <2>1, SizeFacts
  <2>4. Size' = Size - 1
    BY <2>3 DEF PopFront, Size
  <2> QED BY <2>1, <2>2, <2>4
<1>4. content # <<>> /\ Len(content) > 0
  BY <1>1, <1>3, StateFacts
<1>5. /\ content' \in Seq(Events) /\ Len(content') = Len(content) - 1
      /\ \A i \in 1..Len(content') : content'[i] = content[i + 1]
  BY <1>1, <1>4 DEF PopFront
<1>6. TypeOK'
  BY <1>0, <1>2, <1>5 DEF PopFront, TypeOK, Slots
<1>7. SizeIsRight'
  BY <1>3, <1>5, StateFacts DEF PopFront, SizeIsRight
<1>8. ASSUME NEW i \in 1..Len(content')
      PROVE  At((readerPos + i - 1) % Wrap)' = content'[i]
  <2>1. capacity' = capacity /\ storage' = storage
    BY DEF PopFront
  <2>2. /\ i \in Int /\ i - 1 \in 0..(Wrap - 1) /\ i + 1 \in 1..Len(content)
        /\ readerPos' + i - 1 = readerPos' + (i - 1) /\ readerPos + (i + 1) - 1 = readerPos + i
    BY <1>1, <1>2, <1>5, StateFacts
  <2>3. ((readerPos' + i - 1) % Wrap) % capacity = (readerPos' + i - 1) % capacity
    BY <1>2, <2>2, StateFacts, SlotAfter
  <2>4. (readerPos' + i - 1) % capacity = (readerPos + i) % capacity
    <3>1. CASE readerPos + 1 < Wrap
      <4>1. readerPos' = readerPos + 1
        BY <1>1, <3>1, StateFacts, WrapCases DEF PopFront
      <4> QED BY <1>1, <2>2, <4>1
    <3>2. CASE readerPos + 1 = Wrap
      <4>1. readerPos' = 0
        BY <1>1, <3>2, StateFacts, WrapCases DEF PopFront
      <4>2. PICK a \in Int : a = readerPos + i
        BY <1>1, <2>2
      <4>3. readerPos' + i - 1 = a - Wrap
        <5>1. readerPos \in Int /\ i \in Int /\ Wrap \in Int
          BY <1>1, <2>2, StateFacts
        <5> QED BY <3>2, <4>1, <4>2, <5>1
      <4>4. (a - Wrap) % capacity = a % capacity
        BY StateFacts, LapKeepsSlot
      <4> QED BY <4>2, <4>3, <4>4, Zenon
    <3>3. readerPos + 1 < Wrap \/ readerPos + 1 = Wrap
      BY <1>1, StateFacts
    <3> QED BY <3>1, <3>2, <3>3, Zenon
  <2>5. storage[(readerPos + i) % capacity] = content[i + 1]
    <3>1. storage[(readerPos + (i + 1) - 1) % capacity] = content[i + 1]
      BY <2>2, StateFacts
    <3> QED BY <2>2, <3>1
  <2> QED BY <1>5, <2>1, <2>3, <2>4, <2>5 DEF At
<1> QED BY <1>6, <1>7, <1>8 DEF IInv, EventsIntact

\* An empty buffer loses nothing when its storage is replaced.
LEMMA TryShrinkStep == ASSUME IInv, TryShrink PROVE IInv'
<1>0. TypeOK /\ SizeIsRight /\ EventsIntact
  BY DEF IInv
<1>1. Size = 0 /\ Len(content) = 0 /\ content' = content /\ ~filled'
  BY <1>0, StateFacts, SizeFacts DEF TryShrink, Size, TypeOK
<1>2. EventsIntact'
  BY <1>1 DEF EventsIntact
<1>3. CASE capacity > InitialCapacity
  <2>1. /\ InitialCapacity \in Capacities /\ InitialCapacity \in Nat /\ InitialCapacity > 0
        /\ Wrap \in Nat /\ Wrap > 0
    BY ConstantsAssumption
  <2>2. /\ capacity' = InitialCapacity /\ readerPos' = 0 /\ writerPos' = 0
        /\ storage' = [i \in 0..(InitialCapacity - 1) |-> NoEvent]
    BY <1>3 DEF TryShrink
  <2>3. TypeOK'
    <3>1. storage' \in [0..(InitialCapacity - 1) -> Events \cup {NoEvent}]
      BY <2>2
    <3>2. 0 \in 0..(Wrap - 1)
      BY <2>1
    <3> QED BY <1>0, <2>1, <2>2, <3>1, <3>2 DEF TryShrink, TypeOK, Slots
  <2>4. Size' = 0
    BY <2>1, <2>2, SizeFacts DEF Size
  <2>5. SizeIsRight'
    BY <1>1, <2>1, <2>2, <2>4 DEF SizeIsRight
  <2> QED BY <1>2, <2>3, <2>5 DEF IInv
<1>4. CASE ~(capacity > InitialCapacity)
  <2>1. UNCHANGED <<capacity, storage, readerPos, writerPos, filled, pending, content>>
    BY <1>4 DEF TryShrink
  <2>2. TypeOK'
    BY <1>0, <2>1 DEF TryShrink, TypeOK, Slots
  <2>3. SizeIsRight'
    BY <1>0, <2>1 DEF SizeIsRight, Size, At
  <2> QED BY <1>2, <2>2, <2>3 DEF IInv
<1> QED BY <1>3, <1>4

\* Every step keeps the invariant.
LEMMA NextIInv == IInv /\ [Next]_vars => IInv'
<1> SUFFICES ASSUME IInv, [Next]_vars PROVE IInv'
  OBVIOUS
<1>1. ASSUME NEW e \in Events, Back(e) PROVE IInv'
  BY <1>1, BackStep
<1>2. CASE Expand
  BY <1>2, ExpandStep
<1>3. CASE ExpandThrows
  BY <1>3, ExpandThrowsStep
<1>4. CASE PushBack
  BY <1>4, PushBackStep
<1>5. CASE Abandon
  BY <1>5 DEF Abandon, IInv, TypeOK, SizeIsRight, EventsIntact, Size, At, Slots
<1>6. CASE PopFront
  BY <1>6, PopFrontStep
<1>7. CASE RequestShrink
  BY <1>7 DEF RequestShrink, IInv, TypeOK, SizeIsRight, EventsIntact, Size, At, Slots
<1>8. CASE TryShrink
  BY <1>8, TryShrinkStep
<1>9. CASE UNCHANGED vars
  BY <1>9 DEF vars, IInv, TypeOK, SizeIsRight, EventsIntact, Size, At, Slots
<1> QED BY <1>1, <1>2, <1>3, <1>4, <1>5, <1>6, <1>7, <1>8, <1>9 DEF Next

\* The invariant holds in every state of the buffer.
THEOREM Invariance == Spec => []IInv
BY InitIInv, NextIInv, PTL DEF Spec

\* front() and pop_front() deliver exactly the events that were pushed, in
\* their order, whatever the buffer does in between: positions that wrap,
\* expansions that succeed or throw, abandoned slots, shrinking.
THEOREM EventsStayIntact == Spec => []EventsIntact
<1>1. IInv => EventsIntact
  BY DEF IInv
<1> QED BY <1>1, Invariance, PTL

\* size() is the number of events, and a slot from back() is never one that
\* still holds an event.
THEOREM SizeStaysRight == Spec => []SizeIsRight
<1>1. IInv => SizeIsRight
  BY DEF IInv
<1> QED BY <1>1, Invariance, PTL

\* The storage always has the slots of the capacity.
THEOREM TypeCorrectness == Spec => []TypeOK
<1>1. IInv => TypeOK
  BY DEF IInv
<1> QED BY <1>1, Invariance, PTL
-----------------------------------------------------------------------------
(***************************************************************************)
(* The backtrace implements its promise: the events that process() would   *)
(* visit are the ones that the promise remembers.                          *)
(***************************************************************************)

VARIABLES created, limit, index, stored, output

Trace == INSTANCE BacktraceStorage WITH capacity <- limit

Promise == INSTANCE LastEvents
             WITH Event <- Events, n <- limit, recent <- Trace!Visited(Len(stored))

traceVars == <<created, limit, index, stored, output>>

\* The vector never exceeds its capacity, and is visited from its front until
\* it is full: this is why a storage that is not full may append.
TraceInv ==
  /\ created \in BOOLEAN /\ limit \in Nat /\ index \in Nat
  /\ stored \in Seq(Events)
  /\ Len(stored) <= limit
  /\ created => limit > 0 /\ index < limit
  /\ ~created => limit = 0
  /\ Len(stored) < limit => index = 0

LEMMA TraceInitially ==
  ASSUME Trace!Init PROVE TraceInv /\ Promise!Init
<1>1. stored = <<>> /\ Len(stored) = 0 /\ limit = 0 /\ index = 0 /\ output = <<>> /\ created = FALSE
  BY DEF Trace!Init
<1>2. stored \in Seq(Events)
  BY <1>1
<1>3. limit \in Nat /\ index \in Nat /\ Len(stored) <= limit /\ ~(Len(stored) < limit)
  BY <1>1
<1>4. created = FALSE /\ limit = 0
  BY <1>1
<1>5. TraceInv
  BY <1>2, <1>3, <1>4 DEF TraceInv
<1>6. Trace!Visited(Len(stored)) = <<>>
  BY <1>1 DEF Trace!Visited
<1> QED BY <1>1, <1>5, <1>6 DEF Promise!Init

\* The slot the walk reaches after i steps.
LEMMA CircleSlot ==
  ASSUME NEW a \in Nat, NEW i \in Int, NEW c \in Nat, a < c, 1 <= i, i <= c
  PROVE  (a + i - 1) % c = IF a + i - 1 < c THEN a + i - 1 ELSE a + i - 1 - c
<1>1. CASE a + i - 1 < c
  <2>1. a + i - 1 \in 0..(c - 1)
    BY <1>1
  <2> QED BY <2>1, <1>1, SmallRemainder
<1>2. CASE ~(a + i - 1 < c)
  <2>1. a + i - 1 - c \in 0..(c - 1) /\ a + i - 1 \in Int /\ c > 0
    BY <1>2
  <2>2. a + i - 1 = (a + i - 1 - c) + c * 1
    BY <2>1
  <2>3. (a + i - 1) % c = (a + i - 1 - c) % c
    BY <2>1, <2>2, SameRemainder
  <2>4. (a + i - 1 - c) % c = a + i - 1 - c
    BY <2>1, SmallRemainder
  <2> QED BY <2>3, <2>4, <1>2
<1> QED BY <1>1, <1>2

\* The walk over a storage, element by element.
LEMMA WalkFacts ==
  ASSUME TraceInv, created, NEW k \in 0..Len(stored)
  PROVE  /\ Trace!Visited(k) \in Seq(Events) /\ Len(Trace!Visited(k)) = k
         /\ \A i \in 1..k :
              /\ IF index + i - 1 < Len(stored) THEN index + i - 1 \in 0..(Len(stored) - 1)
                   ELSE index + i - 1 - Len(stored) \in 0..(Len(stored) - 1)
              /\ Trace!Visited(k)[i] =
                   IF index + i - 1 < Len(stored) THEN stored[index + i]
                     ELSE stored[index + i - Len(stored)]
<1> DEFINE len == Len(stored)
<1>1. /\ len \in Nat /\ index \in Nat /\ k \in Nat /\ k <= len /\ limit \in Nat /\ len <= limit
      /\ len < limit => index = 0
      /\ index < limit
      /\ stored \in Seq(Events)
  BY DEF TraceInv
<1>2. ASSUME NEW i \in 1..k
      PROVE  /\ IF index + i - 1 < len THEN index + i - 1 \in 0..(len - 1)
                  ELSE index + i - 1 - len \in 0..(len - 1)
             /\ stored[((index + i - 1) % len) + 1] =
                  IF index + i - 1 < len THEN stored[index + i] ELSE stored[index + i - len]
             /\ stored[((index + i - 1) % len) + 1] \in Events
  <2> HIDE DEF len
  <2>1. i \in Int /\ 1 <= i /\ i <= len /\ index < len
    BY <1>1
  <2>2. (index + i - 1) % len = IF index + i - 1 < len THEN index + i - 1 ELSE index + i - 1 - len
    BY <2>1, <1>1, CircleSlot
  <2>3. ((index + i - 1) % len) + 1 = IF index + i - 1 < len THEN index + i ELSE index + i - len
    BY <2>1, <2>2, <1>1
  <2>4. (IF index + i - 1 < len THEN index + i ELSE index + i - len) \in 1..len
    BY <2>1, <1>1
  <2>5. stored[((index + i - 1) % len) + 1] =
                  IF index + i - 1 < len THEN stored[index + i] ELSE stored[index + i - len]
    BY <2>3
  <2>6. \A s \in 1..len : stored[s] \in Events
    BY <1>1 DEF len
  <2>7. stored[((index + i - 1) % len) + 1] \in Events
    BY <2>3, <2>4, <2>6
  <2>8. IF index + i - 1 < len THEN index + i - 1 \in 0..(len - 1)
                  ELSE index + i - 1 - len \in 0..(len - 1)
    BY <2>1, <1>1
  <2> QED BY <2>5, <2>7, <2>8
<1>3. Trace!Visited(k) = [i \in 1..k |-> stored[((index + i - 1) % len) + 1]]
  BY DEF Trace!Visited
<1>4. Trace!Visited(k) \in Seq(Events)
  BY <1>1, <1>2, <1>3
<1>5. Len(Trace!Visited(k)) = k
  BY <1>1, <1>3
<1>6. \A i \in 1..k : Trace!Visited(k)[i] = stored[((index + i - 1) % len) + 1]
  BY <1>3
<1> QED BY <1>2, <1>4, <1>5, <1>6


WalkRight ==
  LET all == Trace!Visited(Len(stored))
  IN  /\ all \in Seq(Events) /\ Len(all) = Len(stored)
      /\ \A i \in 1..Len(stored) :
           /\ IF index + i - 1 < Len(stored) THEN index + i - 1 \in 0..(Len(stored) - 1)
                ELSE index + i - 1 - Len(stored) \in 0..(Len(stored) - 1)
           /\ all[i] = IF index + i - 1 < Len(stored) THEN stored[index + i]
                         ELSE stored[index + i - Len(stored)]

\* A walk over the whole storage, in this state and in the next.
LEMMA WalkAll == TraceInv /\ created => WalkRight
<1> SUFFICES ASSUME TraceInv, created PROVE WalkRight
  OBVIOUS
<1>1. Len(stored) \in Nat
  BY DEF TraceInv
<1>2. Len(stored) \in 0..Len(stored)
  BY <1>1
<1> QED BY <1>2, WalkFacts DEF WalkRight

LEMMA WalkNext == (TraceInv /\ created => WalkRight)'
BY WalkAll, PTL

\* A full storage overwrites its oldest event; the walk then starts behind it.
LEMMA StoreIsRemember ==
  ASSUME TraceInv, created, NEW e \in Events, Trace!Store(e)
  PROVE  TraceInv' /\ Promise!Remember(e)
<1> DEFINE len == Len(stored)
           walk == Trace!Visited(Len(stored))
           longer == Append(walk, e)
<1>1. /\ len \in Nat /\ index \in Nat /\ limit \in Nat /\ len <= limit /\ limit > 0
      /\ len < limit => index = 0
      /\ index < limit
      /\ stored \in Seq(Events)
  BY DEF TraceInv
<1>2. created' = created /\ limit' = limit /\ output' = output
  BY DEF Trace!Store
<1>3. /\ walk \in Seq(Events) /\ Len(walk) = len
      /\ \A i \in 1..len :
              /\ IF index + i - 1 < len THEN index + i - 1 \in 0..(len - 1)
                   ELSE index + i - 1 - len \in 0..(len - 1)
              /\ walk[i] = IF index + i - 1 < len THEN stored[index + i]
                             ELSE stored[index + i - len]
  <2> QED BY WalkAll DEF WalkRight
<1>4. /\ longer \in Seq(Events) /\ Len(longer) = len + 1
      /\ longer[len + 1] = e /\ \A i \in 1..len : longer[i] = walk[i]
  <2> HIDE DEF walk, len
  <2>1. walk \in Seq(Events) /\ Len(walk) = len
    BY <1>3
  <2>2. /\ longer \in Seq(Events) /\ Len(longer) = Len(walk) + 1
        /\ longer[Len(walk) + 1] = e /\ \A i \in 1..Len(walk) : longer[i] = walk[i]
    BY <2>1, AppendProperties
  <2> QED BY <2>1, <2>2
<1>5. CASE len < limit
  <2>1. stored' = Append(stored, e) /\ index' = index /\ index = 0
    BY <1>1, <1>5 DEF Trace!Store
  <2>2. /\ stored' \in Seq(Events) /\ Len(stored') = len + 1
        /\ stored'[len + 1] = e /\ \A i \in 1..len : stored'[i] = stored[i]
    BY <1>1, <2>1, AppendProperties
  <2>3. Len(stored') <= limit /\ index' \in Nat /\ index' < limit
    BY <1>1, <1>5, <2>1, <2>2
  <2>4. TraceInv'
    BY <1>1, <1>2, <2>1, <2>2, <2>3 DEF TraceInv
  <2>5. /\ Trace!Visited(Len(stored))' \in Seq(Events)
        /\ Len(Trace!Visited(Len(stored))') = len + 1
        /\ \A i \in 1..(len + 1) : Trace!Visited(Len(stored))'[i] = stored'[i]
    <3>1. (len + 1) \in 0..Len(stored')
      BY <1>1, <2>2
    <3>2. index' = 0 /\ created'
      BY <1>2, <2>1
    <3> QED BY <1>1, <2>2, <2>4, <3>1, <3>2, WalkNext DEF WalkRight
  <2>6. \A i \in 1..(len + 1) : Trace!Visited(Len(stored))'[i] = longer[i]
    <3>1. TAKE i \in 1..(len + 1)
    <3>2. CASE i = len + 1
      BY <3>2, <1>1, <1>4, <2>2, <2>5
    <3>3. CASE i \in 1..len
      <4> HIDE DEF walk, longer, len
      <4>1. index + i - 1 < len /\ index + i = i
        BY <3>3, <1>1, <2>1
      <4> QED BY <4>1, <3>3, <1>3, <1>4, <2>2, <2>5
    <3>4. i = len + 1 \/ i \in 1..len
      <4> HIDE DEF len
      <4> QED BY <3>1, <1>1
    <3> QED BY <3>2, <3>3, <3>4
  <2>7. Trace!Visited(Len(stored))' = longer
    <3> HIDE DEF longer
    <3> QED BY <2>5, <2>6, <1>4, <1>1, SeqEqual
  <2>8. Len(longer) <= limit
    BY <1>1, <1>4, <1>5
  <2> QED BY <1>1, <1>2, <2>4, <2>7, <2>8 DEF Promise!Remember, Promise!LastOf
<1>6. CASE len = limit
  <2>1. /\ stored' = [stored EXCEPT ![index + 1] = e]
        /\ index' = IF index < len - 1 THEN index + 1 ELSE 0
    BY <1>1, <1>6 DEF Trace!Store
  <2>2. index + 1 \in 1..len
    BY <1>1, <1>6
  <2>3. /\ stored' \in Seq(Events) /\ Len(stored') = len
        /\ \A j \in 1..len : stored'[j] = IF j = index + 1 THEN e ELSE stored[j]
    BY <1>1, <2>1, <2>2
  <2>4. index' \in Nat /\ index' < limit
    BY <1>1, <1>6, <2>1
  <2>5. TraceInv'
    BY <1>1, <1>2, <1>6, <2>3, <2>4 DEF TraceInv
  <2>6. /\ Trace!Visited(Len(stored))' \in Seq(Events)
        /\ Len(Trace!Visited(Len(stored))') = len
        /\ \A i \in 1..len :
              /\ IF index' + i - 1 < len THEN index' + i - 1 \in 0..(len - 1)
                   ELSE index' + i - 1 - len \in 0..(len - 1)
              /\ Trace!Visited(Len(stored))'[i] =
                   IF index' + i - 1 < len THEN stored'[index' + i]
                     ELSE stored'[index' + i - len]
    <3>1. created' /\ len \in 0..len
      BY <1>1, <1>2
    <3> HIDE DEF len
    <3> QED BY <2>3, <2>5, <3>1, WalkNext DEF WalkRight
  <2>7. \A i \in 1..len : Trace!Visited(Len(stored))'[i] = longer[i + 1]
    <3> HIDE DEF walk, longer, len
    <3>1. TAKE i \in 1..len
    <3>2. CASE i = len
      <4>1. longer[i + 1] = e
        BY <3>2, <1>4
      <4>2. (IF index' + i - 1 < len THEN index' + i ELSE index' + i - len) = index + 1
        BY <3>2, <1>1, <1>6, <2>1, <2>4
      <4>3. Trace!Visited(Len(stored))'[i] = stored'[index + 1]
        BY <4>2, <2>6, <3>1
      <4> QED BY <4>1, <4>3, <2>2, <2>3
    <3>3. CASE i < len
      <4>1. i + 1 \in 1..len
        BY <3>3, <3>1, <1>1
      <4>2. longer[i + 1] = walk[i + 1]
        BY <4>1, <1>4
      <4> DEFINE slot == IF index + i < len THEN index + i + 1 ELSE index + i + 1 - len
      <4>3. slot \in 1..len /\ slot # index + 1
        BY <3>3, <3>1, <1>1, <1>6
      <4>4. (IF index' + i - 1 < len THEN index' + i ELSE index' + i - len) = slot
        BY <3>1, <3>3, <1>1, <1>6, <2>1, <2>4
      <4>5. walk[i + 1] = stored[slot]
        <5>1. walk[i + 1] = IF index + (i + 1) - 1 < len THEN stored[index + (i + 1)]
                              ELSE stored[index + (i + 1) - len]
          BY <4>1, <1>3
        <5>2. /\ index + (i + 1) - 1 = index + i /\ index + (i + 1) = index + i + 1
              /\ index + (i + 1) - len = index + i + 1 - len
          BY <3>1, <1>1
        <5> QED BY <5>1, <5>2
      <4> HIDE DEF slot
      <4>6. Trace!Visited(Len(stored))'[i] = stored'[slot]
        BY <4>4, <2>6, <3>1
      <4>7. stored'[slot] = stored[slot]
        BY <4>3, <2>3
      <4> QED BY <4>2, <4>5, <4>6, <4>7
    <3> QED BY <3>1, <3>2, <3>3, <1>1
  <2>8. Trace!Visited(Len(stored))' = SubSeq(longer, 2, len + 1)
    <3> HIDE DEF longer, len
    <3>1. /\ SubSeq(longer, 2, len + 1) \in Seq(Events)
          /\ Len(SubSeq(longer, 2, len + 1)) = len
          /\ \A i \in 1..len : SubSeq(longer, 2, len + 1)[i] = longer[i + 1]
      <4>1. 2 \in 1..(len + 2) /\ len + 1 \in 1..(len + 1) /\ Len(longer) = len + 1
        BY <1>1, <1>4
      <4>2. len = (len + 1) - 2 + 1
        BY <1>1
      <4>3. \A i \in 1..len : SubSeq(longer, 2, len + 1)[i] = longer[2 + i - 1]
        BY <1>1, <1>4, <4>1, <4>2, SubSeqProperties
      <4>4. \A i \in 1..len : 2 + i - 1 = i + 1
        BY <1>1
      <4>5. SubSeq(longer, 2, len + 1) \in Seq(Events) /\ Len(SubSeq(longer, 2, len + 1)) = len
        BY <1>1, <1>4, <4>1, <4>2, SubSeqProperties
      <4> QED BY <4>3, <4>4, <4>5
    <3> QED BY <3>1, <2>6, <2>7, <1>1, SeqEqual
  <2>9. ~(Len(longer) <= limit) /\ Len(longer) - limit + 1 = 2 /\ Len(longer) = len + 1
    BY <1>1, <1>4, <1>6
  <2>10. Promise!LastOf(longer, limit) = SubSeq(longer, 2, len + 1)
    <3> HIDE DEF longer, len
    <3> QED BY <2>9 DEF Promise!LastOf
  <2> QED BY <1>1, <1>2, <2>5, <2>8, <2>10 DEF Promise!Remember
<1> QED BY <1>1, <1>5, <1>6

LEMMA ProcessIsFlush ==
  ASSUME TraceInv, created, NEW k \in 0..Len(stored), Trace!Process(k)
  PROVE  /\ TraceInv' /\ Promise!Flush(k)
         /\ k \in 0..Len(Trace!Visited(Len(stored)))
<1>1. /\ output' = output \o Trace!Visited(k)
      /\ stored' = <<>> /\ index' = 0 /\ created' = created /\ limit' = limit
  BY DEF Trace!Process
<1>2. limit \in Nat /\ limit > 0 /\ Len(stored) \in Nat /\ k \in Nat /\ k <= Len(stored)
  BY DEF TraceInv
<1>3. stored' \in Seq(Events) /\ Len(stored') = 0
  BY <1>1
<1>4. index' \in Nat /\ Len(stored') <= limit' /\ index' < limit'
  BY <1>1, <1>2, <1>3
<1>5. TraceInv'
  BY <1>1, <1>2, <1>3, <1>4 DEF TraceInv
<1>6. Trace!Visited(Len(stored))' = <<>>
  BY <1>3 DEF Trace!Visited
<1>7. /\ Trace!Visited(k) \in Seq(Events) /\ Len(Trace!Visited(k)) = k
      /\ Trace!Visited(Len(stored)) \in Seq(Events)
      /\ Len(Trace!Visited(Len(stored))) = Len(stored)
  <2>1. Len(stored) \in 0..Len(stored)
    BY <1>2
  <2> QED BY <2>1, WalkFacts
<1>8. \A i \in 1..k : Trace!Visited(k)[i] = Trace!Visited(Len(stored))[i]
  <2>1. \A i \in 1..k : i \in 1..Len(stored)
    BY <1>2
  <2> QED BY <2>1 DEF Trace!Visited
<1>9. SubSeq(Trace!Visited(Len(stored)), 1, k) = Trace!Visited(k)
  <2> DEFINE all == Trace!Visited(Len(stored))  part == Trace!Visited(k)
  <2>1. /\ SubSeq(all, 1, k) \in Seq(Events) /\ Len(SubSeq(all, 1, k)) = k
        /\ \A i \in 1..k : SubSeq(all, 1, k)[i] = all[i]
    <3> HIDE DEF all
    <3> QED BY <1>2, <1>7, SubSeqProperties DEF all
  <2> HIDE DEF all, part
  <2>2. part \in Seq(Events) /\ Len(part) = k /\ \A i \in 1..k : part[i] = all[i]
    BY <1>7, <1>8 DEF all, part
  <2>3. SubSeq(all, 1, k) = part
    BY <2>1, <2>2, <1>2, SeqEqual
  <2> QED BY <2>3 DEF all, part
<1>10. Promise!Flush(k)
  BY <1>1, <1>6, <1>9 DEF Promise!Flush
<1> QED BY <1>2, <1>5, <1>7, <1>10

LEMMA SetCapacityIsResize ==
  ASSUME TraceInv, NEW c \in Nat \ {0}, Trace!SetCapacity(c)
  PROVE  /\ TraceInv'
         /\ Promise!Resize \/ UNCHANGED <<limit, Trace!Visited(Len(stored)), output>>
<1>1. created' = TRUE /\ output' = output /\ c \in Nat /\ c > 0 /\ limit \in Nat
  BY DEF Trace!SetCapacity, TraceInv
<1>2. CASE limit # c
  <2>1. limit' = c /\ index' = 0 /\ stored' = <<>>
    BY <1>2 DEF Trace!SetCapacity
  <2>2. stored' \in Seq(Events) /\ Len(stored') = 0
    BY <2>1
  <2>3. index' \in Nat /\ Len(stored') <= limit' /\ index' < limit'
    BY <1>1, <2>1, <2>2
  <2>4. TraceInv'
    BY <1>1, <2>1, <2>2, <2>3 DEF TraceInv
  <2>5. Trace!Visited(Len(stored))' = <<>>
    BY <2>2 DEF Trace!Visited
  <2> QED BY <1>1, <1>2, <2>1, <2>4, <2>5 DEF Promise!Resize
<1>3. CASE limit = c
  <2>1. limit' = limit /\ index' = index /\ stored' = stored
    BY <1>3 DEF Trace!SetCapacity
  <2>2. created
    BY <1>1, <1>3 DEF TraceInv
  <2>3. TraceInv'
    BY <1>1, <2>1, <2>2 DEF TraceInv
  <2>4. Trace!Visited(Len(stored))' = Trace!Visited(Len(stored))
    BY <2>1 DEF Trace!Visited
  <2> QED BY <1>1, <2>1, <2>3, <2>4
<1> QED BY <1>2, <1>3

LEMMA TraceStep ==
  TraceInv /\ [Trace!StorageNext(Events)]_traceVars
    => TraceInv' /\ [Promise!Next]_<<limit, Trace!Visited(Len(stored)), output>>
<1> SUFFICES ASSUME TraceInv, [Trace!StorageNext(Events)]_traceVars
             PROVE  TraceInv' /\ [Promise!Next]_<<limit, Trace!Visited(Len(stored)), output>>
  OBVIOUS
<1>1. CASE created /\ \E e \in Events : Trace!Store(e)
  <2>1. PICK e \in Events : Trace!Store(e)
    BY <1>1
  <2>2. TraceInv' /\ Promise!Remember(e)
    BY <1>1, <2>1, StoreIsRemember
  <2> QED BY <2>2 DEF Promise!Next
<1>2. CASE created /\ \E k \in 0..Len(stored) : Trace!Process(k)
  <2>1. PICK k \in 0..Len(stored) : Trace!Process(k)
    BY <1>2
  <2>2. TraceInv' /\ Promise!Flush(k) /\ k \in 0..Len(Trace!Visited(Len(stored)))
    BY <1>2, <2>1, ProcessIsFlush
  <2> QED BY <2>2 DEF Promise!Next
<1>3. CASE \E c \in Nat \ {0} : Trace!SetCapacity(c)
  <2>1. PICK c \in Nat \ {0} : Trace!SetCapacity(c)
    BY <1>3
  <2>2. /\ TraceInv'
        /\ Promise!Resize \/ UNCHANGED <<limit, Trace!Visited(Len(stored)), output>>
    BY <2>1, SetCapacityIsResize
  <2> QED BY <2>2 DEF Promise!Next
<1>4. CASE UNCHANGED traceVars
  <2>1. UNCHANGED <<created, limit, index, stored, output>>
    BY <1>4 DEF traceVars
  <2>2. TraceInv'
    BY <2>1 DEF TraceInv
  <2>3. Trace!Visited(Len(stored))' = Trace!Visited(Len(stored))
    BY <2>1 DEF Trace!Visited
  <2> QED BY <2>1, <2>2, <2>3
<1> QED BY <1>1, <1>2, <1>3, <1>4 DEF Trace!StorageNext

\* BacktraceStorage: store(), process() and set_capacity() hand out the last
\* events, oldest first and once, for every capacity and every sequence of calls.
THEOREM BacktraceRemembersLast == Trace!StorageSpec(Events) => Promise!Spec
<1>1. Trace!Init => TraceInv /\ Promise!Init
  BY TraceInitially
<1>2. TraceInv /\ [Trace!StorageNext(Events)]_traceVars
        => TraceInv' /\ [Promise!Next]_<<limit, Trace!Visited(Len(stored)), output>>
  BY TraceStep
<1> QED BY <1>1, <1>2, PTL DEF Trace!StorageSpec, Promise!Spec, traceVars

=============================================================================
