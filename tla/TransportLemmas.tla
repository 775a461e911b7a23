-------------------------- MODULE TransportLemmas --------------------------
(***************************************************************************)
(* What the proofs about the data phase rest on, for any size of the ring, *)
(* of the number space and of the nonce space that satisfy the             *)
(* assumptions.  Every operation of a Packets_Array keeps it well formed;  *)
(* while its numbers are below the end of the number space, an array is    *)
(* flat: its numbers are ordered as integers and each has a slot of its    *)
(* own.  Then the invariant IInv of the data phase and what it says of the *)
(* state of one peer.                                                      *)
(***************************************************************************)
EXTENDS CryptoTransport, TLAPS

\* Number arithmetic stays in the number space.
LEMMA SubType ==
    ASSUME NEW m \in Number, NEW n \in Number
    PROVE  Sub(m, n) \in Number
  BY PacketsArrayAssumption DEF Number, Sub

LEMMA PlusType ==
    ASSUME NEW n \in Number, NEW k \in 0 .. U32
    PROVE  Plus(n, k) \in Number
  BY PacketsArrayAssumption DEF Number, Plus

LEMMA IncType ==
    ASSUME NEW n \in Number
    PROVE  Inc(n) \in Number
  BY PlusType, PacketsArrayAssumption DEF Inc

LEMMA SlotType ==
    ASSUME NEW n \in Number
    PROVE  SlotOf(n) \in Slot
  BY PacketsArrayAssumption DEF Number, SlotOf, Slot

\* Adding an offset and subtracting undo each other.
LEMMA SubPlus ==
    ASSUME NEW n \in Number, NEW k \in Number
    PROVE  Sub(Plus(n, k), n) = k
  BY PacketsArrayAssumption DEF Number, Sub, Plus

\* Distances add up as long as they do not exceed the number space.
LEMMA SubAdds ==
    ASSUME NEW l \in Number, NEW m \in Number, NEW n \in Number,
           Sub(n, m) + Sub(m, l) < U32
    PROVE  Sub(n, l) = Sub(n, m) + Sub(m, l)
  BY PacketsArrayAssumption DEF Number, Sub

\* A number in a window is at most as far from the start as the end is.
LEMMA SubSplits ==
    ASSUME NEW l \in Number, NEW m \in Number, NEW n \in Number,
           Sub(m, l) <= Sub(n, l)
    PROVE  Sub(n, m) = Sub(n, l) - Sub(m, l)
  BY PacketsArrayAssumption DEF Number, Sub

LEMMA SubInc ==
    ASSUME NEW m \in Number, NEW n \in Number, Sub(m, n) < U32 - 1
    PROVE  Sub(Inc(m), n) = Sub(m, n) + 1
  BY PacketsArrayAssumption DEF Number, Sub, Inc, Plus

LEMMA SubInjective ==
    ASSUME NEW l \in Number, NEW m \in Number, NEW n \in Number,
           Sub(m, l) = Sub(n, l)
    PROVE  m = n
  BY PacketsArrayAssumption DEF Number, Sub

----------------------------------------------------------------------------
\* The type of an array and of its parts.
LEMMA ArrayParts ==
    ASSUME NEW P, NEW a \in ArrayOf(P)
    PROVE  /\ a.start \in Number
           /\ a.end \in Number
           /\ a.buffer \in [Slot -> P \union {Empty}]
           /\ num_packets_array(a) \in Number
  BY SubType DEF ArrayOf, num_packets_array

LEMMA EmptyArrayWellFormed ==
    ASSUME NEW P
    PROVE  EmptyArray \in ArrayOf(P) /\ WellFormed(EmptyArray)
  BY PacketsArrayAssumption
  DEF EmptyArray, ArrayOf, WellFormed, num_packets_array, Sub, Number, Slot

\* What an array holds at a number of its window, and in a freed buffer.
LEMMA FreedType ==
    ASSUME NEW P, NEW a \in ArrayOf(P), NEW N
    PROVE  Freed(a, N) \in [Slot -> P \union {Empty}]
  BY ArrayParts DEF Freed

\* Changing packets in place, or freeing some, keeps an array well formed.
LEMMA SameWindowWellFormed ==
    ASSUME NEW P, NEW a \in ArrayOf(P), WellFormed(a), NEW b,
           b.start = a.start, b.end = a.end,
           \A s \in Slot : b.buffer[s] # Empty => a.buffer[s] # Empty
    PROVE  WellFormed(b)
  BY DEF WellFormed, num_packets_array, Window

\* add_data_to_buffer
LEMMA AddWellFormed ==
    ASSUME NEW P, NEW a \in ArrayOf(P), WellFormed(a), NEW n \in Number, NEW d \in P,
           CanAdd(a, n)
    PROVE  /\ add_data_to_buffer(a, n, d) \in ArrayOf(P)
           /\ WellFormed(add_data_to_buffer(a, n, d))
  <1> DEFINE b == add_data_to_buffer(a, n, d)
  <1>1. /\ a.start \in Number /\ a.end \in Number
        /\ a.buffer \in [Slot -> P \union {Empty}]
        /\ SlotOf(n) \in Slot /\ Inc(n) \in Number
    BY ArrayParts, SlotType, IncType
  <1>2. /\ b.start = a.start
        /\ b.end = IF Sub(n, a.start) >= num_packets_array(a) THEN Inc(n) ELSE a.end
        /\ b.buffer = [a.buffer EXCEPT ![SlotOf(n)] = d]
    BY DEF add_data_to_buffer, ArrayOf
  <1>3. b \in ArrayOf(P)
    BY <1>1, Zenon DEF add_data_to_buffer, ArrayOf
  <1>4. /\ num_packets_array(a) <= num_packets_array(b)
        /\ Sub(n, a.start) < num_packets_array(b)
        /\ num_packets_array(b) <= CRYPTO_PACKET_BUFFER_SIZE
    <2>1. /\ Sub(n, a.start) \in Number /\ num_packets_array(a) \in Number
          /\ Sub(n, a.start) < CRYPTO_PACKET_BUFFER_SIZE
          /\ num_packets_array(a) <= CRYPTO_PACKET_BUFFER_SIZE
      BY <1>1, SubType, ArrayParts DEF CanAdd, WellFormed
    <2>2. CASE Sub(n, a.start) >= num_packets_array(a)
      <3>1. Sub(Inc(n), a.start) = Sub(n, a.start) + 1
        BY <1>1, <2>1, SubInc, PacketsArrayAssumption DEF Number
      <3> QED BY <1>2, <2>1, <2>2, <3>1, PacketsArrayAssumption DEF num_packets_array, Number
    <2>3. CASE Sub(n, a.start) < num_packets_array(a)
      BY <1>2, <2>1, <2>3 DEF num_packets_array, Number
    <2> QED BY <2>1, <2>2, <2>3 DEF Number
  <1>5. ASSUME NEW s \in Slot, b.buffer[s] # Empty
        PROVE  \E m \in Window(b) : SlotOf(m) = s
    <2>1. CASE s = SlotOf(n)
      BY <1>2, <1>4, <2>1 DEF Window, Between, num_packets_array
    <2>2. CASE s # SlotOf(n)
      <3>1. PICK m \in Window(a) : SlotOf(m) = s
        BY <1>1, <1>2, <1>5, <2>2 DEF WellFormed
      <3>2. m \in Number /\ Sub(m, a.start) < num_packets_array(a)
        BY <3>1 DEF Window, Between, num_packets_array
      <3>3. Sub(m, a.start) \in Number /\ num_packets_array(b) \in Number /\ num_packets_array(a) \in Number
        BY <1>1, <1>3, <3>2, SubType, ArrayParts
      <3> QED BY <1>2, <1>4, <3>1, <3>2, <3>3 DEF Window, Between, num_packets_array, Number
    <2> QED BY <2>1, <2>2
  <1> QED BY <1>3, <1>4, <1>5 DEF WellFormed

\* add_data_end_of_buffer is add_data_to_buffer at the end of the window.
LEMMA AppendWellFormed ==
    ASSUME NEW P, NEW a \in ArrayOf(P), WellFormed(a), NEW d \in P, CanAppend(a)
    PROVE  /\ add_data_end_of_buffer(a, d) \in ArrayOf(P)
           /\ WellFormed(add_data_end_of_buffer(a, d))
  <1> DEFINE b == add_data_end_of_buffer(a, d)
  <1>1. /\ a.start \in Number /\ a.end \in Number
        /\ a.buffer \in [Slot -> P \union {Empty}]
        /\ SlotOf(a.end) \in Slot /\ Inc(a.end) \in Number
        /\ num_packets_array(a) \in Number
    BY ArrayParts, SlotType, IncType
  <1>2. /\ b.start = a.start
        /\ b.end = Inc(a.end)
        /\ b.buffer = [a.buffer EXCEPT ![SlotOf(a.end)] = d]
    BY DEF add_data_end_of_buffer, ArrayOf
  <1>3. b \in ArrayOf(P)
    BY <1>1, Zenon DEF add_data_end_of_buffer, ArrayOf
  <1>4. num_packets_array(b) = num_packets_array(a) + 1
    BY <1>1, <1>2, SubInc, PacketsArrayAssumption DEF CanAppend, num_packets_array, Number
  <1>5. ASSUME NEW s \in Slot, b.buffer[s] # Empty
        PROVE  \E m \in Window(b) : SlotOf(m) = s
    <2>1. CASE s = SlotOf(a.end)
      BY <1>1, <1>2, <1>4, <2>1 DEF Window, Between, num_packets_array, Number
    <2>2. CASE s # SlotOf(a.end)
      <3>1. PICK m \in Window(a) : SlotOf(m) = s
        BY <1>1, <1>2, <1>5, <2>2 DEF WellFormed
      <3>2. m \in Number /\ Sub(m, a.start) < num_packets_array(a) /\ Sub(m, a.start) \in Number
        BY <1>1, <3>1, SubType DEF Window, Between, num_packets_array
      <3> QED BY <1>1, <1>2, <1>4, <3>1, <3>2 DEF Window, Between, num_packets_array, Number
    <2> QED BY <2>1, <2>2
  <1> QED
    BY <1>1, <1>3, <1>4, <1>5, PacketsArrayAssumption DEF WellFormed, CanAppend, Number

\* Dropping the packets before a number of the window, or all of them.
LEMMA DropWellFormed ==
    ASSUME NEW P, NEW a \in ArrayOf(P), WellFormed(a), NEW n \in Number,
           Sub(n, a.start) <= num_packets_array(a),
           NEW b, b = [a EXCEPT !.buffer = Freed(a, Between(a.start, n)), !.start = n]
    PROVE  b \in ArrayOf(P) /\ WellFormed(b)
  <1>1. /\ a.start \in Number /\ a.end \in Number /\ num_packets_array(a) \in Number
        /\ a.buffer \in [Slot -> P \union {Empty}]
        /\ Sub(n, a.start) \in Number
    BY ArrayParts, SubType
  <1>2. /\ b.start = n
        /\ b.end = a.end
        /\ b.buffer = Freed(a, Between(a.start, n))
    BY DEF ArrayOf
  <1>3. b \in ArrayOf(P)
    BY FreedType, Zenon DEF ArrayOf
  <1>4. num_packets_array(b) = num_packets_array(a) - Sub(n, a.start)
    BY <1>1, <1>2, SubSplits DEF num_packets_array
  <1>5. ASSUME NEW s \in Slot, b.buffer[s] # Empty
        PROVE  \E m \in Window(b) : SlotOf(m) = s
    <2>1. /\ a.buffer[s] # Empty
          /\ \A m \in Between(a.start, n) : SlotOf(m) # s
      BY <1>2, <1>5 DEF Freed
    <2>2. PICK m \in Window(a) : SlotOf(m) = s
      BY <2>1 DEF WellFormed
    <2>3. /\ m \in Number /\ Sub(m, a.start) < num_packets_array(a)
          /\ Sub(m, a.start) \in Number
          /\ Sub(n, a.start) <= Sub(m, a.start)
      BY <1>1, <2>1, <2>2, SubType DEF Window, Between, num_packets_array, Number
    <2>4. Sub(m, n) = Sub(m, a.start) - Sub(n, a.start)
      BY <1>1, <2>3, SubSplits
    <2> QED BY <1>1, <1>2, <1>4, <2>2, <2>3, <2>4 DEF Window, Between, num_packets_array, Number
  <1>6. num_packets_array(b) <= CRYPTO_PACKET_BUFFER_SIZE
    BY <1>1, <1>4, PacketsArrayAssumption DEF WellFormed, Number
  <1> QED BY <1>3, <1>5, <1>6 DEF WellFormed

LEMMA ClearUntilWellFormed ==
    ASSUME NEW P, NEW a \in ArrayOf(P), WellFormed(a), NEW n \in Number, CanClearUntil(a, n)
    PROVE  /\ clear_buffer_until(a, n) \in ArrayOf(P)
           /\ WellFormed(clear_buffer_until(a, n))
  BY DropWellFormed, Zenon DEF CanClearUntil, clear_buffer_until

LEMMA ReadWellFormed ==
    ASSUME NEW P, NEW a \in ArrayOf(P), WellFormed(a), NEW k \in 0 .. num_packets_array(a)
    PROVE  /\ read_data_beg_buffer(a, k) \in ArrayOf(P)
           /\ WellFormed(read_data_beg_buffer(a, k))
  <1>1. k \in Number /\ a.start \in Number /\ k <= num_packets_array(a)
    BY ArrayParts, PacketsArrayAssumption DEF Number
  <1>2. Plus(a.start, k) \in Number
    BY <1>1, PlusType, PacketsArrayAssumption DEF Number
  <1>3. Sub(Plus(a.start, k), a.start) <= num_packets_array(a)
    BY <1>1, SubPlus, Zenon
  <1>4. read_data_beg_buffer(a, k)
          = [a EXCEPT !.buffer = Freed(a, Between(a.start, Plus(a.start, k))),
                      !.start = Plus(a.start, k)]
    BY DEF read_data_beg_buffer, ArrayOf
  <1> QED BY <1>2, <1>3, <1>4, DropWellFormed, Zenon

\* clear_buffer leaves no packet behind.
LEMMA ClearEmpties ==
    ASSUME NEW P, NEW a \in ArrayOf(P), WellFormed(a)
    PROVE  /\ clear_buffer(a) \in ArrayOf(P)
           /\ WellFormed(clear_buffer(a))
           /\ \A s \in Slot : clear_buffer(a).buffer[s] = Empty
  <1>1. a.end \in Number /\ Sub(a.end, a.start) = num_packets_array(a) /\ num_packets_array(a) \in Number
    BY ArrayParts DEF num_packets_array
  <1>2. Sub(a.end, a.start) <= num_packets_array(a)
    BY <1>1, PacketsArrayAssumption DEF Number
  <1>3. clear_buffer(a) = [a EXCEPT !.buffer = Freed(a, Between(a.start, a.end)), !.start = a.end]
    BY DEF clear_buffer, Window
  <1>4. clear_buffer(a) \in ArrayOf(P) /\ WellFormed(clear_buffer(a))
    BY <1>1, <1>2, <1>3, DropWellFormed, Zenon
  <1>5. clear_buffer(a).buffer = Freed(a, Window(a))
    BY DEF clear_buffer, ArrayOf
  <1> QED BY <1>4, <1>5 DEF Freed, WellFormed

\* set_buffer_end only ever extends the window.
LEMMA SetEndWellFormed ==
    ASSUME NEW P, NEW a \in ArrayOf(P), WellFormed(a), NEW n \in Number
    PROVE  /\ set_buffer_end(a, n) \in ArrayOf(P)
           /\ WellFormed(set_buffer_end(a, n))
  <1> DEFINE b == [a EXCEPT !.end = n]
  <1> SUFFICES ASSUME Sub(n, a.start) <= CRYPTO_PACKET_BUFFER_SIZE,
                      Sub(n, a.end) <= CRYPTO_PACKET_BUFFER_SIZE
               PROVE  b \in ArrayOf(P) /\ WellFormed(b)
    BY DEF set_buffer_end
  <1>1. /\ a.start \in Number /\ a.end \in Number /\ num_packets_array(a) \in Number
        /\ Sub(n, a.start) \in Number /\ Sub(n, a.end) \in Number
    BY ArrayParts, SubType
  <1>2. b.start = a.start /\ b.end = n /\ b.buffer = a.buffer
    BY DEF ArrayOf
  <1>3. b \in ArrayOf(P)
    BY DEF ArrayOf
  <1>4. Sub(n, a.start) = Sub(n, a.end) + num_packets_array(a)
    BY <1>1, SubAdds, PacketsArrayAssumption DEF WellFormed, num_packets_array, Number
  <1>5. ASSUME NEW s \in Slot, b.buffer[s] # Empty
        PROVE  \E m \in Window(b) : SlotOf(m) = s
    <2>1. PICK m \in Window(a) : SlotOf(m) = s
      BY <1>2, <1>5 DEF WellFormed
    <2>2. m \in Number /\ Sub(m, a.start) < num_packets_array(a) /\ Sub(m, a.start) \in Number
      BY <1>1, <2>1, SubType DEF Window, Between, num_packets_array
    <2> QED BY <1>1, <1>2, <1>4, <2>1, <2>2 DEF Window, Between, Number
  <1> QED BY <1>2, <1>3, <1>5 DEF WellFormed, num_packets_array

\* Numbers that share a slot are the same or at least a ring apart.
LEMMA SlotInjective ==
    ASSUME NEW m \in Nat, NEW n \in Nat, m <= n, n < m + CRYPTO_PACKET_BUFFER_SIZE,
           SlotOf(m) = SlotOf(n)
    PROVE  m = n
  <1> DEFINE S == CRYPTO_PACKET_BUFFER_SIZE
             j == m \div S
             k == n \div S
             r == m % S
  <1>1. S \in Nat \ {0} /\ n % S = r
    BY PacketsArrayAssumption DEF SlotOf
  <1> HIDE DEF S
  <1>2. m = (S * j) + r /\ n = (S * k) + r /\ j \in Nat /\ k \in Nat /\ r \in Nat
    BY <1>1
  <1> HIDE DEF j, k, r
  <1>3. ASSUME NEW x \in Nat, NEW y \in Nat, x < y PROVE S * y >= (S * x) + S
    BY <1>1, <1>3
  <1>4. n < m + S
    BY DEF S
  <1>5. ~(j < k) /\ ~(k < j)
    BY <1>1, <1>2, <1>3, <1>4
  <1> QED BY <1>2, <1>5

\* An array whose numbers have not come near the end of the number space.
Flat(a) == a.start <= a.end /\ a.end + CRYPTO_PACKET_BUFFER_SIZE < U32

\* The numbers of such an array are an interval.
LEMMA FlatWindow ==
    ASSUME NEW P, NEW a \in ArrayOf(P), Flat(a)
    PROVE  /\ a.start \in Nat /\ a.end \in Nat
           /\ num_packets_array(a) = a.end - a.start
           /\ \A n \in Number : n \in Window(a) <=> a.start <= n /\ n < a.end
           /\ \A n \in a.start .. a.end, i \in Number :
                  i \in Between(a.start, n) <=> a.start <= i /\ i < n
           /\ a.start .. (a.end + CRYPTO_PACKET_BUFFER_SIZE) \subseteq Number
  <1>1. a.start \in Number /\ a.end \in Number
    BY ArrayParts
  <1> QED BY <1>1, PacketsArrayAssumption DEF Flat, num_packets_array, Window, Between, Sub, Number

\* The slots ahead of the window are empty.
LEMMA FlatVacant ==
    ASSUME NEW P, NEW a \in ArrayOf(P), WellFormed(a), Flat(a),
           NEW n \in a.end .. (a.start + CRYPTO_PACKET_BUFFER_SIZE - 1)
    PROVE  At(a, n) = Empty
  <1>1. a.start \in Nat /\ a.end \in Nat /\ a.start <= a.end /\ n \in Nat /\ n \in Number
    BY FlatWindow, PacketsArrayAssumption DEF Flat
  <1>2. SUFFICES ASSUME NEW m \in Window(a), SlotOf(m) = SlotOf(n) PROVE FALSE
    BY <1>1, SlotType DEF WellFormed, At
  <1>3. m \in Number /\ a.start <= m /\ m < a.end
    <2>1. m \in Number
      BY DEF Window, Between
    <2> QED BY <2>1, FlatWindow
  <1>4. m \in Nat /\ m <= n /\ n < m + CRYPTO_PACKET_BUFFER_SIZE
    BY <1>1, <1>3, PacketsArrayAssumption DEF Number
  <1> QED BY <1>1, <1>2, <1>3, <1>4, SlotInjective

\* Numbers less than a ring apart have slots of their own.
LEMMA SlotsDiffer ==
    ASSUME NEW m \in Nat, NEW n \in Nat, m # n,
           n < m + CRYPTO_PACKET_BUFFER_SIZE, m < n + CRYPTO_PACKET_BUFFER_SIZE
    PROVE  SlotOf(m) # SlotOf(n)
  BY SlotInjective

\* A packet placed at n changes no other number within a ring.
LEMMA PlaceAt ==
    ASSUME NEW P, NEW a \in ArrayOf(P), NEW n \in Number, NEW d, NEW b,
           b.buffer = [a.buffer EXCEPT ![SlotOf(n)] = d]
    PROVE  At(b, n) = d
  <1>1. a.buffer \in [Slot -> P \union {Empty}] /\ SlotOf(n) \in Slot
    BY ArrayParts, SlotType
  <1> QED BY <1>1 DEF At

LEMMA PlaceElsewhere ==
    ASSUME NEW P, NEW a \in ArrayOf(P), NEW n \in Number, NEW d, NEW b,
           b.buffer = [a.buffer EXCEPT ![SlotOf(n)] = d],
           NEW i \in Number, i # n,
           i < n + CRYPTO_PACKET_BUFFER_SIZE, n < i + CRYPTO_PACKET_BUFFER_SIZE
    PROVE  At(b, i) = At(a, i)
  <1>1. a.buffer \in [Slot -> P \union {Empty}] /\ SlotOf(n) \in Slot /\ SlotOf(i) \in Slot
    BY ArrayParts, SlotType
  <1>2. SlotOf(i) # SlotOf(n)
    BY SlotsDiffer DEF Number
  <1> QED BY <1>1, <1>2 DEF At

LEMMA FlatAppend ==
    ASSUME NEW P, NEW a \in ArrayOf(P), WellFormed(a), Flat(a), CanAppend(a), NEW d
    PROVE  LET b == add_data_end_of_buffer(a, d)
           IN  /\ b.start = a.start
               /\ b.end = a.end + 1
               /\ At(b, a.end) = d
               /\ \A i \in a.start .. (a.end - 1) : At(b, i) = At(a, i)
  <1> DEFINE b == add_data_end_of_buffer(a, d)
  <1>1. /\ b.start = a.start
        /\ b.end = Inc(a.end)
        /\ b.buffer = [a.buffer EXCEPT ![SlotOf(a.end)] = d]
    BY DEF add_data_end_of_buffer, ArrayOf
  <1> HIDE DEF b
  <1>2. /\ a.start \in Nat /\ a.end \in Nat /\ a.end \in Number /\ a.end - a.start < CRYPTO_PACKET_BUFFER_SIZE
        /\ a.start <= a.end
    BY FlatWindow, ArrayParts DEF CanAppend, Flat
  <1>3. Inc(a.end) = a.end + 1
    BY <1>2, PacketsArrayAssumption DEF Flat, Inc, Plus
  <1>4. At(b, a.end) = d
    <2>1. a.buffer \in [Slot -> P \union {Empty}] /\ SlotOf(a.end) \in Slot
      BY ArrayParts, SlotType
    <2> QED BY <1>1, <2>1 DEF At
  <1>5. ASSUME NEW i \in a.start .. (a.end - 1) PROVE At(b, i) = At(a, i)
    <2>1. /\ i \in Number /\ i # a.end
          /\ i < a.end + CRYPTO_PACKET_BUFFER_SIZE /\ a.end < i + CRYPTO_PACKET_BUFFER_SIZE
      BY <1>2, PacketsArrayAssumption DEF Number
    <2>2. SlotOf(i) # SlotOf(a.end)
      BY <1>2, <2>1, SlotsDiffer DEF Number
    <2>3. a.buffer \in [Slot -> P \union {Empty}] /\ SlotOf(i) \in Slot
      BY <2>1, ArrayParts, SlotType
    <2> QED BY <1>1, <2>2, <2>3 DEF At
  <1> QED BY <1>1, <1>3, <1>4, <1>5 DEF b

LEMMA FlatAdd ==
    ASSUME NEW P, NEW a \in ArrayOf(P), WellFormed(a), Flat(a), NEW n \in Number, CanAdd(a, n), NEW d
    PROVE  LET b == add_data_to_buffer(a, n, d)
           IN  /\ a.start <= n /\ n < a.start + CRYPTO_PACKET_BUFFER_SIZE
               /\ b.start = a.start
               /\ b.end = IF n < a.end THEN a.end ELSE n + 1
               /\ At(b, n) = d
               /\ \A i \in a.start .. (a.end - 1) : i # n => At(b, i) = At(a, i)
               /\ \A i \in a.end .. (n - 1) : At(b, i) = Empty
  <1> DEFINE b == add_data_to_buffer(a, n, d)
  <1>1. /\ b.start = a.start
        /\ b.end = IF Sub(n, a.start) >= num_packets_array(a) THEN Inc(n) ELSE a.end
        /\ b.buffer = [a.buffer EXCEPT ![SlotOf(n)] = d]
    BY DEF add_data_to_buffer, ArrayOf
  <1> HIDE DEF b
  <1>2. /\ a.start \in Nat /\ a.end \in Nat /\ a.start <= a.end
        /\ a.end + CRYPTO_PACKET_BUFFER_SIZE < U32
        /\ a.end - a.start <= CRYPTO_PACKET_BUFFER_SIZE
        /\ num_packets_array(a) = a.end - a.start
    BY FlatWindow DEF Flat, WellFormed
  <1>3. a.start <= n /\ n < a.start + CRYPTO_PACKET_BUFFER_SIZE /\ Sub(n, a.start) = n - a.start
    BY <1>2, PacketsArrayAssumption DEF CanAdd, Sub, Number
  <1>4. b.end = IF n < a.end THEN a.end ELSE n + 1
    BY <1>1, <1>2, <1>3, PacketsArrayAssumption DEF Inc, Plus, Number
  <1>5. At(b, n) = d
    BY <1>1, PlaceAt
  <1>6. ASSUME NEW i \in a.start .. (a.end - 1), i # n PROVE At(b, i) = At(a, i)
    <2>1. /\ i \in Number
          /\ i < n + CRYPTO_PACKET_BUFFER_SIZE /\ n < i + CRYPTO_PACKET_BUFFER_SIZE
      BY <1>2, <1>3, PacketsArrayAssumption DEF Number
    <2> QED BY <1>1, <1>6, <2>1, PlaceElsewhere
  <1>7. ASSUME NEW i \in a.end .. (n - 1) PROVE At(b, i) = Empty
    <2>1. At(b, i) = At(a, i)
      <3>1. /\ i \in Number /\ i # n
            /\ i < n + CRYPTO_PACKET_BUFFER_SIZE /\ n < i + CRYPTO_PACKET_BUFFER_SIZE
        BY <1>2, <1>3, PacketsArrayAssumption DEF Number
      <3> QED BY <1>1, <3>1, PlaceElsewhere
    <2>2. i \in a.end .. (a.start + CRYPTO_PACKET_BUFFER_SIZE - 1)
      BY <1>2, <1>3, PacketsArrayAssumption DEF Number
    <2> QED BY <2>1, <2>2, FlatVacant
  <1> QED BY <1>1, <1>3, <1>4, <1>5, <1>6, <1>7 DEF b

LEMMA FlatSetEnd ==
    ASSUME NEW P, NEW a \in ArrayOf(P), WellFormed(a), Flat(a), NEW n \in Number
    PROVE  LET b == set_buffer_end(a, n)
           IN  /\ b.start = a.start
               /\ b.end \in {a.end, n} /\ a.end <= b.end
               /\ b.buffer = a.buffer
               /\ \A i \in a.end .. (b.end - 1) : At(b, i) = Empty
  <1>1. /\ a.start \in Nat /\ a.end \in Nat /\ a.start <= a.end
        /\ a.end + CRYPTO_PACKET_BUFFER_SIZE < U32
    BY FlatWindow DEF Flat
  <1>2. CASE ~(/\ Sub(n, a.start) <= CRYPTO_PACKET_BUFFER_SIZE
               /\ Sub(n, a.end) <= CRYPTO_PACKET_BUFFER_SIZE)
    BY <1>1, <1>2 DEF set_buffer_end
  <1>3. CASE /\ Sub(n, a.start) <= CRYPTO_PACKET_BUFFER_SIZE
             /\ Sub(n, a.end) <= CRYPTO_PACKET_BUFFER_SIZE
    <2> DEFINE b == [a EXCEPT !.end = n]
    <2>1. b.start = a.start /\ b.end = n /\ b.buffer = a.buffer /\ set_buffer_end(a, n) = b
      BY <1>3 DEF set_buffer_end, ArrayOf
    <2>2. a.end <= n /\ n <= a.start + CRYPTO_PACKET_BUFFER_SIZE
      BY <1>1, <1>3, PacketsArrayAssumption DEF Sub, Number
    <2>3. ASSUME NEW i \in a.end .. (n - 1) PROVE At(b, i) = Empty
      <3>1. i \in a.end .. (a.start + CRYPTO_PACKET_BUFFER_SIZE - 1)
        BY <1>1, <2>2, PacketsArrayAssumption DEF Number
      <3>2. At(a, i) = Empty
        BY <3>1, FlatVacant
      <3> QED BY <2>1, <3>2 DEF At
    <2> HIDE DEF b
    <2> QED BY <2>1, <2>2, <2>3
  <1> QED BY <1>2, <1>3

\* Freed slots do not touch what stays in the window.
LEMMA FlatDrop ==
    ASSUME NEW P, NEW a \in ArrayOf(P), WellFormed(a), Flat(a), NEW n \in a.start .. a.end,
           NEW i \in n .. (a.end - 1)
    PROVE  Freed(a, Between(a.start, n))[SlotOf(i)] = At(a, i)
  <1>1. /\ a.start \in Nat /\ a.end \in Nat
        /\ a.end - a.start <= CRYPTO_PACKET_BUFFER_SIZE
        /\ a.start .. (a.end + CRYPTO_PACKET_BUFFER_SIZE) \subseteq Number
    BY FlatWindow DEF WellFormed
  <1>2. i \in Number /\ i \in Nat
    BY <1>1, PacketsArrayAssumption
  <1>3. ASSUME NEW m \in Between(a.start, n) PROVE SlotOf(m) # SlotOf(i)
    <2>1. m \in Number
      BY DEF Between
    <2>2. a.start <= m /\ m < n
      BY <2>1, FlatWindow
    <2>3. m \in Nat /\ m # i /\ i < m + CRYPTO_PACKET_BUFFER_SIZE /\ m < i + CRYPTO_PACKET_BUFFER_SIZE
      BY <1>1, <2>1, <2>2, PacketsArrayAssumption DEF Number
    <2> QED BY <1>2, <2>3, SlotsDiffer
  <1>4. SlotOf(i) \in Slot
    BY <1>2, SlotType
  <1> QED BY <1>3, <1>4 DEF At, Freed

LEMMA FlatClearUntil ==
    ASSUME NEW P, NEW a \in ArrayOf(P), WellFormed(a), Flat(a), NEW n \in Number, CanClearUntil(a, n)
    PROVE  LET b == clear_buffer_until(a, n)
           IN  /\ a.start <= n /\ n <= a.end
               /\ b.start = n
               /\ b.end = a.end
               /\ \A i \in n .. (a.end - 1) : At(b, i) = At(a, i)
  <1>1. a.start <= n /\ n <= a.end
    <2>1. a.start \in Nat /\ a.end \in Nat /\ num_packets_array(a) = a.end - a.start
      BY FlatWindow
    <2> QED BY <2>1, PacketsArrayAssumption DEF CanClearUntil, Sub, Number, Flat
  <1>2. n \in a.start .. a.end
    BY <1>1, FlatWindow DEF Number
  <1> DEFINE b == clear_buffer_until(a, n)
  <1>3. b.start = n /\ b.end = a.end /\ b.buffer = Freed(a, Between(a.start, n))
    BY DEF clear_buffer_until, ArrayOf
  <1> HIDE DEF b
  <1>4. ASSUME NEW i \in n .. (a.end - 1) PROVE At(b, i) = At(a, i)
    BY <1>2, <1>3, FlatDrop DEF At
  <1> QED BY <1>1, <1>3, <1>4, Zenon DEF b

LEMMA FlatRead ==
    ASSUME NEW P, NEW a \in ArrayOf(P), WellFormed(a), Flat(a), NEW k \in 0 .. num_packets_array(a)
    PROVE  LET b == read_data_beg_buffer(a, k)
           IN  /\ b.start = a.start + k
               /\ b.end = a.end
               /\ \A i \in (a.start + k) .. (a.end - 1) : At(b, i) = At(a, i)
  <1>1. /\ a.start \in Nat /\ a.end \in Nat /\ num_packets_array(a) = a.end - a.start
        /\ a.end + CRYPTO_PACKET_BUFFER_SIZE < U32
    BY FlatWindow DEF Flat
  <1> DEFINE b == read_data_beg_buffer(a, k)
             n == a.start + k
  <1>2. Plus(a.start, k) = n /\ n \in a.start .. a.end
    BY <1>1, PacketsArrayAssumption DEF Plus
  <1>3. b.start = n /\ b.end = a.end /\ b.buffer = Freed(a, Between(a.start, n))
    BY <1>2 DEF read_data_beg_buffer, ArrayOf
  <1> HIDE DEF b, n
  <1>4. ASSUME NEW i \in n .. (a.end - 1) PROVE At(b, i) = At(a, i)
    BY <1>2, <1>3, FlatDrop DEF At
  <1> QED BY <1>3, <1>4, Zenon DEF b, n

----------------------------------------------------------------------------
\* The invariant of the data phase: the windows must be well formed for clear_buffer
\* to free every packet.
IInv == TypeOK /\ ArraysWellFormed /\ NothingLeaked

LEMMA OtherPeer ==
    ASSUME NEW p \in Peer
    PROVE  Other(p) \in Peer /\ Other(p) # p
  <1>1. \E q \in Peer : q # p
    BY CryptoTransportAssumption
  <1> QED BY <1>1 DEF Other

LEMMA OtherOther ==
    ASSUME NEW p \in Peer
    PROVE  /\ Other(p) \in Peer /\ Other(p) # p /\ Other(Other(p)) = p
           /\ \A r \in Peer : r = p \/ r = Other(p)
  <1>1. PICK q \in Peer : Peer = {p, q} /\ p # q
    BY CryptoTransportAssumption
  <1>2. Other(p) = q
    BY <1>1, OtherPeer
  <1>3. Other(q) = p
    BY <1>1, OtherPeer
  <1> QED BY <1>1, <1>2, <1>3

LEMMA AdvanceType ==
    ASSUME NEW n \in Nat, NEW k \in Nat
    PROVE  Advance(n, k) \in 0 .. (NONCES - 1)
  BY CryptoTransportAssumption DEF Advance

\* Every packet built is a packet.
LEMMA DataPacketType ==
    ASSUME TypeOK, NEW p \in Peer, NEW k \in Nat, NEW num \in Number, NEW body \in Body
    PROVE  DataPacket(p, k, num, body) \in Packet
  <1>1. sent_nonce[p] \in Nat /\ recv_array[p].start \in Number
    BY CryptoTransportAssumption, ArrayParts DEF TypeOK
  <1> QED BY <1>1, OtherPeer, AdvanceType, Zenon DEF DataPacket, Packet

LEMMA ReportType ==
    ASSUME NEW a, NEW room
    PROVE  generate_request_packet(a, room) \in Request
  <1>1. Reported(a, room) \subseteq Number
    BY DEF Reported, Window, Between
  <1> QED BY <1>1 DEF generate_request_packet, Request

LEMMA BodyTypes ==
    /\ Lossy \in Body
    /\ Kill \in Body
    /\ \A d \in Nat : Lossless(d) \in Body
    /\ \A p \in Peer : RequestBody(p) \in Body
  BY ReportType DEF Lossy, Kill, Lossless, RequestBody, Body

\* What the payload of a packet is, by its kind.
LEMMA BodyOf ==
    ASSUME NEW m \in Packet
    PROVE  /\ m.start \in Number /\ m.num \in Number /\ m.nonce \in 0 .. (NONCES - 1)
           /\ m.body.kind = "lossless" => m.body.data \in Nat
           /\ m.body.kind = "request" => m.body.report \in Request
  BY DEF Packet, Body

\* The arrays of one peer change and stay well formed, and are empty if the
\* connection dies: then the arrays of both peers are as the invariant says.
LEMMA ArraysStep ==
    ASSUME IInv, NEW p \in Peer,
           NEW sa \in ArrayOf(SendPacket), WellFormed(sa),
           NEW ra \in ArrayOf(Nat), WellFormed(ra),
           NEW st \in {NOT_CONFIRMED, ESTABLISHED, FREE},
           send_array' = [send_array EXCEPT ![p] = sa],
           recv_array' = [recv_array EXCEPT ![p] = ra],
           status' = [status EXCEPT ![p] = st],
           st = FREE => \A s \in Slot : sa.buffer[s] = Empty /\ ra.buffer[s] = Empty
    PROVE  /\ status' \in [Peer -> {NOT_CONFIRMED, ESTABLISHED, FREE}]
           /\ send_array' \in [Peer -> ArrayOf(SendPacket)]
           /\ recv_array' \in [Peer -> ArrayOf(Nat)]
           /\ ArraysWellFormed'
           /\ NothingLeaked'
  <1>1. /\ status' \in [Peer -> {NOT_CONFIRMED, ESTABLISHED, FREE}]
        /\ send_array' \in [Peer -> ArrayOf(SendPacket)]
        /\ recv_array' \in [Peer -> ArrayOf(Nat)]
    BY DEF IInv, TypeOK
  <1>2. ArraysWellFormed'
    <2> SUFFICES ASSUME NEW q \in Peer PROVE WellFormed(send_array'[q]) /\ WellFormed(recv_array'[q])
      BY DEF ArraysWellFormed, WellFormed, num_packets_array, Window, Between, Sub, SlotOf
    <2>1. CASE q = p
      BY <2>1 DEF IInv, TypeOK
    <2>2. CASE q # p
      BY <2>2 DEF IInv, TypeOK, ArraysWellFormed
    <2> QED BY <2>1, <2>2, SMTT(40)
  <1>3. NothingLeaked'
    <2> SUFFICES ASSUME NEW q \in Peer, status'[q] = FREE, NEW s \in Slot
                 PROVE  send_array'[q].buffer[s] = Empty /\ recv_array'[q].buffer[s] = Empty
      BY DEF NothingLeaked, Live
    <2>1. CASE q = p
      BY <2>1 DEF IInv, TypeOK
    <2>2. CASE q # p
      BY <2>2 DEF IInv, TypeOK, NothingLeaked, Live
    <2> QED BY <2>1, <2>2
  <1> QED BY <1>1, <1>2, <1>3

----------------------------------------------------------------------------
\* The parts of the state of a peer.
LEMMA PeerParts ==
    ASSUME IInv, NEW p \in Peer
    PROVE  /\ send_array[p] \in ArrayOf(SendPacket) /\ WellFormed(send_array[p])
           /\ recv_array[p] \in ArrayOf(Nat) /\ WellFormed(recv_array[p])
           /\ send_array[p].end \in Number /\ send_array[p].start \in Number
           /\ recv_array[p].start \in Number
           /\ sent_nonce[p] \in Nat /\ recv_nonce[p] \in Nat
           /\ written[p] \in Nat
           /\ status[p] \in {NOT_CONFIRMED, ESTABLISHED, FREE}
  <1>1. /\ send_array[p] \in ArrayOf(SendPacket) /\ WellFormed(send_array[p])
        /\ recv_array[p] \in ArrayOf(Nat) /\ WellFormed(recv_array[p])
    BY DEF IInv, TypeOK, ArraysWellFormed
  <1> QED BY <1>1, ArrayParts DEF IInv, TypeOK

\* A number of the window that holds a packet; its slot.
LEMMA OccupiedParts ==
    ASSUME NEW P, NEW a \in ArrayOf(P), NEW n \in Number, At(a, n) # Empty
    PROVE  At(a, n) \in P /\ SlotOf(n) \in Slot /\ At(a, n) = a.buffer[SlotOf(n)]
  BY ArrayParts, SlotType DEF At

LEMMA MarkWellFormed ==
    ASSUME NEW a \in ArrayOf(SendPacket), WellFormed(a), NEW N \in SUBSET Number, NEW v \in BOOLEAN,
           \A n \in N : At(a, n) # Empty
    PROVE  /\ Marked(a, N, v) \in ArrayOf(SendPacket)
           /\ WellFormed(Marked(a, N, v))
           /\ Marked(a, N, v).start = a.start
           /\ Marked(a, N, v).end = a.end
  <1> DEFINE b == Marked(a, N, v)
             Z == {s \in Slot : \E n \in N : SlotOf(n) = s}
  <1>1. \A s \in Z : a.buffer[s] \in SendPacket
    BY OccupiedParts
  <1>2. \A s \in Z : [a.buffer[s] EXCEPT !.sent = v] \in SendPacket
    BY <1>1 DEF SendPacket
  <1>3. b.start = a.start /\ b.end = a.end
    BY DEF Marked, ArrayOf
  <1>4. b.buffer = [s \in Slot |-> IF s \in Z THEN [a.buffer[s] EXCEPT !.sent = v] ELSE a.buffer[s]]
    BY DEF Marked, ArrayOf
  <1> HIDE DEF Z
  <1>5. b.buffer \in [Slot -> SendPacket \union {Empty}]
    BY <1>2, <1>4, ArrayParts
  <1>6. b \in ArrayOf(SendPacket)
    BY <1>3, <1>4, <1>5, SMTT(40) DEF Marked, ArrayOf
  <1>7. \A s \in Slot : b.buffer[s] # Empty => a.buffer[s] # Empty
    BY <1>1, <1>4, CryptoTransportAssumption DEF SendPacket
  <1>8. WellFormed(b)
    BY <1>3, <1>7, SameWindowWellFormed
  <1> QED BY <1>3, <1>6, <1>8

\* reset_max_speed_reached
LEMMA ResetParts ==
    ASSUME IInv, NEW p \in Peer
    PROVE  /\ AfterReset(p) \in ArrayOf(SendPacket) /\ WellFormed(AfterReset(p))
           /\ num_packets_array(AfterReset(p)) = num_packets_array(send_array[p])
           /\ AfterReset(p).end = send_array[p].end
           /\ Retried(p) \subseteq Packet
           /\ Retries(p) \in Nat
  <1> DEFINE a == send_array[p]
             n == Newest(p)
  <1>1. a \in ArrayOf(SendPacket) /\ WellFormed(a) /\ a.end \in Number /\ a.start \in Number
    BY PeerParts
  <1>2. n \in Number
    <2>1. 1 \in Number
      BY PacketsArrayAssumption, SMTT(30) DEF Number
    <2> QED BY <1>1, <2>1, SubType DEF Newest
  <1>3. CASE ~RetriesNewest(p)
    BY <1>1, <1>3 DEF AfterReset, Retried, Retries
  <1>4. CASE RetriesNewest(p)
    <2>1. At(a, n) # Empty
      BY <1>4 DEF RetriesNewest, HasData
    <2>2. At(a, n) \in SendPacket
      BY <1>1, <1>2, <2>1, OccupiedParts
    <2>3. AfterReset(p) = Marked(a, {n}, TRUE)
      BY <1>4 DEF AfterReset
    <2>4. /\ AfterReset(p) \in ArrayOf(SendPacket) /\ WellFormed(AfterReset(p))
          /\ AfterReset(p).start = a.start /\ AfterReset(p).end = a.end
      <3>1. {n} \in SUBSET Number /\ \A i \in {n} : At(a, i) # Empty
        BY <1>2, <2>1
      <3>2. TRUE \in BOOLEAN
        OBVIOUS
      <3> HIDE DEF a, n
      <3>3. /\ Marked(a, {n}, TRUE) \in ArrayOf(SendPacket)
            /\ WellFormed(Marked(a, {n}, TRUE))
            /\ Marked(a, {n}, TRUE).start = a.start
            /\ Marked(a, {n}, TRUE).end = a.end
        BY <1>1, <3>1, <3>2, MarkWellFormed, Zenon
      <3> QED BY <2>3, <3>3, Zenon
    <2>8. At(a, n).data \in Nat
      BY <2>2 DEF SendPacket
    <2>9. RetryPacket(p) \in Packet
      BY <1>2, <2>8, BodyTypes, DataPacketType DEF RetryPacket, IInv
    <2> QED
      BY <1>4, <2>4, <2>9 DEF Retried, Retries, num_packets_array
  <1> QED BY <1>3, <1>4

\* What an arriving packet finds, and the send array after its acknowledgement.
LEMMA ArrivesParts ==
    ASSUME IInv, NEW p \in Peer, NEW m, Arrives(p, m)
    PROVE  /\ m \in Packet /\ status[p] # FREE
           /\ recv_nonce' \in [Peer -> 0 .. (NONCES - 1)]
           /\ AckValid(p, m) => Acked(p, m) \in ArrayOf(SendPacket) /\ WellFormed(Acked(p, m))
  <1>1. m \in Packet /\ status[p] # FREE
    BY DEF Arrives, Live, IInv, TypeOK
  <1>2. recv_nonce' \in [Peer -> 0 .. (NONCES - 1)]
    <2>1. BaseAfter(p, m) \in 0 .. (NONCES - 1)
      BY PeerParts, AdvanceType, CryptoTransportAssumption, Zenon DEF BaseAfter, IInv, TypeOK
    <2> QED BY <2>1, SMTT(40) DEF Arrives, IInv, TypeOK
  <1>3. ASSUME AckValid(p, m)
        PROVE  Acked(p, m) \in ArrayOf(SendPacket) /\ WellFormed(Acked(p, m))
    <2>1. m.start \in Number
      BY <1>1, BodyOf
    <2> QED BY <1>3, <2>1, PeerParts, ClearUntilWellFormed DEF AckValid, Acked
  <1> QED BY <1>1, <1>2, <1>3
============================================================================
