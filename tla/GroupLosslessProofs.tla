------------------------ MODULE GroupLosslessProofs ------------------------
(***************************************************************************)
(* The lossless packets of a group connection: none is lost, for any size  *)
(* of the arrays, any fragmentation and any network; and the ids that      *)
(* packets take, from which GroupOrderProofs shows that they are delivered *)
(* in order.                                                               *)
(***************************************************************************)
EXTENDS GroupLossless, TLAPS, WellFoundedInduction
-----------------------------------------------------------------------------
(* Numbers and slots *)

\* A set of naturals has a smallest one.
LEMMA Smallest ==
    ASSUME NEW S, S \subseteq Nat, S # {}
    PROVE  \E x \in S : \A y \in S : x <= y
  <1> DEFINE R == {ss \in Nat \X Nat : ss[1] < ss[2]}
  <1>1. IsWellFoundedOn(R, Nat)
    BY NatLessThanWellFounded, Zenon DEF OpToRel
  <1>2. \A x, y \in Nat : x < y => <<x, y>> \in R
    BY Zenon
  <1> HIDE DEF R
  <1>3. PICK x \in S : \A y \in S : ~(<<y, x>> \in R)
    BY <1>1, WFMin, Zenon
  <1>4. ASSUME NEW y \in S PROVE x <= y
    <2>1. x \in Nat /\ y \in Nat
      BY Zenon
    <2>2. ~(y < x)
      BY <1>2, <1>3, <2>1, Zenon
    <2> QED BY <2>1, <2>2
  <1> QED
    BY <1>4, Zenon

\* Division with remainder.
LEMMA DivMod ==
    ASSUME NEW t \in Nat \ {0}, NEW n \in Int
    PROVE  n = (t * (n \div t)) + (n % t) /\ n % t \in 0 .. t - 1 /\ n \div t \in Int
  OBVIOUS

LEMMA ModUnique ==
    ASSUME NEW t \in Nat \ {0}, NEW q \in Int, NEW r \in 0 .. t - 1
    PROVE  ((t * q) + r) % t = r
  OBVIOUS

LEMMA SlotType ==
    ASSUME NEW id \in Int PROVE gcc_get_array_index(id) \in Index
  BY SizesAssumption DEF gcc_get_array_index, Index

\* Ids that are less than the size of the arrays apart have different slots ...
LEMMA SlotInjective ==
    ASSUME NEW i \in Int, NEW j \in Int, gcc_get_array_index(i) = gcc_get_array_index(j),
           i - j < GCC_BUFFER_SIZE, j - i < GCC_BUFFER_SIZE
    PROVE  i = j
  <1> DEFINE t == GCC_BUFFER_SIZE
  <1>1. t \in Nat \ {0}
    BY SizesAssumption, Zenon
  <1>2. PICK q \in Int, r \in 0 .. t - 1 : i = (t * q) + r /\ r = i % t
    BY <1>1, DivMod
  <1>3. PICK p \in Int, s \in 0 .. t - 1 : j = (t * p) + s /\ s = j % t
    BY <1>1, DivMod
  <1>4. r = s
    BY <1>2, <1>3, Zenon DEF gcc_get_array_index
  <1>5. i - j = t * (q - p)
    BY <1>1, <1>2, <1>3, <1>4, SMTT(30)
  <1>6. i - j < t /\ j - i < t
    BY Zenon
  <1> HIDE DEF t
  <1>7. q - p = 0
    <2>1. q - p >= 1 => t * (q - p) >= t
      BY <1>1
    <2>2. q - p <= -1 => t * (q - p) <= -t
      BY <1>1
    <2> QED BY <1>1, <1>5, <1>6, <2>1, <2>2
  <1> QED BY <1>1, <1>5, <1>7

\* ... and whole rounds lead to the same slot.
LEMMA SlotAgain ==
    ASSUME NEW i \in Int, NEW q \in Int
    PROVE  gcc_get_array_index(i + (GCC_BUFFER_SIZE * q)) = gcc_get_array_index(i)
  <1> DEFINE t == GCC_BUFFER_SIZE
  <1>1. t \in Nat \ {0}
    BY SizesAssumption, Zenon
  <1>2. PICK p \in Int, r \in 0 .. t - 1 : i = (t * p) + r /\ r = i % t
    BY <1>1, DivMod
  <1>3. i + (t * q) = (t * (p + q)) + r
    BY <1>1, <1>2
  <1>4. ((t * (p + q)) + r) % t = r
    BY <1>1, ModUnique
  <1> QED BY <1>2, <1>3, <1>4, Zenon DEF gcc_get_array_index

\* The low 16 bits of an id have its slot.
LEMMA SlotLow ==
    ASSUME NEW id \in Nat
    PROVE  /\ id % U16 \in Nat /\ id % U16 <= id
           /\ \E q \in Int : id = (id % U16) + (GCC_BUFFER_SIZE * q)
           /\ id < U16 => id % U16 = id
  <1> DEFINE t == GCC_BUFFER_SIZE
             low == id % U16
  <1>1. t \in Nat \ {0} /\ U16 \in Nat \ {0} /\ U16 % t = 0
    BY SizesAssumption, Zenon
  <1>2. PICK c \in Int : U16 = t * c
    <2>1. U16 = (t * (U16 \div t)) + (U16 % t) /\ U16 \div t \in Int
      BY <1>1, DivMod
    <2>2. U16 = t * (U16 \div t)
      BY <1>1, <2>1
    <2> QED BY <2>1, <2>2, Zenon
  <1>3. PICK d \in Int : id = (U16 * d) + low /\ low \in 0 .. U16 - 1
    <2>1. id = (U16 * (id \div U16)) + (id % U16) /\ id % U16 \in 0 .. U16 - 1 /\ id \div U16 \in Int
      BY <1>1, DivMod
    <2> QED BY <2>1, Zenon
  <1> HIDE DEF low
  <1>4. id - low = t * (c * d)
    BY <1>1, <1>2, <1>3
  <1>5. d >= 0
    <2>1. d <= -1 => U16 * d <= -U16
      BY <1>1
    <2> QED BY <1>1, <1>3, <2>1
  <1>6. U16 * d >= 0
    BY <1>1, <1>5
  <1>7. low <= id
    BY <1>1, <1>3, <1>6
  <1>8. id = low + (t * (c * d)) /\ c * d \in Int
    BY <1>1, <1>2, <1>3, <1>4
  <1>9. id < U16 => id % U16 = id
    BY <1>1
  <1>10. low \in Nat
    BY <1>1, <1>3
  <1>11. \E q \in Int : id = low + (t * q)
    BY <1>8, Zenon
  <1> QED BY <1>7, <1>9, <1>10, <1>11, Zenon DEF low

-----------------------------------------------------------------------------
(* What is accepted is in the send array until it has arrived *)

PieceSeqs == Seq(Nat \X Nat)
Entries == [id : Nat, type : {"none", "packet", "fragment"}, piece : PieceSeqs]
Packets == [kind : {"lossless"}, entry : Entries] \cup [kind : {"ack"}, type : {"GR_ACK_REQ", "GR_ACK_RECV"}, id : Nat]

Types ==
    /\ send_message_id \in Nat /\ received_message_id \in Nat
    /\ last_chunk_id \in 0 .. received_message_id
    /\ send_array_start \in Index
    /\ send_array \in [Index -> Entries] /\ recv_array \in [Index -> Entries]
    /\ \A x \in Index : IsEmpty(send_array[x]) => send_array[x] = Empty
    /\ written \in Seq(ChunkCounts)
    /\ pending_delete \in BOOLEAN /\ shadowed \in BOOLEAN
    /\ refused \in 0 .. MaxRefused
    /\ net \subseteq Packets

\* An acknowledgement is of an id that was accepted, or of id 0.
Acknowledged == \A m \in net : m.kind = "ack" /\ m.type = "GR_ACK_RECV" => m.id <= received_message_id

KInv == Types /\ Acknowledged /\ NothingLost

LEMMA EmptyType == Empty \in Entries /\ IsEmpty(Empty) /\ Empty.id = 0 /\ Empty.type = "none"
  BY DEF Empty, Entries, IsEmpty, PieceSeqs

LEMMA MadeTypes ==
    ASSUME NEW id \in Nat, NEW n \in Nat
    PROVE  /\ Entry(id, "packet", <<<<n, 1>>>>) \in Entries
           /\ \A i \in Nat, count \in Nat : Fragment(id, n, i, count) \in Entries
  BY SMTT(30) DEF Entry, Fragment, Entries, PieceSeqs

\* The array with the first k fragments of a packet: they have slots of their own, and the other
\* slots are as before.
Placed(array, n, count, k) ==
    /\ \A i \in 1 .. k :
         array[gcc_get_array_index(send_message_id + i - 1)] = Fragment(send_message_id + i - 1, n, i, count)
    /\ \A x \in Index :
         \/ array[x] = send_array[x] /\ \A i \in 1 .. k : x # gcc_get_array_index(send_message_id + i - 1)
         \/ \E i \in 1 .. k : /\ x = gcc_get_array_index(send_message_id + i - 1)
                            /\ array[x] = Fragment(send_message_id + i - 1, n, i, count)

LEMMA FragmentsPlaced ==
    ASSUME Types, NEW n, NEW count \in 1 .. GCC_BUFFER_SIZE - 1, NEW k \in 0 .. count + 1
    PROVE  Placed(WithFragments(n, count, k), n, count, k)
  <1> DEFINE array == WithFragments(n, count, k)
             slot(i) == gcc_get_array_index(send_message_id + i - 1)
             taken(x) == {i \in 1 .. k : slot(i) = x}
  <1>1. \A i, j \in 1 .. k : slot(i) = slot(j) => i = j
    <2> SUFFICES ASSUME NEW i \in 1 .. k, NEW j \in 1 .. k, slot(i) = slot(j) PROVE i = j
      BY Zenon
    <2>1. send_message_id \in Nat /\ GCC_BUFFER_SIZE \in Nat
      BY SizesAssumption, Zenon DEF Types
    <2>2. send_message_id + i - 1 = send_message_id + j - 1
      BY <2>1, SlotInjective
    <2> QED BY <2>1, <2>2
  <1>2. \A x \in Index : array[x] = IF taken(x) = {} THEN send_array[x]
                         ELSE LET i == CHOOSE i \in taken(x) : TRUE
                              IN  Fragment(send_message_id + i - 1, n, i, count)
    BY Zenon DEF WithFragments
  <1>3. ASSUME NEW i \in 1 .. k
        PROVE  array[slot(i)] = Fragment(send_message_id + i - 1, n, i, count)
    <2>1. slot(i) \in Index
      BY SlotType DEF Types
    <2>2. taken(slot(i)) = {i}
      BY <1>1, Zenon
    <2>3. (CHOOSE j \in taken(slot(i)) : TRUE) = i
      BY <2>2, Zenon
    <2> QED BY <1>2, <2>1, <2>2, <2>3, Zenon
  <1>4. ASSUME NEW x \in Index
        PROVE  \/ array[x] = send_array[x] /\ \A i \in 1 .. k : x # slot(i)
               \/ \E i \in 1 .. k : x = slot(i) /\ array[x] = Fragment(send_message_id + i - 1, n, i, count)
    <2>1. CASE taken(x) = {}
      BY <1>2, <2>1, Zenon
    <2>2. CASE taken(x) # {}
      BY <1>3, <2>2, Zenon
    <2> QED BY <2>1, <2>2, Zenon
  <1> QED BY <1>3, <1>4, Zenon DEF Placed

\* A fragment finds room where the array of the packet before it was empty.
LEMMA FitsEmpty ==
    ASSUME Types, NEW n, NEW count \in 1 .. GCC_BUFFER_SIZE - 1, NEW k \in 0 .. count + 1, Fits(n, count, k)
    PROVE  \A i \in 1 .. k : send_array[gcc_get_array_index(send_message_id + i - 1)] = Empty
  <1> SUFFICES ASSUME NEW i \in 1 .. k
               PROVE  send_array[gcc_get_array_index(send_message_id + i - 1)] = Empty
    BY Zenon
  <1> DEFINE slot(j) == gcc_get_array_index(send_message_id + j - 1)
  <1>1. slot(i) \in Index
    BY SlotType DEF Types
  <1>2. IsEmpty(WithFragments(n, count, i - 1)[slot(i)])
    BY Zenon DEF Fits, CanAdd
  <1>3. i - 1 \in 0 .. count + 1
    OBVIOUS
  <1>4. \A j \in 1 .. i - 1 : slot(j) # slot(i)
    <2> SUFFICES ASSUME NEW j \in 1 .. i - 1, slot(j) = slot(i) PROVE FALSE
      BY Zenon
    <2>1. send_message_id \in Nat /\ GCC_BUFFER_SIZE \in Nat
      BY SizesAssumption, Zenon DEF Types
    <2>2. send_message_id + i - 1 = send_message_id + j - 1
      BY <2>1, SlotInjective
    <2> QED BY <2>1, <2>2
  <1>5. WithFragments(n, count, i - 1)[slot(i)] = send_array[slot(i)]
    <2>1. Placed(WithFragments(n, count, i - 1), n, count, i - 1)
      BY <1>3, FragmentsPlaced, Zenon
    <2> QED BY <1>1, <1>4, <2>1, Zenon DEF Placed
  <1> QED BY <1>1, <1>2, <1>5, Zenon DEF Types

\* Taking fragments back clears slots that were empty before.
LEMMA TakenBack ==
    ASSUME Types, NEW count \in ChunkCounts, SendFragmentsFails(count)
    PROVE  send_array' = send_array /\ send_message_id' = send_message_id % U16
  <1> DEFINE t == GCC_BUFFER_SIZE
             start == send_message_id % U16
             n == Len(written) + 1
  <1>1. PICK k \in 1 .. count :
          /\ Fits(n, count, k)
          /\ send_array' = [x \in Index |-> IF (x - start) % t < ((send_message_id + k) - start) % t
                                            THEN Empty ELSE send_array[x]]
          /\ send_message_id' = start
    BY Zenon DEF SendFragmentsFails, clear_send_queue_id_range
  <1>2. t \in Nat \ {0} /\ count \in 1 .. t - 1 /\ send_message_id \in Nat
    BY SizesAssumption, Zenon DEF Types
  <1>3. k \in 0 .. count + 1
    BY <1>2
  <1>4. PICK q \in Int : send_message_id = start + (t * q)
    BY <1>2, SlotLow
  <1>5. start \in Nat
    BY <1>2, SlotLow
  <1> HIDE DEF start, n
  <1>6. ((send_message_id + k) - start) % t = k
    <2>1. (send_message_id + k) - start = (t * q) + k
      BY <1>2, <1>4, <1>5
    <2>2. k \in 0 .. t - 1
      BY <1>2
    <2> QED BY <1>2, <2>1, <2>2, ModUnique
  <1>7. ASSUME NEW x \in Index, (x - start) % t < k PROVE send_array[x] = Empty
    <2> DEFINE j == (x - start) % t
    <2>1. x \in Int /\ x - start \in Int
      BY <1>5 DEF Index
    <2>2. PICK p \in Int : x - start = (t * p) + j /\ j \in 0 .. t - 1
      BY <1>2, <2>1, DivMod
    <2> HIDE DEF j
    <2>3. x = (start + j) + (t * p) /\ send_message_id + j = (start + j) + (t * q)
      BY <1>2, <1>4, <1>5, <2>1, <2>2
    <2>4. gcc_get_array_index(x) = gcc_get_array_index(start + j)
      BY <1>5, <2>2, <2>3, SlotAgain
    <2>5. gcc_get_array_index(send_message_id + j) = gcc_get_array_index(start + j)
      BY <1>5, <2>2, <2>3, SlotAgain
    <2>6. gcc_get_array_index(x) = x
      BY <1>2 DEF gcc_get_array_index, Index
    <2>7. j + 1 \in 1 .. k /\ send_message_id + (j + 1) - 1 = send_message_id + j
      BY <1>2, <1>7, <2>2 DEF j
    <2>8. send_array[gcc_get_array_index(send_message_id + (j + 1) - 1)] = Empty
      BY <1>1, <1>2, <1>3, <2>7, FitsEmpty
    <2> QED BY <2>4, <2>5, <2>6, <2>7, <2>8, Zenon
  <1>8. send_array' = [x \in Index |-> IF (x - start) % t < k THEN Empty ELSE send_array[x]]
    BY <1>1, <1>6, Zenon
  <1>9. send_array' = send_array
    BY <1>7, <1>8, Zenon DEF Types
  <1> QED BY <1>1, <1>9, Zenon DEF start

\* gcc_handle_ack: the start of the array moves to a slot.
LEMMA StartType ==
    ASSUME Types, NEW array PROVE Start(array) \in Index
  <1> DEFINE t == GCC_BUFFER_SIZE
             end == send_message_id % t
             At(k) == (send_array_start + k) % t
             stops == {k \in Index : At(k) = end \/ ~IsEmpty(array[At(k)])}
  <1>1. t \in Nat \ {0} /\ end \in Index /\ send_array_start \in Index
    BY SizesAssumption DEF Types, Index
  <1>2. \A k \in Index : At(k) \in Index
    BY <1>1 DEF Index
  <1>3. \E k \in Index : At(k) = end
    <2> HIDE DEF end, t
    <2>1. CASE end >= send_array_start
      <3>1. end - send_array_start \in Index /\ send_array_start + (end - send_array_start) = end
        BY <1>1, <2>1 DEF Index, t
      <3>2. end % t = end
        BY <1>1 DEF Index, t
      <3> QED BY <3>1, <3>2, Zenon
    <2>2. CASE end < send_array_start
      <3>1. (t + end) - send_array_start \in Index /\ send_array_start + ((t + end) - send_array_start) = t + end
        BY <1>1, <2>2 DEF Index, t
      <3>2. (t + end) % t = end
        BY <1>1 DEF Index, t
      <3> QED BY <3>1, <3>2, Zenon
    <2> QED BY <1>1, <2>1, <2>2 DEF Index
  <1>4. stops \subseteq Nat /\ stops \subseteq Index /\ stops # {}
    BY <1>3 DEF Index
  <1> HIDE DEF stops, At
  <1>5. \E k \in stops : \A l \in stops : k <= l
    BY <1>4, Smallest, Zenon
  <1>6. (CHOOSE k \in stops : \A l \in stops : k <= l) \in stops
    BY <1>5, Zenon
  <1>7. At(CHOOSE k \in stops : \A l \in stops : k <= l) \in Index
    BY <1>2, <1>4, <1>6, Zenon
  <1> QED BY <1>7, Zenon DEF Start, stops, At

LEMMA FewerIds ==
    ASSUME NEW i \in Nat, NEW j \in Nat, NEW k \in Nat, NEW l \in Nat, i <= j, k <= l
    PROVE  \A id \in j + 1 .. k - 1 : id \in i + 1 .. l - 1
  OBVIOUS

\* A step of the receiver keeps the invariant when it acknowledges only what it has had ...
LEMMA ReceiverKeeps ==
    ASSUME KInv, UNCHANGED senderVars,
           received_message_id' \in Nat, received_message_id <= received_message_id',
           last_chunk_id' \in 0 .. received_message_id',
           recv_array' \in [Index -> Entries], shadowed' \in BOOLEAN, refused' \in 0 .. MaxRefused,
           \A m \in net' :
               m \in net \/ (m \in Packets /\ (m.kind = "ack" /\ m.type = "GR_ACK_RECV" => m.id <= received_message_id'))
    PROVE  KInv'
  <1>1. Types'
    BY Zenon DEF KInv, Types, senderVars
  <1>2. Acknowledged'
    <2> SUFFICES ASSUME NEW m \in net', m.kind = "ack", m.type = "GR_ACK_RECV"
                 PROVE  m.id <= received_message_id'
      BY Zenon DEF Acknowledged
    <2>1. CASE m \in net
      <3>1. m.id \in Nat /\ m.id <= received_message_id /\ received_message_id \in Nat
        BY <2>1, Zenon DEF KInv, Types, Packets, Acknowledged
      <3> QED BY <3>1
    <2>2. CASE m \notin net
      BY <2>2, Zenon
    <2> QED BY <2>1, <2>2, Zenon
  <1>3. NothingLost'
    <2>1. send_array' = send_array /\ send_message_id' = send_message_id
      BY Zenon DEF senderVars
    <2>2. received_message_id \in Nat /\ send_message_id \in Nat /\ send_message_id <= send_message_id
      BY DEF KInv, Types
    <2>3. \A id \in received_message_id' + 1 .. send_message_id - 1 : id \in received_message_id + 1 .. send_message_id - 1
      BY <2>2, FewerIds, Zenon
    <2> QED BY <2>1, <2>3 DEF KInv, NothingLost
  <1> QED BY <1>1, <1>2, <1>3, Zenon DEF KInv

\* ... and one of the sender when it keeps in its array what has not arrived.
LEMMA SenderKeeps ==
    ASSUME KInv, UNCHANGED receiverVars,
           send_message_id' \in Nat, send_array_start' \in Index, written' \in Seq(ChunkCounts),
           pending_delete' \in BOOLEAN, send_array' \in [Index -> Entries],
           \A x \in Index : IsEmpty(send_array'[x]) => send_array'[x] = Empty,
           \A m \in net' : m \in net \/ (\E entry \in Entries : m = Lossless(entry)),
           NothingLost'
    PROVE  KInv'
  <1>1. \A entry \in Entries : Lossless(entry) \in Packets /\ Lossless(entry).kind = "lossless"
    BY Zenon DEF Lossless, Packets
  <1>2. Types'
    <2>1. net' \subseteq Packets
      BY <1>1, Zenon DEF KInv, Types
    <2>2. /\ received_message_id' = received_message_id /\ last_chunk_id' = last_chunk_id /\ recv_array' = recv_array
          /\ refused' = refused /\ shadowed' = shadowed
      BY Zenon DEF receiverVars
    <2> QED BY <2>1, <2>2, Zenon DEF KInv, Types
  <1>3. Acknowledged'
    BY <1>1, Zenon DEF KInv, Acknowledged, receiverVars
  <1> QED BY <1>2, <1>3, Zenon DEF KInv

LEMMA InitKeeps == Init => KInv
  <1> SUFFICES ASSUME Init PROVE KInv
    BY Zenon
  <1>1. FirstId \in Nat \ {0} /\ MaxRefused \in Nat
    BY SizesAssumption, Zenon
  <1>2. Types
    <2>1. send_array_start \in Index
      BY <1>1, SlotType DEF Init
    <2>2. received_message_id \in Nat /\ last_chunk_id \in 0 .. received_message_id /\ refused \in 0 .. MaxRefused
      BY <1>1 DEF Init
    <2>3. send_array \in [Index -> Entries] /\ recv_array \in [Index -> Entries] /\ \A x \in Index : send_array[x] = Empty
      BY EmptyType, Zenon DEF Init
    <2>4. send_message_id \in Nat /\ net \subseteq Packets
      BY <1>1, Zenon DEF Init
    <2>5. pending_delete \in BOOLEAN /\ shadowed \in BOOLEAN
      BY Zenon DEF Init
    <2>6. written \in Seq(ChunkCounts)
      <3>1. written = <<>>
        BY Zenon DEF Init
      <3> QED BY <3>1
    <2> QED BY <2>1, <2>2, <2>3, <2>4, <2>5, <2>6, Zenon DEF Types
  <1>3. Acknowledged /\ NothingLost
    BY <1>1 DEF Init, Acknowledged, NothingLost
  <1> QED BY <1>2, <1>3, Zenon DEF KInv

LEMMA SendPacketKeeps ==
    ASSUME KInv, 1 \in ChunkCounts, NEW sent \in BOOLEAN, SendPacket(sent) PROVE KInv'
  <1> DEFINE slot == gcc_get_array_index(send_message_id)
             entry == Entry(send_message_id, "packet", <<<<Len(written) + 1, 1>>>>)
  <1>1. /\ IsEmpty(send_array[slot])
        /\ send_array' = [send_array EXCEPT ![slot] = entry]
        /\ net' = IF sent THEN net \cup {Lossless(entry)} ELSE net
        /\ send_message_id' = send_message_id + 1
        /\ written' = Append(written, 1)
        /\ UNCHANGED <<send_array_start, pending_delete, receiverVars>>
    BY Zenon DEF SendPacket, CanAdd, add_to_send_array
  <1>2. Types /\ NothingLost
    BY Zenon DEF KInv
  <1>3. slot \in Index /\ Len(written) + 1 \in Nat
    BY <1>2, SlotType DEF Types
  <1>4. entry \in Entries /\ entry.id = send_message_id /\ ~IsEmpty(entry)
    BY <1>2, <1>3, MadeTypes, Zenon DEF Entry, Types, IsEmpty
  <1> HIDE DEF slot, entry
  <1>5. send_array' \in [Index -> Entries] /\ send_array'[slot] = entry /\ \A x \in Index \ {slot} : send_array'[x] = send_array[x]
    BY <1>1, <1>2, <1>3, <1>4, Zenon DEF Types
  <1>6. \A x \in Index : IsEmpty(send_array'[x]) => send_array'[x] = Empty
    BY <1>2, <1>4, <1>5, Zenon DEF Types
  <1>7. NothingLost'
    <2> SUFFICES ASSUME NEW id \in received_message_id' + 1 .. send_message_id' - 1
                 PROVE  send_array'[gcc_get_array_index(id)].id = id
      BY Zenon DEF NothingLost
    <2>1. received_message_id' = received_message_id /\ received_message_id \in Nat /\ send_message_id \in Nat
      BY <1>1, <1>2, Zenon DEF receiverVars, Types
    <2>2. CASE id = send_message_id
      BY <1>4, <1>5, <2>2, Zenon DEF slot
    <2>3. CASE id # send_message_id
      <3>1. id \in received_message_id + 1 .. send_message_id - 1 /\ id # 0
        BY <1>1, <2>1, <2>3
      <3>2. send_array[gcc_get_array_index(id)].id = id
        BY <1>2, <3>1, Zenon DEF NothingLost
      <3>3. gcc_get_array_index(id) \in Index
        BY SlotType
      <3>4. gcc_get_array_index(id) # slot
        BY <1>1, <1>2, <1>3, <3>1, <3>2, EmptyType, Zenon DEF Types
      <3> QED BY <1>5, <3>2, <3>3, <3>4, Zenon
    <2> QED BY <2>2, <2>3, Zenon
  <1>8. written' \in Seq(ChunkCounts)
    BY <1>1, <1>2 DEF Types
  <1>9. \A m \in net' : m \in net \/ (\E e \in Entries : m = Lossless(e))
    BY <1>1, <1>4, Zenon
  <1>10. send_message_id' \in Nat
    BY <1>1, <1>2 DEF Types
  <1>11. send_array_start' \in Index /\ pending_delete' \in BOOLEAN /\ UNCHANGED receiverVars
    BY <1>1, <1>2, Zenon DEF Types
  <1> QED BY <1>5, <1>6, <1>7, <1>8, <1>9, <1>10, <1>11, SenderKeeps, Zenon

LEMMA SendFragmentsKeeps ==
    ASSUME KInv, NEW count \in ChunkCounts \ {1}, SendFragments(count) PROVE KInv'
  <1> DEFINE n == Len(written) + 1
             array == WithFragments(n, count, count + 1)
             slot(i) == gcc_get_array_index(send_message_id + i - 1)
  <1>1. /\ Fits(n, count, count + 1)
        /\ send_array' = array
        /\ net' = net \cup {Lossless(array[gcc_get_array_index(send_message_id + i)]) : i \in 0 .. count}
        /\ send_message_id' = send_message_id + count + 1
        /\ written' = Append(written, count)
        /\ UNCHANGED <<send_array_start, pending_delete, receiverVars>>
    BY Zenon DEF SendFragments
  <1>2. Types /\ NothingLost
    BY Zenon DEF KInv
  <1>3. /\ count \in 1 .. GCC_BUFFER_SIZE - 1 /\ count + 1 \in 0 .. count + 1 /\ count \in Nat
        /\ n \in Nat /\ send_message_id \in Nat /\ received_message_id \in Nat
    BY <1>2, SizesAssumption DEF Types
  <1>4. /\ \A i \in 1 .. count + 1 : array[slot(i)] = Fragment(send_message_id + i - 1, n, i, count)
        /\ \A x \in Index : \/ array[x] = send_array[x] /\ \A i \in 1 .. count + 1 : x # slot(i)
                            \/ \E i \in 1 .. count + 1 : x = slot(i) /\ array[x] = Fragment(send_message_id + i - 1, n, i, count)
    <2>1. Placed(array, n, count, count + 1)
      BY <1>2, <1>3, FragmentsPlaced, Zenon
    <2> QED BY <2>1, Zenon DEF Placed
  <1>5. \A i \in 1 .. count + 1 : send_array[slot(i)] = Empty
    BY <1>1, <1>2, <1>3, FitsEmpty, Zenon
  <1>6. \A i \in 1 .. count + 1 :
            /\ Fragment(send_message_id + i - 1, n, i, count) \in Entries
            /\ Fragment(send_message_id + i - 1, n, i, count).id = send_message_id + i - 1
            /\ ~IsEmpty(Fragment(send_message_id + i - 1, n, i, count))
    <2> SUFFICES ASSUME NEW i \in 1 .. count + 1
                 PROVE  /\ Fragment(send_message_id + i - 1, n, i, count) \in Entries
                        /\ Fragment(send_message_id + i - 1, n, i, count).id = send_message_id + i - 1
                        /\ ~IsEmpty(Fragment(send_message_id + i - 1, n, i, count))
      BY Zenon
    <2>1. i \in Nat /\ send_message_id + i - 1 \in Nat
      BY <1>3
    <2>2. Fragment(send_message_id + i - 1, n, i, count) \in Entries
      BY <1>3, <2>1, MadeTypes
    <2> QED BY <2>2, Zenon DEF Fragment, Entry, IsEmpty
  <1>7. array = [x \in Index |-> array[x]]
    BY DEF WithFragments
  <1> HIDE DEF array, n, slot
  <1>8. send_array' \in [Index -> Entries]
    <2>1. \A x \in Index : array[x] \in Entries
      BY <1>2, <1>4, <1>6, Zenon DEF Types
    <2> QED BY <1>1, <1>7, <2>1, Zenon
  <1>9. \A x \in Index : IsEmpty(send_array'[x]) => send_array'[x] = Empty
    BY <1>1, <1>2, <1>4, <1>6, Zenon DEF Types
  <1>10. received_message_id' = received_message_id
    BY <1>1, Zenon DEF receiverVars
  <1>11. NothingLost'
    <2> SUFFICES ASSUME NEW id \in received_message_id' + 1 .. send_message_id' - 1
                 PROVE  send_array'[gcc_get_array_index(id)].id = id
      BY Zenon DEF NothingLost
    <2>1. CASE id >= send_message_id
      <3> DEFINE i == id - send_message_id + 1
      <3>1. i \in 1 .. count + 1 /\ send_message_id + i - 1 = id
        BY <1>1, <1>3, <2>1, <1>10
      <3> HIDE DEF i
      <3>2. array[slot(i)].id = id /\ slot(i) = gcc_get_array_index(id)
        BY <1>4, <1>6, <3>1, Zenon DEF slot
      <3> QED BY <1>1, <3>2, Zenon
    <2>2. CASE id < send_message_id
      <3>1. id \in received_message_id + 1 .. send_message_id - 1 /\ id # 0
        BY <1>3, <1>10, <2>2
      <3>2. send_array[gcc_get_array_index(id)].id = id
        BY <1>2, <3>1, Zenon DEF NothingLost
      <3>3. gcc_get_array_index(id) \in Index
        BY SlotType
      <3>4. \A i \in 1 .. count + 1 : gcc_get_array_index(id) # slot(i)
        BY <1>5, <3>1, <3>2, EmptyType, Zenon
      <3> QED BY <1>1, <1>4, <3>2, <3>3, <3>4, Zenon
    <2> QED BY <1>3, <2>1, <2>2
  <1>12. written' \in Seq(ChunkCounts) /\ send_message_id' \in Nat
    BY <1>1, <1>2, <1>3 DEF Types
  <1>13. \A m \in net' : m \in net \/ (\E e \in Entries : m = Lossless(e))
    <2>1. \A i \in 0 .. count : array[gcc_get_array_index(send_message_id + i)] \in Entries
      <3> SUFFICES ASSUME NEW i \in 0 .. count PROVE array[gcc_get_array_index(send_message_id + i)] \in Entries
        BY Zenon
      <3>1. gcc_get_array_index(send_message_id + i) \in Index
        BY <1>3, SlotType
      <3> QED BY <1>1, <1>8, <3>1, Zenon
    <2> QED BY <1>1, <2>1, Zenon
  <1>14. send_array_start' \in Index /\ pending_delete' \in BOOLEAN /\ UNCHANGED receiverVars
    BY <1>1, <1>2, Zenon DEF Types
  <1> QED BY <1>8, <1>9, <1>11, <1>12, <1>13, <1>14, SenderKeeps, Zenon

LEMMA OtherSenderKeeps ==
    ASSUME KInv,
           \/ \E count \in ChunkCounts : SendFragmentsFails(count)
           \/ \E due \in SUBSET Index : Resend(due)
           \/ SendArrayStuck
           \/ \E m \in net : ReceiveAck(m) \/ ReceiveRequest(m)
    PROVE  KInv'
  <1>1. /\ Types /\ NothingLost /\ Acknowledged
        /\ send_message_id \in Nat /\ received_message_id \in Nat
        /\ send_array \in [Index -> Entries] /\ send_array_start \in Index
        /\ \A x \in Index : IsEmpty(send_array[x]) => send_array[x] = Empty
        /\ written \in Seq(ChunkCounts) /\ pending_delete \in BOOLEAN
    BY Zenon DEF KInv, Types
  <1>2. ASSUME NEW count \in ChunkCounts, SendFragmentsFails(count) PROVE KInv'
    <2>1. send_array' = send_array /\ send_message_id' = send_message_id % U16
      BY <1>1, <1>2, TakenBack, Zenon
    <2>2. UNCHANGED <<send_array_start, pending_delete, written, receiverVars, net>>
      BY <1>2, Zenon DEF SendFragmentsFails
    <2>3. send_message_id' \in Nat /\ send_message_id' <= send_message_id
      BY <1>1, <2>1, SlotLow, Zenon
    <2>4. received_message_id' = received_message_id
      BY <2>2, Zenon DEF receiverVars
    <2>5. \A id \in received_message_id + 1 .. send_message_id' - 1 : id \in received_message_id + 1 .. send_message_id - 1
      <3>1. received_message_id <= received_message_id
        BY <1>1
      <3> QED BY <1>1, <2>3, <3>1, FewerIds, Zenon
    <2>6. NothingLost'
      BY <1>1, <2>1, <2>4, <2>5, Zenon DEF NothingLost
    <2> QED BY <1>1, <2>1, <2>2, <2>3, <2>6, SenderKeeps, Zenon
  <1>3. ASSUME NEW due \in SUBSET Index, Resend(due) PROVE KInv'
    <2>1. UNCHANGED <<senderVars, receiverVars>> /\ net' = net \cup {Lossless(send_array[i]) : i \in due}
      BY <1>3, Zenon DEF Resend
    <2>2. \A m \in net' : m \in net \/ (\E e \in Entries : m = Lossless(e))
      BY <1>1, <2>1, Zenon
    <2>3. NothingLost'
      BY <1>1, <2>1, Zenon DEF NothingLost, senderVars, receiverVars
    <2> QED BY <1>1, <2>1, <2>2, <2>3, SenderKeeps, Zenon DEF senderVars
  <1>4. CASE SendArrayStuck
    <2>1. UNCHANGED <<send_message_id, send_array_start, send_array, written, receiverVars, net>> /\ pending_delete' = TRUE
      BY <1>4, Zenon DEF SendArrayStuck
    <2>2. NothingLost'
      BY <1>1, <2>1, Zenon DEF NothingLost, receiverVars
    <2> QED BY <1>1, <2>1, <2>2, SenderKeeps, Zenon
  <1>5. ASSUME NEW m \in net, ReceiveAck(m) PROVE KInv'
    <2> DEFINE idx == gcc_get_array_index(m.id)
               array == [send_array EXCEPT ![idx] = Empty]
    <2>1. /\ UNCHANGED <<send_message_id, pending_delete, written, receiverVars, net>>
          /\ \/ UNCHANGED <<send_array, send_array_start>>
             \/ /\ send_array[idx].id = m.id /\ ~IsEmpty(send_array[idx])
                /\ send_array' = array
                /\ send_array_start' = Start(array) \/ send_array_start' = send_array_start
      BY <1>5, Zenon DEF ReceiveAck, gcc_handle_ack
    <2>2. m.id \in Nat /\ m.id <= received_message_id
      BY <1>1, <1>5, Zenon DEF ReceiveAck, Acknowledged, Types, Packets
    <2>3. idx \in Index
      BY <2>2, SlotType
    <2>4. received_message_id' = received_message_id
      BY <2>1, Zenon DEF receiverVars
    <2>5. CASE UNCHANGED <<send_array, send_array_start>>
      <3>1. NothingLost'
        BY <1>1, <2>1, <2>4, <2>5, Zenon DEF NothingLost
      <3> QED BY <1>1, <2>1, <2>5, <3>1, SenderKeeps, Zenon
    <2>6. CASE /\ send_array[idx].id = m.id /\ ~IsEmpty(send_array[idx])
               /\ send_array' = array
               /\ send_array_start' = Start(array) \/ send_array_start' = send_array_start
      <3>1. send_array' \in [Index -> Entries] /\ send_array'[idx] = Empty /\ \A x \in Index \ {idx} : send_array'[x] = send_array[x]
        BY <1>1, <2>3, <2>6, EmptyType, Zenon
      <3>2. \A x \in Index : IsEmpty(send_array'[x]) => send_array'[x] = Empty
        BY <1>1, <3>1, Zenon
      <3>3. send_array_start' \in Index
        BY <1>1, <2>6, StartType, Zenon
      <3>4. NothingLost'
        <4> SUFFICES ASSUME NEW id \in received_message_id + 1 .. send_message_id - 1
                     PROVE  send_array'[gcc_get_array_index(id)].id = id
          BY <2>1, <2>4, Zenon DEF NothingLost
        <4>1. send_array[gcc_get_array_index(id)].id = id
          BY <1>1, Zenon DEF NothingLost
        <4>2. id # m.id
          BY <1>1, <2>2
        <4>3. gcc_get_array_index(id) \in Index /\ gcc_get_array_index(id) # idx
          BY <2>6, <4>1, <4>2, SlotType
        <4> QED BY <3>1, <4>1, <4>3, Zenon
      <3> QED BY <1>1, <2>1, <3>1, <3>2, <3>3, <3>4, SenderKeeps, Zenon
    <2> QED BY <2>1, <2>5, <2>6, Zenon
  <1>6. ASSUME NEW m \in net, ReceiveRequest(m) PROVE KInv'
    <2> DEFINE entry == send_array[gcc_get_array_index(m.id)]
    <2>1. UNCHANGED <<senderVars, receiverVars>> /\ net' = IF entry.id = m.id THEN net \cup {Lossless(entry)} ELSE net
      BY <1>6, Zenon DEF ReceiveRequest
    <2>2. m.id \in Nat
      BY <1>1, <1>6, Zenon DEF ReceiveRequest, Types, Packets
    <2>3. entry \in Entries
      BY <1>1, <2>2, SlotType
    <2>4. \A p \in net' : p \in net \/ (\E e \in Entries : p = Lossless(e))
      BY <2>1, <2>3, Zenon
    <2>5. NothingLost'
      BY <1>1, <2>1, Zenon DEF NothingLost, senderVars, receiverVars
    <2> QED BY <1>1, <2>1, <2>4, <2>5, SenderKeeps, Zenon DEF senderVars
  <1> QED BY <1>2, <1>3, <1>4, <1>5, <1>6, Zenon

LEMMA ReceiverStepKeeps ==
    ASSUME KInv,
           \/ \E ok \in BOOLEAN : CheckRecvArray(ok)
           \/ \E m \in net : \/ ReceiveDuplicate(m) \/ ReceiveEarly(m) \/ ReceiveFragmentEarly(m) \/ ReceiveChunk(m)
                            \/ \E ok \in BOOLEAN : ReceiveNext(m, ok) \/ ReceiveEnd(m, ok)
    PROVE  KInv'
  <1>1. /\ Types /\ received_message_id \in Nat /\ last_chunk_id \in 0 .. received_message_id
        /\ recv_array \in [Index -> Entries] /\ shadowed \in BOOLEAN /\ refused \in 0 .. MaxRefused
        /\ net \subseteq Packets /\ MaxRefused \in Nat
    BY SizesAssumption, Zenon DEF KInv, Types
  <1>2. ASSUME NEW id \in Nat
        PROVE  /\ Ack("GR_ACK_RECV", id) \in Packets /\ Ack("GR_ACK_RECV", id).id = id
               /\ Ack("GR_ACK_REQ", id) \in Packets /\ Ack("GR_ACK_REQ", id).type = "GR_ACK_REQ"
    BY Zenon DEF Ack, Packets
  <1>3. ASSUME NEW m \in net, m.kind = "lossless"
        PROVE  m.entry \in Entries /\ m.entry.id \in Nat /\ gcc_get_array_index(m.entry.id) \in Index
    <2>1. m.entry \in Entries /\ m.entry.id \in Nat
      BY <1>1, <1>3, Zenon DEF Packets, Entries
    <2> QED BY <2>1, SlotType
  <1>4. NextFragment \in 1 .. received_message_id + 1
    BY <1>1 DEF NextFragment
  <1>5. ASSUME NEW ok \in BOOLEAN, Handles(ok) PROVE refused' \in 0 .. MaxRefused
    <2>1. refused' = refused \/ (refused < MaxRefused /\ refused' = refused + 1)
      BY <1>5, Zenon DEF Handles
    <2> QED BY <1>1, <2>1
  <1>6. ASSUME NEW ok \in BOOLEAN, CheckRecvArray(ok) PROVE KInv'
    <2> DEFINE idx == gcc_get_array_index(received_message_id + 1)
    <2>1. /\ Handles(ok) /\ UNCHANGED <<last_chunk_id, shadowed, senderVars>>
          /\ recv_array' = [recv_array EXCEPT ![idx] = Empty]
          /\ received_message_id' = received_message_id + 1 \/ received_message_id' = received_message_id
          /\ \/ net' = net \cup {Ack("GR_ACK_RECV", 0)}
             \/ net' = net \cup {Ack("GR_ACK_REQ", 0)}
             \/ net' = net
      BY <1>6, EmptyType, Zenon DEF CheckRecvArray, Request
    <2>2. idx \in Index
      BY <1>1, SlotType
    <2>3. recv_array' \in [Index -> Entries]
      BY <1>1, <2>1, <2>2, EmptyType, Zenon
    <2>4. received_message_id' \in Nat /\ received_message_id <= received_message_id' /\ last_chunk_id' \in 0 .. received_message_id'
      BY <1>1, <2>1
    <2>5. \A m \in net' : m \in net \/ (m \in Packets /\ (m.kind = "ack" /\ m.type = "GR_ACK_RECV" => m.id <= received_message_id'))
      <3>1. 0 <= received_message_id' /\ 0 \in Nat
        BY <2>4
      <3> QED BY <1>2, <2>1, <3>1
    <2>6. refused' \in 0 .. MaxRefused /\ shadowed' \in BOOLEAN /\ UNCHANGED senderVars
      BY <1>1, <1>5, <2>1, Zenon
    <2> QED BY <2>3, <2>4, <2>5, <2>6, ReceiverKeeps, Zenon
  <1>7. ASSUME NEW m \in net, ReceiveDuplicate(m) PROVE KInv'
    <2>1. /\ UNCHANGED <<senderVars, receiverVars>> /\ net' = net \cup {Ack("GR_ACK_RECV", m.entry.id)}
          /\ m.kind = "lossless" /\ m.entry.id < received_message_id + 1
      BY <1>7, Zenon DEF ReceiveDuplicate
    <2>2. m.entry.id \in Nat /\ m.entry.id <= received_message_id
      BY <1>1, <1>3, <2>1
    <2>3. received_message_id' = received_message_id
      BY <2>1, Zenon DEF receiverVars
    <2>4. \A p \in net' : p \in net \/ (p \in Packets /\ (p.kind = "ack" /\ p.type = "GR_ACK_RECV" => p.id <= received_message_id'))
      BY <1>2, <2>1, <2>2, <2>3, Zenon
    <2>5. received_message_id <= received_message_id'
      BY <1>1, <2>3
    <2> QED BY <1>1, <2>1, <2>4, <2>5, ReceiverKeeps, Zenon DEF receiverVars
  <1>8. ASSUME NEW m \in net, ReceiveEarly(m) PROVE KInv'
    <2> DEFINE idx == gcc_get_array_index(m.entry.id)
    <2>1. /\ m.kind = "lossless"
          /\ UNCHANGED <<received_message_id, last_chunk_id, refused, shadowed, senderVars>>
          /\ recv_array' = [recv_array EXCEPT ![idx] = m.entry] \/ recv_array' = recv_array
          /\ net' = net \cup {Ack("GR_ACK_REQ", received_message_id + 1)} \/ net' = net
      BY <1>8, Zenon DEF ReceiveEarly, Request
    <2>2. recv_array' \in [Index -> Entries]
      BY <1>1, <1>3, <2>1, Zenon
    <2>3. \A p \in net' : p \in net \/ (p \in Packets /\ (p.kind = "ack" /\ p.type = "GR_ACK_RECV" => p.id <= received_message_id'))
      <3>1. received_message_id + 1 \in Nat
        BY <1>1
      <3> QED BY <1>2, <2>1, <3>1, Zenon
    <2>4. received_message_id <= received_message_id'
      BY <1>1, <2>1
    <2> QED BY <1>1, <2>1, <2>2, <2>3, <2>4, ReceiverKeeps, Zenon
  <1>9. ASSUME NEW m \in net, ReceiveFragmentEarly(m) PROVE KInv'
    <2>1. /\ UNCHANGED <<senderVars, receiverVars>>
          /\ net' = net \cup {Ack("GR_ACK_REQ", NextFragment)} \/ net' = net
      BY <1>9, Zenon DEF ReceiveFragmentEarly, Request
    <2>2. \A p \in net' : p \in net \/ (p \in Packets /\ (p.kind = "ack" /\ p.type = "GR_ACK_RECV" => p.id <= received_message_id'))
      <3>1. NextFragment \in Nat
        BY <1>4
      <3> QED BY <1>2, <2>1, <3>1, Zenon
    <2>3. received_message_id <= received_message_id' /\ received_message_id' = received_message_id
      BY <1>1, <2>1 DEF receiverVars
    <2> QED BY <1>1, <2>1, <2>2, <2>3, ReceiverKeeps, Zenon DEF receiverVars
  <1>10. ASSUME NEW m \in net, ReceiveChunk(m) PROVE KInv'
    <2> DEFINE idx == gcc_get_array_index(m.entry.id)
    <2>1. /\ m.kind = "lossless" /\ m.entry.id = NextFragment
          /\ UNCHANGED <<refused, shadowed, senderVars, net>>
          /\ \/ /\ recv_array' = [recv_array EXCEPT ![idx] = m.entry]
                /\ received_message_id' = received_message_id + 1
                /\ last_chunk_id' = m.entry.id
             \/ UNCHANGED <<recv_array, received_message_id, last_chunk_id>>
      BY <1>10, Zenon DEF ReceiveChunk
    <2>2. recv_array' \in [Index -> Entries]
      BY <1>1, <1>3, <2>1, Zenon
    <2>3. received_message_id' \in Nat /\ received_message_id <= received_message_id' /\ last_chunk_id' \in 0 .. received_message_id'
      BY <1>1, <1>4, <2>1
    <2> QED BY <1>1, <2>1, <2>2, <2>3, ReceiverKeeps, Zenon
  <1>11. ASSUME NEW m \in net, NEW ok \in BOOLEAN, ReceiveNext(m, ok) PROVE KInv'
    <2>1. /\ m.kind = "lossless" /\ Handles(ok) /\ m.entry.id = received_message_id + 1
          /\ received_message_id' = received_message_id + 1
          /\ shadowed' = (shadowed \/ ~IsEmpty(recv_array[gcc_get_array_index(m.entry.id)]))
          /\ net' = net \cup {Ack("GR_ACK_RECV", m.entry.id)} \/ net' = net
          /\ UNCHANGED <<last_chunk_id, recv_array, senderVars>>
      BY <1>11, Zenon DEF ReceiveNext
    <2>2. received_message_id' \in Nat /\ received_message_id <= received_message_id' /\ last_chunk_id' \in 0 .. received_message_id'
      BY <1>1, <2>1
    <2>3. m.entry.id \in Nat /\ m.entry.id <= received_message_id'
      BY <1>1, <2>1
    <2>4. \A p \in net' : p \in net \/ (p \in Packets /\ (p.kind = "ack" /\ p.type = "GR_ACK_RECV" => p.id <= received_message_id'))
      BY <1>2, <2>1, <2>3
    <2>5. refused' \in 0 .. MaxRefused /\ shadowed' \in BOOLEAN /\ recv_array' \in [Index -> Entries] /\ UNCHANGED senderVars
      BY <1>1, <1>5, <2>1, Zenon DEF IsEmpty
    <2> QED BY <2>2, <2>4, <2>5, ReceiverKeeps, Zenon
  <1>12. ASSUME NEW m \in net, NEW ok \in BOOLEAN, ReceiveEnd(m, ok) PROVE KInv'
    <2> DEFINE id == m.entry.id
               cleared == {Back(id, k) : k \in 1 .. Found(id)}
    <2>1. /\ m.kind = "lossless" /\ id = NextFragment /\ UNCHANGED senderVars
          /\ \/ UNCHANGED <<receiverVars, net>>
             \/ /\ Handles(ok) /\ UNCHANGED shadowed
                /\ recv_array' = [i \in Index |-> IF i \in cleared THEN Empty ELSE recv_array[i]]
                /\ received_message_id' = received_message_id + IF ok THEN 1 ELSE 0
                /\ last_chunk_id' = IF ok THEN 0 ELSE last_chunk_id
                /\ net' = IF ok THEN net \cup {Ack("GR_ACK_RECV", id)} ELSE net
      BY <1>12, Zenon DEF ReceiveEnd
    <2>2. CASE UNCHANGED <<receiverVars, net>>
      BY <2>1, <2>2, Zenon DEF KInv, Types, Acknowledged, NothingLost, senderVars, receiverVars
    <2>3. CASE /\ Handles(ok) /\ UNCHANGED shadowed
               /\ recv_array' = [i \in Index |-> IF i \in cleared THEN Empty ELSE recv_array[i]]
               /\ received_message_id' = received_message_id + IF ok THEN 1 ELSE 0
               /\ last_chunk_id' = IF ok THEN 0 ELSE last_chunk_id
               /\ net' = IF ok THEN net \cup {Ack("GR_ACK_RECV", id)} ELSE net
      <3> HIDE DEF cleared
      <3>1. recv_array' \in [Index -> Entries]
        BY <1>1, <2>3, EmptyType, Zenon
      <3>2. received_message_id' \in Nat /\ received_message_id <= received_message_id' /\ last_chunk_id' \in 0 .. received_message_id'
        BY <1>1, <2>3, SMTT(30)
      <3>3. id \in Nat /\ (ok => id <= received_message_id')
        BY <1>1, <1>4, <2>1, <2>3
      <3>4. \A p \in net' : p \in net \/ (p \in Packets /\ (p.kind = "ack" /\ p.type = "GR_ACK_RECV" => p.id <= received_message_id'))
        BY <1>2, <2>3, <3>3, Zenon
      <3>5. refused' \in 0 .. MaxRefused /\ shadowed' \in BOOLEAN
        BY <1>1, <1>5, <2>3, Zenon
      <3> QED BY <2>1, <3>1, <3>2, <3>4, <3>5, ReceiverKeeps, Zenon
    <2> QED BY <2>1, <2>2, <2>3, Zenon
  <1> QED BY <1>6, <1>7, <1>8, <1>9, <1>10, <1>11, <1>12, Zenon

LEMMA NextKeeps == KInv /\ [Next]_vars => KInv'
  <1> SUFFICES ASSUME KInv, [Next]_vars PROVE KInv'
    BY Zenon
  <1>1. CASE Write
    BY <1>1, SendPacketKeeps, SendFragmentsKeeps, OtherSenderKeeps, Zenon DEF Write
  <1>2. CASE \/ \E due \in SUBSET Index : Resend(due)
             \/ SendArrayStuck
             \/ \E m \in net : ReceiveAck(m) \/ ReceiveRequest(m)
    BY <1>2, OtherSenderKeeps, Zenon
  <1>3. CASE \/ \E ok \in BOOLEAN : CheckRecvArray(ok)
             \/ \E m \in net : \/ ReceiveDuplicate(m) \/ ReceiveEarly(m) \/ ReceiveFragmentEarly(m) \/ ReceiveChunk(m)
                              \/ \E ok \in BOOLEAN : ReceiveNext(m, ok) \/ ReceiveEnd(m, ok)
    BY <1>3, ReceiverStepKeeps, Zenon
  <1>4. CASE UNCHANGED vars
    BY <1>4, Zenon DEF vars, KInv, Types, Acknowledged, NothingLost, senderVars, receiverVars
  <1> QED BY <1>1, <1>2, <1>3, <1>4, Zenon DEF Next, Receive

\* What gcc_send_lossless_packet accepted stays in the send array until the peer has accepted
\* it, whatever acknowledgements and requests arrive, late, repeated or of id 0, and also when
\* fragments are taken back (gcc_handle_ack, clear_send_queue_id_range).
THEOREM GroupKeeps == Spec => []NothingLost
  <1>1. KInv => NothingLost
    BY Zenon DEF KInv
  <1> QED BY InitKeeps, NextKeeps, <1>1, PTL DEF Spec

-----------------------------------------------------------------------------
(* The ids that packets take *)

\* clear_send_queue_id_range is given the low 16 bits of the id: a step that takes no
\* fragments back once the ids have outgrown them.
TakesBack == \E count \in ChunkCounts : SendFragmentsFails(count)
IdsLast == TakesBack => send_message_id < U16

\* How many ids packet n takes, when w are the packets that were written.
Size(w, n) == IF w[n] = 1 THEN 1 ELSE w[n] + 1

\* first[n] is the first id of packet n; the packets take their ids one after the other, up to s.
Layout(first, w, s) ==
    /\ first \in [1 .. Len(w) + 1 -> Nat]
    /\ first[1] = FirstId
    /\ first[Len(w) + 1] = s
    /\ \A m \in 1 .. Len(w), n \in 1 .. Len(w) + 1 : m < n => first[m] + Size(w, m) <= first[n]
    /\ \A n \in 1 .. Len(w) : first[n + 1] = first[n] + Size(w, n)

\* The entry that was made for an id of packet n.
Made(first, w, n, id) ==
    IF w[n] = 1 THEN Entry(id, "packet", <<<<n, 1>>>>)
    ELSE Fragment(id, n, id - first[n] + 1, w[n])

OfPacket(first, w, n) == first[n] .. first[n] + Size(w, n) - 1

\* An entry that was made for some id, whatever array it lies in or packet carries it.
Genuine(first, w, entry) ==
    \E n \in 1 .. Len(w) : entry.id \in OfPacket(first, w, n) /\ entry = Made(first, w, n, entry.id)

LEMMA LayoutFacts ==
    ASSUME NEW w \in Seq(ChunkCounts), NEW s \in Nat, NEW first, Layout(first, w, s)
    PROVE  /\ Len(w) \in Nat
           /\ \A n \in 1 .. Len(w) + 1 : first[n] \in Nat /\ FirstId <= first[n] /\ first[n] <= s
           /\ \A n \in 1 .. Len(w) : /\ w[n] \in 1 .. GCC_BUFFER_SIZE - 1 /\ w[n] \in Nat /\ w[n] >= 1
                                     /\ Size(w, n) \in Nat /\ Size(w, n) >= 1
                                     /\ first[n] + Size(w, n) <= s
                                     /\ first[n + 1] = first[n] + Size(w, n)
  <1>1. Len(w) \in Nat /\ FirstId \in Nat /\ GCC_BUFFER_SIZE \in Nat
    BY SizesAssumption
  <1>2. ASSUME NEW n \in 1 .. Len(w)
        PROVE  w[n] \in 1 .. GCC_BUFFER_SIZE - 1 /\ w[n] \in Nat /\ w[n] >= 1 /\ Size(w, n) \in Nat /\ Size(w, n) >= 1
    <2>1. w[n] \in ChunkCounts
      OBVIOUS
    <2>2. w[n] \in 1 .. GCC_BUFFER_SIZE - 1
      BY <2>1, SizesAssumption
    <2> QED BY <1>1, <2>2 DEF Size
  <1>3. ASSUME NEW n \in 1 .. Len(w) + 1 PROVE first[n] \in Nat /\ FirstId <= first[n] /\ first[n] <= s
    <2>1. first[n] \in Nat /\ first[1] = FirstId /\ first[Len(w) + 1] = s
      BY Zenon DEF Layout
    <2>2. CASE n = 1
      <3>1. CASE Len(w) = 0
        BY <1>1, <2>1, <2>2, <3>1
      <3>2. CASE Len(w) # 0
        <4>1. 1 \in 1 .. Len(w) /\ Len(w) + 1 \in 1 .. Len(w) + 1 /\ 1 < Len(w) + 1
          BY <1>1, <3>2
        <4>2. first[1] + Size(w, 1) <= first[Len(w) + 1]
          BY <4>1, Zenon DEF Layout
        <4> QED BY <1>1, <1>2, <2>1, <2>2, <4>1, <4>2
      <3> QED BY <3>1, <3>2, Zenon
    <2>3. CASE n # 1
      <3>1. 1 \in 1 .. Len(w) /\ 1 < n
        BY <1>1, <2>3
      <3>2. first[1] + Size(w, 1) <= first[n] /\ Size(w, 1) \in Nat
        BY <1>2, <3>1, Zenon DEF Layout
      <3>3. FirstId <= first[n]
        BY <1>1, <2>1, <3>2
      <3>4. CASE n = Len(w) + 1
        BY <1>1, <2>1, <3>3, <3>4
      <3>5. CASE n # Len(w) + 1
        <4>1. n \in 1 .. Len(w) /\ Len(w) + 1 \in 1 .. Len(w) + 1 /\ n < Len(w) + 1
          BY <1>1, <3>5
        <4>2. first[n] + Size(w, n) <= first[Len(w) + 1] /\ Size(w, n) \in Nat
          BY <1>2, <4>1, Zenon DEF Layout
        <4> QED BY <1>1, <2>1, <3>3, <4>2
      <3> QED BY <3>4, <3>5, Zenon
    <2> QED BY <2>2, <2>3, Zenon
  <1>4. ASSUME NEW n \in 1 .. Len(w) PROVE first[n] + Size(w, n) <= s /\ first[n + 1] = first[n] + Size(w, n)
    <2>1. n + 1 \in 1 .. Len(w) + 1
      BY <1>1
    <2>2. first[n + 1] = first[n] + Size(w, n)
      BY Zenon DEF Layout
    <2> QED BY <1>3, <2>1, <2>2, Zenon
  <1> QED BY <1>1, <1>2, <1>3, <1>4, Zenon

\* An id belongs to one packet.
LEMMA Owner ==
    ASSUME NEW w \in Seq(ChunkCounts), NEW s \in Nat, NEW first, Layout(first, w, s),
           NEW m \in 1 .. Len(w), NEW n \in 1 .. Len(w), NEW id, id \in OfPacket(first, w, m), id \in OfPacket(first, w, n)
    PROVE  m = n
  <1>1. Len(w) \in Nat /\ first[m] \in Nat /\ first[n] \in Nat /\ Size(w, m) \in Nat /\ Size(w, n) \in Nat
    <2>1. m \in 1 .. Len(w) + 1 /\ n \in 1 .. Len(w) + 1 /\ Len(w) \in Nat
      OBVIOUS
    <2> QED BY <2>1, LayoutFacts, Zenon
  <1>2. /\ m < n => first[m] + Size(w, m) <= first[n]
        /\ n < m => first[n] + Size(w, n) <= first[m]
    BY <1>1, SMTT(30) DEF Layout
  <1>3. id \in Int /\ first[m] <= id /\ id < first[m] + Size(w, m) /\ first[n] <= id /\ id < first[n] + Size(w, n)
    <2>1. \A i, j \in Nat : \A k : k \in i .. i + j - 1 => k \in Int /\ i <= k /\ k < i + j
      OBVIOUS
    <2>2. id \in first[m] .. first[m] + Size(w, m) - 1 /\ id \in first[n] .. first[n] + Size(w, n) - 1
      BY Zenon DEF OfPacket
    <2> QED BY <1>1, <2>1, <2>2, Zenon
  <1>4. ~(m < n) /\ ~(n < m)
    BY <1>1, <1>2, <1>3, SMTT(30)
  <1> QED BY <1>1, <1>4

\* What was made for an id.
MadeAs(first, w, s, n, id, e) ==
    /\ id \in Nat /\ FirstId <= id /\ id < s /\ e.id = id
    /\ e.type = IF w[n] = 1 THEN "packet" ELSE "fragment"
    /\ w[n] = 1 => id = first[n] /\ e.piece = <<<<n, 1>>>>
    /\ w[n] # 1 /\ e.piece # <<>> => id < first[n] + w[n] /\ e.piece = <<<<n, id - first[n] + 1>>>>
    /\ w[n] # 1 /\ e.piece = <<>> => id = first[n] + w[n]

LEMMA MadeShape ==
    ASSUME NEW w \in Seq(ChunkCounts), NEW s \in Nat, NEW first, Layout(first, w, s),
           NEW n \in 1 .. Len(w), NEW id \in OfPacket(first, w, n), NEW e, e = Made(first, w, n, id)
    PROVE  MadeAs(first, w, s, n, id, e)
  <1>1. /\ n \in 1 .. Len(w) + 1 /\ Len(w) \in Nat
        /\ w[n] \in Nat /\ w[n] >= 1 /\ first[n] \in Nat /\ FirstId <= first[n] /\ FirstId \in Nat
        /\ first[n] + Size(w, n) <= s
    <2>1. n \in 1 .. Len(w) + 1 /\ Len(w) \in Nat
      OBVIOUS
    <2> QED BY <2>1, LayoutFacts, SizesAssumption, Zenon
  <1>2. CASE w[n] = 1
    <2>1. Size(w, n) = 1
      BY <1>2, Zenon DEF Size
    <2>2. id = first[n] /\ id < s
      BY <1>1, <2>1 DEF OfPacket
    <2> QED BY <1>1, <1>2, <2>2, Zenon DEF Made, Entry, MadeAs
  <1>3. CASE w[n] # 1
    <2>1. Size(w, n) = w[n] + 1
      BY <1>3, Zenon DEF Size
    <2>2. id \in Nat /\ first[n] <= id /\ id <= first[n] + w[n] /\ id < s
      BY <1>1, <2>1 DEF OfPacket
    <2>3. id - first[n] + 1 <= w[n] <=> id < first[n] + w[n]
      BY <1>1, <2>2, SMTT(30)
    <2>4. ~(id < first[n] + w[n]) => id = first[n] + w[n]
      BY <1>1, <2>2, SMTT(30)
    <2>5. Made(first, w, n, id) = [id |-> id, type |-> "fragment",
                                   piece |-> IF id - first[n] + 1 <= w[n] THEN <<<<n, id - first[n] + 1>>>> ELSE <<>>]
      BY <1>3, Zenon DEF Made, Fragment, Entry
    <2>6. FirstId <= id
      BY <1>1, <2>2
    <2> HIDE DEF Made
    <2>7. CASE id < first[n] + w[n]
      BY <1>3, <2>2, <2>3, <2>5, <2>6, <2>7, SMTT(30) DEF MadeAs
    <2>8. CASE ~(id < first[n] + w[n])
      BY <1>3, <2>2, <2>3, <2>4, <2>5, <2>6, <2>8, SMTT(30) DEF MadeAs
    <2> QED BY <2>7, <2>8, Zenon
  <1> QED BY <1>2, <1>3, Zenon

LEMMA MadeFacts ==
    ASSUME NEW w \in Seq(ChunkCounts), NEW s \in Nat, NEW first, Layout(first, w, s),
           NEW n \in 1 .. Len(w), NEW id \in OfPacket(first, w, n), NEW e, e = Made(first, w, n, id)
    PROVE  /\ id \in Nat /\ FirstId <= id /\ id < s /\ e.id = id
           /\ e.type = IF w[n] = 1 THEN "packet" ELSE "fragment"
           /\ w[n] = 1 => id = first[n] /\ e.piece = <<<<n, 1>>>>
           /\ w[n] # 1 /\ e.piece # <<>> => id < first[n] + w[n] /\ e.piece = <<<<n, id - first[n] + 1>>>>
           /\ w[n] # 1 /\ e.piece = <<>> => id = first[n] + w[n]
  <1>1. MadeAs(first, w, s, n, id, e)
    BY MadeShape, Zenon
  <1> QED BY <1>1, Zenon DEF MadeAs

\* The fragments of a packet, and the empty one that ends them.
LEMMA FragmentFacts ==
    ASSUME NEW w \in Seq(ChunkCounts), NEW s \in Nat, NEW first, Layout(first, w, s),
           NEW n \in 1 .. Len(w), NEW id \in OfPacket(first, w, n), NEW e, e = Made(first, w, n, id), e.type = "fragment"
    PROVE  /\ w[n] # 1
           /\ e.piece # <<>> => id < first[n] + w[n]
           /\ e.piece = <<>> => id = first[n] + w[n]
  <1>1. /\ e.type = IF w[n] = 1 THEN "packet" ELSE "fragment"
        /\ w[n] # 1 /\ e.piece # <<>> => id < first[n] + w[n] /\ e.piece = <<<<n, id - first[n] + 1>>>>
        /\ w[n] # 1 /\ e.piece = <<>> => id = first[n] + w[n]
    <2>1. MadeAs(first, w, s, n, id, e)
      BY MadeShape, Zenon
    <2> QED BY <2>1, Zenon DEF MadeAs
  <1>2. w[n] # 1
    BY <1>1
  <1> QED BY <1>1, <1>2, Zenon

LEMMA GenuineFacts ==
    ASSUME NEW w \in Seq(ChunkCounts), NEW s \in Nat, NEW first, Layout(first, w, s), NEW e, Genuine(first, w, e)
    PROVE  /\ e.id \in Nat /\ FirstId <= e.id /\ e.id < s /\ e # Empty /\ ~IsEmpty(e)
           /\ e.type \in {"packet", "fragment"}
           /\ \A n \in 1 .. Len(w) : e.id \in OfPacket(first, w, n) => e = Made(first, w, n, e.id)
  <1>1. PICK m \in 1 .. Len(w) : e.id \in OfPacket(first, w, m) /\ e = Made(first, w, m, e.id)
    BY Zenon DEF Genuine
  <1>2. e.id \in Nat /\ FirstId <= e.id /\ e.id < s /\ e.type = IF w[m] = 1 THEN "packet" ELSE "fragment"
    BY <1>1, MadeFacts
  <1>3. \A n \in 1 .. Len(w) : e.id \in OfPacket(first, w, n) => n = m
    BY <1>1, Owner, Zenon
  <1>4. e.type \in {"packet", "fragment"} /\ e.type # "none"
    BY <1>2, Zenon
  <1> QED BY <1>1, <1>2, <1>3, <1>4 DEF IsEmpty, Empty

\* The layout `more` of `longer` extends the layout `first` of `w`, that ended before id s.
Grown(first, w, s, more, longer, t) ==
    /\ longer \in Seq(ChunkCounts) /\ Len(longer) = Len(w) + 1
    /\ Layout(more, longer, t)
    /\ more[Len(w) + 1] = s
    /\ \A n \in 1 .. Len(w) + 1 : more[n] = first[n]
    /\ \A n \in 1 .. Len(w) : longer[n] = w[n] /\ \A id : Made(more, longer, n, id) = Made(first, w, n, id)
    /\ \A e : Genuine(first, w, e) => Genuine(more, longer, e)

\* The packets that were written before keep their ids.
LEMMA LayoutGrows ==
    ASSUME NEW w \in Seq(ChunkCounts), NEW s \in Nat, NEW first, Layout(first, w, s), NEW c \in ChunkCounts,
           NEW t \in Nat, t = s + (IF c = 1 THEN 1 ELSE c + 1),
           NEW more, more = [n \in 1 .. Len(w) + 2 |-> IF n = Len(w) + 2 THEN t ELSE first[n]],
           NEW longer, longer = Append(w, c)
    PROVE  Grown(first, w, s, more, longer, t)
  <1>1. /\ longer \in Seq(ChunkCounts) /\ Len(longer) = Len(w) + 1 /\ longer[Len(w) + 1] = c
        /\ \A n \in 1 .. Len(w) : longer[n] = w[n]
    OBVIOUS
  <1>2. Len(w) \in Nat /\ c \in Nat
    BY SizesAssumption
  <1>3. /\ more \in [1 .. Len(longer) + 1 -> Nat]
        /\ \A n \in 1 .. Len(w) + 1 : more[n] = first[n]
        /\ more[Len(w) + 2] = t
    BY <1>1, <1>2 DEF Layout
  <1>4. \A n \in 1 .. Len(w) : Size(longer, n) = Size(w, n)
    BY <1>1, Zenon DEF Size
  <1>5. Size(longer, Len(w) + 1) = (IF c = 1 THEN 1 ELSE c + 1) /\ Size(longer, Len(w) + 1) \in Nat
    BY <1>1, <1>2 DEF Size
  <1>6. first[Len(w) + 1] = s /\ more[Len(w) + 1] = s
    BY <1>2, <1>3 DEF Layout
  <1>7. Layout(more, longer, t)
    <2>1. more[1] = FirstId
      BY <1>2, <1>3 DEF Layout
    <2>2. ASSUME NEW m \in 1 .. Len(longer), NEW n \in 1 .. Len(longer) + 1, m < n
          PROVE  more[m] + Size(longer, m) <= more[n]
      <3>1. CASE n # Len(w) + 2
        <4>1. m \in 1 .. Len(w) /\ n \in 1 .. Len(w) + 1 /\ m \in 1 .. Len(w) + 1
          BY <1>1, <1>2, <2>2, <3>1
        <4> QED BY <1>3, <1>4, <2>2, <4>1, Zenon DEF Layout
      <3>2. CASE n = Len(w) + 2 /\ m # Len(w) + 1
        <4>1. m \in 1 .. Len(w) /\ m \in 1 .. Len(w) + 1
          BY <1>1, <1>2, <3>2
        <4>2. first[m] + Size(w, m) <= s /\ first[m] \in Nat /\ Size(w, m) \in Nat
          BY <4>1, LayoutFacts, Zenon
        <4>3. s <= t
          BY <1>2
        <4>4. first[m] + Size(w, m) <= t
          BY <4>2, <4>3
        <4> QED BY <1>3, <1>4, <3>2, <4>1, <4>4, Zenon
      <3>3. CASE n = Len(w) + 2 /\ m = Len(w) + 1
        <4>1. more[m] + Size(longer, m) = t /\ more[n] = t
          BY <1>3, <1>5, <1>6, <3>3, Zenon
        <4> QED BY <4>1
      <3> QED BY <3>1, <3>2, <3>3, Zenon
    <2>3. ASSUME NEW n \in 1 .. Len(longer) PROVE more[n + 1] = more[n] + Size(longer, n)
      <3>1. CASE n = Len(w) + 1
        <4>1. n + 1 = Len(w) + 2
          BY <1>2, <3>1
        <4> QED BY <1>3, <1>5, <1>6, <3>1, <4>1, Zenon
      <3>2. CASE n # Len(w) + 1
        <4>1. n \in 1 .. Len(w) /\ n \in 1 .. Len(w) + 1 /\ n + 1 \in 1 .. Len(w) + 1
          BY <1>1, <1>2, <3>2
        <4> QED BY <1>3, <1>4, <4>1, Zenon DEF Layout
      <3> QED BY <3>1, <3>2, Zenon
    <2>4. more[Len(longer) + 1] = t
      BY <1>1, <1>2, <1>3
    <2> QED BY <1>3, <2>1, <2>2, <2>3, <2>4 DEF Layout
  <1>8. ASSUME NEW n \in 1 .. Len(w)
        PROVE  /\ OfPacket(more, longer, n) = OfPacket(first, w, n)
               /\ \A id : Made(more, longer, n, id) = Made(first, w, n, id)
    <2>1. n \in 1 .. Len(w) + 1
      BY <1>2
    <2>2. more[n] = first[n] /\ longer[n] = w[n] /\ Size(longer, n) = Size(w, n)
      BY <1>1, <1>3, <1>4, <2>1, Zenon
    <2> QED BY <2>2 DEF OfPacket, Made
  <1>9. ASSUME NEW e, Genuine(first, w, e) PROVE Genuine(more, longer, e)
    <2>1. PICK n \in 1 .. Len(w) : e.id \in OfPacket(first, w, n) /\ e = Made(first, w, n, e.id)
      BY <1>9, Zenon DEF Genuine
    <2>2. n \in 1 .. Len(longer)
      BY <1>1, <1>2
    <2>3. e.id \in OfPacket(more, longer, n) /\ e = Made(more, longer, n, e.id)
      BY <1>8, <2>1, Zenon
    <2> QED BY <2>2, <2>3 DEF Genuine
  <1> QED BY <1>1, <1>3, <1>6, <1>7, <1>8, <1>9 DEF Grown

-----------------------------------------------------------------------------
(* What is delivered is in order, once and whole *)

Kept(first, w, array) ==
    \A x \in Index : array[x] # Empty => Genuine(first, w, array[x]) /\ gcc_get_array_index(array[x].id) = x

\* A request of id 0 is answered with an empty entry, which the receiver has had.
Carried(first, w, packets) ==
    \A m \in packets : m.kind = "lossless" => m.entry = Empty \/ Genuine(first, w, m.entry)

\* The packet under way at the receiver.
Current == Len(consumed) + 1

\* The fragments of it that were accepted are all stored, or none is once a handler failed.
AllStored(first) ==
    \A id \in first[Current] .. received_message_id :
        recv_array[gcc_get_array_index(id)] = Made(first, written, Current, id)
NoneStored(first) ==
    /\ refused # 0
    /\ received_message_id + 1 = first[Current] + written[Current]
    /\ \A x \in Index : recv_array[x].type # "fragment"

UnderWay(first) ==
    /\ Current <= Len(written) /\ written[Current] # 1
    /\ last_chunk_id = received_message_id
    /\ first[Current] <= received_message_id /\ received_message_id < first[Current] + written[Current]
    /\ \A x \in Index : recv_array[x].type = "fragment" => first[Current] <= recv_array[x].id /\ recv_array[x].id <= received_message_id
    /\ AllStored(first) \/ NoneStored(first)

\* What the receiver has had, and what it holds.
InOrder(first) ==
    /\ consumed \in Seq(PieceSeqs)
    /\ Len(consumed) <= Len(written)
    /\ \A n \in 1 .. Len(consumed) : consumed[n] = Pieces(n)
    /\ \A x \in Index : recv_array[x].type = "packet" => recv_array[x].id > received_message_id
    /\ last_chunk_id = 0 =>
        received_message_id + 1 = first[Current] /\ \A x \in Index : recv_array[x].type # "fragment"
    /\ last_chunk_id # 0 => UnderWay(first)

LInv(first) ==
    /\ Layout(first, written, send_message_id)
    /\ Kept(first, written, send_array) /\ Kept(first, written, recv_array) /\ Carried(first, written, net)
    /\ ~shadowed => InOrder(first)

\* No more ids are under way than the send array has room for.
LEMMA Window == KInv => send_message_id <= received_message_id + GCC_BUFFER_SIZE + 1
  <1> SUFFICES ASSUME KInv, send_message_id > received_message_id + GCC_BUFFER_SIZE + 1 PROVE FALSE
    BY SizesAssumption DEF KInv, Types
  <1> DEFINE i == received_message_id + 1
             j == i + (GCC_BUFFER_SIZE * 1)
  <1>1. send_message_id \in Nat /\ received_message_id \in Nat /\ GCC_BUFFER_SIZE \in Nat \ {0}
    BY SizesAssumption, Zenon DEF KInv, Types
  <1>2. i \in received_message_id + 1 .. send_message_id - 1 /\ j \in received_message_id + 1 .. send_message_id - 1 /\ i # j
    BY <1>1
  <1>3. gcc_get_array_index(j) = gcc_get_array_index(i)
    <2>1. i \in Int /\ 1 \in Int
      BY <1>1
    <2> HIDE DEF i
    <2> QED BY <2>1, SlotAgain, Zenon
  <1> QED BY <1>2, <1>3, Zenon DEF KInv, NothingLost

\* The packet whose id comes next, when an entry was made for that id.
LEMMA NextPacket ==
    ASSUME KInv, NEW first, LInv(first), ~shadowed, NEW e, Genuine(first, written, e), e.id = received_message_id + 1
    PROVE  /\ Current \in 1 .. Len(written)
           /\ e.id \in OfPacket(first, written, Current)
           /\ e = Made(first, written, Current, e.id)
           /\ last_chunk_id = 0 => e.id = first[Current]
           /\ last_chunk_id # 0 => e.type = "fragment"
  <1> DEFINE w == written
             C == Current
  <1>1. w \in Seq(ChunkCounts) /\ send_message_id \in Nat /\ received_message_id \in Nat /\ Layout(first, w, send_message_id)
    BY Zenon DEF KInv, Types, LInv
  <1>2. InOrder(first)
    BY Zenon DEF LInv
  <1>3. e.id \in Nat /\ e.id < send_message_id
    BY <1>1, GenuineFacts, Zenon
  <1>4. C \in 1 .. Len(w) + 1 /\ Len(w) \in Nat /\ first[Len(w) + 1] = send_message_id
    BY <1>1, <1>2 DEF InOrder, Current, Layout
  <1>5. CASE last_chunk_id = 0
    <2>1. e.id = first[C]
      BY <1>2, <1>5, Zenon DEF InOrder
    <2>2. C # Len(w) + 1
      BY <1>3, <1>4, <2>1
    <2>3. C \in 1 .. Len(w)
      BY <1>4, <2>2
    <2>4. first[C] \in Nat /\ Size(w, C) \in Nat /\ Size(w, C) >= 1
      BY <1>1, <1>4, <2>3, LayoutFacts, Zenon
    <2>5. e.id \in OfPacket(first, w, C)
      BY <2>1, <2>4 DEF OfPacket
    <2>6. e = Made(first, w, C, e.id)
      BY <1>1, <2>3, <2>5, GenuineFacts, Zenon
    <2> QED BY <1>5, <2>1, <2>3, <2>5, <2>6, Zenon
  <1>6. CASE last_chunk_id # 0
    <2>1. /\ C <= Len(w) /\ w[C] # 1 /\ first[C] <= received_message_id
          /\ received_message_id < first[C] + w[C]
      BY <1>2, <1>6, Zenon DEF InOrder, UnderWay
    <2>2. C \in 1 .. Len(w)
      BY <1>4, <2>1
    <2>3. first[C] \in Nat /\ w[C] \in Nat /\ Size(w, C) = w[C] + 1
      BY <1>1, <1>4, <2>1, <2>2, LayoutFacts, Zenon DEF Size
    <2>4. e.id \in OfPacket(first, w, C)
      BY <1>1, <2>1, <2>3, SMTT(30) DEF OfPacket
    <2>5. e = Made(first, w, C, e.id)
      BY <1>1, <2>2, <2>4, GenuineFacts, Zenon
    <2>6. e.type = "fragment"
      BY <1>1, <2>1, <2>2, <2>4, <2>5, MadeFacts
    <2> QED BY <1>6, <2>2, <2>4, <2>5, <2>6, Zenon
  <1> QED BY <1>5, <1>6, Zenon

\* gcc_check_recv_array: what lies in the slot of the next id is that packet.
LEMMA Proper == ASSUME KInv, NEW first, LInv(first), ~shadowed PROVE ProperSequence
  <1> DEFINE idx == gcc_get_array_index(received_message_id + 1)
             e == recv_array[idx]
  <1> SUFFICES ASSUME ~IsEmpty(e) PROVE e.id = received_message_id + 1
    BY Zenon DEF ProperSequence
  <1>1. /\ written \in Seq(ChunkCounts) /\ send_message_id \in Nat /\ received_message_id \in Nat
        /\ Layout(first, written, send_message_id) /\ Kept(first, written, recv_array) /\ InOrder(first)
    BY Zenon DEF KInv, Types, LInv
  <1>2. idx \in Index /\ GCC_BUFFER_SIZE \in Nat
    BY <1>1, SlotType, SizesAssumption
  <1>3. e # Empty
    BY EmptyType, Zenon
  <1>4. Genuine(first, written, e) /\ gcc_get_array_index(e.id) = idx
    BY <1>1, <1>2, <1>3 DEF Kept
  <1>5. e.id \in Nat /\ e.id < send_message_id /\ e.type \in {"packet", "fragment"}
    BY <1>1, <1>4, GenuineFacts, Zenon
  <1>6. send_message_id <= received_message_id + GCC_BUFFER_SIZE + 1
    BY Window, Zenon
  <1> HIDE DEF e
  <1>7. CASE e.type = "packet"
    <2>1. e.id > received_message_id
      BY <1>1, <1>2, <1>7, Zenon DEF InOrder, e
    <2>2. e.id - (received_message_id + 1) < GCC_BUFFER_SIZE /\ (received_message_id + 1) - e.id < GCC_BUFFER_SIZE
      BY <1>1, <1>2, <1>5, <1>6, <2>1
    <2> QED BY <1>1, <1>4, <1>5, <2>2, SlotInjective
  <1>8. CASE e.type = "fragment"
    \* The fragments of the packet under way have the slots before it.
    <2>1. last_chunk_id # 0 /\ UnderWay(first)
      BY <1>1, <1>2, <1>8, Zenon DEF InOrder, e
    <2>2. first[Current] <= e.id /\ e.id <= received_message_id /\ received_message_id < first[Current] + written[Current]
          /\ Current <= Len(written)
      BY <1>2, <1>8, <2>1, Zenon DEF UnderWay, e
    <2>3. Current \in 1 .. Len(written)
      BY <1>1, <2>2 DEF InOrder, Current
    <2>4. Current \in 1 .. Len(written) + 1
      BY <1>1, <2>3
    <2>5. first[Current] \in Nat /\ written[Current] \in 1 .. GCC_BUFFER_SIZE - 1
      BY <1>1, <2>3, <2>4, LayoutFacts, Zenon
    <2>6. e.id - (received_message_id + 1) < GCC_BUFFER_SIZE /\ (received_message_id + 1) - e.id < GCC_BUFFER_SIZE
      BY <1>1, <1>2, <1>5, <2>2, <2>5, SMTT(30)
    <2>7. e.id = received_message_id + 1
      BY <1>1, <1>4, <1>5, <2>6, SlotInjective
    <2> QED BY <2>7, Zenon
  <1> QED BY <1>5, <1>7, <1>8, Zenon

\* reassemble_packet finds the fragments that were accepted.
LEMMA FoundAll ==
    ASSUME KInv, NEW first, LInv(first), ~shadowed, last_chunk_id # 0
    PROVE  LET id == received_message_id + 1
               k == (received_message_id + 1) - first[Current]
           IN  /\ AllStored(first) => Found(id) = k /\ k \in 1 .. GCC_BUFFER_SIZE - 1 /\ Joined(id) = [i \in 1 .. k |-> <<Current, i>>]
               /\ NoneStored(first) => Found(id) = 0
  <1> DEFINE w == written
             C == Current
             id == received_message_id + 1
             K == (received_message_id + 1) - first[C]
             P(k) == /\ \A i \in 1 .. k : recv_array[Back(id, i)].type = "fragment"
                     /\ k = GCC_BUFFER_SIZE \/ recv_array[Back(id, k + 1)].type # "fragment"
  <1>1. /\ w \in Seq(ChunkCounts) /\ send_message_id \in Nat /\ received_message_id \in Nat
        /\ Layout(first, w, send_message_id) /\ Kept(first, w, recv_array) /\ UnderWay(first) /\ InOrder(first)
        /\ GCC_BUFFER_SIZE \in Nat \ {0, 1}
    BY SizesAssumption, Zenon DEF KInv, Types, LInv, InOrder
  <1>2. C \in 1 .. Len(w) /\ C \in 1 .. Len(w) + 1
    BY <1>1 DEF UnderWay, InOrder, Current
  <1>3. first[C] \in Nat /\ w[C] \in 1 .. GCC_BUFFER_SIZE - 1 /\ w[C] # 1 /\ Size(w, C) = w[C] + 1
    BY <1>1, <1>2, LayoutFacts, Zenon DEF UnderWay, Size
  <1>4. first[C] <= received_message_id /\ received_message_id < first[C] + w[C]
    BY <1>1, Zenon DEF UnderWay
  <1>10. /\ received_message_id \in Nat /\ GCC_BUFFER_SIZE \in Nat /\ first[C] \in Nat /\ w[C] \in Nat /\ w[C] < GCC_BUFFER_SIZE
         /\ first[C] <= received_message_id /\ received_message_id < first[C] + w[C]
    BY <1>1, <1>3, <1>4
  <1>5. \A i \in Int : Back(id, i) = gcc_get_array_index(id - i) /\ Back(id, i) \in Index
    <2> SUFFICES ASSUME NEW i \in Int PROVE Back(id, i) = gcc_get_array_index(id - i) /\ Back(id, i) \in Index
      BY Zenon
    <2>1. id - i \in Int
      BY <1>1
    <2>2. Back(id, i) = gcc_get_array_index(id - i)
      BY Zenon DEF Back, gcc_get_array_index
    <2> QED BY <2>1, <2>2, SlotType, Zenon
  <1>6. \A k, l \in 0 .. GCC_BUFFER_SIZE : P(k) /\ P(l) => k = l
    <2> SUFFICES ASSUME NEW k \in 0 .. GCC_BUFFER_SIZE, NEW l \in 0 .. GCC_BUFFER_SIZE, P(k), P(l), k < l PROVE FALSE
      BY <1>1
    <2>1. k # GCC_BUFFER_SIZE /\ k + 1 \in 1 .. l
      BY <1>1
    <2> QED BY <2>1, Zenon
  <1>7. \A k \in 0 .. GCC_BUFFER_SIZE : P(k) => Found(id) = k
    <2> SUFFICES ASSUME NEW k \in 0 .. GCC_BUFFER_SIZE, P(k) PROVE Found(id) = k
      BY Zenon
    <2> HIDE DEF P
    <2>1. (CHOOSE l \in 0 .. GCC_BUFFER_SIZE : P(l)) = k
      BY <1>6, Zenon
    <2> QED BY <2>1, Zenon DEF Found, P
  <1>8. ASSUME AllStored(first)
        PROVE  Found(id) = K /\ K \in 1 .. GCC_BUFFER_SIZE - 1 /\ Joined(id) = [i \in 1 .. K |-> <<C, i>>]
    <2>1. K \in 1 .. GCC_BUFFER_SIZE - 1 /\ K \in 0 .. GCC_BUFFER_SIZE /\ K <= w[C]
      BY <1>10
    <2>2. ASSUME NEW i \in 1 .. K
          PROVE  recv_array[Back(id, i)] = Made(first, w, C, id - i) /\ id - i \in OfPacket(first, w, C) /\ id - i < first[C] + w[C]
      <3>1. id - i \in first[C] .. received_message_id /\ i \in Int
        BY <1>1, <1>3, <1>4, <2>1, SMTT(30)
      <3>2. id - i \in OfPacket(first, w, C) /\ id - i < first[C] + w[C]
        BY <1>1, <1>3, <1>4, <3>1, SMTT(30) DEF OfPacket
      <3>3. recv_array[gcc_get_array_index(id - i)] = Made(first, w, C, id - i)
        BY <1>8, <3>1, Zenon DEF AllStored
      <3> QED BY <1>5, <3>1, <3>2, <3>3, Zenon
    <2>3. ASSUME NEW i \in 1 .. K
          PROVE  recv_array[Back(id, i)].type = "fragment" /\ recv_array[Back(id, i)].piece = <<<<C, (id - i) - first[C] + 1>>>>
      <3> DEFINE j == id - i
                 e == Made(first, w, C, j)
      <3>1. j # first[C] + w[C]
        BY <1>10, <2>2
      <3>2. j \in OfPacket(first, w, C) /\ recv_array[Back(id, i)] = e
        BY <2>2, ZenonT(30)
      <3> HIDE DEF j, w, C, e
      <3>3. /\ e.type = IF w[C] = 1 THEN "packet" ELSE "fragment"
            /\ w[C] # 1 /\ e.piece # <<>> => j < first[C] + w[C] /\ e.piece = <<<<C, j - first[C] + 1>>>>
            /\ w[C] # 1 /\ e.piece = <<>> => j = first[C] + w[C]
        <4>1. e = Made(first, w, C, j)
          BY Zenon DEF e
        <4> QED BY <1>1, <1>2, <3>2, <4>1, MadeFacts, SMTT(30)
      <3>4. e.type = "fragment" /\ e.piece = <<<<C, j - first[C] + 1>>>>
        BY <1>3, <3>1, <3>3, Zenon
      <3> QED BY <3>2, <3>4, Zenon DEF j, w, C
    <2>4. recv_array[Back(id, K + 1)].type # "fragment"
      <3> DEFINE x == gcc_get_array_index(first[C] - 1)
      <3>1. Back(id, K + 1) = x /\ x \in Index
        <4>1. id - (K + 1) = first[C] - 1 /\ K + 1 \in Int
          BY <1>1, <1>3, SMTT(30)
        <4> QED BY <1>5, <4>1, ZenonT(30)
      <3>2. ASSUME recv_array[x].type = "fragment" PROVE FALSE
        <4>1. recv_array[x] # Empty
          BY <3>2, EmptyType, Zenon
        <4>2. gcc_get_array_index(recv_array[x].id) = x /\ Genuine(first, w, recv_array[x])
          BY <1>1, <3>1, <4>1, ZenonT(30) DEF Kept
        <4>3. recv_array[x].id \in Nat
          BY <1>1, <4>2, GenuineFacts
        <4>4. first[C] <= recv_array[x].id /\ recv_array[x].id <= received_message_id
          BY <1>1, <3>1, <3>2, Zenon DEF UnderWay
        <4>5. recv_array[x].id - (first[C] - 1) < GCC_BUFFER_SIZE /\ (first[C] - 1) - recv_array[x].id < GCC_BUFFER_SIZE
          BY <1>10, <4>3, <4>4, SMTT(30)
        <4>6. recv_array[x].id = first[C] - 1
          BY <1>3, <4>2, <4>3, <4>5, SlotInjective
        <4> QED BY <1>3, <4>3, <4>4, <4>6
      <3> QED BY <3>1, <3>2, Zenon
    <2>5. P(K)
      BY <2>3, <2>4, Zenon
    <2>6. Found(id) = K
      BY <1>7, <2>1, <2>5, Zenon
    <2> HIDE DEF K, P
    <2>7. \A i \in 1 .. K : recv_array[Back(id, K + 1 - i)].piece[1] = <<C, i>>
      <3> SUFFICES ASSUME NEW i \in 1 .. K PROVE recv_array[Back(id, K + 1 - i)].piece[1] = <<C, i>>
        BY Zenon
      <3>1. K + 1 - i \in 1 .. K
        BY <2>1
      <3>2. (id - (K + 1 - i)) - first[C] + 1 = i
        BY <1>10, <2>1 DEF K
      <3>3. recv_array[Back(id, K + 1 - i)].piece = <<<<C, (id - (K + 1 - i)) - first[C] + 1>>>>
        BY <2>3, <3>1, Zenon
      <3>4. recv_array[Back(id, K + 1 - i)].piece = <<<<C, i>>>>
        BY <3>2, <3>3, Zenon
      <3> QED BY <3>4
    <2>8. Joined(id) = [i \in 1 .. K |-> recv_array[Back(id, K + 1 - i)].piece[1]]
      BY <2>6, Zenon DEF Joined
    <2>9. Joined(id) = [i \in 1 .. K |-> <<C, i>>]
      BY <2>7, <2>8
    <2> QED BY <2>1, <2>6, <2>9, Zenon
  <1>9. ASSUME NoneStored(first) PROVE Found(id) = 0
    <2>1. Back(id, 0 + 1) \in Index
      BY <1>5
    <2>2. recv_array[Back(id, 0 + 1)].type # "fragment"
      BY <1>9, <2>1, Zenon DEF NoneStored
    <2>3. P(0)
      BY <2>2
    <2> QED BY <1>1, <1>7, <2>3
  <1> QED BY <1>8, <1>9, Zenon
=============================================================================
