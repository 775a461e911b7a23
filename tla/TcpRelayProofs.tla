--------------------------- MODULE TcpRelayProofs ---------------------------
(***************************************************************************)
(* For any set of clients, table size and number of connections the relay's *)
(* array and key list agree and coupled routes point at each other.         *)
(*                                                                          *)
(* The inductive invariant is a predicate of the five server variables      *)
(* (ServerOK), so that what kill_accepted leaves behind can be shown to     *)
(* satisfy it before add_accepted goes on from there.  It also needs the    *)
(* shape of the packets on their way to the relay.                          *)
(***************************************************************************)
EXTENDS TcpRelay, TLAPS, WellFoundedInduction, FiniteSetTheorems

ConnectionType == {NoConnection} \cup {Confirmed(k, x) : k \in Key, x \in Socket}
EntryType == [status : 0 .. 2, public_key : Key \cup {None}, index : Nat, other_id : Id]
PacketType ==
    {RoutingRequest(k) : k \in Key} \cup {DisconnectNotification(i) : i \in Id}
        \cup {Data(i, k) : i \in Id, k \in Key}

Used(a, n) == {s \in 0 .. n - 1 : a[s].status # "none"}

TypesOK(a, tb, n, m, kl) ==
    /\ n \in Nat
    /\ m \in Nat
    /\ a \in [0 .. n - 1 -> ConnectionType]
    /\ tb \in [0 .. n - 1 -> [Id -> EntryType]]
    /\ kl \in [Key -> Int]
ListOK(a, n, m, kl) ==
    /\ \A k \in Key : kl[k] # -1 => kl[k] \in 0 .. n - 1 /\ a[kl[k]].public_key = k
    /\ \A s \in 0 .. n - 1 : a[s].status # "none" => kl[a[s].public_key] = s
    /\ m = Cardinality(Used(a, n))
EntryOK(a, tb, n, s, i) ==
    tb[s][i].status = 2 =>
        /\ tb[s][i].index \in 0 .. n - 1
        /\ tb[s][i].index # s
        /\ a[s].status # "none"
        /\ a[tb[s][i].index].public_key = tb[s][i].public_key
        /\ tb[tb[s][i].index][tb[s][i].other_id] = Entry(2, a[s].public_key, s, i)
RoutesOK(a, tb, n) == \A s \in 0 .. n - 1 : \A i \in Id : EntryOK(a, tb, n, s, i)

ServerOK(a, tb, n, m, kl) ==
    /\ TypesOK(a, tb, n, m, kl)
    /\ ListOK(a, n, m, kl)
    /\ RoutesOK(a, tb, n)

IInv ==
    /\ ServerOK(acc, table, size, num, keylist)
    /\ up \in [Socket -> Seq(PacketType)]

\* An entry is all right in a table that has it and its other end as they were.
LEMMA SameEntry ==
    ASSUME NEW a, NEW tb, NEW old, NEW n, NEW s, NEW i,
           tb[s][i] = old[s][i],
           tb[old[s][i].index][old[s][i].other_id] = old[old[s][i].index][old[s][i].other_id],
           EntryOK(a, old, n, s, i)
    PROVE  EntryOK(a, tb, n, s, i)
  BY Zenon DEF EntryOK

----------------------------------------------------------------------------
(* Arithmetic of slots. *)

\* A non-empty set of naturals has a least element: what the loops over the ids stop at.
LEMMA LeastExists ==
    ASSUME NEW S \in SUBSET Nat, S # {}
    PROVE  \E n \in S : \A m \in S : n <= m
<1> DEFINE R == OpToRel(<, Nat)
<1>1. IsWellFoundedOn(R, Nat)
  BY NatLessThanWellFounded, Zenon
<1>2. \A x, y \in Nat : x < y => <<x, y>> \in R
  BY Zenon DEF OpToRel
<1> HIDE DEF R
<1>3. \E n \in S : \A m \in S : ~(<<m, n>> \in R)
  BY <1>1, WFMin, Zenon
<1>4. PICK n \in S : \A m \in S : ~(<<m, n>> \in R)
  BY <1>3, Zenon
<1>5. \A m \in S : ~(m < n)
  BY <1>2, <1>4, Zenon
<1>6. \A m \in S : n <= m
  BY <1>5, SMT
<1> QED
  BY <1>6, Zenon

\* Least(S) is an element of S.
LEMMA LeastIn ==
    ASSUME NEW S \in SUBSET Nat, S # {}
    PROVE  Least(S) \in S
  BY LeastExists, Zenon DEF Least

\* A non-empty set of slots has a last one: what add_accepted's loop stops at.
LEMMA LastExists ==
    ASSUME NEW n \in Nat, NEW S \in SUBSET (0 .. n - 1), S # {}
    PROVE  \E t \in S : \A v \in t + 1 .. n - 1 : v \notin S
<1> DEFINE M == {n - 1 - t : t \in S}
<1>1. M \in SUBSET Nat /\ M # {}
  <2>1. \A t \in S : n - 1 - t \in Nat
    OBVIOUS
  <2>2. PICK t \in S : TRUE
    BY Zenon
  <2>3. n - 1 - t \in M
    BY Zenon
  <2> QED
    BY <2>1, <2>3, Zenon
<1>2. PICK d \in M : \A e \in M : d <= e
  BY <1>1, LeastExists, Zenon
<1>3. PICK t \in S : d = n - 1 - t
  BY <1>2, Zenon
<1>4. ASSUME NEW v \in t + 1 .. n - 1, v \in S PROVE FALSE
  <2>1. n - 1 - v \in M
    BY <1>4, Zenon
  <2>2. d <= n - 1 - v
    BY <2>1, <1>2, Zenon
  <2> QED
    BY <2>2, <1>3, <1>4
<1> QED
  BY <1>4, Zenon

\* The slots in use form a finite set, which is all slots when it has their number.
LEMMA UsedFinite ==
    ASSUME NEW a, NEW n \in Nat
    PROVE  /\ IsFiniteSet(Used(a, n))
           /\ Cardinality(Used(a, n)) \in Nat
           /\ Cardinality(Used(a, n)) = n => Used(a, n) = 0 .. n - 1
<1>1. IsFiniteSet(0 .. n - 1) /\ Cardinality(0 .. n - 1) = n
  BY FS_Interval
<1>2. Used(a, n) \in SUBSET (0 .. n - 1)
  BY Zenon DEF Used
<1> QED
  BY <1>1, <1>2, FS_Subset, FS_CardinalityType, Zenon

----------------------------------------------------------------------------
(* What each change of the server's variables preserves. *)

\* A connection in use has a client's key.
LEMMA UsedHasKey ==
    ASSUME NEW a, NEW n \in Nat, a \in [0 .. n - 1 -> ConnectionType], NEW s \in 0 .. n - 1
    PROVE  /\ a[s].status # "none" => a[s].public_key \in Key
           /\ a[s].status # "none" => a[s].status = "confirmed"
           /\ a[s].status = "none" => a[s].public_key = None
  BY DEF ConnectionType, NoConnection, Confirmed

\* rm_connection_index keeps routes coupled and leaves none at the freed ids.
LEMMA RmOK ==
    ASSUME TypesOK(acc, table, size, num, keylist), RoutesOK(acc, table, size),
           NEW s \in 0 .. size - 1, NEW R \in SUBSET Id
    PROVE  LET tb == rm_connection_index(s, R) IN
           /\ tb \in [0 .. size - 1 -> [Id -> EntryType]]
           /\ RoutesOK(acc, tb, size)
           /\ \A i \in R : tb[s][i].status # 2
           /\ R = Id => \A t \in 0 .. size - 1, j \in Id : tb[t][j].status = 2 => tb[t][j].index # s
<1> DEFINE tb == rm_connection_index(s, R)
           Reset(t, j) == \E i \in R : Couples(s, i, t) /\ table[s][i].other_id = j
<1>0. /\ size \in Nat
      /\ table \in [0 .. size - 1 -> [Id -> EntryType]]
  BY Zenon DEF TypesOK
<1>1. FreeEntry \in EntryType
  BY ConstantsAssumption DEF FreeEntry, EntryType, Id, Entry
<1>2. \A t \in 0 .. size - 1 : \A j \in Id :
         tb[t][j] = IF t = s /\ j \in R THEN FreeEntry
                    ELSE IF Reset(t, j)
                         THEN Entry(1, table[t][j].public_key, 0, 0)
                         ELSE table[t][j]
  BY Zenon DEF rm_connection_index
<1>3. \A e \in EntryType : Entry(1, e.public_key, 0, 0) \in EntryType
  BY ConstantsAssumption DEF EntryType, Id, Entry
<1>4. tb \in [0 .. size - 1 -> [Id -> EntryType]]
  <2>1. ASSUME NEW t \in 0 .. size - 1, NEW j \in Id
        PROVE  tb[t][j] \in EntryType
    <3> HIDE DEF tb, Reset
    <3>1. table[t][j] \in EntryType
      BY <1>0, Zenon
    <3> QED
      BY <1>1, <1>2, <1>3, <3>1, Zenon
  <2> QED
    BY <2>1, Zenon DEF rm_connection_index
<1>5. ASSUME NEW t \in 0 .. size - 1, NEW j \in Id, tb[t][j].status = 2
      PROVE  tb[t][j] = table[t][j] /\ ~(t = s /\ j \in R) /\ ~Reset(t, j)
  <2>1. FreeEntry.status # 2
    BY DEF FreeEntry, Entry
  <2>2. \A k : Entry(1, k, 0, 0).status # 2
    BY SMTT(40) DEF Entry
  <2> HIDE DEF tb, Reset
  <2> QED
    BY <1>2, <1>5, <2>1, <2>2, Zenon
<1>6. ASSUME NEW t \in 0 .. size - 1, NEW j \in Id, tb[t][j].status = 2
      PROVE  EntryOK(acc, tb, size, t, j) /\ (R = Id => tb[t][j].index # s)
  <2> DEFINE u == table[t][j].index
             v == table[t][j].other_id
  <2>1. tb[t][j] = table[t][j] /\ ~(t = s /\ j \in R) /\ ~Reset(t, j)
    BY <1>5, <1>6, SMTT(40)
  <2>2. /\ u \in 0 .. size - 1 /\ u # t /\ acc[t].status # "none"
        /\ acc[u].public_key = table[t][j].public_key
        /\ table[u][v] = Entry(2, acc[t].public_key, t, j)
    BY <1>6, <2>1 DEF RoutesOK, EntryOK
  <2>3. v \in Id
    BY <1>0, SMTT(30) DEF EntryType
  <2>4. ~(u = s /\ v \in R)
    BY <2>1, <2>2 DEF Couples, Entry
  <2>5. ASSUME Reset(u, v) PROVE FALSE
    <3>1. PICK i \in R : Couples(s, i, u) /\ table[s][i].other_id = v
      BY <2>5, Zenon
    <3>2. EntryOK(acc, table, size, s, i)
      BY SMTT(30) DEF RoutesOK
    <3>3. table[u][v] = Entry(2, acc[s].public_key, s, i)
      BY <3>1, <3>2, SMTT(40) DEF EntryOK, Couples
    <3>4. s = t /\ i = j
      BY <3>3, <2>2, SMTT(40) DEF Entry
    <3> QED
      BY <3>1, <3>4, <2>1, Zenon
  <2>6. tb[u][v] = table[u][v]
    BY <1>2, <2>2, <2>3, <2>4, <2>5, SMTT(40)
  <2> QED
    BY <2>1, <2>2, <2>3, <2>4, <2>6, Zenon DEF EntryOK
<1>7. RoutesOK(acc, tb, size)
  BY <1>6, ZenonT(30) DEF RoutesOK, EntryOK
<1>8. \A i \in R : tb[s][i].status # 2
  BY <1>5, Zenon
<1> QED
  BY <1>4, <1>6, <1>7, <1>8, Zenon

\* What kill_accepted leaves is consistent, and the key is listed no more.
LEMMA KillOK ==
    ASSUME ServerOK(acc, table, size, num, keylist),
           NEW s \in 0 .. size - 1, acc[s].status # "none"
    PROVE  LET r == AfterKill(s) IN
           /\ ServerOK(r.acc, r.table, r.size, r.num, r.keylist)
           /\ r.keylist[acc[s].public_key] = -1
<1> DEFINE pk == acc[s].public_key
           a == AfterKill(s).acc
           tb == AfterKill(s).table
           n == AfterKill(s).size
           m == AfterKill(s).num
           kl == AfterKill(s).keylist
<1>0. /\ TypesOK(acc, table, size, num, keylist)
      /\ ListOK(acc, size, num, keylist)
      /\ RoutesOK(acc, table, size)
  BY Zenon DEF ServerOK
<1>1. /\ size \in Nat /\ num \in Nat
      /\ acc \in [0 .. size - 1 -> ConnectionType]
      /\ keylist \in [Key -> Int]
  BY <1>0, Zenon DEF TypesOK
<1>2. pk \in Key
  BY <1>1, UsedHasKey, Zenon
<1>3. kl = [keylist EXCEPT ![pk] = -1]
  BY Zenon DEF AfterKill
<1>4. kl \in [Key -> Int] /\ kl[pk] = -1 /\ \A k \in Key : k # pk => kl[k] = keylist[k]
  BY <1>1, <1>2, <1>3
<1>5. \A t \in 0 .. size - 1 : t # s /\ acc[t].status # "none" => acc[t].public_key # pk
  BY <1>0, Zenon DEF ListOK
<1>6. \A k \in Key : k # pk /\ keylist[k] # -1 => keylist[k] \in 0 .. size - 1 \ {s} /\ acc[keylist[k]].public_key = k
  BY <1>0, Zenon DEF ListOK
<1>7. IsFiniteSet(Used(acc, size)) /\ s \in Used(acc, size) /\ num = Cardinality(Used(acc, size))
  BY <1>0, <1>1, UsedFinite, SMTT(30) DEF ListOK, Used
<1>8. CASE num = 1
  <2>1. a = [t \in {} |-> NoConnection] /\ tb = [t \in {} |-> FreeTable] /\ n = 0 /\ m = 0
    BY <1>8, Zenon DEF AfterKill
  <2> HIDE DEF a, tb, n, m, kl
  <2>2. \A t \in 0 .. size - 1 : t # s => acc[t].status = "none"
    <3>1. PICK y : Used(acc, size) = {y}
      BY <1>7, <1>8, FS_Singleton, Zenon
    <3> QED
      BY <3>1, <1>7, Zenon DEF Used
  <2>3. \A k \in Key : kl[k] = -1
    <3>1. ASSUME NEW k \in Key, k # pk, keylist[k] # -1 PROVE FALSE
      <4>1. keylist[k] \in 0 .. size - 1 /\ keylist[k] # s /\ acc[keylist[k]].public_key = k
        BY <1>6, <3>1, Zenon
      <4>2. acc[keylist[k]].status = "none"
        BY <2>2, <4>1, Zenon
      <4>3. acc[keylist[k]].public_key = None
        BY <4>1, <4>2, <1>1, UsedHasKey, Zenon
      <4> QED
        BY <4>1, <4>3, ConstantsAssumption, Zenon
    <3> QED
      BY <3>1, <1>4, Zenon
  <2>4. Used(a, n) = {}
    BY <2>1 DEF Used
  <2>5. TypesOK(a, tb, n, m, kl)
    BY <2>1, <1>4 DEF TypesOK
  <2>6. ListOK(a, n, m, kl)
    <3>1. m = Cardinality(Used(a, n))
      BY <2>1, <2>4, FS_EmptySet, Zenon
    <3>2. \A t \in 0 .. n - 1 : FALSE
      BY <2>1
    <3> QED
      BY <2>3, <3>1, <3>2, Zenon DEF ListOK
  <2>7. RoutesOK(a, tb, n)
    BY <2>1 DEF RoutesOK
  <2>8. ServerOK(a, tb, n, m, kl) /\ kl[pk] = -1
    BY <2>5, <2>6, <2>7, <1>4, Zenon DEF ServerOK
  <2> QED
    BY <2>8, Zenon DEF a, tb, n, m, kl
<1>9. CASE num # 1
  <2>1. a = [acc EXCEPT ![s] = NoConnection] /\ tb = rm_connection_index(s, Id) /\ n = size /\ m = num - 1
    BY <1>9, Zenon DEF AfterKill
  <2> HIDE DEF a, tb, n, m, kl
  <2>2. /\ tb \in [0 .. size - 1 -> [Id -> EntryType]]
        /\ RoutesOK(acc, tb, size)
        /\ \A i \in Id : tb[s][i].status # 2
        /\ \A t \in 0 .. size - 1, j \in Id : tb[t][j].status = 2 => tb[t][j].index # s
    BY <1>0, <2>1, RmOK, Zenon
  <2>3. NoConnection \in ConnectionType /\ NoConnection.status = "none"
    BY DEF ConnectionType, NoConnection
  <2>4. a \in [0 .. size - 1 -> ConnectionType]
    BY <1>1, <2>1, <2>3, Zenon
  <2>5. a[s].status = "none" /\ \A t \in 0 .. size - 1 : t # s => a[t] = acc[t]
    BY <1>1, <2>1, <2>3, Zenon
  <2>6. Used(a, size) = Used(acc, size) \ {s}
    BY <2>5, Zenon DEF Used
  <2>7. m = Cardinality(Used(a, size)) /\ m \in Nat
    <3>1. Cardinality(Used(acc, size) \ {s}) = Cardinality(Used(acc, size)) - 1
      BY <1>7, FS_RemoveElement, Zenon
    <3>2. Cardinality(Used(a, size)) \in Nat
      BY <1>1, UsedFinite, Zenon
    <3> QED
      BY <1>7, <2>1, <2>6, <3>1, <3>2, Zenon
  <2>8. TypesOK(a, tb, n, m, kl)
    BY <1>1, <1>4, <2>1, <2>2, <2>4, <2>7, SMTT(30) DEF TypesOK
  <2>9. ListOK(a, n, m, kl)
    <3>1. \A k \in Key : kl[k] # -1 => kl[k] \in 0 .. n - 1 /\ a[kl[k]].public_key = k
      BY <1>4, <1>6, <2>1, <2>5
    <3>2. ASSUME NEW t \in 0 .. n - 1, a[t].status # "none" PROVE kl[a[t].public_key] = t
      <4>1. t \in 0 .. size - 1 /\ t # s /\ a[t] = acc[t] /\ acc[t].status # "none"
        BY <3>2, <2>1, <2>5, Zenon
      <4>2. keylist[acc[t].public_key] = t /\ acc[t].public_key # pk
        BY <4>1, <1>0, <1>5, Zenon DEF ListOK
      <4>3. acc[t].public_key \in Key
        BY <4>1, <1>1, UsedHasKey, SMTT(40)
      <4> QED
        BY <4>1, <4>2, <4>3, <1>4, Zenon
    <3> QED
      BY <3>1, <3>2, <2>1, <2>7, SMTT(30) DEF ListOK
  <2>10. RoutesOK(a, tb, n)
    <3>1. ASSUME NEW t \in 0 .. size - 1, NEW j \in Id, tb[t][j].status = 2
          PROVE  EntryOK(a, tb, size, t, j)
      <4>1. t # s /\ tb[t][j].index # s /\ EntryOK(acc, tb, size, t, j)
        BY <3>1, <2>2, Zenon DEF RoutesOK
      <4> QED
        BY <4>1, <3>1, <2>5, Zenon DEF EntryOK
    <3> QED
      BY <3>1, <2>1, SMTT(40) DEF RoutesOK, EntryOK
  <2>11. ServerOK(a, tb, n, m, kl) /\ kl[pk] = -1
    BY <2>8, <2>9, <2>10, <1>4, Zenon DEF ServerOK
  <2> QED
    BY <2>11, Zenon DEF a, tb, n, m, kl
<1> QED
  BY <1>8, <1>9, Zenon

\* The slot add_accepted takes is the first new one or a free one.
LEMMA NewIndexOK ==
    ASSUME NEW a, NEW n \in Nat, NEW m, m = Cardinality(Used(a, n)),
           NEW r, r.acc = a, r.size = n, r.num = m
    PROVE  \/ n = m /\ NewIndex(r) = n
           \/ n # m /\ NewIndex(r) \in 0 .. n - 1 /\ a[NewIndex(r)].status = "none"
<1>1. CASE n = m
  BY <1>1, Zenon DEF NewIndex
<1>2. CASE n # m
  <2> DEFINE S == {t \in 0 .. n - 1 : a[t].status = "none"}
  <2>1. S # {}
    <3>1. ASSUME S = {} PROVE FALSE
      <4>1. Used(a, n) = 0 .. n - 1
        BY <3>1, Zenon DEF Used
      <4>2. Cardinality(0 .. n - 1) = n
        BY FS_Interval
      <4> QED
        BY <4>1, <4>2, <1>2, Zenon
    <3> QED
      BY <3>1, Zenon
  <2>2. PICK t \in S : \A v \in t + 1 .. n - 1 : v \notin S
    <3>1. S \in SUBSET (0 .. n - 1)
      BY Zenon
    <3> HIDE DEF S
    <3> QED
      BY <2>1, <3>1, LastExists, Zenon
  <2>3. \E u \in 0 .. n - 1 : /\ a[u].status = "none"
                              /\ \A v \in u + 1 .. n - 1 : a[v].status # "none"
    BY <2>2
  <2>4. NewIndex(r) = CHOOSE u \in 0 .. n - 1 : /\ a[u].status = "none"
                                                /\ \A v \in u + 1 .. n - 1 : a[v].status # "none"
    BY <1>2, Zenon DEF NewIndex
  <2> QED
    BY <1>2, <2>3, <2>4, Zenon
<1> QED
  BY <1>1, <1>2, Zenon

\* A connection added for a key that is not listed leaves everything consistent.
LEMMA AddOK ==
    ASSUME NEW r, ServerOK(r.acc, r.table, r.size, r.num, r.keylist),
           NEW k \in Key, NEW x \in Socket, r.keylist[k] = -1
    PROVE  LET q == AfterAdd(r, k, x) IN ServerOK(q.acc, q.table, q.size, q.num, q.keylist)
<1> DEFINE a == r.acc
           tb == r.table
           n == r.size
           kl == r.keylist
           index == NewIndex(r)
           n2 == IF r.size = r.num THEN r.size + GROW ELSE r.size
           a2 == [t \in 0 .. n2 - 1 |-> IF t = index THEN Confirmed(k, x)
                                        ELSE IF t < r.size THEN r.acc[t] ELSE NoConnection]
           tb2 == [t \in 0 .. n2 - 1 |-> IF t # index /\ t < r.size THEN r.table[t] ELSE FreeTable]
           kl2 == [r.keylist EXCEPT ![k] = index]
<1>0. /\ TypesOK(a, tb, n, r.num, kl)
      /\ ListOK(a, n, r.num, kl)
      /\ RoutesOK(a, tb, n)
  BY Zenon DEF ServerOK
<1>1. /\ n \in Nat /\ r.num \in Nat /\ n2 \in Nat /\ n <= n2 /\ kl[k] = -1
      /\ a \in [0 .. n - 1 -> ConnectionType]
      /\ tb \in [0 .. n - 1 -> [Id -> EntryType]]
      /\ kl \in [Key -> Int]
  BY <1>0, ConstantsAssumption, SMTT(30) DEF TypesOK
<1>2. \/ n = r.num /\ index = n /\ n2 = n + GROW
      \/ index \in 0 .. n - 1 /\ a[index].status = "none" /\ n2 = n
  <2>1. r.num = Cardinality(Used(a, n))
    BY <1>0, Zenon DEF ListOK
  <2> QED
    BY <1>1, <2>1, NewIndexOK, SMTT(30)
<1>3. index \in 0 .. n2 - 1 /\ index \in Int
  BY <1>1, <1>2, ConstantsAssumption
<1> HIDE DEF index, n2
<1>4. \A t \in 0 .. n2 - 1 : a2[t] = IF t = index THEN Confirmed(k, x)
                                     ELSE IF t < n THEN a[t] ELSE NoConnection
  BY Zenon
<1>5. \A t \in 0 .. n2 - 1 : tb2[t] = IF t # index /\ t < n THEN tb[t] ELSE FreeTable
  BY Zenon
<1>6. kl2 \in [Key -> Int] /\ kl2[k] = index /\ \A y \in Key : y # k => kl2[y] = kl[y]
  BY <1>1, <1>3, SMTT(30)
<1>7. /\ Confirmed(k, x) \in ConnectionType
      /\ Confirmed(k, x).status = "confirmed" /\ Confirmed(k, x).public_key = k
      /\ NoConnection \in ConnectionType /\ NoConnection.status = "none"
  BY DEF ConnectionType, Confirmed, NoConnection
<1>8. FreeTable \in [Id -> EntryType] /\ \A i \in Id : FreeTable[i].status = 0
  BY ConstantsAssumption DEF FreeTable, FreeEntry, Entry, EntryType, Id
<1>9. a2 \in [0 .. n2 - 1 -> ConnectionType]
  <2>1. \A t \in 0 .. n2 - 1 : t < n => a[t] \in ConnectionType
    BY <1>1, SMTT(30)
  <2> QED
    BY <1>7, <2>1, Zenon
<1>10. tb2 \in [0 .. n2 - 1 -> [Id -> EntryType]]
  <2>1. \A t \in 0 .. n2 - 1 : t < n => tb[t] \in [Id -> EntryType]
    BY <1>1
  <2> QED
    BY <1>8, <2>1, Zenon
<1> HIDE DEF a2, tb2, kl2, a, tb, n, kl
<1>a. n \in Nat /\ n2 \in Nat /\ n <= n2
  BY <1>1, Zenon
<1>b. \A v \in 0 .. n - 1 : v # index => v \in 0 .. n2 - 1 /\ a2[v] = a[v] /\ tb2[v] = tb[v]
  <2>1. ASSUME NEW v \in 0 .. n - 1, v # index
        PROVE  v \in 0 .. n2 - 1 /\ v < n
    BY <1>a, <2>1
  <2> QED
    BY <1>4, <1>5, <2>1, Zenon
<1>c. \A v \in 0 .. n2 - 1 : v \in 0 .. n - 1 \/ ~(v < n)
  BY <1>a
<1>d. \A v \in 0 .. n2 - 1 : v # index => v \in 0 .. n - 1 \/ (a2[v] = NoConnection /\ tb2[v] = FreeTable)
  BY <1>4, <1>5, <1>c, Zenon
<1>11. Used(a2, n2) = Used(a, n) \cup {index} /\ index \notin Used(a, n)
  BY <1>1, <1>2, <1>3, <1>4, <1>7 DEF Used
<1>12. r.num + 1 = Cardinality(Used(a2, n2))
  <2>1. IsFiniteSet(Used(a, n)) /\ r.num = Cardinality(Used(a, n))
    BY <1>0, <1>1, UsedFinite, SMTT(30) DEF ListOK
  <2> QED
    BY <1>11, <2>1, FS_AddElement, Zenon
<1>13. TypesOK(a2, tb2, n2, r.num + 1, kl2)
  BY <1>1, <1>6, <1>9, <1>10, SMTT(30) DEF TypesOK
<1>14. ListOK(a2, n2, r.num + 1, kl2)
  <2>1. ASSUME NEW y \in Key, kl2[y] # -1
        PROVE  kl2[y] \in 0 .. n2 - 1 /\ a2[kl2[y]].public_key = y
    <3>1. CASE y = k
      BY <3>1, <1>3, <1>4, <1>6, <1>7, SMTT(40)
    <3>2. CASE y # k
      <4>1. kl[y] # -1 /\ kl[y] \in 0 .. n - 1 /\ a[kl[y]].public_key = y /\ kl2[y] = kl[y]
        BY <3>2, <2>1, <1>0, <1>6, Zenon DEF ListOK
      <4>2. a[kl[y]].status # "none"
        BY <4>1, <1>1, UsedHasKey, ConstantsAssumption, ZenonT(30)
      <4>3. kl[y] # index
        <5>1. index \in 0 .. n - 1 => a[index].status = "none"
          BY <1>1, <1>2
        <5> QED BY <4>1, <4>2, <5>1, Zenon
      <4> QED
        BY <4>1, <4>3, <1>b, Zenon
    <3> QED
      BY <3>1, <3>2, Zenon
  <2>2. ASSUME NEW t \in 0 .. n2 - 1, a2[t].status # "none"
        PROVE  kl2[a2[t].public_key] = t
    <3>1. CASE t = index
      BY <3>1, <1>4, <1>6, <1>7, Zenon
    <3>2. CASE t # index
      <4>1. t \in 0 .. n - 1 /\ a2[t] = a[t]
        BY <3>2, <2>2, <1>7, <1>b, <1>d, ZenonT(30)
      <4>2. kl[a[t].public_key] = t /\ a[t].public_key \in Key
        <5>1. a[t].status # "none"
          BY <4>1, <2>2, Zenon
        <5>2. kl[a[t].public_key] = t
          BY <4>1, <5>1, <1>0, Zenon DEF ListOK
        <5>3. a[t].public_key \in Key
          BY <4>1, <5>1, <1>1, UsedHasKey, ZenonT(30)
        <5> QED BY <5>2, <5>3, Zenon
      <4>3. a[t].public_key # k
        <5>1. t # -1
          BY <4>1, <1>a, SMTT(30)
        <5> QED BY <4>2, <5>1, <1>1, Zenon
      <4> QED
        BY <4>1, <4>2, <4>3, <1>6, Zenon
    <3> QED
      BY <3>1, <3>2, Zenon
  <2> QED
    BY <2>1, <2>2, <1>12, Zenon DEF ListOK
<1>15. RoutesOK(a2, tb2, n2)
  <2>1. ASSUME NEW t \in 0 .. n2 - 1, NEW j \in Id, tb2[t][j].status = 2
        PROVE  EntryOK(a2, tb2, n2, t, j)
    <3>a. t # index
      BY <2>1, <1>5, <1>8
    <3>1. t # index /\ t \in 0 .. n - 1 /\ tb2[t] = tb[t]
      BY <3>a, <2>1, <1>8, <1>b, <1>d, SMTT(40)
    <3>2. EntryOK(a, tb, n, t, j) /\ tb[t][j].status = 2
      BY <2>1, <3>1, <1>0, ZenonT(30) DEF RoutesOK
    <3>3. tb[t][j].index \in 0 .. n - 1 /\ a[tb[t][j].index].status # "none"
      <4>1. /\ tb[t][j].index \in 0 .. n - 1
            /\ tb[tb[t][j].index][tb[t][j].other_id] = Entry(2, a[t].public_key, t, j)
        BY <3>2, Zenon DEF EntryOK
      <4>2. tb[t][j].other_id \in Id
        BY <1>1, <3>1, Zenon DEF EntryType
      <4>3. EntryOK(a, tb, n, tb[t][j].index, tb[t][j].other_id)
        BY <1>0, <4>1, <4>2, Zenon DEF RoutesOK
      <4> QED
        BY <4>1, <4>3, SMTT(40) DEF EntryOK, Entry
    <3>4. tb[t][j].index # index
      BY <3>3, <1>1, <1>2
    <3>5. /\ tb[t][j].index \in 0 .. n2 - 1
          /\ a2[tb[t][j].index] = a[tb[t][j].index] /\ tb2[tb[t][j].index] = tb[tb[t][j].index]
          /\ a2[t] = a[t]
      BY <3>1, <3>3, <3>4, <1>b, Zenon
    <3> QED
      BY <3>1, <3>2, <3>5, Zenon DEF EntryOK
  <2> QED
    BY <2>1, SMTT(40) DEF RoutesOK, EntryOK
<1>16. ServerOK(a2, tb2, n2, r.num + 1, kl2)
  BY <1>13, <1>14, <1>15, SMTT(30) DEF ServerOK
<1>17. AfterAdd(r, k, x) = [acc |-> a2, table |-> tb2, size |-> n2, num |-> r.num + 1, keylist |-> kl2]
  BY Zenon DEF AfterAdd, a2, tb2, n2, kl2, index
<1> QED
  BY <1>16, <1>17

----------------------------------------------------------------------------
(* Routing requests. *)

\* The other end of a coupled entry.
LEMMA OtherEnd ==
    ASSUME ServerOK(acc, table, size, num, keylist),
           NEW s \in 0 .. size - 1, NEW i \in Id, table[s][i].status = 2
    PROVE  /\ table[s][i].index \in 0 .. size - 1 /\ table[s][i].other_id \in Id
           /\ table[table[s][i].index][table[s][i].other_id].status = 2
<1>1. table \in [0 .. size - 1 -> [Id -> EntryType]] /\ EntryOK(acc, table, size, s, i)
  BY Zenon DEF ServerOK, TypesOK, RoutesOK
<1>2. /\ table[s][i].index \in 0 .. size - 1
      /\ table[table[s][i].index][table[s][i].other_id] = Entry(2, acc[s].public_key, s, i)
  BY <1>1, Zenon DEF EntryOK
<1>3. table[s] \in [Id -> EntryType]
  BY <1>1, Zenon
<1>4. table[s][i] \in EntryType
  BY <1>3, Zenon
<1>5. table[s][i].other_id \in Id
  BY <1>4, Zenon DEF EntryType
<1>6. Entry(2, acc[s].public_key, s, i).status = 2
  BY Zenon DEF Entry
<1> QED BY <1>2, <1>5, <1>6, Zenon

\* A route that waits for its other end couples nothing.
LEMMA NewRouteOK ==
    ASSUME ServerOK(acc, table, size, num, keylist),
           NEW s \in 0 .. size - 1, NEW i \in Id, table[s][i].status = 0, NEW k \in Key
    PROVE  ServerOK(acc, WithEntry(table, s, i, Entry(1, k, 0, 0)), size, num, keylist)
<1> DEFINE e == Entry(1, k, 0, 0)
           tb == WithEntry(table, s, i, e)
<1>1. /\ TypesOK(acc, table, size, num, keylist) /\ ListOK(acc, size, num, keylist)
      /\ RoutesOK(acc, table, size) /\ size \in Nat
      /\ table \in [0 .. size - 1 -> [Id -> EntryType]]
  BY Zenon DEF ServerOK, TypesOK
<1>2. e \in EntryType /\ e.status = 1
  BY ConstantsAssumption DEF EntryType, Entry, Id
<1> HIDE DEF e
<1>3. /\ tb \in [0 .. size - 1 -> [Id -> EntryType]]
      /\ tb[s][i] = e
      /\ \A t \in 0 .. size - 1, j \in Id : (t # s \/ j # i) => tb[t][j] = table[t][j]
  <2> DEFINE row == [table[s] EXCEPT ![i] = e]
  <2>1. row \in [Id -> EntryType] /\ row[i] = e /\ \A v \in Id : v # i => row[v] = table[s][v]
    BY <1>1, <1>2, Zenon
  <2>2. WithEntry(table, s, i, e) = [table EXCEPT ![s] = row]
    BY SMTT(40) DEF WithEntry
  <2> HIDE DEF row
  <2> QED
    BY <1>1, <1>2, <2>1, <2>2, ZenonT(30)
<1> HIDE DEF tb
<1>4. ASSUME NEW t \in 0 .. size - 1, NEW j \in Id, tb[t][j].status = 2
      PROVE  EntryOK(acc, tb, size, t, j)
  <2>1. tb[t][j] = table[t][j] /\ table[t][j].status = 2 /\ EntryOK(acc, table, size, t, j)
    BY <1>1, <1>2, <1>3, <1>4, SMTT(40) DEF RoutesOK
  <2>2. /\ table[t][j].index \in 0 .. size - 1 /\ table[t][j].other_id \in Id
        /\ table[table[t][j].index][table[t][j].other_id].status = 2
    BY <2>1, OtherEnd, ZenonT(30)
  <2>3. table[t][j].index # s \/ table[t][j].other_id # i
    BY <2>2, SMTT(40)
  <2>4. tb[table[t][j].index][table[t][j].other_id] = table[table[t][j].index][table[t][j].other_id]
    <3> DEFINE u == table[t][j].index
               v == table[t][j].other_id
    <3>1. u \in 0 .. size - 1 /\ v \in Id /\ (u # s \/ v # i)
      BY <2>2, <2>3, Zenon
    <3> HIDE DEF u, v
    <3>2. tb[u][v] = table[u][v]
      BY <1>3, <3>1, SMTT(30)
    <3> QED BY <3>2, Zenon DEF u, v
  <2> QED
    BY <2>1, <2>4, Zenon DEF EntryOK
<1>5. RoutesOK(acc, tb, size)
  BY <1>4 DEF RoutesOK, EntryOK
<1>6. TypesOK(acc, tb, size, num, keylist)
  BY <1>1, <1>3, SMTT(30) DEF TypesOK
<1> QED
  BY <1>1, <1>5, <1>6, Zenon DEF ServerOK, tb, e

\* Two entries neither of which was coupled, of two connections that name each
\* other's key, can be coupled.
LEMMA CoupledRouteOK ==
    ASSUME ServerOK(acc, table, size, num, keylist),
           NEW s \in 0 .. size - 1, NEW i \in Id, table[s][i].status = 0,
           NEW t \in 0 .. size - 1, NEW j \in Id, table[t][j].status = 1,
           acc[s].status # "none", acc[t].status # "none", s # t
    PROVE  ServerOK(acc, WithEntry(WithEntry(table, s, i, Entry(2, acc[t].public_key, t, j)),
                                   t, j, Entry(2, acc[s].public_key, s, i)),
                    size, num, keylist)
<1> DEFINE e == Entry(2, acc[t].public_key, t, j)
           f == Entry(2, acc[s].public_key, s, i)
           mid == WithEntry(table, s, i, e)
           tb == WithEntry(mid, t, j, f)
<1>1. /\ TypesOK(acc, table, size, num, keylist) /\ ListOK(acc, size, num, keylist)
      /\ RoutesOK(acc, table, size) /\ size \in Nat
      /\ acc \in [0 .. size - 1 -> ConnectionType]
      /\ table \in [0 .. size - 1 -> [Id -> EntryType]]
  BY Zenon DEF ServerOK, TypesOK
<1>2. acc[s].public_key \in Key /\ acc[t].public_key \in Key
  BY <1>1, UsedHasKey, SMTT(40)
<1>3. /\ e \in EntryType /\ e.status = 2 /\ e.index = t /\ e.other_id = j
      /\ e.public_key = acc[t].public_key
      /\ f \in EntryType /\ f.status = 2 /\ f.index = s /\ f.other_id = i
      /\ f.public_key = acc[s].public_key
  BY <1>1, <1>2 DEF EntryType, Entry
<1> HIDE DEF e, f
<1>4. /\ mid \in [0 .. size - 1 -> [Id -> EntryType]]
      /\ mid[s][i] = e
      /\ \A u \in 0 .. size - 1, v \in Id : (u # s \/ v # i) => mid[u][v] = table[u][v]
  <2> DEFINE row == [table[s] EXCEPT ![i] = e]
  <2>1. row \in [Id -> EntryType] /\ row[i] = e /\ \A v \in Id : v # i => row[v] = table[s][v]
    BY <1>1, <1>3, Zenon
  <2>2. WithEntry(table, s, i, e) = [table EXCEPT ![s] = row]
    BY SMTT(30) DEF WithEntry
  <2> HIDE DEF row
  <2> QED
    BY <1>1, <1>3, <2>1, <2>2, SMTT(40)
<1> HIDE DEF mid
<1>5. /\ tb \in [0 .. size - 1 -> [Id -> EntryType]]
      /\ tb[t][j] = f
      /\ \A u \in 0 .. size - 1, v \in Id : (u # t \/ v # j) => tb[u][v] = mid[u][v]
  <2> DEFINE row == [mid[t] EXCEPT ![j] = f]
  <2>1. row \in [Id -> EntryType] /\ row[j] = f /\ \A v \in Id : v # j => row[v] = mid[t][v]
    BY <1>3, <1>4
  <2>2. WithEntry(mid, t, j, f) = [mid EXCEPT ![t] = row]
    BY Zenon DEF WithEntry
  <2> HIDE DEF row
  <2> QED
    BY <1>3, <1>4, <2>1, <2>2, SMTT(40)
<1> HIDE DEF tb
<1>6. tb[s][i] = e
  BY <1>4, <1>5, SMTT(30)
<1>7. \A u \in 0 .. size - 1, v \in Id : (u # s \/ v # i) /\ (u # t \/ v # j) => tb[u][v] = table[u][v]
  BY <1>4, <1>5, SMTT(40)
<1>8. EntryOK(acc, tb, size, s, i)
  BY <1>3, <1>5, <1>6, SMTT(40) DEF EntryOK, f
<1>9. EntryOK(acc, tb, size, t, j)
  BY <1>3, <1>5, <1>6, SMTT(40) DEF EntryOK, e
<1>10. ASSUME NEW u \in 0 .. size - 1, NEW v \in Id, tb[u][v].status = 2,
              u # s \/ v # i, u # t \/ v # j
       PROVE  EntryOK(acc, tb, size, u, v)
  <2>1. tb[u][v] = table[u][v] /\ table[u][v].status = 2 /\ EntryOK(acc, table, size, u, v)
    BY <1>1, <1>7, <1>10, SMTT(40) DEF RoutesOK
  <2>2. /\ table[u][v].index \in 0 .. size - 1 /\ table[u][v].other_id \in Id
        /\ table[table[u][v].index][table[u][v].other_id].status = 2
    BY <2>1, OtherEnd, ZenonT(30)
  <2>3. /\ table[u][v].index # s \/ table[u][v].other_id # i
        /\ table[u][v].index # t \/ table[u][v].other_id # j
    BY <2>2, SMTT(40)
  <2>4. tb[table[u][v].index][table[u][v].other_id] = table[table[u][v].index][table[u][v].other_id]
    <3> DEFINE x == table[u][v].index
               y == table[u][v].other_id
    <3>1. x \in 0 .. size - 1 /\ y \in Id /\ (x # s \/ y # i) /\ (x # t \/ y # j)
      BY <2>2, <2>3, Zenon
    <3> HIDE DEF x, y
    <3>2. tb[x][y] = table[x][y]
      BY <1>7, <3>1, Zenon
    <3> QED BY <3>2, Zenon DEF x, y
  <2> QED
    BY <2>1, <2>4, SameEntry, ZenonT(40)
<1>11. RoutesOK(acc, tb, size)
  <2>1. ASSUME NEW u \in 0 .. size - 1, NEW v \in Id PROVE EntryOK(acc, tb, size, u, v)
    <3>1. CASE tb[u][v].status # 2
      BY <3>1, SMTT(30) DEF EntryOK
    <3>2. CASE tb[u][v].status = 2
      BY <3>2, <1>8, <1>9, <1>10, SMTT(40)
    <3> QED
      BY <3>1, <3>2, SMTT(40)
  <2> QED
    BY <2>1, Zenon DEF RoutesOK
<1>12. TypesOK(acc, tb, size, num, keylist)
  BY <1>1, <1>5, SMTT(40) DEF TypesOK
<1> QED
  BY <1>1, <1>11, <1>12, Zenon DEF ServerOK, tb, mid, e, f

\* Whatever a routing request finds, the relay's state stays consistent.
LEMMA RoutingRequestOK ==
    ASSUME ServerOK(acc, table, size, num, keylist), NEW s \in 0 .. size - 1, NEW k \in Key,
           acc[s].status # "none", handle_TCP_routing_req(s, k)
    PROVE  ServerOK(acc, table, size, num, keylist)'
<1> DEFINE me == acc[s].public_key
           other == keylist[k]
<1>1. UNCHANGED <<acc, size, num, keylist>>
  BY Zenon DEF handle_TCP_routing_req
<1>2. \/ UNCHANGED table
      \/ FreeIds(s) # {} /\ NewRoute(s, k, Least(FreeIds(s)))
      \/ /\ FreeIds(s) # {} /\ k # me /\ other # -1 /\ Waiting(other, me) # {}
         /\ CoupledRoute(s, k, Least(FreeIds(s)), other, Least(Waiting(other, me)))
  BY Zenon DEF handle_TCP_routing_req, Answer
<1>3. CASE UNCHANGED table
  BY <1>1, <1>3, SMTT(40)
<1>4. FreeIds(s) # {} => Least(FreeIds(s)) \in Id /\ table[s][Least(FreeIds(s))].status = 0
  <2>1. FreeIds(s) \in SUBSET Nat
    BY ConstantsAssumption, SMTT(30) DEF FreeIds, Id
  <2>2. FreeIds(s) # {} => Least(FreeIds(s)) \in FreeIds(s)
    BY <2>1, LeastIn, SMTT(40)
  <2> QED
    BY <2>2, Zenon DEF FreeIds
<1>5. CASE FreeIds(s) # {} /\ NewRoute(s, k, Least(FreeIds(s)))
  <2>1. table' = WithEntry(table, s, Least(FreeIds(s)), Entry(1, k, 0, 0))
    BY <1>5, SMTT(40) DEF NewRoute
  <2>2. ServerOK(acc, WithEntry(table, s, Least(FreeIds(s)), Entry(1, k, 0, 0)), size, num, keylist)
    BY <1>4, <1>5, NewRouteOK, SMTT(40)
  <2> QED
    BY <1>1, <2>1, <2>2, SMTT(40)
<1>6. CASE /\ FreeIds(s) # {} /\ k # me /\ other # -1 /\ Waiting(other, me) # {}
           /\ CoupledRoute(s, k, Least(FreeIds(s)), other, Least(Waiting(other, me)))
  <2> DEFINE i == Least(FreeIds(s))
             j == Least(Waiting(other, me))
  <2>1. table' = WithEntry(WithEntry(table, s, i, Entry(2, k, other, j)), other, j, Entry(2, me, s, i))
    BY <1>6, ZenonT(30) DEF CoupledRoute
  <2>2. other \in 0 .. size - 1 /\ acc[other].public_key = k
    BY <1>6, SMTT(40) DEF ServerOK, ListOK
  <2>3. acc[other].status # "none" /\ other # s
    <3>1. size \in Nat /\ acc \in [0 .. size - 1 -> ConnectionType]
      BY SMTT(30) DEF ServerOK, TypesOK
    <3> QED
      BY <1>6, <2>2, <3>1, UsedHasKey, ConstantsAssumption, Zenon
  <2>4. Waiting(other, me) \in SUBSET Nat
    BY ConstantsAssumption, SMTT(30) DEF Waiting, Id
  <2>5. j \in Waiting(other, me)
    BY <1>6, <2>4, LeastIn, SMTT(40)
  <2>6. j \in Id /\ table[other][j].status = 1
    BY <2>5, Zenon DEF Waiting
  <2>7. i \in Id /\ table[s][i].status = 0
    BY <1>4, <1>6, SMTT(40)
  <2> HIDE DEF i, j, me, other
  <2>8. ServerOK(acc, WithEntry(WithEntry(table, s, i, Entry(2, acc[other].public_key, other, j)),
                                other, j, Entry(2, acc[s].public_key, s, i)),
                 size, num, keylist)
    BY <2>2, <2>3, <2>6, <2>7, CoupledRouteOK, SMTT(40)
  <2>9. table' = WithEntry(WithEntry(table, s, i, Entry(2, acc[other].public_key, other, j)),
                           other, j, Entry(2, acc[s].public_key, s, i))
    BY <2>1, <2>2, Zenon DEF me
  <2> QED
    BY <1>1, <2>8, <2>9, Zenon
<1> QED
  BY <1>2, <1>3, <1>5, <1>6, SMTT(40)

\* The relay's state stays consistent when a connection is dropped.
LEMMA DropOK ==
    ASSUME ServerOK(acc, table, size, num, keylist), NEW s \in 0 .. size - 1,
           acc[s].status # "none", kill_accepted(s)
    PROVE  ServerOK(acc, table, size, num, keylist)'
<1> DEFINE r == AfterKill(s)
<1>1. /\ acc' = r.acc /\ table' = r.table /\ size' = r.size /\ num' = r.num /\ keylist' = r.keylist
  BY Zenon DEF kill_accepted, SetServer
<1>2. ServerOK(r.acc, r.table, r.size, r.num, r.keylist)
  BY KillOK, Zenon
<1> HIDE DEF r
<1> QED
  BY <1>1, <1>2, Zenon

\* The relay's state stays consistent when a connection is added, replacing an old one.
LEMMA AcceptOK ==
    ASSUME ServerOK(acc, table, size, num, keylist),
           NEW k \in Key, NEW x \in Socket, add_accepted(k, x)
    PROVE  ServerOK(acc, table, size, num, keylist)'
<1> DEFINE old == keylist[k]
<1>1. CASE old # -1
  <2> DEFINE r == AfterKill(old)
             q == AfterAdd(r, k, x)
  <2>1. acc' = q.acc /\ table' = q.table /\ size' = q.size /\ num' = q.num /\ keylist' = q.keylist
    BY <1>1, Zenon DEF add_accepted, SetServer
  <2>2. old \in 0 .. size - 1 /\ acc[old].public_key = k
    BY <1>1, SMTT(40) DEF ServerOK, ListOK
  <2>3. acc[old].status # "none"
    <3>1. size \in Nat /\ acc \in [0 .. size - 1 -> ConnectionType]
      BY SMTT(40) DEF ServerOK, TypesOK
    <3> QED
      BY <2>2, <3>1, UsedHasKey, ConstantsAssumption
  <2>4. ServerOK(r.acc, r.table, r.size, r.num, r.keylist) /\ r.keylist[k] = -1
    BY <2>2, <2>3, KillOK, SMTT(40)
  <2> HIDE DEF r
  <2>5. ServerOK(q.acc, q.table, q.size, q.num, q.keylist)
    BY <2>4, AddOK, Zenon
  <2> HIDE DEF q
  <2> QED
    BY <2>1, <2>5, Zenon
<1>2. CASE old = -1
  <2> DEFINE r == Now
             q == AfterAdd(r, k, x)
  <2>1. acc' = q.acc /\ table' = q.table /\ size' = q.size /\ num' = q.num /\ keylist' = q.keylist
    BY <1>2, Zenon DEF add_accepted, SetServer
  <2>2. ServerOK(r.acc, r.table, r.size, r.num, r.keylist) /\ r.keylist[k] = -1
    BY <1>2, SMTT(30) DEF Now
  <2> HIDE DEF r
  <2>3. ServerOK(q.acc, q.table, q.size, q.num, q.keylist)
    BY <2>2, AddOK, Zenon
  <2> HIDE DEF q
  <2> QED
    BY <2>1, <2>3, Zenon
<1> QED
  BY <1>1, <1>2, Zenon

----------------------------------------------------------------------------
(* The inductive invariant. *)

LEMMA InitOK == Init => IInv
<1> SUFFICES ASSUME Init PROVE IInv
  BY Zenon
<1>1. size = 0 /\ num = 0 /\ 0 .. size - 1 = {}
  BY DEF Init
<1>2. acc \in [0 .. size - 1 -> ConnectionType] /\ table \in [0 .. size - 1 -> [Id -> EntryType]]
  BY <1>1, Zenon DEF Init
<1>3. keylist \in [Key -> Int] /\ \A k \in Key : keylist[k] = -1
  BY DEF Init
<1>4. TypesOK(acc, table, size, num, keylist)
  BY <1>1, <1>2, <1>3, Zenon DEF TypesOK
<1>5. num = Cardinality(Used(acc, size))
  <2>1. Used(acc, size) = {}
    BY <1>1, Zenon DEF Used
  <2> QED
    BY <1>1, <2>1, FS_EmptySet, Zenon
<1>6. ListOK(acc, size, num, keylist) /\ RoutesOK(acc, table, size)
  BY <1>1, <1>3, <1>5, Zenon DEF ListOK, RoutesOK
<1>7. up \in [Socket -> Seq(PacketType)]
  BY DEF Init
<1> QED
  BY <1>4, <1>6, <1>7, Zenon DEF IInv, ServerOK

\* A packet a client sends has the shape of its kind.
LEMMA SendOK ==
    ASSUME up \in [Socket -> Seq(PacketType)], NEW k, NEW m \in PacketType, Send(k, m)
    PROVE  up' \in [Socket -> Seq(PacketType)] /\ UNCHANGED server
<1>1. up' = [up EXCEPT ![client[k].sock] = Append(up[client[k].sock], m)] /\ UNCHANGED server
  BY Zenon DEF Send
<1>2. \A x \in Socket : Append(up[x], m) \in Seq(PacketType)
  <2> SUFFICES ASSUME NEW x \in Socket PROVE Append(up[x], m) \in Seq(PacketType)
    BY Zenon
  <2>1. up[x] \in Seq(PacketType)
    BY Zenon
  <2> QED
    BY <2>1
<1> QED
  BY <1>1, <1>2, Zenon

\* The relay handles a packet.
LEMMA ReceiveOK ==
    ASSUME IInv, NEW x \in Socket, ServerReceive(x)
    PROVE  IInv'
<1>1. PICK s \in 0 .. size - 1 :
        /\ acc[s].status = "confirmed"
        /\ up[x] # <<>>
        /\ handle_TCP_packet(s, Head(up[x]))
        /\ up' = [up EXCEPT ![x] = Tail(up[x])]
  BY Zenon DEF ServerReceive
<1> DEFINE m == Head(up[x])
<1>2. up[x] \in Seq(PacketType) /\ up \in [Socket -> Seq(PacketType)]
  BY Zenon DEF IInv
<1>3. m \in PacketType /\ Tail(up[x]) \in Seq(PacketType)
  BY <1>1, <1>2
<1>4. up' \in [Socket -> Seq(PacketType)]
  BY <1>1, <1>2, <1>3, SMTT(30)
<1>5. /\ m.kind = "routing_request" => m.key \in Key
      /\ m.kind = "disconnect" => m.id \in Id
  BY <1>3 DEF PacketType, RoutingRequest, DisconnectNotification, Data
<1> HIDE DEF m
<1>6. \/ kill_accepted(s)
      \/ m.kind = "routing_request" /\ handle_TCP_routing_req(s, m.key)
      \/ m.kind = "disconnect" /\ HandleDisconnect(s, m.id)
      \/ m.kind = "data" /\ HandleData(s, m)
  BY <1>1, Zenon DEF handle_TCP_packet, m
<1>7. ServerOK(acc, table, size, num, keylist) /\ acc[s].status # "none"
  BY <1>1, Zenon DEF IInv
<1>8. CASE kill_accepted(s)
  BY <1>4, <1>7, <1>8, DropOK, SMTT(40) DEF IInv
<1>9. CASE m.kind = "routing_request" /\ handle_TCP_routing_req(s, m.key)
  BY <1>4, <1>5, <1>7, <1>9, RoutingRequestOK, Zenon DEF IInv
<1>10. CASE m.kind = "disconnect" /\ HandleDisconnect(s, m.id)
  <2>1. table' = rm_connection_index(s, {m.id}) /\ UNCHANGED <<acc, size, num, keylist>>
    BY <1>10, Zenon DEF HandleDisconnect
  <2> DEFINE tb == rm_connection_index(s, {m.id})
  <2>2. TypesOK(acc, table, size, num, keylist) /\ RoutesOK(acc, table, size) /\ {m.id} \in SUBSET Id
    BY <1>5, <1>7, <1>10, Zenon DEF ServerOK
  <2>3. tb \in [0 .. size - 1 -> [Id -> EntryType]] /\ RoutesOK(acc, tb, size)
    BY <2>2, RmOK, Zenon
  <2> HIDE DEF tb
  <2>4. ServerOK(acc, tb, size, num, keylist)
    BY <1>7, <2>2, <2>3, Zenon DEF ServerOK, TypesOK
  <2>5. table' = tb
    BY <2>1, Zenon DEF tb
  <2> QED
    BY <1>4, <2>1, <2>4, <2>5, Zenon DEF IInv
<1>11. CASE m.kind = "data" /\ HandleData(s, m)
  <2>1. UNCHANGED server
    BY <1>11, Zenon DEF HandleData
  <2> QED
    BY <1>4, <1>7, <2>1, Zenon DEF IInv, server
<1> QED
  BY <1>6, <1>8, <1>9, <1>10, <1>11, Zenon

\* Every step of the relay or a client keeps the invariant.
LEMMA NextOK == IInv /\ [Next]_vars => IInv'
<1> SUFFICES ASSUME IInv, [Next]_vars PROVE IInv'
  BY Zenon
<1>0. ServerOK(acc, table, size, num, keylist) /\ up \in [Socket -> Seq(PacketType)]
  BY Zenon DEF IInv
<1>1. UNCHANGED <<server, up>> => IInv'
  BY <1>0, Zenon DEF IInv, server
<1>2. ASSUME NEW x \in Socket, Accept(x) PROVE IInv'
  <2>1. add_accepted(x[1], x) /\ UNCHANGED up
    BY <1>2, Zenon DEF Accept
  <2>2. x[1] \in Key
    BY Zenon DEF Socket
  <2> QED
    BY <1>0, <2>1, <2>2, AcceptOK, SMTT(30) DEF IInv
<1>3. ASSUME NEW x \in Socket, ServerReceive(x) PROVE IInv'
  BY <1>3, ReceiveOK, Zenon
<1>4. ASSUME NEW x \in Socket, DropUnconfirmed(x) PROVE IInv'
  BY <1>1, <1>4, Zenon DEF DropUnconfirmed
<1>5. ASSUME NEW x \in Socket, ServerDrop(x) PROVE IInv'
  <2>1. PICK s \in 0 .. size - 1 : acc[s].status = "confirmed" /\ kill_accepted(s) /\ UNCHANGED up
    BY <1>5, Zenon DEF ServerDrop
  <2> QED
    BY <1>0, <2>1, DropOK, Zenon DEF IInv
<1>6. ASSUME NEW k \in Key, ClientConnect(k) \/ ClientReceive(k) \/ ClientDisconnect(k) PROVE IInv'
  <2>1. UNCHANGED <<server, up>>
    BY <1>6, Zenon DEF ClientConnect, ClientReceive, ClientDisconnect
  <2> QED
    BY <1>1, <2>1, Zenon
<1>7. ASSUME NEW k \in Key, NEW m \in PacketType, Send(k, m) PROVE IInv'
  BY <1>0, <1>7, SendOK, Zenon DEF IInv, server
<1>8. ASSUME NEW k \in Key, NEW p \in Friends[k], SendRoutingRequest(k, p) PROVE IInv'
  <2>1. RoutingRequest(p) \in PacketType
    BY ConstantsAssumption DEF PacketType
  <2> QED
    BY <1>7, <1>8, <2>1, Zenon DEF SendRoutingRequest
<1>9. ASSUME NEW k \in Key, NEW p \in Friends[k], kill_tcp_connection_to(k, p) \/ SendData(k, p) PROVE IInv'
  <2>1. ASSUME NEW i \in Id PROVE DisconnectNotification(i) \in PacketType /\ Data(i, k) \in PacketType
    BY DEF PacketType
  <2>2. PICK i \in Id : Send(k, DisconnectNotification(i)) \/ Send(k, Data(i, k))
    BY <1>9, Zenon DEF kill_tcp_connection_to, send_disconnect_request, SendData
  <2> QED
    BY <1>7, <2>1, <2>2, Zenon
<1>10. CASE UNCHANGED vars
  BY <1>1, <1>10, Zenon DEF vars, server
<1>11. CASE Next
  BY <1>2, <1>3, <1>4, <1>5, <1>6, <1>8, <1>9, <1>11, Zenon DEF Next, Steady
<1> QED
  BY <1>10, <1>11, Zenon

\* For any clients, friends and table sizes: the relay's array, its counters and its
\* key list always agree (add_accepted, kill_accepted, del_accepted).
THEOREM RelayKeysListed == Spec => []KeysListed
<1>1. IInv => KeysListed
  BY SMTT(40) DEF IInv, ServerOK, ListOK, KeysListed, Used
<1> QED
  BY <1>1, InitOK, NextOK, PTL DEF Spec

\* For any clients, friends and table sizes: the two ends of a coupled route always
\* name each other, so the relay passes data only between clients that asked for
\* each other (handle_TCP_routing_req, rm_connection_index, kill_accepted).
THEOREM RelayCoupled == Spec => []Coupled
<1>1. IInv => Coupled
  <2> SUFFICES ASSUME IInv, NEW s \in 0 .. size - 1, NEW i \in Id, table[s][i].status = 2
               PROVE  /\ table[s][i].index \in 0 .. size - 1 \ {s}
                      /\ acc[s].status # "none"
                      /\ acc[table[s][i].index].public_key = table[s][i].public_key
                      /\ table[table[s][i].index][table[s][i].other_id] = Entry(2, acc[s].public_key, s, i)
    BY Zenon DEF Coupled
  <2>1. EntryOK(acc, table, size, s, i)
    BY Zenon DEF IInv, ServerOK, RoutesOK
  <2> QED
    BY <2>1, SMTT(40) DEF EntryOK
<1> QED
  BY <1>1, InitOK, NextOK, PTL DEF Spec
=============================================================================
