-------------------------- MODULE PingArrayProofs ---------------------------
(***************************************************************************)
(* A ping that the array has room for can be answered, once, and           *)
(* ping_array_kill frees every entry, for every size of the array, every   *)
(* timeout and any number of pings.                                        *)
(***************************************************************************)
EXTENDS PingArray, TLAPS

\* How many slots before slot i the slot j is, going round.
Back(i, j) == IF i > j THEN i - j ELSE i - j + total_size

TypeOK ==
    /\ entries \in [Slots -> [id : Nat, data : Data \cup {None}, time : Nat]]
    /\ last_added \in Numbers /\ last_deleted \in Numbers
    /\ now \in Nat /\ added \in Nat
    /\ sent \subseteq [id : Nat \ {0}, slot : Slots, data : Data, time : Nat]
    /\ answered \subseteq Nat
    /\ noMemory \in BOOLEAN

\* Pings are known by their numbers, an entry is empty or that of a ping ...
Numbered ==
    /\ \A p \in sent : p.id <= added
    /\ \A p, q \in sent : p.id = q.id => p = q
    /\ \A s \in Slots :
        \/ entries[s] = Empty
        \/ \E p \in sent : p.slot = s /\ entries[s] = Entry(p.id, p.data, p.time)
    /\ \A id \in answered : id <= added

\* ... and the last pings have the slots before the next one, in their order.
InRing == \A p \in sent : added - p.id < total_size => Back(Slot(last_added), p.slot) = added - p.id + 1

IInv == TypeOK /\ Numbered /\ InRing /\ Answerable /\ AnsweredOnce

-----------------------------------------------------------------------------
LEMMA SlotFacts ==
    ASSUME NEW n \in Numbers
    PROVE  Slot(n) \in Slots /\ Plus(n, 1) \in Numbers /\ Slot(Plus(n, 1)) = Follows(Slot(n))
  BY PingArrayAssumption

LEMMA PlusType ==
    ASSUME NEW n \in Int, NEW k \in Int
    PROVE  Plus(n, k) \in Numbers
  BY PingArrayAssumption DEF Plus, Numbers

\* The slots move on by one.
LEMMA BackFollows ==
    ASSUME NEW i \in Slots, NEW j \in Slots
    PROVE  /\ Back(Follows(i), j) = IF j = i THEN 1 ELSE Back(i, j) + 1
           /\ Back(i, i) = total_size
           /\ Back(i, j) \in 1 .. total_size
  BY PingArrayAssumption DEF Back, Follows, Slots

LEMMA InitOK == Init => IInv
  <1> SUFFICES ASSUME Init PROVE IInv
    OBVIOUS
  <1>1. TypeOK
    BY PingArrayAssumption DEF Init, TypeOK, Empty, Entry, Numbers
  <1>2. Numbered /\ InRing /\ Answerable /\ AnsweredOnce
    BY DEF Init, Numbered, InRing, Answerable, AnsweredOnce
  <1> QED
    BY <1>1, <1>2 DEF IInv

\* An entry that is cleared is timed out, the others stay.
LEMMA ClearedFacts ==
    ASSUME TypeOK, NEW count \in Numbers, ping_array_clear_timedout(count), NEW s \in Slots
    PROVE  /\ Cleared(count)[s] = Empty \/ Cleared(count)[s] = entries[s]
           /\ Cleared(count)[s] # entries[s] => Timeout(entries[s].time)
  BY DEF ping_array_clear_timedout, Cleared

LEMMA TickOK == IInv /\ Tick => IInv'
  <1> SUFFICES ASSUME IInv, Tick PROVE IInv'
    OBVIOUS
  <1> USE DEF IInv
  <1>1. TypeOK'
    BY DEF TypeOK, Tick
  <1>2. Numbered' /\ InRing' /\ AnsweredOnce'
    BY DEF Numbered, InRing, AnsweredOnce, Tick
  <1>3. \A p \in sent : Timeout(p.time) => Timeout(p.time)'
    BY PingArrayAssumption DEF TypeOK, Tick, Timeout
  <1>4. Answerable'
    BY <1>3 DEF Answerable, Recent, Tick
  <1> QED
    BY <1>1, <1>2, <1>4

LEMMA CheckOK == ASSUME IInv, NEW ping \in sent, Check(ping) PROVE IInv'
  <1> USE DEF IInv
  <1>1. TypeOK'
    BY DEF TypeOK, Check, Empty, Entry
  <1>2. Numbered'
    BY DEF Numbered, TypeOK, Check
  <1>3. InRing'
    BY DEF InRing, Check
  <1>4. entries[ping.slot] = Entry(ping.id, ping.data, ping.time)
    <2>1. PICK p \in sent : p.slot = ping.slot /\ entries[ping.slot] = Entry(p.id, p.data, p.time)
      BY DEF Numbered, TypeOK, Check, Empty, Entry
    <2>2. p.id = ping.id
      BY <2>1 DEF Check, Entry
    <2> QED
      BY <2>1, <2>2 DEF Numbered
  <1>5. Answerable'
    <2> SUFFICES ASSUME NEW p \in sent', Recent(p)', ~Timeout(p.time)', p.id \notin answered'
                 PROVE  entries'[p.slot] = Entry(p.id, p.data, p.time)
      BY DEF Answerable
    <2>1. entries[p.slot] = Entry(p.id, p.data, p.time)
      BY DEF Answerable, Recent, Timeout, Check
    <2>2. p.slot # ping.slot
      BY <2>1, <1>4 DEF Check, Entry
    <2> QED
      BY <2>1, <2>2 DEF Check, TypeOK
  <1>6. AnsweredOnce'
    <2> SUFFICES ASSUME NEW p \in sent', p.id \in answered' PROVE entries'[p.slot].id # p.id
      BY DEF AnsweredOnce
    <2>1. CASE p.slot = ping.slot
      BY <2>1 DEF Check, TypeOK, Empty, Entry
    <2>2. CASE p.slot # ping.slot
      <3>1. p \in sent /\ p.id \in answered
        BY <2>2 DEF Check, Numbered
      <3> QED
        BY <2>2, <3>1 DEF AnsweredOnce, Check, TypeOK
    <2> QED
      BY <2>1, <2>2
  <1> QED
    BY <1>1, <1>2, <1>3, <1>5, <1>6

LEMMA AddOK ==
    ASSUME IInv, NEW data \in Data, NEW memory \in BOOLEAN, Add(data, memory) PROVE IInv'
  <1> USE DEF IInv
  <1>1. PICK count \in Numbers :
          /\ ping_array_clear_timedout(count)
          /\ last_deleted' = IF Cleared(count)[Slot(last_added)].data # None THEN Oldest ELSE Plus(last_deleted, count)
          /\ entries' = [Cleared(count) EXCEPT ![Slot(last_added)] = IF memory THEN Entry(added + 1, data, now) ELSE Empty]
          /\ IF memory
             THEN /\ last_added' = Plus(last_added, 1)
                  /\ added' = added + 1
                  /\ sent' = sent \cup {Ping(added + 1, Slot(last_added), data, now)}
                  /\ UNCHANGED noMemory
             ELSE noMemory' = TRUE /\ UNCHANGED <<last_added, added, sent>>
          /\ UNCHANGED <<now, answered>>
    BY Zenon DEF Add
  <1> DEFINE slot == Slot(last_added)
             new == Ping(added + 1, slot, data, now)
  <1>2. /\ slot \in Slots
        /\ Plus(last_added, 1) \in Numbers
        /\ Slot(Plus(last_added, 1)) = Follows(slot)
    BY SlotFacts DEF TypeOK
  <1>3. /\ entries' \in [Slots -> [id : Nat, data : Data \cup {None}, time : Nat]]
        /\ entries'[slot] = IF memory THEN Entry(added + 1, data, now) ELSE Empty
        /\ \A s \in Slots \ {slot} : entries'[s] = Cleared(count)[s]
    BY <1>1, <1>2 DEF TypeOK, Cleared, Entry, Empty
  <1>4. \A s \in Slots : Cleared(count)[s] = Empty \/ Cleared(count)[s] = entries[s]
    BY <1>1, ClearedFacts
  <1>5. TypeOK'
    <2>1. last_deleted' \in Numbers /\ last_added' \in Numbers
      <3>1. Oldest \in Numbers /\ Plus(last_deleted, count) \in Numbers
        BY PlusType, PingArrayAssumption DEF TypeOK, Oldest, Numbers
      <3>2. last_added' = Plus(last_added, 1) \/ last_added' = last_added
        BY <1>1
      <3> QED
        BY <1>1, <1>2, <3>1, <3>2 DEF TypeOK
    <2>2. sent' \subseteq [id : Nat \ {0}, slot : Slots, data : Data, time : Nat]
      BY <1>1, <1>2 DEF TypeOK, Ping
    <2>3. now' \in Nat /\ noMemory' \in BOOLEAN /\ answered' \subseteq Nat
      BY <1>1, Zenon DEF TypeOK
    <2>4. added' \in Nat
      <3>1. added' = added + 1 \/ added' = added
        BY <1>1
      <3> QED
        BY <3>1 DEF TypeOK
    <2> QED
      BY <1>3, <2>1, <2>2, <2>3, <2>4 DEF TypeOK
  <1>6. Numbered'
    <2>1. /\ \A p \in sent' : p.id <= added'
          /\ \A p, q \in sent' : p.id = q.id => p = q
          /\ \A id \in answered' : id <= added'
      <3>1. new.id = added + 1
        BY DEF Ping
      <3>2. \/ sent' = sent /\ added' = added
            \/ sent' = sent \cup {new} /\ added' = added + 1
        BY <1>1
      <3>3. added \in Nat /\ answered' = answered /\ \A p \in sent : p.id \in Nat
        BY <1>1 DEF TypeOK
      <3>4. CASE sent' = sent /\ added' = added
        BY <3>3, <3>4 DEF Numbered
      <3>5. CASE sent' = sent \cup {new} /\ added' = added + 1
        <4>1. \A p \in sent' : p \in sent \/ p = new
          BY <3>5
        <4>2. \A p \in sent : p.id # new.id
          BY <3>1, <3>3 DEF Numbered
        <4>3. \A p \in sent' : p.id <= added'
          BY <3>1, <3>3, <3>5, <4>1 DEF Numbered
        <4>4. \A p, q \in sent' : p.id = q.id => p = q
          BY <4>1, <4>2 DEF Numbered
        <4>5. \A id \in answered : id <= added'
          BY <3>3, <3>5 DEF Numbered, TypeOK
        <4> QED
          BY <3>3, <4>3, <4>4, <4>5
      <3> QED
        BY <3>2, <3>4, <3>5
    <2>2. \A s \in Slots : entries'[s] = Empty \/ \E p \in sent' : p.slot = s /\ entries'[s] = Entry(p.id, p.data, p.time)
      <3> SUFFICES ASSUME NEW s \in Slots, entries'[s] # Empty
                   PROVE  \E p \in sent' : p.slot = s /\ entries'[s] = Entry(p.id, p.data, p.time)
        OBVIOUS
      <3>1. CASE s = slot
        <4>1. memory /\ entries'[s] = Entry(added + 1, data, now)
          BY <1>3, <3>1
        <4>2. new \in sent' /\ new.slot = s /\ Entry(new.id, new.data, new.time) = Entry(added + 1, data, now)
          BY <1>1, <4>1, <3>1 DEF Ping, Entry
        <4> QED
          BY <4>1, <4>2
      <3>2. CASE s # slot
        <4>1. entries'[s] = entries[s]
          BY <1>3, <1>4, <3>2
        <4>2. PICK p \in sent : p.slot = s /\ entries[s] = Entry(p.id, p.data, p.time)
          BY <4>1 DEF Numbered
        <4>3. p \in sent'
          BY <1>1
        <4> QED
          BY <4>1, <4>2, <4>3
      <3> QED
        BY <3>1, <3>2
    <2> QED
      BY <2>1, <2>2 DEF Numbered
  <1>7. InRing'
    <2> SUFFICES ASSUME NEW p \in sent', added' - p.id < total_size
                 PROVE  Back(Slot(last_added'), p.slot) = added' - p.id + 1
      BY DEF InRing
    <2>1. CASE ~memory
      BY <1>1, <2>1 DEF InRing
    <2>2. CASE memory /\ p = new
      <3>1. p.slot = slot /\ p.id = added + 1
        BY <2>2 DEF Ping
      <3>2. Back(Follows(slot), slot) = 1
        BY <1>2, BackFollows
      <3> QED
        BY <1>1, <1>2, <2>2, <3>1, <3>2 DEF TypeOK
    <2>3. CASE memory /\ p # new
      <3>1. p \in sent /\ added' = added + 1
        BY <1>1, <2>3
      <3>2. added - p.id < total_size - 1
        BY <3>1, PingArrayAssumption DEF TypeOK
      <3>3. Back(slot, p.slot) = added - p.id + 1
        BY <3>1, <3>2, PingArrayAssumption DEF InRing, TypeOK
      <3>4. p.slot # slot /\ p.slot \in Slots
        BY <1>2, <3>1, <3>2, <3>3, BackFollows, PingArrayAssumption DEF TypeOK
      <3>5. Back(Follows(slot), p.slot) = Back(slot, p.slot) + 1
        BY <1>2, <3>4, BackFollows
      <3> QED
        BY <1>1, <1>2, <2>3, <3>1, <3>3, <3>5 DEF TypeOK
    <2> QED
      BY <2>1, <2>2, <2>3
  <1>8. Answerable'
    <2> SUFFICES ASSUME NEW p \in sent', Recent(p)', ~Timeout(p.time)', p.id \notin answered'
                 PROVE  entries'[p.slot] = Entry(p.id, p.data, p.time)
      BY DEF Answerable
    <2>1. CASE memory /\ p = new
      BY <1>1, <1>3, <2>1 DEF Ping, Entry
    <2>2. CASE ~(memory /\ p = new)
      <3>1. p \in sent
        BY <1>1, <2>2
      <3>2. p.id \in Nat /\ p.slot \in Slots /\ added \in Nat
        BY <3>1 DEF TypeOK
      <3>3. Recent(p) /\ added - p.id < total_size - 1
        BY <1>1, <2>2, <3>2, PingArrayAssumption, SMTT(30) DEF Recent, TypeOK
      <3>4. entries[p.slot] = Entry(p.id, p.data, p.time)
        BY <1>1, <3>1, <3>3 DEF Answerable, Timeout
      <3>5. Back(slot, p.slot) = added - p.id + 1
        BY <3>1, <3>2, <3>3, PingArrayAssumption DEF InRing
      <3>6. p.slot # slot
        BY <1>2, <3>2, <3>3, <3>5, BackFollows, PingArrayAssumption
      <3>7. ~Timeout(entries[p.slot].time)
        BY <1>1, <3>4 DEF Timeout, Entry
      <3>8. Cleared(count)[p.slot] = entries[p.slot]
        BY <1>1, <3>2, <3>7, ClearedFacts
      <3> QED
        BY <1>3, <3>2, <3>4, <3>6, <3>8
    <2> QED
      BY <2>1, <2>2
  <1>9. AnsweredOnce'
    <2> SUFFICES ASSUME NEW p \in sent', p.id \in answered'
                 PROVE  entries'[p.slot].id # p.id
      BY DEF AnsweredOnce
    <2>1. p.id <= added /\ p.id \in Nat \ {0} /\ p.slot \in Slots
      BY <1>1, <1>5 DEF Numbered, TypeOK
    <2>2. p \in sent
      <3>1. new.id = added + 1
        BY DEF Ping
      <3> QED
        BY <1>1, <2>1, <3>1 DEF TypeOK
    <2>3. CASE p.slot = slot
      BY <1>3, <2>1, <2>3 DEF Entry, Empty, TypeOK
    <2>4. CASE p.slot # slot
      <3>1. entries[p.slot].id # p.id
        BY <1>1, <2>2 DEF AnsweredOnce
      <3> QED
        BY <1>3, <1>4, <2>1, <2>4, <3>1 DEF Entry, Empty
    <2> QED
      BY <2>3, <2>4
  <1> QED
    BY <1>5, <1>6, <1>7, <1>8, <1>9

LEMMA NextOK == IInv /\ [Next]_vars => IInv'
  <1> SUFFICES ASSUME IInv, [Next]_vars PROVE IInv'
    OBVIOUS
  <1>1. ASSUME NEW data \in Data, NEW memory \in BOOLEAN, Add(data, memory) PROVE IInv'
    BY <1>1, AddOK
  <1>2. ASSUME NEW ping \in sent, Check(ping) PROVE IInv'
    BY <1>2, CheckOK
  <1>3. CASE Tick
    BY <1>3, TickOK
  <1>4. CASE UNCHANGED vars
    BY <1>4 DEF vars, IInv, TypeOK, Numbered, InRing, Answerable, AnsweredOnce, Recent, Timeout
  <1> QED
    BY <1>1, <1>2, <1>3, <1>4 DEF Next

\* Every ping that ping_array_add gave out can be answered until it times out or as many
\* others were added as there is room for, and ping_array_check then gives its data: for
\* every size, timeout and sequence of additions, answers and failed allocations.
THEOREM PingsAnswerable == Spec => []Answerable
  <1>1. IInv => Answerable
    BY DEF IInv
  <1> QED
    BY InitOK, NextOK, <1>1, PTL DEF Spec

\* ping_array_check accepts no identifier twice.
THEOREM PingsAnsweredOnce == Spec => []AnsweredOnce
  <1>1. IInv => AnsweredOnce
    BY DEF IInv
  <1> QED
    BY InitOK, NextOK, <1>1, PTL DEF Spec
-----------------------------------------------------------------------------
\* Division with remainder.
LEMMA DivMod ==
    ASSUME NEW t \in Nat \ {0}, NEW n \in Int
    PROVE  n = (t * (n \div t)) + (n % t) /\ n % t \in 0 .. t - 1 /\ n \div t \in Int
  OBVIOUS

LEMMA ModUnique ==
    ASSUME NEW t \in Nat \ {0}, NEW q \in Int, NEW r \in 0 .. t - 1
    PROVE  ((t * q) + r) % t = r
  OBVIOUS

\* The numbers go round the slots a whole number of times.
LEMMA WholeRounds == \E c \in Nat : U32 = total_size * c
  <1>1. U32 - 1 \in Numbers /\ Plus(U32 - 1, 1) = 0 /\ Slot(0) = 0
    BY PingArrayAssumption DEF Numbers, Plus, Slot
  <1>2. Follows(Slot(U32 - 1)) = 0 /\ Slot(U32 - 1) \in Slots
    BY <1>1, SlotFacts
  <1>3. Slot(U32 - 1) = total_size - 1
    BY <1>2, PingArrayAssumption DEF Follows, Slots
  <1> DEFINE c == (U32 - 1) \div total_size
  <1>4. U32 - 1 = (total_size * c) + (total_size - 1) /\ c \in Int
    BY <1>3, DivMod, PingArrayAssumption DEF Slot
  <1> HIDE DEF c
  <1>5. U32 = total_size * (c + 1)
    BY <1>4, PingArrayAssumption
  <1>6. c + 1 \in Nat
    BY <1>4, PingArrayAssumption
  <1> QED BY <1>5, <1>6

\* Going back from a number by as many numbers as slots leads to the slot.
LEMMA SlotBefore ==
    ASSUME NEW n \in Numbers, NEW s \in Slots
    PROVE  Slot(Plus(n, U32 - Back(Slot(n), s))) = s
  <1> DEFINE t == total_size
             q == n \div t
             r == n % t
             b == Back(Slot(n), s)
  <1>1. t \in Nat \ {0} /\ n \in Nat /\ n < U32 /\ U32 \in Nat /\ 2 * t < U32 /\ s \in 0 .. t - 1
    BY PingArrayAssumption DEF Numbers, Slots
  <1>2. n = (t * q) + r /\ r \in 0 .. t - 1 /\ q \in Int
    BY <1>1, DivMod
  <1>3. b = IF r > s THEN r - s ELSE r - s + t
    BY DEF b, Back, Slot
  <1>4. PICK c \in Nat : U32 = t * c
    BY WholeRounds
  <1> HIDE DEF b, q, r, t
  <1>5. Plus(n, U32 - b) = IF n >= b THEN n - b ELSE n - b + U32
    BY <1>1, <1>2, <1>3 DEF Plus
  <1>6. \E k \in Int : Plus(n, U32 - b) = (t * k) + s
    <2>1. n - b = (t * q) + s \/ n - b = (t * (q - 1)) + s
      BY <1>1, <1>2, <1>3
    <2>2. n - b + U32 = (t * (q + c)) + s \/ n - b + U32 = (t * (q - 1 + c)) + s
      BY <1>1, <1>2, <1>4, <2>1
    <2> QED BY <1>2, <1>5, <2>1, <2>2
  <1>7. Slot(Plus(n, U32 - b)) = s
    BY <1>1, <1>6, ModUnique DEF Slot, t
  <1> QED BY <1>7 DEF b

(* The entries in use are between last_deleted and last_added. *)

Held == (last_added - last_deleted) % U32

\* last_deleted may be up to two rounds behind last_added: an entry that is overwritten moves it
\* to one round and a number behind, and it stops at an entry that is not timed out.
InUse ==
    /\ now >= timeout
    /\ Held <= 2 * total_size
    /\ \A s \in Slots : entries[s].data # None => Back(Slot(last_added), s) <= Held

\* Distances between numbers.
LEMMA Distances ==
    ASSUME NEW a \in Numbers, NEW d \in Numbers
    PROVE  LET h == (a - d) % U32 IN
           /\ h \in Numbers
           /\ Plus(d, h) = a
           /\ \A i \in 0 .. h : Plus(d, i) = Plus(a, U32 - (h - i)) /\ (a - Plus(d, i)) % U32 = h - i
           /\ \A i \in 0 .. h : h - i + 1 < U32 => (Plus(a, 1) - Plus(d, i)) % U32 = h - i + 1
  <1> DEFINE h == (a - d) % U32
  <1>1. a \in Nat /\ d \in Nat /\ a < U32 /\ d < U32 /\ U32 \in Nat
    BY PingArrayAssumption DEF Numbers
  <1>2. h = (IF a >= d THEN a - d ELSE a - d + U32)
    BY <1>1
  <1> HIDE DEF h
  <1>3. h \in Numbers /\ Plus(d, h) = a
    BY <1>1, <1>2 DEF Numbers, Plus
  <1>4. ASSUME NEW i \in 0 .. h
        PROVE  /\ Plus(d, i) = Plus(a, U32 - (h - i))
               /\ (a - Plus(d, i)) % U32 = h - i
               /\ h - i + 1 < U32 => (Plus(a, 1) - Plus(d, i)) % U32 = h - i + 1
    <2>1. Plus(d, i) = IF d + i < U32 THEN d + i ELSE d + i - U32
      BY <1>1, <1>2 DEF Plus
    <2>2. Plus(a, U32 - (h - i)) = IF a >= h - i THEN a - (h - i) ELSE a - (h - i) + U32
      BY <1>1, <1>2 DEF Plus
    <2>3. Plus(a, 1) = IF a + 1 < U32 THEN a + 1 ELSE 0
      BY <1>1 DEF Plus
    <2>4. Plus(d, i) = Plus(a, U32 - (h - i))
      BY <1>1, <1>2, <2>1, <2>2
    <2>5. (a - Plus(d, i)) % U32 = h - i
      <3>1. a - Plus(d, i) = h - i \/ a - Plus(d, i) = h - i - U32
        BY <1>1, <1>2, <2>1
      <3> QED BY <1>1, <1>2, <3>1
    <2>6. ASSUME h - i + 1 < U32 PROVE (Plus(a, 1) - Plus(d, i)) % U32 = h - i + 1
      <3>1. \/ Plus(a, 1) - Plus(d, i) = h - i + 1
            \/ Plus(a, 1) - Plus(d, i) = h - i + 1 - U32
        BY <1>1, <1>2, <2>1, <2>3
      <3> QED BY <1>1, <1>2, <2>6, <3>1
    <2> QED BY <2>4, <2>5, <2>6
  <1> QED BY <1>3, <1>4 DEF h

\* What the numbers from last_deleted to last_added are.
LEMMA HeldFacts ==
    ASSUME TypeOK, InUse
    PROVE  /\ Held \in Nat /\ Held <= 2 * total_size /\ Held < U32
           /\ Plus(last_deleted, Held) = last_added
           /\ \A i \in 0 .. Held : Plus(last_deleted, i) = Plus(last_added, U32 - (Held - i))
  <1>1. last_added \in Numbers /\ last_deleted \in Numbers
    BY DEF TypeOK
  <1>2. /\ Held \in Numbers
        /\ Plus(last_deleted, Held) = last_added
        /\ \A i \in 0 .. Held : Plus(last_deleted, i) = Plus(last_added, U32 - (Held - i))
    BY <1>1, Distances, ZenonT(30) DEF Held
  <1>3. Held \in Nat /\ Held < U32
    <2>1. Held \in Numbers
      BY <1>2
    <2> QED BY <2>1, PingArrayAssumption DEF Numbers
  <1> QED BY <1>2, <1>3 DEF InUse

LEMMA HeldLess ==
    ASSUME TypeOK, InUse, NEW i \in 0 .. Held
    PROVE  /\ (last_added - Plus(last_deleted, i)) % U32 = Held - i
           /\ Held - i < 2 * total_size => (Plus(last_added, 1) - Plus(last_deleted, i)) % U32 = Held - i + 1
  <1>1. last_added \in Numbers /\ last_deleted \in Numbers
    BY DEF TypeOK
  <1>2. /\ (last_added - Plus(last_deleted, i)) % U32 = Held - i
        /\ Held - i + 1 < U32 => (Plus(last_added, 1) - Plus(last_deleted, i)) % U32 = Held - i + 1
    BY <1>1, Distances, ZenonT(30) DEF Held
  <1>3. Held \in Nat /\ U32 \in Nat /\ total_size \in Nat /\ 2 * total_size < U32
    BY HeldFacts, PingArrayAssumption
  <1>4. Held - i < 2 * total_size => Held - i + 1 < U32
    BY <1>3
  <1> QED
    BY <1>2, <1>4

\* Two rounds back is the same slot.
LEMMA TwoRounds ==
    ASSUME NEW n \in Numbers PROVE Slot(Plus(n, U32 - 2 * total_size)) = Slot(n)
  <1> DEFINE t == total_size
             m == Plus(n, U32 - t)
  <1>1. t \in Nat \ {0} /\ U32 \in Nat /\ 2 * t < U32 /\ n \in Nat /\ n < U32
    BY PingArrayAssumption DEF Numbers
  <1>2. Slot(n) \in Slots /\ Back(Slot(n), Slot(n)) = t
    BY SlotFacts, BackFollows
  <1>3. m \in Numbers /\ Slot(m) = Slot(n)
    <2>1. U32 - t \in Int /\ n \in Int
      BY <1>1
    <2> QED BY <1>2, <2>1, PlusType, SlotBefore
  <1>4. Slot(Plus(m, U32 - t)) = Slot(n)
    BY <1>2, <1>3, SlotBefore
  <1>5. Plus(m, U32 - t) = Plus(n, U32 - 2 * t)
    <2>1. m = IF n >= t THEN n - t ELSE n - t + U32
      BY <1>1 DEF Plus
    <2>2. Plus(n, U32 - 2 * t) = IF n >= 2 * t THEN n - 2 * t ELSE n - 2 * t + U32
      BY <1>1 DEF Plus
    <2> HIDE DEF m
    <2>3. Plus(m, U32 - t) = IF m >= t THEN m - t ELSE m - t + U32
      BY <1>1, <2>1 DEF Plus
    <2> QED BY <1>1, <2>1, <2>2, <2>3
  <1> QED BY <1>4, <1>5

LEMMA AddInUse ==
    ASSUME IInv, InUse, NEW data \in Data, NEW memory \in BOOLEAN, Add(data, memory) PROVE InUse'
  <1>1. PICK count \in Numbers :
          /\ ping_array_clear_timedout(count)
          /\ last_deleted' = IF Cleared(count)[Slot(last_added)].data # None THEN Oldest ELSE Plus(last_deleted, count)
          /\ entries' = [Cleared(count) EXCEPT ![Slot(last_added)] = IF memory THEN Entry(added + 1, data, now) ELSE Empty]
          /\ IF memory THEN last_added' = Plus(last_added, 1) ELSE last_added' = last_added
          /\ now' = now
    BY Zenon DEF Add
  <1> DEFINE slot == Slot(last_added)
             t == total_size
             left == Held - count
  <1>0. TypeOK /\ Numbered
    BY DEF IInv
  <1>2. /\ slot \in Slots /\ last_added \in Numbers /\ last_deleted \in Numbers
        /\ Slot(Plus(last_added, 1)) = Follows(slot) /\ Plus(last_added, 1) \in Numbers
        /\ t \in Nat \ {0} /\ U32 \in Nat /\ 2 * t < U32
    BY <1>0, SlotFacts, PingArrayAssumption DEF TypeOK
  <1>3. /\ Held \in Nat /\ Held <= 2 * t /\ Held < U32
        /\ Plus(last_deleted, Held) = last_added
        /\ \A i \in 0 .. Held : Plus(last_deleted, i) = Plus(last_added, U32 - (Held - i))
    BY <1>0, HeldFacts
  \* Clearing stops at last_added.
  <1>4. count \in 0 .. Held
    <2>1. \A i \in 0 .. count - 1 : Plus(last_deleted, i) # last_added
      BY <1>1 DEF ping_array_clear_timedout
    <2>2. count \in Nat
      BY <1>2 DEF Numbers
    <2>3. ~(Held \in 0 .. count - 1)
      BY <1>3, <2>1
    <2> QED BY <1>3, <2>2, <2>3
  <1>5. left \in Nat /\ left <= 2 * t /\ Held - left = count
    <2>1. Held \in Nat /\ Held <= 2 * t /\ t \in Nat
      BY <1>2, <1>3
    <2> QED BY <1>4, <2>1
  \* What is in use after it is among the numbers that are left.
  <1>6. ASSUME NEW s \in Slots, Cleared(count)[s].data # None
        PROVE  Back(slot, s) <= left
    <2>1. Cleared(count)[s] = entries[s] /\ ~ \E i \in 0 .. count - 1 : s = Slot(Plus(last_deleted, i))
      BY <1>6 DEF Cleared, Empty, Entry
    <2> DEFINE b == Back(slot, s)
    <2>2. b \in Nat /\ b <= Held
      BY <1>2, <1>6, <2>1, BackFollows DEF InUse
    <2>3. Slot(Plus(last_added, U32 - b)) = s
      BY <1>2, SlotBefore
    <2> HIDE DEF b
    <2>4. ASSUME b > left PROVE FALSE
      <3>1. Held - b \in 0 .. Held /\ Held - b \in 0 .. count - 1 /\ Held - (Held - b) = b
        <4>1. Held \in Nat
          BY <1>3
        <4> QED BY <1>4, <2>2, <2>4, <4>1
      <3>2. Plus(last_deleted, Held - b) = Plus(last_added, U32 - (Held - (Held - b)))
        BY <1>3, <3>1
      <3>3. Slot(Plus(last_deleted, Held - b)) = s
        BY <2>3, <3>1, <3>2
      <3> QED BY <2>1, <3>1, <3>3
    <2> QED BY <1>5, <2>2, <2>4 DEF b
  \* Two rounds behind it stopped at the entry of the slot, which is overwritten.
  <1>7. ASSUME left = 2 * t PROVE Cleared(count)[slot].data # None
    <2> DEFINE n == Plus(last_deleted, count)
    <2>1. n = Plus(last_added, U32 - 2 * t)
      <3>1. Plus(last_deleted, count) = Plus(last_added, U32 - (Held - count))
        BY <1>3, <1>4
      <3> QED BY <1>7, <3>1
    <2>2. Slot(n) = slot
      BY <1>2, <2>1, TwoRounds
    <2>3. n # last_added
      <3>1. n = IF last_added >= 2 * t THEN last_added - 2 * t ELSE last_added - 2 * t + U32
        BY <1>2, <2>1 DEF Plus, Numbers
      <3> QED BY <1>2, <3>1 DEF Numbers
    <2>4. ~Timeout(entries[slot].time)
      BY <1>1, <2>2, <2>3 DEF ping_array_clear_timedout
    <2>5. Cleared(count)[slot] = entries[slot]
      BY <1>0, <1>1, <1>2, <2>4, ClearedFacts
    <2>6. entries[slot] # Empty
      <3>1. 0 + timeout <= now
        BY <1>0, PingArrayAssumption DEF InUse, TypeOK
      <3> QED BY <2>4, <3>1 DEF Empty, Entry, Timeout
    <2>7. PICK p \in sent : entries[slot] = Entry(p.id, p.data, p.time)
      BY <1>0, <1>2, <2>6 DEF Numbered
    <2>8. p.data \in Data
      BY <1>0, SMTT(30) DEF TypeOK
    <2> QED BY <2>5, <2>7, <2>8, PingArrayAssumption DEF Entry
  <1>8. /\ entries'[slot] = IF memory THEN Entry(added + 1, data, now) ELSE Empty
        /\ \A s \in Slots \ {slot} : entries'[s] = Cleared(count)[s]
    BY <1>1, <1>2 DEF Cleared
  <1>9. now' >= timeout
    BY <1>1 DEF InUse
  <1>10. CASE Cleared(count)[slot].data # None
    <2>1. last_deleted' = Oldest
      BY <1>1, <1>10
    <2>2. Oldest = IF last_added >= t THEN last_added - t ELSE last_added - t + U32
      BY <1>2 DEF Oldest, Plus, Numbers
    <2>3. Plus(last_added, 1) = IF last_added + 1 < U32 THEN last_added + 1 ELSE 0
      BY <1>2 DEF Plus, Numbers
    <2>4. (last_added - Oldest) % U32 = t
      <3>1. last_added - Oldest = t \/ last_added - Oldest = t - U32
        BY <1>2, <2>2 DEF Numbers
      <3> QED BY <1>2, <3>1
    <2>5. (Plus(last_added, 1) - Oldest) % U32 = t + 1
      <3>1. Plus(last_added, 1) - Oldest = t + 1 \/ Plus(last_added, 1) - Oldest = t + 1 - U32
        BY <1>2, <2>2, <2>3 DEF Numbers
      <3>2. t + 1 < U32
        BY <1>2
      <3> QED BY <1>2, <3>1, <3>2
    <2>6. Held' = t \/ Held' = t + 1
      BY <1>1, <2>1, <2>4, <2>5 DEF Held
    <2>7. Held' >= t /\ Held' <= 2 * t
      BY <1>2, <2>6
    <2>8. Slot(last_added)' \in Slots
      BY <1>1, <1>2, SlotFacts
    <2>9. \A s \in Slots : Back(Slot(last_added)', s) <= Held'
      BY <1>2, <2>6, <2>8, BackFollows
    <2> QED BY <1>9, <2>7, <2>9 DEF InUse
  <1>11. CASE Cleared(count)[slot].data = None
    <2>1. last_deleted' = Plus(last_deleted, count)
      BY <1>1, <1>11
    <2>2. left < 2 * t
      BY <1>2, <1>5, <1>7, <1>11
    <2>3. /\ (last_added - last_deleted') % U32 = left
          /\ (Plus(last_added, 1) - last_deleted') % U32 = left + 1
      BY <1>0, <1>4, <2>1, <2>2, HeldLess
    <2>4. CASE ~memory
      <3>1. Held' = left /\ last_added' = last_added
        BY <1>1, <2>3, <2>4 DEF Held
      <3>2. \A s \in Slots : entries'[s].data # None => Cleared(count)[s].data # None
        BY <1>8, <2>4 DEF Empty, Entry
      <3>3. \A s \in Slots : entries'[s].data # None => Back(slot, s) <= Held'
        BY <1>6, <3>1, <3>2
      <3> QED BY <1>5, <1>9, <3>1, <3>3 DEF InUse
    <2>5. CASE memory
      <3>1. Held' = left + 1 /\ last_added' = Plus(last_added, 1)
        BY <1>1, <2>3, <2>5 DEF Held
      <3>2. ASSUME NEW s \in Slots, entries'[s].data # None PROVE Back(Follows(slot), s) <= Held'
        <4>1. CASE s = slot
          BY <1>2, <1>5, <3>1, <4>1, BackFollows
        <4>2. CASE s # slot
          <5>1. Back(slot, s) <= left /\ Back(slot, s) \in Nat
            BY <1>2, <1>6, <1>8, <3>2, <4>2, BackFollows
          <5>2. Back(Follows(slot), s) = Back(slot, s) + 1
            BY <1>2, <4>2, BackFollows
          <5> QED BY <1>5, <3>1, <5>1, <5>2
        <4> QED BY <4>1, <4>2
      <3>3. Held' <= 2 * t
        BY <1>2, <1>5, <2>2, <3>1
      <3>4. Slot(last_added)' = Follows(slot)
        BY <1>2, <3>1
      <3> QED BY <1>9, <3>2, <3>3, <3>4 DEF InUse
    <2> QED BY <2>4, <2>5
  <1> QED BY <1>10, <1>11

LEMMA NextInUse == IInv /\ InUse /\ [Next]_vars => InUse'
  <1> SUFFICES ASSUME IInv, InUse, [Next]_vars PROVE InUse'
    OBVIOUS
  <1>1. ASSUME NEW data \in Data, NEW memory \in BOOLEAN, Add(data, memory) PROVE InUse'
    BY <1>1, AddInUse
  <1>2. ASSUME NEW ping \in sent, Check(ping) PROVE InUse'
    <2>1. \A s \in Slots : entries'[s].data # None => entries[s].data # None
      BY <1>2 DEF Check, Empty, Entry, IInv, TypeOK
    <2>2. last_added' = last_added /\ last_deleted' = last_deleted /\ now' = now
      BY <1>2 DEF Check
    <2>3. Held' = Held
      BY <2>2 DEF Held
    <2> QED BY <2>1, <2>2, <2>3 DEF InUse
  <1>3. CASE Tick \/ UNCHANGED vars
    <2>1. last_added' = last_added /\ last_deleted' = last_deleted /\ entries' = entries
      BY <1>3 DEF Tick, vars
    <2>2. Held' = Held
      BY <2>1 DEF Held
    <2>3. now' = now + 1 \/ now' = now
      BY <1>3 DEF Tick, vars
    <2>4. now' >= timeout
      BY <2>3, PingArrayAssumption DEF InUse, IInv, TypeOK
    <2> QED BY <2>1, <2>2, <2>4 DEF InUse
  <1> QED
    BY <1>1, <1>2, <1>3 DEF Next

\* ping_array_kill frees every entry: the entries that hold data are those of the numbers from
\* last_deleted to last_added, also after entries were overwritten or did not get memory.
THEOREM PingsFreed == Spec => []KillFreesAll
  <1>1. Init => InUse
    <2> SUFFICES ASSUME Init PROVE InUse
      OBVIOUS
    <2>1. Held = 0
      BY PingArrayAssumption DEF Init, Held, Numbers
    <2> QED BY <2>1, PingArrayAssumption DEF Init, InUse, Empty, Entry
  <1>2. IInv /\ InUse => KillFreesAll
    <2> SUFFICES ASSUME IInv, InUse, NEW s \in Slots, entries[s].data # None
                 PROVE  \E i \in 0 .. Held - 1 : s = Slot(Plus(last_deleted, i))
      BY DEF KillFreesAll, Held
    <2> DEFINE b == Back(Slot(last_added), s)
    <2>1. last_added \in Numbers /\ TypeOK
      BY DEF IInv, TypeOK
    <2>2. b \in Nat \ {0} /\ b <= Held
      BY <2>1, SlotFacts, BackFollows DEF InUse
    <2>3. Slot(Plus(last_added, U32 - b)) = s
      BY <2>1, SlotBefore
    <2>4. Held \in Nat /\ \A i \in 0 .. Held : Plus(last_deleted, i) = Plus(last_added, U32 - (Held - i))
      BY <2>1, HeldFacts
    <2> HIDE DEF b
    <2>5. Held - b \in 0 .. Held /\ Held - b \in 0 .. Held - 1 /\ Held - (Held - b) = b
      <3>1. Held \in Nat
        BY <2>4
      <3> QED BY <2>2, <3>1
    <2>6. Plus(last_deleted, Held - b) = Plus(last_added, U32 - (Held - (Held - b)))
      BY <2>4, <2>5
    <2> QED BY <2>3, <2>5, <2>6
  <1> QED
    BY InitOK, NextOK, NextInUse, <1>1, <1>2, PTL DEF Spec
=============================================================================
