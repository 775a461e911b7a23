----------------------------- MODULE PingArray ------------------------------
(***************************************************************************)
(* The array of the pings that wait for an answer (toxcore/ping_array.c),  *)
(* which the DHT, the onion and the group announcements use to tell        *)
(* answers to their requests from other packets.  A ring of entries; the   *)
(* oldest make room for new ones, and entries older than timeout are       *)
(* cleared when one is added.                                              *)
(*                                                                         *)
(* The identifier of a ping is random but for the slot of its entry; here  *)
(* it is a number that is not used again, and the slot.                    *)
(***************************************************************************)
EXTENDS Integers, FiniteSets

CONSTANTS
    total_size,     \* the length of entries
    timeout,
    U32,            \* the numbers of last_added and last_deleted
    Data, None,
    Starts,         \* numbers that an array may have come to
    MaxAdds, MaxTime    \* bounds of the runs

VARIABLES
    entries, last_deleted, last_added,
    now,            \* mono_time
    added,          \* how many pings were added
    sent,           \* the pings that were added
    answered,       \* the identifiers that were answered
    noMemory        \* whether an entry could not be allocated

vars == <<entries, last_deleted, last_added, now, added, sent, answered, noMemory>>

Slots == 0 .. total_size - 1
Numbers == 0 .. U32 - 1
Slot(n) == n % total_size
Plus(n, k) == (n + k) % U32
Follows(slot) == IF slot + 1 = total_size THEN 0 ELSE slot + 1

\* ping_array_new refuses a size that is not a power of two: the slots of successive numbers
\* follow one another also where the numbers start anew.  No array is nearly as long as the
\* numbers last: the callers ask for 256 or 512 entries.
ASSUME PingArrayAssumption ==
    /\ total_size \in Nat \ {0} /\ timeout \in Nat \ {0} /\ U32 \in Nat \ {0} /\ 2 * total_size < U32
    /\ MaxAdds \in Nat /\ MaxTime \in Nat
    /\ Starts \subseteq Numbers
    /\ None \notin Data
    /\ \A n \in Numbers : Slot(n) \in Slots /\ Plus(n, 1) \in Numbers /\ Slot(Plus(n, 1)) = Follows(Slot(n))

Entry(id, data, time) == [id |-> id, data |-> data, time |-> time]
Empty == Entry(0, None, 0)
Ping(id, slot, data, time) == [id |-> id, slot |-> slot, data |-> data, time |-> time]

Init ==
    /\ entries = [s \in Slots |-> Empty]
    /\ last_added \in Starts /\ last_deleted = last_added
    /\ now = timeout
    /\ added = 0 /\ sent = {} /\ answered = {} /\ noMemory = FALSE

\* mono_time_is_timeout
Timeout(time) == time + timeout <= now

\* Mutant: the entry that is not timed out is cleared, too.
ping_array_clear_timedout_Past(count) ==
    /\ \A i \in 0 .. count - 1 : Plus(last_deleted, i) # last_added
    /\ \A i \in 0 .. count - 2 : Timeout(entries[Slot(Plus(last_deleted, i))].time)
    /\ Plus(last_deleted, count) # last_added => ~Timeout(entries[Slot(Plus(last_deleted, count - 1))].time)

\* ping_array_clear_timedout: it stops at the first entry that is not timed out.
ping_array_clear_timedout(count) ==
    /\ \A i \in 0 .. count - 1 : Plus(last_deleted, i) # last_added /\ Timeout(entries[Slot(Plus(last_deleted, i))].time)
    /\ Plus(last_deleted, count) # last_added => ~Timeout(entries[Slot(Plus(last_deleted, count))].time)
Cleared(count) ==
    [s \in Slots |-> IF \E i \in 0 .. count - 1 : s = Slot(Plus(last_deleted, i)) THEN Empty ELSE entries[s]]

\* Mutant: the oldest entry is counted as deleted where it is overwritten.
Oldest_Next == Plus(last_added, 1)

\* The entry that a new one overwrites.
Oldest == Plus(last_added, U32 - total_size)

\* ping_array_add
Add(data, memory) ==
    \E count \in Numbers :
        LET slot == Slot(last_added)
        IN  /\ added < MaxAdds
            /\ ping_array_clear_timedout(count)
            /\ last_deleted' = IF Cleared(count)[slot].data # None THEN Oldest ELSE Plus(last_deleted, count)
            /\ entries' = [Cleared(count) EXCEPT ![slot] = IF memory THEN Entry(added + 1, data, now) ELSE Empty]
            /\ IF memory
               THEN /\ last_added' = Plus(last_added, 1)
                    /\ added' = added + 1
                    /\ sent' = sent \cup {Ping(added + 1, slot, data, now)}
                    /\ UNCHANGED noMemory
               ELSE noMemory' = TRUE /\ UNCHANGED <<last_added, added, sent>>
            /\ UNCHANGED <<now, answered>>

\* Mutant: the entry stays.
Check_Stays(ping) ==
    /\ entries[ping.slot].id = ping.id /\ ~Timeout(entries[ping.slot].time)
    /\ answered' = answered \cup {ping.id}
    /\ UNCHANGED <<entries, last_deleted, last_added, now, added, sent, noMemory>>

\* ping_array_check of an answer, however late or often it comes
Check(ping) ==
    /\ entries[ping.slot].id = ping.id /\ ~Timeout(entries[ping.slot].time)
    /\ answered' = answered \cup {ping.id}
    /\ entries' = [entries EXCEPT ![ping.slot] = Empty]
    /\ UNCHANGED <<last_deleted, last_added, now, added, sent, noMemory>>

Tick ==
    /\ now < MaxTime
    /\ now' = now + 1
    /\ UNCHANGED <<entries, last_deleted, last_added, added, sent, answered, noMemory>>

Next ==
    \/ \E data \in Data, memory \in BOOLEAN : Add(data, memory)
    \/ \E ping \in sent : Check(ping)
    \/ Tick

Spec == Init /\ [][Next]_vars
-----------------------------------------------------------------------------
(* Properties *)

\* The pings that the array has room for.
Recent(ping) == ping.id + total_size > added + (IF noMemory THEN 1 ELSE 0)

\* A ping can be answered for as long as it is not older than timeout and at most as many
\* were added since as there is room for, whatever else was answered, timed out or did not
\* get memory; then its data is what it was sent with.
Answerable ==
    \A ping \in sent :
        Recent(ping) /\ ~Timeout(ping.time) /\ ping.id \notin answered
            => entries[ping.slot] = Entry(ping.id, ping.data, ping.time)

\* No ping is answered twice: a repeated or late answer finds no entry, also when another
\* ping has the slot.
AnsweredOnce == \A ping \in sent : ping.id \in answered => entries[ping.slot].id # ping.id

\* ping_array_kill goes from last_deleted to last_added; no entry with data is elsewhere.
KillFreesAll ==
    \A s \in Slots :
        entries[s].data # None =>
            \E i \in 0 .. ((last_added - last_deleted) % U32) - 1 : s = Slot(Plus(last_deleted, i))
=============================================================================
