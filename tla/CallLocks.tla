----------------------------- MODULE CallLocks -----------------------------
(***************************************************************************)
(* The two threads of a client with calls (toxav.h, "Threading             *)
(* implications") and the locks they take in toxav/toxav.c and             *)
(* toxav/msi.c: the tox thread handles packets and calls the API, the av   *)
(* thread runs toxav_iterate.                                              *)
(*                                                                         *)
(* A thread is the list of the instructions that it still has to execute.  *)
(* Locks are recursive.  What a call transmits is left out.                *)
(***************************************************************************)
EXTENDS Integers, Sequences

CONSTANTS
    MayDisconnect,      \* whether the friend may go offline
    MaxOps              \* bound on the operations of the tox thread

VARIABLES
    prog,       \* prog[t]: the instructions that thread t still has to execute
    held,       \* held[l][t]: how often thread t holds lock l
    call,       \* the call: whether its ToxAVCall is there and which one it is, whether it
                \* is active, whether it has its MSICall, and whether that is there
    mine,       \* the ToxAVCall that the av thread works on
    online,     \* the connection status of the friend
    ops         \* operations of the tox thread so far

vars == <<prog, held, call, mine, online, ops>>

Thread == {"tox", "av"}
\* ToxAV.mutex, MSISession.mutex, ToxAVCall.toxav_call_mutex, ToxAV.toxav_endcall_mutex
Locks == {"av", "msi", "call", "endcall"}

Lock(l) == <<"lock", l>>
Unlock(l) == <<"unlock", l>>
Do(what) == <<"do", what>>

NewCall(n) == [there |-> TRUE, id |-> n, active |-> TRUE, msi_call |-> TRUE, msi |-> TRUE]

Init ==
    /\ prog = [t \in Thread |-> <<>>]
    /\ held = [l \in Locks |-> [t \in Thread |-> 0]]
    /\ call = NewCall(1)
    /\ mine = 0
    /\ online = TRUE
    /\ ops = 0
-----------------------------------------------------------------------------
(* The programs *)

\* call_kill_transmission, from the point where it finds the call active.
Killing ==
    <<Unlock("call"), Lock("call"), Unlock("call"), Lock("endcall"), Lock("call"), Unlock("call"), Unlock("endcall")>>
call_kill_transmission == <<Lock("call"), Do("kill_transmission")>>
call_remove == <<Lock("call"), Unlock("call"), Do("free")>>

\* callback_end, callback_error
callback_end == <<Lock("av"), Do("end"), Unlock("av")>>

toxav_iterate == <<Lock("av"), Do("iterate")>>

\* Mutant: the list is locked before the call is let go.
Leave_Reversed == <<Lock("av"), Unlock("call"), Unlock("av")>>

\* The end of an iteration.
Leave == <<Unlock("call"), Lock("av"), Unlock("av")>>

Hangup == <<Lock("call"), Do("hangup")>>

Operations == {
    <<Lock("msi"), Do("pop")>>,                                                 \* handle_msi_packet, handle_pop
    <<Lock("msi"), Do("push")>>,                                                \* handle_msi_packet, handle_push
    <<Lock("msi"), Lock("av"), Do("new"), Unlock("av"), Unlock("msi")>>,        \* handle_init, callback_invite; answered
    <<Lock("av"), Do("cancel")>>}                                               \* toxav_call_control

Free(l, t) == \A u \in Thread \ {t} : held[l][u] = 0

\* The instruction `what` of thread t and the ones that follow it.
Effect(t, what, rest) ==
    LET go(instructions) == prog' = [prog EXCEPT ![t] = instructions \o rest]
    IN  CASE what = "pop" ->
                /\ go(IF call.msi THEN callback_end \o <<Do("kill_call"), Unlock("msi")>> ELSE <<Unlock("msi")>>)
                /\ UNCHANGED <<call, held, mine>>
          [] what = "push" ->
                /\ go(IF call.msi THEN <<Lock("av"), Do("capabilities"), Unlock("av"), Unlock("msi")>> ELSE <<Unlock("msi")>>)
                /\ UNCHANGED <<call, held, mine>>
          [] what = "end" ->
                /\ go(IF call.there THEN call_kill_transmission \o call_remove ELSE <<>>)
                /\ UNCHANGED <<call, held, mine>>
          [] what = "new" ->
                /\ go(<<>>)
                /\ call' = IF call.there \/ call.msi THEN call ELSE NewCall(call.id + 1)
                /\ UNCHANGED <<held, mine>>
          [] what = "cancel" ->
                /\ go(IF call.there THEN Hangup ELSE <<Unlock("av")>>)
                /\ UNCHANGED <<call, held, mine>>
          [] what = "hangup" ->         \* msi_hangup does not wait for the lock
                IF call.msi_call /\ Free("msi", t)
                THEN /\ go(<<Unlock("call")>> \o call_kill_transmission \o call_remove \o <<Unlock("av")>>)
                     /\ call' = [call EXCEPT !.msi = FALSE, !.msi_call = FALSE]
                     /\ UNCHANGED <<held, mine>>
                ELSE go(<<Unlock("call"), Unlock("av")>>) /\ UNCHANGED <<call, held, mine>>
          [] what = "kill_transmission" ->
                /\ go(IF call.active THEN Killing ELSE <<Unlock("call")>>)
                /\ call' = [call EXCEPT !.active = FALSE]
                /\ UNCHANGED <<held, mine>>
          [] what = "free" ->           \* with its mutex, whoever holds that
                /\ go(<<>>)
                /\ call' = [call EXCEPT !.there = FALSE, !.msi_call = FALSE]
                /\ held' = [held EXCEPT !["call"] = [u \in Thread |-> 0]]
                /\ UNCHANGED mine
          [] what = "kill_call" ->
                /\ go(<<>>)
                /\ call' = [call EXCEPT !.msi = FALSE]
                /\ UNCHANGED <<held, mine>>
          [] what = "iterate" ->
                /\ go(IF call.there /\ call.active THEN <<Lock("call"), Unlock("av"), Do("check")>> ELSE <<Unlock("av")>>)
                /\ mine' = call.id
                /\ UNCHANGED <<call, held>>
          [] what = "check" ->
                /\ go(CASE ~call.msi_call \/ ~call.active -> Leave
                        [] online -> <<Do("work")>> \o Leave
                        [] OTHER -> <<Lock("msi"), Do("offline")>> \o Leave)
                /\ UNCHANGED <<call, held, mine>>
          [] what = "offline" ->        \* check_peer_offline_status
                /\ go(IF call.msi THEN callback_end \o <<Do("kill_call"), Unlock("msi")>> ELSE <<Unlock("msi")>>)
                /\ UNCHANGED <<call, held, mine>>
          [] OTHER ->                   \* "work", "capabilities": what is read is in the properties
                go(<<>>) /\ UNCHANGED <<call, held, mine>>

Step(t) ==
    /\ prog[t] # <<>>
    /\ LET i == Head(prog[t])
           rest == Tail(prog[t])
       IN  CASE i[1] = "lock" ->
                    /\ Free(i[2], t)
                    /\ held' = [held EXCEPT ![i[2]][t] = @ + 1]
                    /\ prog' = [prog EXCEPT ![t] = rest]
                    /\ UNCHANGED <<call, mine>>
             [] i[1] = "unlock" ->
                    /\ held' = [held EXCEPT ![i[2]][t] = IF @ > 0 THEN @ - 1 ELSE 0]
                    /\ prog' = [prog EXCEPT ![t] = rest]
                    /\ UNCHANGED <<call, mine>>
             [] i[1] = "do" -> Effect(t, i[2], rest)
    /\ UNCHANGED <<online, ops>>

\* The tox thread has something to do.
Begin ==
    /\ prog["tox"] = <<>>
    /\ ops < MaxOps
    /\ ops' = ops + 1
    /\ \E p \in Operations : prog' = [prog EXCEPT !["tox"] = p]
    /\ UNCHANGED <<held, call, mine, online>>

Iterate ==
    /\ prog["av"] = <<>>
    /\ prog' = [prog EXCEPT !["av"] = toxav_iterate]
    /\ UNCHANGED <<held, call, mine, online, ops>>

\* The tox thread notices that the friend came or went.
StatusChange ==
    /\ MayDisconnect
    /\ prog["tox"] = <<>>
    /\ ops < MaxOps
    /\ ops' = ops + 1
    /\ online' = ~online
    /\ UNCHANGED <<prog, held, call, mine>>

Next == (\E t \in Thread : Step(t)) \/ Begin \/ Iterate \/ StatusChange

Spec == Init /\ [][Next]_vars
-----------------------------------------------------------------------------
(* Properties *)

Waits(t) == prog[t] # <<>> /\ Head(prog[t])[1] = "lock" /\ ~Free(Head(prog[t])[2], t)

\* A thread with nothing to do holds no lock, whichever way it took through the
\* early returns of the handlers (toxav_iterate, toxav_call_control, handle_msi_packet).
NothingHeld == \A t \in Thread : prog[t] = <<>> => \A l \in Locks : held[l][t] = 0

\* "Only toxav_iterate is thread-safe, all other functions must run from the tox thread"
\* (toxav.h): a client that does so never has both threads wait for one another.
NeverStuck == ~\A t \in Thread : Waits(t)

\* As long as the friend stays online the threads do not wait for one another.
NeverStuckOnline == ~MayDisconnect => NeverStuck

\* And what the av thread touches of a call is there: the ToxAVCall when its mutex is
\* used, the MSICall too when capabilities are read (toxav_iterate against
\* call_remove, msi_hangup and kill_call).
IterateSafe ==
    ~MayDisconnect /\ prog["av"] # <<>> =>
        LET i == Head(prog["av"])
        IN  /\ i \in {Unlock("call"), Do("check"), Do("work")} => call.there /\ call.id = mine
            /\ i = Do("work") => call.msi
=============================================================================
