------------------------------ MODULE MCMedia ------------------------------
(***************************************************************************)
(* Instances of the modules of toxav for TLC.  One run covers them: the    *)
(* initial state chooses the one that moves, the variables of the others   *)
(* stay as they are.                                                       *)
(***************************************************************************)
EXTENDS Integers, Sequences, FiniteSets

CONSTANTS a, b, None,
          Parts,            \* the modules that move
          MayDisconnect, MaxOps, CallBounds

VARIABLES part,
          callBound, client, msi, av, chan, conn, online, crossed, done,
          prog, held, call, mine, friendOnline, ops,
          queueBound, stream, q, last, received_first, old, next, late, newest, drops, taken, fate,
          frameBound, sent, net, doubles, losses, slots, handed,
          audioBound, jitter, dead, decoder, expected, overtaken, pauses, played, refused, clash

callVars == <<callBound, client, msi, av, chan, conn, online, crossed, done>>
lockVars == <<prog, held, call, mine, friendOnline, ops>>
queueVars == <<queueBound, stream, q, last, received_first, old, next, late, newest, drops, taken, fate>>
frameVars == <<frameBound, sent, net, doubles, losses, slots, handed>>
audioVars == <<audioBound, jitter, dead, decoder, expected, overtaken, pauses, played, refused, clash>>

Callbacks == {"call", "state", "frames"}
C == INSTANCE Calls WITH Friend <- {a, b}, Media <- {"audio"}, Bounds <- CallBounds, bound <- callBound

\* Calls, answers and ends that cross; a connection lost, and a client without one of the
\* callbacks, or with all.
MCCallBounds == {[ops |-> 5, drops |-> 0, clients |-> {Callbacks, Callbacks \ {"frames"}}],
                 [ops |-> 4, drops |-> 1, clients |-> {Callbacks} \cup {Callbacks \ {c} : c \in Callbacks}]}

L == INSTANCE CallLocks WITH online <- friendOnline

\* The ring with every time asked for, at the start of a call and later; numbers that start
\* again from zero, with many frames lost and with few.
QueueBound(first, lastFrame, burst, behind, wants, waiting) ==
    [first |-> first, last |-> lastFrame, burst |-> burst, late |-> behind, wants |-> wants, waiting |-> waiting]
QueueBounds == {QueueBound(12, 18, 2, 2, 12 .. 19, 3), QueueBound(0, 3, 1, 1, 2 .. 5, 3),
                QueueBound(8, 24, 12, 1, {}, 0), QueueBound(12, 27, 2, 1, {}, 0)}
Q == INSTANCE MediaQueue WITH
        Capacity <- 3, UINT32_MAX <- 60, NULL <- None, Streams <- {"audio", "video"}, U16 <- 16, Span <- 2,
        Bounds <- QueueBounds, bound <- queueBound

\* Frames that overtake one another, also where numbers start again; doubled and lost
\* packets.
FrameBound(first, frames, doubled, lost, ahead) ==
    [first |-> first, frames |-> frames, doubles |-> doubled, losses |-> lost, ahead |-> ahead]
FrameBounds == {FrameBound(2, 4, 0, 0, 3), FrameBound(2, 5, 0, 0, 2), FrameBound(6, 4, 0, 0, 2),
                FrameBound(2, 4, 1, 0, 2), FrameBound(2, 5, 0, 2, 1)}
F == INSTANCE RtpFrames WITH
        USED_RTP_WORKBUFFER_COUNT <- 3, Piece <- 2, Lengths <- {1, 4}, U16 <- 8, Bounds <- FrameBounds, bound <- frameBound

\* A new peer, and numbers that start again: without losses, with losses, with late packets,
\* with packets that cannot be decoded.
AudioBound(fresh, first, lastPacket, bad, burst, behind, silences) ==
    [fresh |-> fresh, first |-> first, last |-> lastPacket, bad |-> bad, burst |-> burst, late |-> behind, pauses |-> silences]
AudioBounds == {AudioBound(TRUE, 0, 10, {}, 3, 2, 1), AudioBound(TRUE, 4, 10, {7}, 2, 2, 1), AudioBound(TRUE, 9, 20, {11}, 0, 0, 1),
                AudioBound(TRUE, 0, 20, {3}, 0, 0, 0),
                AudioBound(FALSE, 12, 20, {}, 0, 0, 0), AudioBound(FALSE, 12, 20, {}, 2, 0, 1),
                AudioBound(FALSE, 12, 20, {14}, 2, 2, 1)}
G == INSTANCE GroupAudio WITH
        capacity <- 2, U16 <- 16, Bounds <- AudioBounds, bound <- audioBound, q <- jitter, next <- expected,
        late <- overtaken

MCInit ==
    /\ part \in Parts
    /\ C!Init /\ L!Init /\ Q!Init /\ F!Init /\ G!Init
    /\ part # "calls" => callBound = (CHOOSE x \in CallBounds : TRUE) /\ \A p \in {a, b} : client[p] = Callbacks
    /\ part # "queue" => queueBound = (CHOOSE x \in QueueBounds : TRUE) /\ stream = "audio"
    /\ part # "frames" => frameBound = CHOOSE x \in FrameBounds : TRUE
    /\ part # "audio" => audioBound = CHOOSE x \in AudioBounds : TRUE

MCNext ==
    /\ \/ part = "calls" /\ C!Next /\ UNCHANGED <<lockVars, queueVars, frameVars, audioVars>>
       \/ part = "locks" /\ L!Next /\ UNCHANGED <<callVars, queueVars, frameVars, audioVars>>
       \/ part = "queue" /\ Q!Next /\ UNCHANGED <<callVars, lockVars, frameVars, audioVars>>
       \/ part = "frames" /\ F!Next /\ UNCHANGED <<callVars, lockVars, queueVars, audioVars>>
       \/ part = "audio" /\ G!Next /\ UNCHANGED <<callVars, lockVars, queueVars, frameVars>>
    /\ UNCHANGED part

MCSpec == MCInit /\ [][MCNext]_<<part, callVars, lockVars, queueVars, frameVars, audioVars>>
-----------------------------------------------------------------------------
\* The properties are stated in the modules; here one definition joins those of a part.

\* Signalling and the call objects of a side go together, and once nothing is under way both
\* sides of a call agree whether there is one, on its media and on who sends (msi.c, toxav.c):
\* also if both called at once, but not once somebody called or hung up into the end or the
\* start of another call, or the connection was lost.
CallsAgree ==
    part = "calls" => C!TypeOK /\ C!ActiveTransmits /\ C!SidesAgree /\ C!CapabilitiesAgree

\* While the friend stays online the threads of toxav_iterate and of the tox instance never
\* wait for one another for ever, hold no lock they no longer need, and toxav_iterate uses no
\* call that is gone.
ThreadsSafe == part = "locks" => L!NothingHeld /\ L!NeverStuckOnline /\ L!IterateSafe

\* The threads of toxav never wait for one another for ever.
NeverStuck == L!NeverStuck

\* The queue of frames to play (ts_buffer.c) does what an ideal jitter buffer does, gives
\* every frame to one owner, and audio and video go on where the numbers start again.
QueuesSound ==
    /\ [](part = "queue" => Q!OwnedOnce /\ Q!VideoResumes)
    /\ Q!AudioNewerUsed
    /\ Q!ImplementsJitterBuffer

\* Video frames that come in pieces (rtp.c) are put together whole, each in a slot of its own,
\* and no packet is lost to the room that a frame needs.
FramesWhole == part = "frames" => F!SlotsSound /\ F!PacketsKept /\ F!WholeFrames /\ F!FullIsWhole

\* What comes too late of a video frame is dropped.
TooOldDropped == part = "frames" => F!TooOldDropped

\* The audio of a conference (groupav.c) is played in order, except where numbers start again
\* or a packet takes the place of one that is waited for, all of it if nothing is lost or
\* late, from a queue that forgets no packet, and goes on after a pause.
AudioPlayed == part = "audio" => G!PlayedInOrder /\ G!QueueWithin /\ G!AllPlayed /\ G!GoesOnAfterPause
=============================================================================
