--------------------------- MODULE FileTransfers ---------------------------
(***************************************************************************)
(* The files that one friend sends to another (toxcore/Messenger.c): file  *)
(* numbers, controls, chunks, and the transfers of kind FILEKIND_FTV2,     *)
(* which go on after the friends were offline.                             *)
(*                                                                         *)
(* Packets arrive in order; those under way are lost with the connection.  *)
(* A counter of iterations fires whenever it may.  A file is its id; its   *)
(* data is the positions in it.                                            *)
(***************************************************************************)
EXTENDS Integers, Sequences, FiniteSets

CONSTANTS
    Pipes,          \* MAX_CONCURRENT_FILE_PIPES
    MAX_FILE_DATA_SIZE,
    U32,            \* 2^32 in the program
    Bounds          \* what happens; a record of the set is chosen at the start:
                    \*   files: the files sent, a sequence of a kind and a size
                    \*   losses, controls, stales, fails: connections lost, controls of the
                    \*     clients, counters that fire, packets that cannot be sent
                    \*   calm: counters fire only when nothing is under way, and then as often as
                    \*     they may

VARIABLES
    bound,          \* the chosen member of Bounds
    file_sending, num_sending_files,        \* of the sender
    file_receiving, num_receiving_files,    \* of the receiver
    toReceiver, toSender,                   \* packets under way
    conn,           \* whether the two are connected
    online,         \* the sides that take the friend for online
    files,          \* how many files were sent
    did,            \* how often losses, controls, stales and fails happened
    accepted,       \* files that the receiver's client accepted
    ended,          \* files that a client killed, or that ended when a side went offline
    reused,         \* whether a file ever got the number of another
    bad,            \* files of which a client got other data than that of the position
    whole,          \* files that a client received to the end
    told            \* files whose sender was told that it is done

vars == <<bound, file_sending, num_sending_files, file_receiving, num_receiving_files, toReceiver, toSender,
          conn, online, files, did, accepted, ended, reused, bad, whole, told>>
ghosts == <<accepted, ended, reused, bad, whole, told>>
senderVars == <<file_sending, num_sending_files>>
receiverVars == <<file_receiving, num_receiving_files>>

Num == 0 .. Pipes - 1

\* File_Transfers.  pausedBy: FILE_PAUSE_US and FILE_PAUSE_OTHER.
File(status, kind, id, size) ==
    [status |-> status, kind |-> kind, id |-> id, size |-> size, transferred |-> 0, requested |-> 0,
     pausedBy |-> {}, seek |-> FALSE, ackd |-> FALSE]
NoFile == File("none", "", 0, 0)

Init ==
    /\ bound \in Bounds
    /\ file_sending = [n \in Num |-> NoFile]
    /\ file_receiving = [n \in Num |-> NoFile]
    /\ num_sending_files = 0
    /\ num_receiving_files = 0
    /\ toReceiver = <<>>
    /\ toSender = <<>>
    /\ conn = TRUE
    /\ online = {"sender", "receiver"}
    /\ files = 0
    /\ did = [losses |-> 0, controls |-> 0, stales |-> 0, fails |-> 0]
    /\ accepted = {} /\ ended = {} /\ bad = {} /\ whole = {} /\ told = {}
    /\ reused = FALSE

Request(n, f) == [type |-> "request", n |-> n, kind |-> f.kind, id |-> f.id, size |-> f.size]
Data(n, f, length) == [type |-> "data", n |-> n, id |-> f.id, position |-> f.transferred, length |-> length]
Control(n, what, arg) == [type |-> "control", n |-> n, control |-> what, arg |-> arg]

\* write_cryptpacket: what is sent after the connection is lost is lost too.
ToReceiver(packets) == toReceiver' = IF conn THEN toReceiver \o packets ELSE toReceiver
ToSender(packets) == toSender' = IF conn THEN toSender \o packets ELSE toSender

\* Something that happens so many times.
Counts(what) == did[what] < bound[what] /\ did' = [did EXCEPT ![what] = @ + 1]

Smaller(x, y) == IF x < y THEN x ELSE y
Less(counter) == (counter - 1) % U32
Active == {"transferring", "finished"}
-----------------------------------------------------------------------------
(* The sender *)

Sending(n, f) == file_sending' = [file_sending EXCEPT ![n] = f]

\* new_filesender
Send ==
    LET free == {n \in Num : file_sending[n].status = "none"}
        n == CHOOSE i \in free : \A j \in free : i <= j
        f == bound.files[files + 1]
        message == f.kind = "message"
        new == File(IF message THEN "transferring" ELSE "not_accepted", f.kind, files + 1, f.size)
    IN  /\ files < Len(bound.files)
        /\ free # {}
        /\ "sender" \in online
        /\ files' = files + 1
        /\ Sending(n, new)
        /\ num_sending_files' = num_sending_files + IF message THEN 1 ELSE 0
        /\ ToReceiver(<<Request(n, new)>>)
        /\ reused' = (reused \/ file_sending[n].id # 0)
        /\ UNCHANGED <<bound, receiverVars, toSender, conn, online, did, accepted, ended, bad, whole, told>>

\* Killed: a slot that is free keeps the id of the file, which nobody reads.
Killed(f) == [NoFile EXCEPT !.id = f.id]

\* file_control, of the sender
SenderPause(n) ==
    LET f == file_sending[n]
    IN  /\ "sender" \in online
        /\ f.status = "transferring" /\ "us" \notin f.pausedBy
        /\ Counts("controls")
        /\ Sending(n, [f EXCEPT !.pausedBy = @ \cup {"us"}])
        /\ ToReceiver(<<Control(n, "pause", 0)>>)
        /\ UNCHANGED <<bound, num_sending_files, receiverVars, toSender, conn, online, files, ghosts>>

SenderResume(n) ==
    LET f == file_sending[n]
    IN  /\ "sender" \in online
        /\ f.status = "transferring" /\ "us" \in f.pausedBy
        /\ Sending(n, [f EXCEPT !.pausedBy = @ \ {"us"}])
        /\ ToReceiver(<<Control(n, "accept", 0)>>)
        /\ UNCHANGED <<bound, num_sending_files, receiverVars, toSender, conn, online, files, did, ghosts>>

SenderKill(n) ==
    LET f == file_sending[n]
    IN  /\ "sender" \in online
        /\ f.status # "none"
        /\ Counts("controls")
        /\ Sending(n, Killed(f))
        /\ num_sending_files' = IF f.status \in Active THEN Less(num_sending_files) ELSE num_sending_files
        /\ ToReceiver(<<Control(n, "kill", 0)>>)
        /\ ended' = ended \cup {f.id}
        /\ UNCHANGED <<bound, receiverVars, toSender, conn, online, files, accepted, reused, bad, whole, told>>

\* An iteration of do_all_filetransfers for file n: a chunk is asked for ...
Iterates(n) == "sender" \in online /\ num_sending_files # 0

RequestChunk(n) ==
    LET f == file_sending[n]
    IN  /\ Iterates(n)
        /\ f.status = "transferring" /\ f.pausedBy = {}
        /\ f.size # f.requested
        /\ f.kind = "ftv2" => ~f.seek
        /\ Sending(n, [f EXCEPT !.requested = @ + Smaller(f.size - @, MAX_FILE_DATA_SIZE)])
        /\ UNCHANGED <<bound, num_sending_files, receiverVars, toReceiver, toSender, conn, online, files, did, ghosts>>

\* ... and the client gives it (send_file_data); an empty file is sent at once.
Sent(n, length) ==
    LET f == file_sending[n]
        done == f.kind # "ftv2" /\ (length # MAX_FILE_DATA_SIZE \/ f.size = f.transferred + length)
    IN  /\ Sending(n, [f EXCEPT !.transferred = @ + length, !.status = IF done THEN "finished" ELSE @])
        /\ ToReceiver(<<Data(n, f, length)>>)
        /\ UNCHANGED <<bound, num_sending_files, receiverVars, toSender, conn, online, files, did, ghosts>>

SendChunk(n) ==
    LET f == file_sending[n]
    IN  /\ "sender" \in online
        /\ f.status = "transferring"
        /\ f.transferred < f.requested
        /\ Sent(n, Smaller(f.size - f.transferred, MAX_FILE_DATA_SIZE))

SendEmpty(n) ==
    LET f == file_sending[n]
    IN  /\ Iterates(n)
        /\ f.status = "transferring" /\ f.pausedBy = {}
        /\ f.kind # "ftv2" /\ f.size = 0
        /\ Sent(n, 0)

\* friend_received_packet, of the last packet
Received(n) == \A i \in DOMAIN toReceiver : toReceiver[i].type = "data" => toReceiver[i].id # file_sending[n].id

Finish(n) ==
    LET f == file_sending[n]
    IN  /\ Iterates(n)
        /\ f.status = "finished"
        /\ f.kind # "ftv2" => conn /\ Received(n)
        /\ Sending(n, Killed(f))
        /\ num_sending_files' = Less(num_sending_files)
        /\ told' = told \cup {f.id}
        /\ UNCHANGED <<bound, receiverVars, toReceiver, toSender, conn, online, files, did, accepted, ended, reused, bad, whole>>

\* The end of do_reqchunk_filecb: received_seek_control_counter is over.
SeekOver(n) ==
    /\ Iterates(n)
    /\ file_sending[n].seek
    /\ Sending(n, [file_sending[n] EXCEPT !.seek = FALSE])
    /\ UNCHANGED <<bound, num_sending_files, receiverVars, toReceiver, toSender, conn, online, files, did, ghosts>>

\* A counter fires.  The counters are long: in a calm run file n has nothing left to send.
Stales(n) ==
    LET f == file_sending[n]
        busy == f.status = "transferring" /\ f.pausedBy = {} /\ f.transferred # f.size
    IN  IF bound.calm THEN toReceiver = <<>> /\ toSender = <<>> /\ ~busy /\ UNCHANGED did ELSE Counts("stales")

\* The start of do_reqchunk_filecb: the request is sent again.
SendAgain(n) ==
    LET f == file_sending[n]
    IN  /\ "sender" \in online
        /\ f.status = "not_accepted" /\ f.kind = "ftv2" /\ ~f.ackd
        /\ Stales(n)
        /\ ToReceiver(<<Request(n, f)>>)
        /\ UNCHANGED <<bound, senderVars, receiverVars, toSender, conn, online, files, ghosts>>
-----------------------------------------------------------------------------
(* handle_filecontrol, of a file that one sends: the file after it. *)

Accept(f) ==
    IF f.status = "not_accepted" THEN [f EXCEPT !.status = "transferring"]
    ELSE [f EXCEPT !.pausedBy = @ \ {"other"}]

Pause(f) == IF f.status = "transferring" THEN [f EXCEPT !.pausedBy = @ \cup {"other"}] ELSE f

Kill(f) == IF f.status = "finished" /\ f.kind = "ftv2" THEN f ELSE Killed(f)

Seek(f, position) ==
    IF (f.kind # "ftv2" /\ f.status # "not_accepted") \/ position >= f.size THEN f
    ELSE [f EXCEPT !.seek = TRUE, !.requested = position, !.transferred = position]

Finished(f) == IF f.status = "transferring" /\ f.kind = "ftv2" THEN [f EXCEPT !.status = "finished"] ELSE f

Controlled(f, m) ==
    LET g == IF m.control # "send_ack" \/ (f.kind = "ftv2" /\ m.arg = f.id) THEN [f EXCEPT !.ackd = TRUE] ELSE f
    IN  CASE m.control = "accept" -> Accept(g)
          [] m.control = "pause" -> Pause(g)
          [] m.control = "kill" -> Kill(g)
          [] m.control = "seek" -> Seek(g, m.arg)
          [] m.control = "finished" -> Finished(g)
          [] m.control = "send_ack" -> g

\* The sender gets a packet.
ControlSender ==
    LET m == Head(toSender)
        f == file_sending[m.n]
        g == Controlled(f, m)
    IN  /\ toSender # <<>> /\ m.type = "control"
        /\ toSender' = Tail(toSender)
        /\ IF f.status = "none"
           THEN /\ IF m.control # "kill" THEN ToReceiver(<<Control(m.n, "kill", 0)>>) ELSE UNCHANGED toReceiver
                /\ UNCHANGED senderVars
           ELSE /\ Sending(m.n, g)
                /\ num_sending_files' = CASE f.status \notin Active /\ g.status \in Active -> num_sending_files + 1
                                          [] f.status \in Active /\ g.status \notin Active -> Less(num_sending_files)
                                          [] OTHER -> num_sending_files
                /\ UNCHANGED toReceiver
        /\ UNCHANGED <<bound, receiverVars, conn, online, files, did, ghosts>>
-----------------------------------------------------------------------------
(* The receiver *)

Receiving(n, f) == file_receiving' = [file_receiving EXCEPT ![n] = f]

\* send_file_control_packet: it may fail, when the queue is full.
Replies(ok, packet) ==
    IF ok THEN ToSender(<<packet>>) /\ UNCHANGED did ELSE Counts("fails") /\ UNCHANGED toSender

Counted(f) == IF f.status = "none" THEN (num_receiving_files + 1) % U32 ELSE num_receiving_files

\* PACKET_ID_FILE_SENDREQUEST
ReceiveRequest ==
    LET m == Head(toReceiver)
        f == file_receiving[m.n]
        new == File(IF m.kind = "message" THEN "transferring" ELSE "not_accepted", m.kind, m.id, m.size)
        g == IF f.status = "none" THEN new ELSE f
    IN  /\ toReceiver # <<>> /\ m.type = "request"
        /\ toReceiver' = Tail(toReceiver)
        /\ Receiving(m.n, g)
        /\ num_receiving_files' = Counted(f)
        /\ IF g.kind = "ftv2" THEN \E ok \in BOOLEAN : Replies(ok, Control(m.n, "send_ack", g.id))
           ELSE UNCHANGED <<toSender, did>>
        /\ UNCHANGED <<bound, senderVars, conn, online, files, ghosts>>

\* handle_filecontrol, of a file that one receives
ControlReceiver ==
    LET m == Head(toReceiver)
        f == file_receiving[m.n]
    IN  /\ toReceiver # <<>> /\ m.type = "control"
        /\ toReceiver' = Tail(toReceiver)
        /\ IF f.status = "none"
           THEN /\ IF m.control # "kill" THEN \E ok \in BOOLEAN : Replies(ok, Control(m.n, "kill", 0))
                   ELSE UNCHANGED <<toSender, did>>
                /\ UNCHANGED receiverVars
           ELSE /\ Receiving(m.n, CASE m.control = "accept" -> [f EXCEPT !.pausedBy = @ \ {"other"}]
                                    [] m.control = "pause" -> Pause(f)
                                    [] m.control = "kill" -> Killed(f))
                /\ num_receiving_files' = IF m.control = "kill" THEN Less(num_receiving_files) ELSE num_receiving_files
                /\ UNCHANGED <<toSender, did>>
        /\ UNCHANGED <<bound, senderVars, conn, online, files, ghosts>>

\* What the client gets: length of the data at position f.transferred.
Gets(f, m, length) == bad' = IF length > 0 /\ (m.id # f.id \/ m.position # f.transferred) THEN bad \cup {f.id} ELSE bad
Ends(f) == whole' = whole \cup {f.id}

\* Mutant: the offset of the data is not compared.
DataV2_Anywhere(m, f, ok) ==
    LET g == [f EXCEPT !.transferred = @ + m.length]
    IN  /\ Gets(f, m, m.length)
        /\ IF g.transferred # g.size
           THEN Receiving(m.n, g) /\ UNCHANGED <<toSender, did, num_receiving_files, whole>>
           ELSE /\ Replies(ok, Control(m.n, "finished", 0))
                /\ IF ok THEN Receiving(m.n, Killed(f)) /\ num_receiving_files' = Less(num_receiving_files) /\ Ends(f)
                   ELSE Receiving(m.n, g) /\ UNCHANGED <<num_receiving_files, whole>>

\* PACKET_ID_FILE_DATA, of FILEKIND_FTV2: the data carries its id and its offset.
DataV2(m, f, ok) ==
    LET g == [f EXCEPT !.transferred = @ + m.length]
        keep == UNCHANGED <<receiverVars, bad, whole>>
    IN  CASE m.id # f.id -> Replies(ok, Control(m.n, "kill", 0)) /\ keep
          [] m.id = f.id /\ m.position > f.size - m.length -> UNCHANGED <<toSender, did>> /\ keep
          [] m.id = f.id /\ m.position <= f.size - m.length /\ m.position # f.transferred ->
                Replies(ok, Control(m.n, "seek", f.transferred)) /\ keep
          [] m.id = f.id /\ m.position <= f.size - m.length /\ m.position = f.transferred ->
                /\ Gets(f, m, m.length)
                /\ IF g.transferred # g.size
                   THEN Receiving(m.n, g) /\ UNCHANGED <<toSender, did, num_receiving_files, whole>>
                   ELSE /\ Replies(ok, Control(m.n, "finished", 0))
                        /\ IF ok THEN Receiving(m.n, Killed(f)) /\ num_receiving_files' = Less(num_receiving_files) /\ Ends(f)
                           ELSE Receiving(m.n, g) /\ UNCHANGED <<num_receiving_files, whole>>

\* Of other kinds: a short chunk is the last.  The end counts twice.
DataV1(m, f) ==
    LET length == Smaller(m.length, f.size - f.transferred)
        g == [f EXCEPT !.transferred = @ + length]
        last == length > 0 /\ (g.transferred >= g.size \/ length # MAX_FILE_DATA_SIZE)
    IN  /\ Gets(f, m, length)
        /\ IF last \/ length = 0
           THEN /\ Receiving(m.n, Killed(f))
                /\ num_receiving_files' = IF last THEN Less(Less(num_receiving_files)) ELSE Less(num_receiving_files)
                /\ Ends(f)
           ELSE Receiving(m.n, g) /\ UNCHANGED <<num_receiving_files, whole>>
        /\ UNCHANGED <<toSender, did>>

ReceiveData ==
    LET m == Head(toReceiver)
        f == file_receiving[m.n]
    IN  /\ toReceiver # <<>> /\ m.type = "data"
        /\ toReceiver' = Tail(toReceiver)
        /\ CASE f.status = "transferring" -> IF f.kind = "ftv2" THEN \E ok \in BOOLEAN : DataV2(m, f, ok) ELSE DataV1(m, f)
             [] f.status = "none" -> /\ \E ok \in BOOLEAN : Replies(ok, Control(m.n, "kill", 0))
                                     /\ UNCHANGED <<receiverVars, bad, whole>>
             [] OTHER -> UNCHANGED <<receiverVars, toSender, did, bad, whole>>
        /\ UNCHANGED <<bound, senderVars, conn, online, files, accepted, ended, reused, told>>

\* file_control and file_seek, of the receiver
ReceiverControl(n, packet, f) ==
    /\ "receiver" \in online
    /\ Receiving(n, f)
    /\ ToSender(<<packet>>)
    /\ UNCHANGED <<bound, senderVars, toReceiver, conn, online, files, reused, bad, whole, told>>

ReceiverAccept(n) ==
    LET f == file_receiving[n]
    IN  /\ f.status = "not_accepted" \/ (f.status = "transferring" /\ "us" \in f.pausedBy)
        /\ ReceiverControl(n, Control(n, "accept", 0), [f EXCEPT !.status = "transferring", !.pausedBy = @ \ {"us"}])
        /\ accepted' = accepted \cup {f.id}
        /\ UNCHANGED <<num_receiving_files, did, ended>>

ReceiverPause(n) ==
    LET f == file_receiving[n]
    IN  /\ f.status = "transferring" /\ "us" \notin f.pausedBy
        /\ Counts("controls")
        /\ ReceiverControl(n, Control(n, "pause", 0), [f EXCEPT !.pausedBy = @ \cup {"us"}])
        /\ UNCHANGED <<num_receiving_files, accepted, ended>>

ReceiverKill(n) ==
    LET f == file_receiving[n]
    IN  /\ f.status # "none"
        /\ Counts("controls")
        /\ ReceiverControl(n, Control(n, "kill", 0), Killed(f))
        /\ num_receiving_files' = Less(num_receiving_files)
        /\ ended' = ended \cup {f.id}
        /\ UNCHANGED accepted

ReceiverSeek(n, position) ==
    LET f == file_receiving[n]
    IN  /\ f.status = "not_accepted"
        /\ position < f.size
        /\ Counts("controls")
        /\ ReceiverControl(n, Control(n, "seek", position), [f EXCEPT !.transferred = position])
        /\ UNCHANGED <<num_receiving_files, accepted, ended>>

\* do_reqchunk_filecb, of a transfer that has not got data for long: accepted or not.
Stale(n) == <<Control(n, "seek", file_receiving[n].transferred), Control(n, "accept", 0)>>

AskAgain(n) ==
    LET f == file_receiving[n]
    IN  /\ "receiver" \in online
        /\ num_receiving_files # 0
        /\ f.status # "none" /\ f.kind = "ftv2"
        /\ Stales(n)
        /\ ToSender(Stale(n))
        /\ UNCHANGED <<bound, senderVars, receiverVars, toReceiver, conn, online, files, ghosts>>

\* "as a safety check, if for some reason the counting is wrong"
Recount ==
    /\ "receiver" \in online
    /\ num_receiving_files # 0
    /\ \A n \in Num : file_receiving[n].status = "none"
    /\ num_receiving_files' = 0
    /\ UNCHANGED <<bound, senderVars, file_receiving, toReceiver, toSender, conn, online, files, did, ghosts>>
-----------------------------------------------------------------------------
(* The connection: both sides know that it is lost before there is another. *)

Lose ==
    /\ conn
    /\ Counts("losses")
    /\ conn' = FALSE
    /\ toReceiver' = <<>> /\ toSender' = <<>>
    /\ UNCHANGED <<bound, senderVars, receiverVars, online, files, ghosts>>

\* break_files; the counters stay as they are.
break_files(all) == [n \in Num |-> IF all[n].kind # "ftv2" THEN Killed(all[n]) ELSE all[n]]
Broken(all) == {all[n].id : n \in {i \in Num : all[i].status # "none" /\ all[i].kind # "ftv2"}}

Offline(side) ==
    /\ ~conn /\ side \in online
    /\ online' = online \ {side}
    /\ IF side = "sender"
       THEN file_sending' = break_files(file_sending) /\ ended' = ended \cup Broken(file_sending) /\ UNCHANGED file_receiving
       ELSE file_receiving' = break_files(file_receiving) /\ ended' = ended \cup Broken(file_receiving) /\ UNCHANGED file_sending
    /\ UNCHANGED <<bound, num_sending_files, num_receiving_files, toReceiver, toSender, conn, files, did, accepted, reused, bad, whole, told>>

\* The packets that tell the other side that one is online come first.
Reconnect ==
    /\ ~conn /\ online = {}
    /\ conn' = TRUE
    /\ toReceiver' = <<[type |-> "online"]>> /\ toSender' = <<[type |-> "online"]>>
    /\ UNCHANGED <<bound, senderVars, receiverVars, online, files, did, ghosts>>

Online(side) ==
    LET chan == IF side = "sender" THEN toSender ELSE toReceiver
    IN  /\ chan # <<>> /\ Head(chan).type = "online"
        /\ IF side = "sender" THEN toSender' = Tail(chan) /\ UNCHANGED toReceiver ELSE toReceiver' = Tail(chan) /\ UNCHANGED toSender
        /\ online' = online \cup {side}
        /\ UNCHANGED <<bound, senderVars, receiverVars, conn, files, did, ghosts>>

Next ==
    \/ Send
    \/ \E n \in Num :
        \/ SenderPause(n) \/ SenderResume(n) \/ SenderKill(n)
        \/ RequestChunk(n) \/ SendChunk(n) \/ SendEmpty(n) \/ Finish(n) \/ SeekOver(n) \/ SendAgain(n)
        \/ ReceiverAccept(n) \/ ReceiverPause(n) \/ ReceiverKill(n)
        \/ \E position \in 1 .. file_receiving[n].size - 1 : ReceiverSeek(n, position)
        \/ AskAgain(n)
    \/ ControlSender
    \/ ReceiveRequest \/ ControlReceiver \/ ReceiveData
    \/ Recount
    \/ Lose
    \/ \E side \in {"sender", "receiver"} : Offline(side) \/ Online(side)
    \/ Reconnect

Spec == Init /\ [][Next]_vars

\* Handlers and callbacks run, the client gives the chunks it is asked for and accepts
\* the files, counters fire, and after a loss there is a connection again.
Fairness ==
    /\ WF_vars(Send)
    /\ \A n \in Num :
        /\ WF_vars(RequestChunk(n)) /\ WF_vars(SendChunk(n)) /\ WF_vars(SendEmpty(n)) /\ WF_vars(Finish(n))
        /\ WF_vars(SeekOver(n)) /\ WF_vars(SendAgain(n)) /\ WF_vars(ReceiverAccept(n)) /\ WF_vars(AskAgain(n))
    /\ WF_vars(ControlSender) /\ WF_vars(ReceiveRequest) /\ WF_vars(ControlReceiver) /\ WF_vars(ReceiveData)
    /\ \A side \in {"sender", "receiver"} : WF_vars(Offline(side)) /\ WF_vars(Online(side))
    /\ WF_vars(Reconnect)

LiveSpec == Spec /\ Fairness
-----------------------------------------------------------------------------
(* Properties *)

\* The type of the state.
TypeOK ==
    /\ \A n \in Num : \A f \in {file_sending[n], file_receiving[n]} :
        /\ f.status \in {"none", "not_accepted"} \cup Active
        /\ f.pausedBy \subseteq {"us", "other"}
        /\ f.transferred \in 0 .. f.size /\ f.requested \in 0 .. f.size
    /\ num_sending_files \in 0 .. U32 - 1
    /\ num_receiving_files \in 0 .. U32 - 1

Kind(id) == bound.files[id].kind
FileIds == 1 .. 3
IsActive(f) == f.status \in Active

\* A client gets every piece of a file at its place, however packets cross seeks, pauses
\* and losses of the connection (m_handle_packet).  Transfers of other kinds than
\* FILEKIND_FTV2 rely on numbers that are not used again: their data says neither which
\* file it is of nor where it belongs.
DataPlaced == \A id \in bad : reused /\ Kind(id) # "ftv2"

\* The client of the sender is told that a file is done only when the receiver has all of
\* it, unless a side ended the transfer (do_all_filetransfers: friend_received_packet,
\* FILECONTROL_FINISHED).
ToldWhole == ~reused => told \subseteq whole \cup ended

\* Every transfer that is running is counted: do_all_filetransfers, which stops when the
\* count is zero, forgets none, although break_files leaves the count as it is.
SendersServed == num_sending_files >= Cardinality({n \in Num : IsActive(file_sending[n])})

\* As long as all transfers are of FILEKIND_FTV2 the receiver's count is right, so the
\* check for transfers that stand still is made.
ReceiversServed ==
    (\A id \in DOMAIN bound.files : Kind(id) = "ftv2") =>
        num_receiving_files = Cardinality({n \in Num : file_receiving[n].status # "none"})

\* "The initial state of a file transfer is always paused on the receiving side" (tox.h):
\* nothing is sent of a file that the receiver's client did not accept.
SentOnlyAccepted ==
    \A n \in Num : IsActive(file_sending[n]) /\ file_sending[n].kind # "message" => file_sending[n].id \in accepted

\* A transfer of FILEKIND_FTV2 is "not cancelled on going offline" (tox.h): it arrives,
\* whatever is lost.
AllArrived == \A id \in FileIds : files >= id /\ Kind(id) = "ftv2" => id \in whole
EventuallyArrived == <>[]AllArrived
=============================================================================
