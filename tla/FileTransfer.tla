---------------------------- MODULE FileTransfer ----------------------------
(***************************************************************************)
(* The copy of a file between two devices: apps/readfile and               *)
(* apps/writefile, clients that move a file in chunks of one confirmed     *)
(* request each, with the transaction state machine that repeats their     *)
(* requests, against the handlers of AtomicReadFile and AtomicWriteFile    *)
(* and the stream access of the file object (object/bacfile.c).            *)
(*                                                                         *)
(* One run of one of the two programs is modelled, from binding to exit.   *)
(* What stays the same during the run is the record world.  The destination *)
(* file is the local one of readfile and the remote one of writefile; the  *)
(* source does not change while it is copied.                              *)
(*                                                                         *)
(* writefile's arguments for a chunk size and a padding octet, and record   *)
(* access, which neither program asks for, are left out.                   *)
(*                                                                         *)
(* The network loses messages, delays them and, for readfile, reorders     *)
(* them.  Requests and replies of writefile arrive in the order sent.      *)
(***************************************************************************)
EXTENDS TSM, Sequences, SequencesExt

CONSTANTS
  Octets,        \* requestedOctetCount, from the max_apdu of the server
  Worlds,        \* the situations the program is started in
  FTFaults       \* messages lost or overtaken in a behaviour

VARIABLES
  world,         \* app, source, known, local, remote, room
  file,          \* contents of the destination
  client,        \* the variables of main()
  requests,      \* messages on their way to the server
  replies,       \* messages on their way to the client
  ftFaults

ftVars == <<tsmVars, world, file, client, requests, replies, ftFaults>>

(***************************************************************************)
(* A world: which program; the source; whether the server has the file     *)
(* object; whether fopen succeeds at the client and at the server; and how *)
(* many octets of data fit the max_apdu the server announced.              *)
(***************************************************************************)
Reading == world.app = "readfile"

Hole == 0

Longer(m, n) == IF m < n THEN n ELSE m

\* SubSeq that stops at the end of the file, as fread does.
Fread(f, position, count) ==
  SubSeq(f, position + 1, IF position + count < Len(f) THEN position + count ELSE Len(f))

\* fseek and fwrite: a gap beyond the end reads as zeros.
Fwrite(f, position, data) ==
  IF data = <<>> THEN f
  ELSE [i \in 1 .. Longer(Len(f), position + Len(data)) |->
          IF i > position /\ i <= position + Len(data) THEN data[i - position]
          ELSE IF i <= Len(f) THEN f[i] ELSE Hole]

\* Mutant: the file is opened for update wherever the data goes.
Fopen_Update(f, position) == f

\* "wb" at the start of the file, "rb+" further on.
Fopen(f, position) == IF position = 0 THEN <<>> ELSE f

-----------------------------------------------------------------------------
(***************************************************************************)
(* The server: one request is received, executed and answered.             *)
(***************************************************************************)

bacfile_read_stream_data(position) ==
  IF world.remote THEN Fread(world.source, position, Octets) ELSE <<>>

bacfile_write_stream_data(position, data) ==
  IF world.remote THEN Fwrite(Fopen(file, position), position, data) ELSE file

Answer(kind, id, position, data, eof) ==
  [kind |-> kind, id |-> id, pos |-> position, data |-> data, eof |-> eof]

handler_who_is(m) ==
  /\ m.kind = "Who-Is"
  /\ replies' = Append(replies, Answer("I-Am", 0, 0, <<>>, FALSE))
  /\ UNCHANGED file

RefusedObject(m) ==
  /\ m.kind = "request" /\ ~world.known
  /\ replies' = Append(replies, Answer("error", m.id, 0, <<>>, FALSE))
  /\ UNCHANGED file

handler_atomic_read_file(m) ==
  /\ m.kind = "request" /\ world.known /\ Reading
  /\ LET data == bacfile_read_stream_data(m.pdu.pos)
     IN replies' = Append(replies, Answer("ack", m.id, m.pdu.pos, data, Len(data) < Octets))
  /\ UNCHANGED file

handler_atomic_write_file(m) ==
  /\ m.kind = "request" /\ world.known /\ ~Reading
  /\ file' = bacfile_write_stream_data(m.pdu.pos, m.pdu.data)
  /\ replies' = Append(replies, Answer("ack", m.id, m.pdu.pos, <<>>, FALSE))

\* The place in a queue of the next message to arrive: the first or, when
\* readfile is at work, one that overtakes others.
Arrives(queue, i) ==
  /\ i \in 1 .. Len(queue)
  /\ i = 1 \/ (Reading /\ ftFaults > 0)

Overtaking(i) == IF i > 1 THEN ftFaults - 1 ELSE ftFaults

Serve(i) ==
  /\ Arrives(requests, i)
  /\ LET m == requests[i]
     IN \/ handler_who_is(m)
        \/ RefusedObject(m)
        \/ handler_atomic_read_file(m)
        \/ handler_atomic_write_file(m)
  /\ requests' = RemoveAt(requests, i)
  /\ ftFaults' = Overtaking(i)
  /\ UNCHANGED <<tsmVars, world, client>>

-----------------------------------------------------------------------------
(***************************************************************************)
(* The client.  A turn of the main loop receives at most one message, runs *)
(* the transaction timer if the clock has moved on, and then takes one of  *)
(* the branches at its end.                                                *)
(***************************************************************************)

FTInit ==
  /\ TSMInit
  /\ world \in Worlds
  /\ file = world.old
  /\ client = [found |-> FALSE, elapsed |-> 0, position |-> 0, invoke_id |-> 0,
               eof |-> FALSE, error |-> FALSE, exit |-> "running"]
  /\ requests = << [kind |-> "Who-Is", id |-> 0, pdu |-> NoPdu] >>
  /\ replies = <<>>
  /\ ftFaults = FTFaults

NoReply == Answer("none", 0, 0, <<>>, FALSE)

\* AtomicReadFileAckHandler on the client's variables.
AtomicReadFileAckHandler(ack) ==
  LET stored == world.local /\ ack.data # <<>>
  IN [client EXCEPT
        !.position = IF stored THEN ack.pos + Len(ack.data) ELSE @,
        !.eof = @ \/ ack.eof \/ (world.local /\ ack.data = <<>>)]

\* npdu_handler: an answer with another invoke ID changes nothing, an
\* acknowledged write does nothing but end the transaction.
Heard(rx) ==
  CASE rx.kind = "I-Am" -> [client EXCEPT !.found = TRUE]
    [] rx.kind = "error" /\ rx.id = client.invoke_id -> [client EXCEPT !.error = TRUE]
    [] rx.kind = "ack" /\ rx.id = client.invoke_id /\ Reading -> AtomicReadFileAckHandler(rx)
    [] OTHER -> client

\* What the read acknowledgement writes to the local file.
Stored(rx) ==
  IF Reading /\ rx.kind = "ack" /\ rx.id = client.invoke_id /\ world.local
    THEN Fwrite(Fopen(file, rx.pos), rx.pos, rx.data)
    ELSE file

Request(id, pdu) == [kind |-> "request", id |-> id, pdu |-> pdu]

Over(c, list) == c.invoke_id = 0 \/ tsm_invoke_id_free(list, c.invoke_id)

timeout_seconds == APDU_Timeout * APDU_Retries

\* Not yet bound: wait for the I-Am until the time is up.
Unbound(c, list, seconds) ==
  /\ ~c.found
  /\ LET elapsed == c.elapsed + seconds
     IN client' = IF elapsed > timeout_seconds
                    THEN [c EXCEPT !.elapsed = elapsed, !.error = TRUE, !.exit = "failure"]
                    ELSE [c EXCEPT !.elapsed = elapsed]
  /\ TSM_List' = list
  /\ UNCHANGED Current_Invoke_ID

\* The last request has ended and there is none to follow.
Finish(c, list) ==
  /\ c.found /\ Over(c, list)
  /\ c.eof \/ c.error
  /\ client' = [c EXCEPT !.exit = IF c.error THEN "failure" ELSE "success"]
  /\ TSM_List' = list
  /\ UNCHANGED Current_Invoke_ID

\* The last request has ended: the chunk after it.  writefile moves on by the
\* octets it asked to be written; the acknowledgement has moved readfile.
NextPosition(c) ==
  IF ~Reading /\ c.invoke_id # 0 THEN c.position + Octets ELSE c.position

NextChunk(position) ==
  [pos |-> position,
   data |-> IF ~Reading /\ world.local THEN Fread(world.source, position, Octets) ELSE <<>>]

Fits(piece) == Reading \/ Len(piece.data) <= world.room

\* Send_Atomic_..._File_Stream: a request too long for the server is not sent,
\* and its invoke ID is given back.
SendChunk(c, list, again) ==
  LET piece == NextChunk(NextPosition(c))
      id == UnusedID(list, Current_Invoke_ID)
  IN /\ c.found /\ Over(c, list)
     /\ ~c.eof /\ ~c.error
     /\ client' = [c EXCEPT !.position = piece.pos,
                            !.eof = ~Reading /\ Len(piece.data) < Octets,
                            !.invoke_id = IF Fits(piece) THEN id ELSE 0]
     /\ TSM_List' = IF Fits(piece)
                      THEN tsm_set_confirmed_unsegmented_transaction(Reserve(list, id), id, piece)
                      ELSE tsm_free_invoke_id(Reserve(list, id), id)
     /\ Current_Invoke_ID' = Increment(id)
     /\ requests' = again \o IF Fits(piece) THEN <<Request(id, piece)>> ELSE <<>>

\* Mutant: the loop does not ask whether the transaction has failed.
Failed_NotAsked(c, list) == FALSE

Failed(c, list) == tsm_invoke_id_failed(list, c.invoke_id)

\* The retries are exhausted.
GiveUp(c, list) ==
  /\ c.found /\ ~Over(c, list) /\ Failed(c, list)
  /\ TSM_List' = tsm_free_invoke_id(list, c.invoke_id)
  /\ client' = [c EXCEPT !.error = TRUE, !.exit = "failure"]
  /\ UNCHANGED Current_Invoke_ID

\* An answer is awaited.
Await(c, list) ==
  /\ c.found /\ ~Over(c, list) /\ ~Failed(c, list)
  /\ TSM_List' = list
  /\ client' = c
  /\ UNCHANGED Current_Invoke_ID

Loop(i, seconds) ==
  LET rx == IF i = 0 THEN NoReply ELSE replies[i]
      c == Heard(rx)
      freed == IF rx.kind \in {"ack", "error"} THEN tsm_free_invoke_id(TSM_List, rx.id)
                                              ELSE TSM_List
      list == tsm_timer_milliseconds(freed, seconds)
      again == requests \o SetToSeq({Request(freed[s].InvokeID, freed[s].pdu) :
                                       s \in Retransmitted(freed, seconds)})
  IN /\ client.exit = "running"
     /\ i = 0 \/ Arrives(replies, i)
     /\ file' = Stored(rx)
     /\ replies' = IF i = 0 THEN replies ELSE RemoveAt(replies, i)
     /\ ftFaults' = Overtaking(i)
     /\ \/ Unbound(c, list, seconds) /\ requests' = again
        \/ Finish(c, list) /\ requests' = again
        \/ SendChunk(c, list, again)
        \/ GiveUp(c, list) /\ requests' = again
        \/ Await(c, list) /\ requests' = again
     /\ UNCHANGED world

-----------------------------------------------------------------------------

LoseRequest(i) ==
  /\ ftFaults > 0
  /\ requests' = RemoveAt(requests, i)
  /\ ftFaults' = ftFaults - 1
  /\ UNCHANGED <<tsmVars, world, file, client, replies>>

LoseReply(i) ==
  /\ ftFaults > 0
  /\ replies' = RemoveAt(replies, i)
  /\ ftFaults' = ftFaults - 1
  /\ UNCHANGED <<tsmVars, world, file, client, requests>>

\* The program has exited.
Exited ==
  /\ client.exit # "running"
  /\ UNCHANGED ftVars

FTNext ==
  \/ \E i \in 0 .. Len(replies), seconds \in Elapsed : Loop(i, seconds)
  \/ \E i \in 1 .. Len(requests) : Serve(i) \/ LoseRequest(i)
  \/ \E i \in 1 .. Len(replies) : LoseReply(i)
  \/ Exited

\* Time passes while the loop runs; nothing is assumed of the server.
Tick == \E i \in 0 .. Len(replies), seconds \in Elapsed \ {0} : Loop(i, seconds)

FTSpec == FTInit /\ [][FTNext]_ftVars /\ WF_ftVars(Tick)

-----------------------------------------------------------------------------
(***************************************************************************)
(* Properties.                                                             *)
(***************************************************************************)

\* Both files can be opened and a full chunk fits the server's max_apdu.
Workable == world.local /\ world.remote /\ world.room >= Octets

\* A program that exits with success has made a true copy, whatever was lost,
\* repeated or late, and however long the file that was there before: and all
\* along, what lies below the position it has reached is the source's.  The
\* late copy of a first chunk opens the file anew (bacfile_write_stream_data),
\* and a late answer sets readfile back to the position it carries.
CopyIsWhole ==
  Workable =>
    /\ client.exit = "success" => file = world.source
    /\ client.position <= Len(world.source)
    /\ Fread(file, 0, client.position) = Fread(world.source, 0, client.position)

\* The for (;;) of main() is left: each request is answered or runs out of
\* retries, and each answer brings readfile or writefile nearer the end.
TransferEnds == Workable ~> client.exit # "running"
=============================================================================
