----------------------------- MODULE MSTPMaster -----------------------------
(***************************************************************************)
(* The token ring of MS/TP master nodes: MSTP_Master_Node_FSM              *)
(* (src/bacnet/datalink/mstp.c), run by every station of an RS-485 line.   *)
(* An action is one transition of the state machine, under the name the    *)
(* comments of the code give it.                                           *)
(*                                                                         *)
(* A frame is sent and received whole.  A station is normally faster than  *)
(* a tick of its silence timer.  A fault loses or garbles a frame at one   *)
(* receiver, lets a station be late, crashes it, or turns it on while the  *)
(* others wait for a first token.                                          *)
(***************************************************************************)
EXTENDS Integers, Sequences, FiniteSets

CONSTANTS
  Stations,          \* the addresses of the master nodes
  Nmax_master,       \* the highest address polled for a master
  Nmax_info_frames,  \* information frames a station may send per token
  Npoll,             \* tokens between two Poll For Master
  Nretry_token,      \* retries on sending a token
  Tusage_timeout, Treply_delay, Treply_timeout, Tno_token, Tslot,
  Traffic,           \* types of the frames the applications send
  Faults,            \* the kinds of fault that may happen
  MaxFaults,         \* bound on their number
  Broadcast, NoFrame, Invalid

Types == {"TOKEN", "POLL_FOR_MASTER", "REPLY_TO_POLL_FOR_MASTER", "TEST_REQUEST",
          "TEST_RESPONSE", "DATA_EXPECTING_REPLY", "DATA_NOT_EXPECTING_REPLY",
          "REPLY_POSTPONED"}
WithData == {"TEST_REQUEST", "TEST_RESPONSE", "DATA_EXPECTING_REPLY",
             "DATA_NOT_EXPECTING_REPLY"}

ASSUME StationAssumption ==
  /\ Nmax_master \in Nat \ {0}
  /\ Stations \subseteq 0 .. Nmax_master
  /\ Broadcast \notin 0 .. Nmax_master
  /\ Traffic \subseteq WithData
  /\ Faults \subseteq {"late", "lose", "garble", "crash", "stagger"}
  /\ MaxFaults \in Nat

\* Npoll is 50, Nretry_token 1 and Nmax_info_frames 1 unless configured.
ASSUME CountAssumption ==
  /\ Npoll \in Nat \ {0}
  /\ Nretry_token \in Nat
  /\ Nmax_info_frames \in Nat \ {0}

\* 30, 250, 295, 500 and 10 milliseconds.
ASSUME TimeAssumption ==
  /\ {Tusage_timeout, Treply_delay, Treply_timeout, Tno_token, Tslot} \subseteq Nat
  /\ Tusage_timeout < Tno_token /\ Treply_timeout < Tno_token
  /\ Treply_delay < Treply_timeout

VARIABLES
  port,     \* the mstp_port_struct_t of a station
  rx,       \* frames its UART has received and the station not yet looked at
  up,       \* the stations that are on
  faults    \* number of faults so far

vars == <<port, rx, up, faults>>

Addresses == 0 .. Nmax_master
Frame == [type : Types, src : Stations, dst : Addresses \cup {Broadcast}]

\* SilenceTimer stops one past the longest timeout.
MaxSilence == Tno_token + Tslot * (Nmax_master + 1) + 1

States == {"INITIALIZE", "IDLE", "USE_TOKEN", "WAIT_FOR_REPLY", "DONE_WITH_TOKEN",
           "PASS_TOKEN", "NO_TOKEN", "POLL_FOR_MASTER", "ANSWER_DATA_REQUEST"}

\* frame is the frame received with ReceivedValidFrame, or Invalid with
\* ReceivedInvalidFrame; active is EventCount > Nmin_octets.
Port ==
  [master_state : States, Next_Station : Addresses, Poll_Station : Addresses,
   TokenCount : 0 .. Npoll, RetryCount : 0 .. Nretry_token,
   FrameCount : 0 .. Nmax_info_frames, SoleMaster : BOOLEAN, active : BOOLEAN,
   silence : 0 .. MaxSilence, frame : Frame \cup {NoFrame, Invalid}]

MSTP_Init(n) ==
  [master_state |-> "INITIALIZE", Next_Station |-> n, Poll_Station |-> n,
   TokenCount |-> 0, RetryCount |-> 0, FrameCount |-> 0, SoleMaster |-> FALSE,
   active |-> FALSE, silence |-> 0, frame |-> NoFrame]

After(address) == (address + 1) % (Nmax_master + 1)

-----------------------------------------------------------------------------

Step(n, p) ==
  /\ port' = [port EXCEPT ![n] = p]
  /\ UNCHANGED <<rx, up, faults>>

\* RS485_Send_Frame: every other station on the line hears the frame.  A station
\* that sends before it has taken in what is on the line sends over it, and
\* hears nothing of it: the line is half duplex.
Transmit(n, p, type, dst) ==
  LET collides == rx[n] # <<>>
      f == [type |-> type, src |-> n, dst |-> dst]
  IN /\ port' = [port EXCEPT ![n] = [p EXCEPT !.silence = 0]]
     /\ rx' = [m \in Stations |->
                 CASE m \notin up \ {n} -> <<>>
                   [] m \in up \ {n} /\ collides -> <<Invalid>>
                   [] m \in up \ {n} /\ ~ collides -> Append(rx[m], f)]
     /\ UNCHANGED <<up, faults>>

In(n, state) == n \in up /\ port[n].master_state = state

Got(n, type) ==
  /\ port[n].frame \in Frame
  /\ port[n].frame.type = type

ForMe(n) == port[n].frame.dst \in {n, Broadcast}

\* The frame has been dealt with.
Done(n, state) == [port[n] EXCEPT !.master_state = state, !.frame = NoFrame]

-----------------------------------------------------------------------------
(***************************************************************************)
(* MSTP_Receive_Frame_FSM, run while no frame waits for the state machine. *)
(* A frame with data is flagged whoever it is for: with its first octet    *)
(* SKIP_DATA becomes DATA.                                                 *)
(***************************************************************************)

Receive(n) ==
  LET f == Head(rx[n])
      flagged == f = Invalid \/ f.dst \in {n, Broadcast} \/ f.type \in WithData
  IN /\ n \in up
     /\ rx[n] # <<>>
     /\ port[n].frame = NoFrame
     /\ port' = [port EXCEPT ![n] = [@ EXCEPT !.frame = IF flagged THEN f ELSE NoFrame,
                                              !.active = TRUE, !.silence = 0]]
     /\ rx' = [rx EXCEPT ![n] = Tail(@)]
     /\ UNCHANGED <<up, faults>>

-----------------------------------------------------------------------------
(***************************************************************************)
(* INITIALIZE and IDLE.                                                    *)
(***************************************************************************)

DoneInitializing(n) ==
  /\ In(n, "INITIALIZE")
  /\ Step(n, [port[n] EXCEPT !.Next_Station = n, !.Poll_Station = n,
                             !.TokenCount = Npoll, !.SoleMaster = FALSE,
                             !.master_state = "IDLE"])

ReceivedToken(n) ==
  /\ In(n, "IDLE")
  /\ Got(n, "TOKEN") /\ port[n].frame.dst = n
  /\ Step(n, [Done(n, "USE_TOKEN") EXCEPT !.FrameCount = 0, !.SoleMaster = FALSE])

ReceivedPFM(n) ==
  /\ In(n, "IDLE")
  /\ Got(n, "POLL_FOR_MASTER") /\ port[n].frame.dst = n
  /\ Transmit(n, Done(n, "IDLE"), "REPLY_TO_POLL_FOR_MASTER", port[n].frame.src)

ReceivedTestRequest(n) ==
  /\ In(n, "IDLE")
  /\ Got(n, "TEST_REQUEST") /\ ForMe(n)
  /\ Transmit(n, Done(n, "IDLE"), "TEST_RESPONSE", port[n].frame.src)

\* The frame is kept for the reply to be compared with.
ReceivedDataNeedingReply(n) ==
  /\ In(n, "IDLE")
  /\ Got(n, "DATA_EXPECTING_REPLY") /\ port[n].frame.dst = n
  /\ Step(n, [port[n] EXCEPT !.master_state = "ANSWER_DATA_REQUEST"])

\* Any other frame, valid or not.
Ignored(n) ==
  /\ In(n, "IDLE")
  /\ port[n].frame # NoFrame
  /\ port[n].frame # Invalid =>
       /\ port[n].frame.dst = n => port[n].frame.type \notin
            {"TOKEN", "POLL_FOR_MASTER", "TEST_REQUEST", "DATA_EXPECTING_REPLY"}
       /\ port[n].frame.dst = Broadcast => port[n].frame.type # "TEST_REQUEST"
  /\ Step(n, Done(n, "IDLE"))

LostToken(n) ==
  /\ In(n, "IDLE")
  /\ port[n].frame = NoFrame
  /\ port[n].silence >= Tno_token
  /\ Step(n, [Done(n, "NO_TOKEN") EXCEPT !.active = FALSE])

-----------------------------------------------------------------------------
(***************************************************************************)
(* USE_TOKEN and WAIT_FOR_REPLY.                                           *)
(***************************************************************************)

NothingToSend(n) ==
  /\ In(n, "USE_TOKEN")
  /\ Step(n, [port[n] EXCEPT !.FrameCount = Nmax_info_frames,
                             !.master_state = "DONE_WITH_TOKEN"])

Send(n, type, dst) ==
  LET waits == \/ type = "DATA_EXPECTING_REPLY" /\ dst # Broadcast
               \/ type = "TEST_REQUEST"
  IN /\ In(n, "USE_TOKEN")
     /\ Transmit(n, [port[n] EXCEPT
                       !.FrameCount = @ + 1,
                       !.master_state = IF waits THEN "WAIT_FOR_REPLY"
                                                 ELSE "DONE_WITH_TOKEN"],
                 type, dst)

ReplyTimeout(n) ==
  /\ In(n, "WAIT_FOR_REPLY")
  /\ port[n].silence >= Treply_timeout
  /\ Step(n, [port[n] EXCEPT !.FrameCount = Nmax_info_frames,
                             !.master_state = "DONE_WITH_TOKEN"])

InvalidFrame(n) ==
  /\ In(n, "WAIT_FOR_REPLY")
  /\ port[n].silence < Treply_timeout
  /\ port[n].frame = Invalid
  /\ Step(n, Done(n, "DONE_WITH_TOKEN"))

Replies == {"REPLY_POSTPONED", "TEST_RESPONSE", "DATA_NOT_EXPECTING_REPLY"}

\* A reply, or an unexpected frame, which drops the token.
ReceivedReply(n) ==
  /\ In(n, "WAIT_FOR_REPLY")
  /\ port[n].silence < Treply_timeout
  /\ port[n].frame \in Frame
  /\ Step(n, Done(n, IF port[n].frame.dst = n /\ port[n].frame.type \in Replies
                       THEN "DONE_WITH_TOKEN" ELSE "IDLE"))

-----------------------------------------------------------------------------
(***************************************************************************)
(* DONE_WITH_TOKEN: send another frame, pass the token or look for a new   *)
(* master.  The guards are those of the code's if ... else if chain.       *)
(***************************************************************************)

PollForMaster(n, p, address) ==
  Transmit(n, [p EXCEPT !.Poll_Station = address, !.RetryCount = 0,
                        !.master_state = "POLL_FOR_MASTER"],
           "POLL_FOR_MASTER", address)

PassToken(n, p) ==
  Transmit(n, [p EXCEPT !.RetryCount = 0, !.active = FALSE,
                        !.master_state = "PASS_TOKEN"],
           "TOKEN", p.Next_Station)

SendAnotherFrame(n) ==
  /\ In(n, "DONE_WITH_TOKEN")
  /\ port[n].FrameCount < Nmax_info_frames
  /\ Step(n, [port[n] EXCEPT !.master_state = "USE_TOKEN"])

LastFrameSent(n) == In(n, "DONE_WITH_TOKEN") /\ port[n].FrameCount >= Nmax_info_frames

NextStationUnknown(n) ==
  /\ LastFrameSent(n)
  /\ ~ port[n].SoleMaster /\ port[n].Next_Station = n
  /\ PollForMaster(n, port[n], After(n))

NextStationKnown(n) ==
  /\ LastFrameSent(n)
  /\ port[n].SoleMaster \/ port[n].Next_Station # n

SoleMaster(n) ==
  /\ NextStationKnown(n)
  /\ port[n].TokenCount < Npoll - 1
  /\ port[n].SoleMaster /\ port[n].Next_Station # After(n)
  /\ Step(n, [port[n] EXCEPT !.FrameCount = 0, !.TokenCount = @ + 1,
                             !.master_state = "USE_TOKEN"])

SendToken(n) ==
  /\ NextStationKnown(n)
  /\ port[n].TokenCount < Npoll - 1
  /\ ~ (port[n].SoleMaster /\ port[n].Next_Station # After(n))
  /\ PassToken(n, [port[n] EXCEPT !.TokenCount = @ + 1])

SoleMasterRestartMaintenancePFM(n) ==
  /\ NextStationKnown(n)
  /\ port[n].TokenCount >= Npoll - 1
  /\ After(port[n].Poll_Station) = port[n].Next_Station
  /\ port[n].SoleMaster
  /\ PollForMaster(n, [port[n] EXCEPT !.Next_Station = n, !.TokenCount = 1],
                   After(port[n].Next_Station))

ResetMaintenancePFM(n) ==
  /\ NextStationKnown(n)
  /\ port[n].TokenCount >= Npoll - 1
  /\ After(port[n].Poll_Station) = port[n].Next_Station
  /\ ~ port[n].SoleMaster
  /\ PassToken(n, [port[n] EXCEPT !.Poll_Station = n, !.TokenCount = 1])

\* Mutant: the poll does not move on to the next address.
SendMaintenancePFM_Stuck(n) ==
  /\ NextStationKnown(n)
  /\ port[n].TokenCount >= Npoll - 1
  /\ After(port[n].Poll_Station) # port[n].Next_Station
  /\ PollForMaster(n, port[n], port[n].Poll_Station)

SendMaintenancePFM(n) ==
  /\ NextStationKnown(n)
  /\ port[n].TokenCount >= Npoll - 1
  /\ After(port[n].Poll_Station) # port[n].Next_Station
  /\ PollForMaster(n, port[n], After(port[n].Poll_Station))

-----------------------------------------------------------------------------
(***************************************************************************)
(* PASS_TOKEN and NO_TOKEN.                                                *)
(***************************************************************************)

SawTokenUser(n) ==
  /\ In(n, "PASS_TOKEN")
  /\ port[n].silence <= Tusage_timeout /\ port[n].active
  /\ Step(n, [port[n] EXCEPT !.master_state = "IDLE"])

RetrySendToken(n) ==
  /\ In(n, "PASS_TOKEN")
  /\ port[n].silence > Tusage_timeout /\ port[n].RetryCount < Nretry_token
  /\ Transmit(n, [port[n] EXCEPT !.RetryCount = @ + 1, !.active = FALSE],
              "TOKEN", port[n].Next_Station)

FindNewSuccessor(n) ==
  /\ In(n, "PASS_TOKEN")
  /\ port[n].silence > Tusage_timeout /\ port[n].RetryCount >= Nretry_token
  /\ PollForMaster(n, [port[n] EXCEPT !.Next_Station = n, !.TokenCount = 0],
                   After(port[n].Next_Station))

\* Mutants: every station takes the first slot; a station that misses its slot
\* waits for ever.
MyTurn_NoSlot(n) == port[n].silence >= Tno_token
MyTurn_OnlyOnce(n) ==
  port[n].silence >= Tno_token + Tslot * n /\ port[n].silence < Tno_token + Tslot * (n + 1)

\* May the station create a token?  In its own time slot, or after all slots.
MyTurn(n) ==
  \/ port[n].silence >= Tno_token + Tslot * n
     /\ port[n].silence < Tno_token + Tslot * (n + 1)
  \/ port[n].silence > Tno_token + Tslot * (Nmax_master + 1)

SawFrame(n) ==
  /\ In(n, "NO_TOKEN")
  /\ ~ MyTurn(n) /\ port[n].active
  /\ Step(n, [port[n] EXCEPT !.master_state = "IDLE"])

GenerateToken(n) ==
  /\ In(n, "NO_TOKEN")
  /\ MyTurn(n)
  /\ PollForMaster(n, [port[n] EXCEPT !.Next_Station = n, !.TokenCount = 0], After(n))

-----------------------------------------------------------------------------
(***************************************************************************)
(* POLL_FOR_MASTER and ANSWER_DATA_REQUEST.                                *)
(***************************************************************************)

ReceivedReplyToPFM(n) ==
  /\ In(n, "POLL_FOR_MASTER")
  /\ Got(n, "REPLY_TO_POLL_FOR_MASTER") /\ port[n].frame.dst = n
  /\ PassToken(n, [port[n] EXCEPT !.SoleMaster = FALSE, !.Poll_Station = n,
                                  !.Next_Station = port[n].frame.src,
                                  !.TokenCount = 0, !.frame = NoFrame])

\* An unexpected frame drops the token.
ReceivedUnexpectedFrame(n) ==
  /\ In(n, "POLL_FOR_MASTER")
  /\ port[n].frame \in Frame
  /\ ~ (Got(n, "REPLY_TO_POLL_FOR_MASTER") /\ port[n].frame.dst = n)
  /\ Step(n, Done(n, "IDLE"))

NoReply(n) ==
  /\ In(n, "POLL_FOR_MASTER")
  /\ port[n].frame \notin Frame
  /\ port[n].silence > Tusage_timeout \/ port[n].frame = Invalid

SoleMasterPolled(n) ==
  /\ NoReply(n) /\ port[n].SoleMaster
  /\ Step(n, [Done(n, "USE_TOKEN") EXCEPT !.FrameCount = 0])

DoneWithPFM(n) ==
  /\ NoReply(n) /\ ~ port[n].SoleMaster
  /\ port[n].Next_Station # n
  /\ PassToken(n, [port[n] EXCEPT !.frame = NoFrame])

SendNextPFM(n) ==
  /\ NoReply(n) /\ ~ port[n].SoleMaster
  /\ port[n].Next_Station = n
  /\ After(port[n].Poll_Station) # n
  /\ PollForMaster(n, [port[n] EXCEPT !.frame = NoFrame], After(port[n].Poll_Station))

DeclareSoleMaster(n) ==
  /\ NoReply(n) /\ ~ port[n].SoleMaster
  /\ port[n].Next_Station = n
  /\ After(port[n].Poll_Station) = n
  /\ Step(n, [Done(n, "USE_TOKEN") EXCEPT !.SoleMaster = TRUE, !.FrameCount = 0])

\* MSTP_Get_Reply has the reply of the application.
Reply(n) ==
  /\ In(n, "ANSWER_DATA_REQUEST")
  /\ Transmit(n, Done(n, "IDLE"), "DATA_NOT_EXPECTING_REPLY", port[n].frame.src)

DeferredReply(n) ==
  /\ In(n, "ANSWER_DATA_REQUEST")
  /\ port[n].silence > Treply_delay
  /\ Transmit(n, Done(n, "IDLE"), "REPLY_POSTPONED", port[n].frame.src)

-----------------------------------------------------------------------------
(***************************************************************************)
(* The stations together.                                                  *)
(***************************************************************************)

\* What dlmstp_master_fsm_task finds to do without the application.
Prompt(n) ==
  \/ Receive(n)
  \/ DoneInitializing(n)
  \/ ReceivedToken(n) \/ ReceivedPFM(n) \/ ReceivedTestRequest(n)
  \/ ReceivedDataNeedingReply(n) \/ Ignored(n) \/ LostToken(n)
  \/ NothingToSend(n)
  \/ ReplyTimeout(n) \/ InvalidFrame(n) \/ ReceivedReply(n)
  \/ SendAnotherFrame(n) \/ NextStationUnknown(n) \/ SoleMaster(n) \/ SendToken(n)
  \/ SoleMasterRestartMaintenancePFM(n) \/ ResetMaintenancePFM(n)
  \/ SendMaintenancePFM(n)
  \/ SawTokenUser(n) \/ RetrySendToken(n) \/ FindNewSuccessor(n)
  \/ SawFrame(n) \/ GenerateToken(n)
  \/ ReceivedReplyToPFM(n) \/ ReceivedUnexpectedFrame(n) \/ SoleMasterPolled(n)
  \/ DoneWithPFM(n) \/ SendNextPFM(n) \/ DeclareSoleMaster(n)
  \/ DeferredReply(n)

Application(n) ==
  \/ \E type \in Traffic, dst \in (Stations \ {n}) \cup {Broadcast} : Send(n, type, dst)
  \/ Reply(n)

\* Is there something to do at once?  (The guards of Prompt.)
Due(n) ==
  LET p == port[n] IN
  \/ rx[n] # <<>> /\ p.frame = NoFrame
  \/ p.master_state \in {"INITIALIZE", "USE_TOKEN", "DONE_WITH_TOKEN"}
  \/ p.master_state = "IDLE" /\ (p.frame # NoFrame \/ p.silence >= Tno_token)
  \/ /\ p.master_state = "WAIT_FOR_REPLY"
     /\ p.frame # NoFrame \/ p.silence >= Treply_timeout
  \/ p.master_state = "PASS_TOKEN" /\ (p.silence > Tusage_timeout \/ p.active)
  \/ p.master_state = "NO_TOKEN" /\ (MyTurn(n) \/ p.active)
  \/ /\ p.master_state = "POLL_FOR_MASTER"
     /\ p.frame # NoFrame \/ p.silence > Tusage_timeout
  \/ p.master_state = "ANSWER_DATA_REQUEST" /\ p.silence > Treply_delay

Elapse ==
  /\ port' = [n \in Stations |->
                [port[n] EXCEPT !.silence = IF n \in up /\ @ < MaxSilence THEN @ + 1 ELSE @]]
  /\ UNCHANGED <<rx, up>>

\* A tick of the silence timers.
Tick ==
  /\ \A n \in up : ~ Due(n)
  /\ Elapse
  /\ UNCHANGED faults

Fault(kind) ==
  /\ kind \in Faults
  /\ faults < MaxFaults
  /\ faults' = faults + 1

\* The stations that may send of their own accord, and the tokens on their way.
Holders == {n \in up : port[n].master_state \in
                         {"USE_TOKEN", "WAIT_FOR_REPLY", "DONE_WITH_TOKEN",
                          "POLL_FOR_MASTER"}}
IsToken(f, n) == f \in Frame /\ f.type = "TOKEN" /\ f.dst = n
Passed == {n \in up : \/ IsToken(port[n].frame, n)
                      \/ \E i \in 1 .. Len(rx[n]) : IsToken(rx[n][i], n)}

\* A station is turned on.  While others still wait for a first token its
\* silence timer runs behind theirs and the time slots of NO_TOKEN overlap,
\* which counts as a fault.
PowerOn(n) ==
  /\ n \notin up
  /\ IF up # {} /\ Holders \cup Passed = {} THEN Fault("stagger") ELSE UNCHANGED faults
  /\ up' = up \cup {n}
  /\ port' = [port EXCEPT ![n] = MSTP_Init(n)]
  /\ UNCHANGED rx

\* A tick comes before a station has done what is due.
Late ==
  /\ Fault("late")
  /\ \E n \in up : Due(n)
  /\ Elapse

\* A frame does not reach a station, or reaches it with errors.
Lose(n) ==
  /\ Fault("lose")
  /\ rx[n] # <<>>
  /\ rx' = [rx EXCEPT ![n] = Tail(@)]
  /\ UNCHANGED <<port, up>>

Garble(n) ==
  /\ Fault("garble")
  /\ rx[n] # <<>>
  /\ rx' = [rx EXCEPT ![n][1] = Invalid]
  /\ UNCHANGED <<port, up>>

Crash(n) ==
  /\ Fault("crash")
  /\ n \in up
  /\ up' = up \ {n}
  /\ rx' = [rx EXCEPT ![n] = <<>>]
  /\ port' = [port EXCEPT ![n] = MSTP_Init(n)]

Init ==
  /\ port = [n \in Stations |-> MSTP_Init(n)]
  /\ rx = [n \in Stations |-> <<>>]
  /\ up \in SUBSET Stations
  /\ faults = 0

Next ==
  \/ \E n \in Stations : \/ Prompt(n) \/ Application(n) \/ PowerOn(n)
                         \/ Lose(n) \/ Garble(n) \/ Crash(n)
  \/ Tick
  \/ Late

Spec == Init /\ [][Next]_vars

\* The task of every station runs for ever, and so does time.
Fairness ==
  /\ \A n \in Stations : WF_vars(Prompt(n))
  /\ WF_vars(Tick)

FairSpec == Spec /\ Fairness

-----------------------------------------------------------------------------
(***************************************************************************)
(* Properties.                                                             *)
(***************************************************************************)

\* The fields of the ports keep their types: the counters stay in their
\* ranges and the addresses under Nmax_master.
MSTPTypeOK ==
  /\ port \in [Stations -> Port]
  /\ \A n \in Stations : rx[n] \in Seq(Frame \cup {Invalid})
  /\ up \subseteq Stations
  /\ faults \in 0 .. MaxFaults

\* There is one token: no two stations hold it, whichever stations start and
\* whenever others join the ring, and also when frames are garbled: a station
\* that hears an invalid frame knows that another one is sending.  The time
\* slots of NO_TOKEN and the waiting of PASS_TOKEN and POLL_FOR_MASTER are there
\* for it.  (Frames that are not heard at all may lead to a second token.)
OneToken == MSTPTypeOK /\ Cardinality(Holders) + Cardinality(Passed) <= 1

\* The master that follows a station among those turned on.
Successor(n) ==
  CHOOSE m \in up :
    \A k \in up : (m - n - 1) % (Nmax_master + 1) <= (k - n - 1) % (Nmax_master + 1)

\* The ring forms, and forms again after a garbled frame: in the end every
\* station that is on knows the next master (itself, if it is alone), however
\* late it was turned on.  (A lost frame, a late station or a crash may leave two
\* sole masters, which may poll over each other in step for ever.)
RingForms == <>[] \A n \in up : port[n].Next_Station = Successor(n)

\* A station that stays on gets the token again and again, whatever was lost
\* before: the token is regenerated, a new master polled for and found.
TokenReturns == \A n \in Stations : <>[] (n \in up) => []<> In(n, "USE_TOKEN")
=============================================================================
