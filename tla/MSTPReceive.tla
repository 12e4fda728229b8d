----------------------------- MODULE MSTPReceive -----------------------------
(***************************************************************************)
(* The octets of MS/TP frames: MSTP_Create_Frame, the line, and            *)
(* MSTP_Receive_Frame_FSM (src/bacnet/datalink/mstp.c) as                  *)
(* dlmstp_master_fsm_task (ports/linux/dlmstp.c) calls it.                 *)
(*                                                                         *)
(* An ordinary octet is <<value>>.  The CRC octets are the octets they     *)
(* cover, so that an error in what a CRC covers is always detected.        *)
(* EventCount, which only MSTP_Master_Node_FSM reads, is left out.         *)
(***************************************************************************)
EXTENDS Integers, Sequences

CONSTANTS
  Frames,           \* the frames that are sent: type, dst, src and data
  This_Station, BroadcastAddress,
  InputBufferSize,
  Noise,            \* octets that errors on the line produce
  MaxDamage,        \* bound on the number of errors on the line
  None

ASSUME ReceiveAssumption ==
  /\ \A f \in Frames : DOMAIN f = {"type", "dst", "src", "data"}
  /\ This_Station # BroadcastAddress
  /\ InputBufferSize \in Nat \ {0}
  /\ MaxDamage \in Nat

VARIABLES
  rcv,       \* the receive part of the mstp_port_struct_t
  late,     \* SilenceTimer > Tframe_abort
  line,     \* the octets that are still to come
  frame,    \* the frame being sent, or sent last
  whole,    \* frame came after a silence, undamaged, and is not handled yet
  damage    \* number of errors so far

rcvVars == <<rcv, late, line, frame, whole, damage>>

Octets(s) == [i \in 1 .. Len(s) |-> <<s[i]>>]
HeaderCRC(octets) == <<"header", octets>>
DataCRC1(octets) == <<"data", 1, octets>>
DataCRC2(octets) == <<"data", 2, octets>>

Header(f) == Octets(<<f.type, f.dst, f.src, Len(f.data) \div 256, Len(f.data) % 256>>)

MSTP_Create_Frame(f) ==
  LET data == Octets(f.data)
  IN Octets(<<85, 255>>) \o Header(f) \o <<HeaderCRC(Header(f))>>
     \o (IF data = <<>> THEN <<>> ELSE data \o <<DataCRC1(data), DataCRC2(data)>>)

-----------------------------------------------------------------------------
(***************************************************************************)
(* MSTP_Receive_Frame_FSM.  header and data are the octets since the       *)
(* preamble and since the header: HeaderCRC and DataCRC have run over      *)
(* them, and their number is Index.  InputBuffer holds the first octets of *)
(* data.                                                                   *)
(***************************************************************************)

MSTP_Init_Receive ==
  [receive_state |-> "IDLE", ReceiveError |-> FALSE, DataRegister |-> None,
   header |-> <<>>, data |-> <<>>,
   ReceivedValidFrame |-> FALSE, ReceivedInvalidFrame |-> FALSE,
   ReceivedValidFrameNotForUs |-> FALSE]

Value(r, i) == r.header[i][1]
ForUs(r) == r.header[2] \in {<<This_Station>>, <<BroadcastAddress>>}
DataLength(r) == 256 * Value(r, 4) + Value(r, 5)
InputBuffer(r) == SubSeq(r.data, 1, IF DataLength(r) < InputBufferSize
                                      THEN DataLength(r) ELSE InputBufferSize)

Idle(r) == [r EXCEPT !.receive_state = "IDLE"]
Bad(r) == [Idle(r) EXCEPT !.ReceivedInvalidFrame = TRUE]
Good(r) == [Idle(r) EXCEPT !.ReceivedValidFrame = TRUE]
NotForUs(r) == [Idle(r) EXCEPT !.ReceivedValidFrameNotForUs = TRUE]

Timeout(r) == IF r.receive_state = "PREAMBLE" THEN Idle(r) ELSE Bad(r)

Error(r) ==
  LET e == [r EXCEPT !.ReceiveError = FALSE]
  IN IF r.receive_state \in {"IDLE", "PREAMBLE"} THEN Idle(e) ELSE Bad(e)

Preamble1(r, o) ==
  IF o = <<85>> THEN [r EXCEPT !.receive_state = "PREAMBLE"] ELSE r

\* Mutant: what follows a header that was cut short is taken for its rest.
Preamble2_HeaderKept(r, o) ==
  CASE o = <<255>> -> [r EXCEPT !.receive_state = "HEADER"]
    [] o = <<85>>  -> r
    [] OTHER       -> Idle(r)

Preamble2(r, o) ==
  CASE o = <<255>> -> [r EXCEPT !.receive_state = "HEADER", !.header = <<>>]
    [] o = <<85>>  -> r
    [] OTHER       -> Idle(r)

\* Index is below 6 in this state.
HeaderOctet(r, o) ==
  IF Len(r.header) < 5
    THEN [r EXCEPT !.header = Append(@, o)]
    ELSE CASE o # HeaderCRC(r.header) -> Bad(r)
           [] o = HeaderCRC(r.header) /\ DataLength(r) = 0 ->
                IF ForUs(r) THEN Good(r) ELSE NotForUs(r)
           [] o = HeaderCRC(r.header) /\ DataLength(r) > 0 ->
                [r EXCEPT !.data = <<>>,
                          !.receive_state = IF ForUs(r) /\ DataLength(r) <= InputBufferSize
                                              THEN "DATA" ELSE "SKIP_DATA"]

\* Mutant: the data CRC is not looked at.
DataOctet_Unchecked(r, o) ==
  IF Len(r.data) <= DataLength(r)
    THEN [r EXCEPT !.data = Append(@, o), !.receive_state = "DATA"]
    ELSE Good(r)

\* Any octet before the last turns SKIP_DATA into DATA.
DataOctet(r, o) ==
  LET octets == SubSeq(r.data, 1, DataLength(r))
      crc == Append(r.data, o)
  IN CASE Len(r.data) <= DataLength(r) ->
            [r EXCEPT !.data = Append(@, o), !.receive_state = "DATA"]
       [] Len(r.data) > DataLength(r) ->
            CASE crc # octets \o <<DataCRC1(octets), DataCRC2(octets)>> -> Bad(r)
              [] r.receive_state = "DATA" -> Good(r)
              [] OTHER -> NotForUs(r)

Octet(r, o) ==
  [CASE r.receive_state = "IDLE"     -> Preamble1(r, o)
     [] r.receive_state = "PREAMBLE" -> Preamble2(r, o)
     [] r.receive_state = "HEADER"   -> HeaderOctet(r, o)
     [] OTHER                        -> DataOctet(r, o)
   EXCEPT !.DataRegister = None]

-----------------------------------------------------------------------------
(***************************************************************************)
(* The task: RS485_Check_UART_Data fetches an octet unless one, or an      *)
(* error, is still there; then the state machine runs.  It does not run    *)
(* while a flag is up.                                                     *)
(***************************************************************************)

MSTP_Receive_Frame_FSM ==
  LET fetches == ~ rcv.ReceiveError /\ rcv.DataRegister = None /\ line # <<>>
      r == IF fetches THEN [rcv EXCEPT !.DataRegister = Head(line)] ELSE rcv
  IN /\ ~ rcv.ReceivedValidFrame /\ ~ rcv.ReceivedInvalidFrame
     /\ line' = IF fetches THEN Tail(line) ELSE line
     /\ \/ /\ late /\ r.receive_state # "IDLE"
           /\ rcv' = Timeout(r)
           /\ UNCHANGED late
        \/ /\ ~ (late /\ r.receive_state # "IDLE")
           /\ r.ReceiveError
           /\ rcv' = Error(r)
           /\ late' = FALSE
        \/ /\ ~ (late /\ r.receive_state # "IDLE")
           /\ ~ r.ReceiveError /\ r.DataRegister # None
           /\ rcv' = Octet(r, r.DataRegister)
           /\ late' = FALSE
     /\ UNCHANGED <<frame, whole, damage>>

\* The node state machine has dealt with the frame.  Nothing lowers
\* ReceivedValidFrameNotForUs.
Handle ==
  /\ rcv.ReceivedValidFrame \/ rcv.ReceivedInvalidFrame
  /\ rcv' = [rcv EXCEPT !.ReceivedValidFrame = FALSE, !.ReceivedInvalidFrame = FALSE]
  /\ whole' = (whole /\ ~ rcv.ReceivedValidFrame)
  /\ UNCHANGED <<late, line, frame, damage>>

-----------------------------------------------------------------------------
(***************************************************************************)
(* The line.                                                               *)
(***************************************************************************)

SendFrame(f) ==
  /\ line = <<>>
  /\ line' = MSTP_Create_Frame(f)
  /\ frame' = f
  /\ whole' = (late /\ ~ rcv.ReceivedValidFrame /\ rcv.DataRegister = None)
  /\ UNCHANGED <<rcv, late, damage>>

\* Nothing is heard for more than Tframe_abort: between frames, or within one
\* when the sender or this station is held up.
Silence ==
  /\ ~ late
  /\ late' = TRUE
  /\ whole' = FALSE
  /\ UNCHANGED <<rcv, line, frame, damage>>

Damaged ==
  /\ damage < MaxDamage
  /\ damage' = damage + 1
  /\ whole' = FALSE
  /\ UNCHANGED <<late, frame>>

\* An octet is lost, changed, put in front, or received with an error.
LoseOctet == line # <<>> /\ line' = Tail(line) /\ Damaged /\ UNCHANGED rcv
GarbleOctet(o) == line # <<>> /\ line' = <<o>> \o Tail(line) /\ Damaged /\ UNCHANGED rcv
InsertOctet(o) == line' = <<o>> \o line /\ Damaged /\ UNCHANGED rcv
FramingError ==
  /\ line # <<>>
  /\ line' = Tail(line)
  /\ rcv' = [rcv EXCEPT !.ReceiveError = TRUE]
  /\ Damaged

RcvInit ==
  /\ rcv = MSTP_Init_Receive
  /\ late = FALSE
  /\ line = <<>>
  /\ frame \in Frames
  /\ whole = FALSE
  /\ damage = 0

RcvNext ==
  \/ MSTP_Receive_Frame_FSM \/ Handle
  \/ \E f \in Frames : SendFrame(f)
  \/ Silence \/ LoseOctet \/ FramingError
  \/ \E o \in Noise : GarbleOctet(<<o>>) \/ InsertOctet(<<o>>)

RcvSpec == RcvInit /\ [][RcvNext]_rcvVars

-----------------------------------------------------------------------------
(***************************************************************************)
(* Properties.                                                             *)
(***************************************************************************)

\* The state machine counts right: a header never has more than the five octets
\* its CRC covers, and the data of a frame never more than the length in the
\* header and one octet of the CRC, whatever octets come.
ReceiveTypeOK ==
  /\ rcv.receive_state \in {"IDLE", "PREAMBLE", "HEADER", "DATA", "SKIP_DATA"}
  /\ Len(rcv.header) \in 0 .. 5
  /\ rcv.receive_state \in {"DATA", "SKIP_DATA"} =>
       /\ Len(rcv.header) = 5
       /\ DataLength(rcv) > 0 /\ Len(rcv.data) <= DataLength(rcv) + 1

\* What is flagged as a valid frame is a frame that was sent: its header and,
\* if it fits InputBuffer, its data are those of one frame, never parts of two
\* and never octets an error has changed.
ValidFrameWasSent ==
  ReceiveTypeOK /\ (rcv.ReceivedValidFrame =>
    \E f \in Frames :
      /\ rcv.header = Header(f)
      /\ Len(f.data) \in 1 .. InputBufferSize => InputBuffer(rcv) = Octets(f.data))

\* The receiver synchronises again: an undamaged frame that comes after a
\* silence is received, whatever state errors had left the receiver in.
FrameAfterSilence ==
  whole /\ line = <<>> /\ rcv.DataRegister = None
        /\ frame.dst \in {This_Station, BroadcastAddress} =>
    rcv.ReceivedValidFrame /\ rcv.header = Header(frame)
=============================================================================
