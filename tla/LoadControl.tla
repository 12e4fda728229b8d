---------------------------- MODULE LoadControl ----------------------------
(***************************************************************************)
(* Load Control objects, lc.c, and the Analog Outputs they shed at         *)
(* priority 4, ao.c.  Object i controls output i.                          *)
(*                                                                         *)
(* A requested shed level is the value it commands and whether it is the   *)
(* default that cancels a request, for percent, level and amount alike.    *)
(* Time is in minutes.  A Start_Time of wildcards is later than any time,  *)
(* but counts as the epoch when minutes are added to it.                   *)
(***************************************************************************)
EXTENDS Integers, FiniteSetsExt, Sequences, SequencesExt

CONSTANTS
    MAX_LOAD_CONTROLS,
    ShedLevels,        \* requested shed levels: [value, default]
    Durations,         \* values of Shed_Duration
    OutputLevels,      \* levels operators command at other priorities
    LCStartTimes,      \* times written to Start_Time
    LCMaxTime,
    Wildcard           \* the Start_Time of wildcards

ASSUME LoadControlAssumption ==
    /\ MAX_LOAD_CONTROLS \in Nat \ {0}
    /\ LCMaxTime \in Nat /\ LCStartTimes \subseteq 0 .. LCMaxTime
    /\ Durations \subseteq Nat /\ Durations # {}
    /\ OutputLevels \subseteq 0 .. 100
    /\ ShedLevels \subseteq [value : 0 .. 100, default : BOOLEAN]
    /\ \E l \in ShedLevels : l.default
    /\ Wildcard \in Nat /\ Wildcard > LCMaxTime
    /\ \A t \in LCStartTimes, d \in Durations : t + d < LCMaxTime

VARIABLES
    lc,                \* the properties of each object, its state and its output
    Current_Time

lcVars == <<lc, Current_Time>>

Objects == 0 .. MAX_LOAD_CONTROLS - 1

LCStates == {"SHED_INACTIVE", "SHED_REQUEST_PENDING", "SHED_NON_COMPLIANT", "SHED_COMPLIANT"}

AO_LEVEL_NULL == 255

\* The priorities in use: life safety, load control, an operator.
Priorities == {1, 4, 8}

DefaultLevel == CHOOSE l \in ShedLevels : l.default

StartTimes == LCStartTimes \cup {Wildcard}

-----------------------------------------------------------------------------
(* The priority array of an Analog Output.                                 *)

Commanded(ao) == {p \in Priorities : ao[p] # AO_LEVEL_NULL}

Present_Value_Priority(ao) == IF Commanded(ao) = {} THEN 0 ELSE Min(Commanded(ao))

AO_RELINQUISH_DEFAULT == 0

Analog_Output_Present_Value(ao) ==
    IF Commanded(ao) = {} THEN AO_RELINQUISH_DEFAULT ELSE ao[Min(Commanded(ao))]

-----------------------------------------------------------------------------
(* Load_Control_State_Machine, a state at a time: r is the object.         *)

Able_To_Meet_Shed_Request(r) ==
    /\ Present_Value_Priority(r.ao) >= 4
    /\ Analog_Output_Present_Value(r.ao) >= r.requested.value

Ended(r) == r.start = Wildcard \/ r.start + r.duration < Current_Time

Comply(r) ==
    [r EXCEPT !.expected = r.requested, !.actual = r.requested,
              !.ao[4] = r.requested.value, !.state = "SHED_COMPLIANT"]

\* Expected and Actual_Shed_Level take the default level.
Fail(r) ==
    [r EXCEPT !.expected = DefaultLevel, !.actual = DefaultLevel,
              !.state = "SHED_NON_COMPLIANT"]

Request_Pending(r) ==
    LET seen == [r EXCEPT !.request_written = FALSE]
        read == [seen EXCEPT !.start_written = FALSE]
    IN  IF r.request_written /\ r.requested.default
        THEN [seen EXCEPT !.state = "SHED_INACTIVE"]
        ELSE CASE Ended(r) -> [read EXCEPT !.state = "SHED_INACTIVE"]
               [] ~Ended(r) /\ Current_Time < r.start ->
                     [read EXCEPT !.expected = r.requested, !.actual = DefaultLevel]
               [] ~Ended(r) /\ Current_Time > r.start ->
                     IF Able_To_Meet_Shed_Request(r) THEN Comply(read) ELSE Fail(read)
               [] OTHER -> read

Hasty_Non_Compliant(r) ==
    CASE Ended(r) -> [r EXCEPT !.state = "SHED_INACTIVE"]
      [] ~Ended(r) /\ Able_To_Meet_Shed_Request(r) -> Comply(r)
      [] ~Ended(r) /\ (r.request_written \/ r.start_written) ->
            [r EXCEPT !.state = "SHED_REQUEST_PENDING"]
      [] OTHER -> r

Non_Compliant_Waits(r) ==
    CASE r.request_written \/ r.start_written -> [r EXCEPT !.state = "SHED_REQUEST_PENDING"]
      [] ~(r.request_written \/ r.start_written) /\ ~Ended(r)
            /\ Able_To_Meet_Shed_Request(r) -> Comply(r)
      [] OTHER -> r

Non_Compliant(r) ==
    CASE Ended(r) -> [r EXCEPT !.state = "SHED_INACTIVE"]
      [] ~Ended(r) /\ (r.request_written \/ r.start_written) ->
            [r EXCEPT !.state = "SHED_REQUEST_PENDING"]
      [] ~Ended(r) /\ ~(r.request_written \/ r.start_written)
            /\ Able_To_Meet_Shed_Request(r) -> Comply(r)
      [] OTHER -> r

Compliant(r) ==
    CASE Ended(r) -> [r EXCEPT !.ao[4] = AO_LEVEL_NULL, !.state = "SHED_INACTIVE"]
      [] ~Ended(r) /\ (r.request_written \/ r.start_written) ->
            [r EXCEPT !.state = "SHED_REQUEST_PENDING"]
      [] ~Ended(r) /\ ~(r.request_written \/ r.start_written)
            /\ ~Able_To_Meet_Shed_Request(r) -> Fail(r)
      [] OTHER -> r

Inactive(r) ==
    IF r.start_written
    THEN [r EXCEPT !.expected = r.requested, !.actual = DefaultLevel,
                   !.state = "SHED_REQUEST_PENDING"]
    ELSE r

\* The end of a shed clears the Start_Time of object 0, whichever object it is.
Load_Control_State_Machine(all, i) ==
    LET r == all[i]
        next == CASE ~r.enable -> [r EXCEPT !.state = "SHED_INACTIVE"]
                  [] r.enable /\ r.state = "SHED_REQUEST_PENDING" -> Request_Pending(r)
                  [] r.enable /\ r.state = "SHED_NON_COMPLIANT" -> Non_Compliant(r)
                  [] r.enable /\ r.state = "SHED_COMPLIANT" -> Compliant(r)
                  [] OTHER -> Inactive(r)
        stepped == [all EXCEPT ![i] = next]
    IN  IF r.enable /\ r.state = "SHED_COMPLIANT" /\ Ended(r)
        THEN [stepped EXCEPT ![0].start = Wildcard]
        ELSE stepped

-----------------------------------------------------------------------------
(* The steps.                                                              *)

LCInit ==
    /\ lc = [i \in Objects |->
               [state |-> "SHED_INACTIVE", enable |-> TRUE, requested |-> DefaultLevel,
                start |-> Wildcard, duration |-> 0, request_written |-> FALSE,
                start_written |-> FALSE, expected |-> DefaultLevel, actual |-> DefaultLevel,
                ao |-> [p \in Priorities |-> AO_LEVEL_NULL]]]
    /\ Current_Time = 0

Load_Control_State_Machine_Handler ==
    /\ lc' = FoldLeft(Load_Control_State_Machine, lc, [i \in 1 .. MAX_LOAD_CONTROLS |-> i - 1])
    /\ UNCHANGED Current_Time

Minute_Passes ==
    /\ Current_Time < LCMaxTime
    /\ Current_Time' = Current_Time + 1
    /\ UNCHANGED lc

LCWrite(i, r) == lc' = [lc EXCEPT ![i] = r] /\ UNCHANGED Current_Time

Write_Requested_Shed_Level(i, l) ==
    LCWrite(i, [lc[i] EXCEPT !.requested = l, !.request_written = TRUE])

Write_Start(i, t) == LCWrite(i, [lc[i] EXCEPT !.start = t, !.start_written = TRUE])

Write_Shed_Duration(i, d) ==
    LCWrite(i, [lc[i] EXCEPT !.duration = d, !.request_written = TRUE])

Write_Duty_Window(i) == LCWrite(i, [lc[i] EXCEPT !.request_written = TRUE])

Write_LC_Enable(i, b) == LCWrite(i, [lc[i] EXCEPT !.enable = b])

\* An operator commands or relinquishes the output; priority 4 is left to load control.
Write_Analog_Output(i, p, v) == LCWrite(i, [lc[i] EXCEPT !.ao[p] = v])

LCNext ==
    \/ Load_Control_State_Machine_Handler
    \/ Minute_Passes
    \/ \E i \in Objects :
          \/ \E l \in ShedLevels : Write_Requested_Shed_Level(i, l)
          \/ \E t \in StartTimes : Write_Start(i, t)
          \/ \E d \in Durations : Write_Shed_Duration(i, d)
          \/ Write_Duty_Window(i)
          \/ \E b \in BOOLEAN : Write_LC_Enable(i, b)
          \/ \E p \in Priorities \ {4}, v \in OutputLevels \cup {AO_LEVEL_NULL} :
                Write_Analog_Output(i, p, v)

LCFairness ==
    WF_lcVars(Load_Control_State_Machine_Handler) /\ WF_lcVars(Minute_Passes)

LCSpec == LCInit /\ [][LCNext]_lcVars /\ LCFairness

-----------------------------------------------------------------------------
(* Properties.                                                             *)

\* The outputs are commanded with levels they have, and the states, times and shed
\* levels of the objects are ones the code knows.
LCTypeOK ==
    /\ Current_Time \in 0 .. LCMaxTime
    /\ \A i \in Objects :
          /\ lc[i].state \in LCStates
          /\ lc[i].start \in StartTimes /\ lc[i].duration \in Durations \cup {0}
          /\ {lc[i].requested, lc[i].expected, lc[i].actual} \subseteq ShedLevels
          /\ {lc[i].enable, lc[i].request_written, lc[i].start_written} \subseteq BOOLEAN
          /\ \A p \in Priorities : lc[i].ao[p] \in 0 .. 100 \cup {AO_LEVEL_NULL}

\* While an object says it is compliant its output is commanded with the level it reports
\* as Actual_Shed_Level.
CompliantHolds ==
    LCTypeOK /\ \A i \in Objects :
        lc[i].state = "SHED_COMPLIANT" =>
            lc[i].ao[4] = lc[i].actual.value /\ lc[i].expected = lc[i].actual

\* An output is commanded only inside the window of its object's request, by an enabled
\* object that has seen every write to the request: never for a request that was since
\* rewritten, postponed or is over (Load_Control_State_Machine).  And the object that says
\* it complies really commands the level.
ShedsInWindow ==
    []CompliantHolds /\
    [][\A i \in Objects :
         lc'[i].ao[4] # lc[i].ao[4] /\ lc'[i].ao[4] # AO_LEVEL_NULL =>
            /\ lc[i].enable /\ lc[i].start < Current_Time
            /\ Current_Time <= lc[i].start + lc[i].duration
            /\ ~lc'[i].request_written /\ ~lc'[i].start_written
            /\ lc'[i].ao[4] = lc[i].requested.value]_lcVars

\* However requests are written, cancelled and rewritten, no object stays in a shed: it
\* comes back to SHED_INACTIVE (Load_Control_State_Machine).
ShedEnds == \A i \in Objects : []<>(lc[i].state = "SHED_INACTIVE")
============================================================================
