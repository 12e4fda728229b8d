-------------------------------- MODULE DCC --------------------------------
(***************************************************************************)
(* Device Communication Control (src/bacnet/dcc.c, h_dcc.c): a peer with   *)
(* the password may disable a device's communication, or only its          *)
(* initiation of messages, for a number of minutes or until further        *)
(* notice.                                                                 *)
(***************************************************************************)
EXTENDS Naturals

CONSTANTS
  Minute,      \* seconds in a minute: 60
  Durations,   \* the timeDuration, in minutes, of the requests received
  Seconds      \* the arguments dcc_timer_seconds is called with

ASSUME DurationAssumption ==
  /\ Minute \in Nat \ {0}
  /\ Durations \subseteq Nat
  /\ Seconds \subseteq Nat \ {0}

VARIABLES
  DCC_Enable_Disable,
  DCC_Time_Duration_Seconds   \* 0 is forever

dccVars == <<DCC_Enable_Disable, DCC_Time_Duration_Seconds>>

CommunicationStates == {"ENABLE", "DISABLE", "DISABLE_INITIATION"}

dcc_communication_enabled == DCC_Enable_Disable = "ENABLE"
dcc_communication_disabled == DCC_Enable_Disable = "DISABLE"
dcc_communication_initiation_disabled == DCC_Enable_Disable = "DISABLE_INITIATION"

\* Is the confirmed service refused a hearing?
apdu_confirmed_dcc_disabled(service) ==
  /\ dcc_communication_disabled
  /\ service \notin {"DEVICE_COMMUNICATION_CONTROL", "REINITIALIZE_DEVICE"}

DCCInit ==
  /\ DCC_Enable_Disable = "ENABLE"
  /\ DCC_Time_Duration_Seconds = 0

\* Mutant: a timer that has run out leaves the device silent.
Timer_NoEnable(seconds) ==
  /\ DCC_Time_Duration_Seconds' = IF DCC_Time_Duration_Seconds > seconds
                                    THEN DCC_Time_Duration_Seconds - seconds
                                    ELSE 0
  /\ UNCHANGED DCC_Enable_Disable

dcc_timer_seconds(seconds) ==
  /\ DCC_Time_Duration_Seconds' = IF DCC_Time_Duration_Seconds > seconds
                                    THEN DCC_Time_Duration_Seconds - seconds
                                    ELSE 0
  /\ DCC_Enable_Disable' = IF DCC_Time_Duration_Seconds \in 1 .. seconds
                             THEN "ENABLE"
                             ELSE DCC_Enable_Disable

dcc_set_status_duration(status, minutes) ==
  /\ DCC_Enable_Disable' = status
  /\ DCC_Time_Duration_Seconds' = IF status = "ENABLE" THEN 0
                                                       ELSE minutes * Minute

\* handler_device_communication_control for a request it accepts.  One that is
\* segmented, malformed, of an unknown state or with a wrong password is
\* answered and changes nothing.
handler_device_communication_control(status, minutes) ==
  /\ ~ apdu_confirmed_dcc_disabled("DEVICE_COMMUNICATION_CONTROL")
  /\ dcc_set_status_duration(status, minutes)

\* handler_reinitialize_device for a cold or warm start, which ends a disable.
handler_reinitialize_device ==
  /\ ~ apdu_confirmed_dcc_disabled("REINITIALIZE_DEVICE")
  /\ dcc_set_status_duration("ENABLE", 0)

DCCNext ==
  \/ \E seconds \in Seconds : dcc_timer_seconds(seconds)
  \/ \E status \in CommunicationStates, minutes \in Durations :
       handler_device_communication_control(status, minutes)
  \/ handler_reinitialize_device

-----------------------------------------------------------------------------

\* The state is one of the three and the time left is a number of seconds.
DCCTypeOK ==
  /\ DCC_Enable_Disable \in CommunicationStates
  /\ DCC_Time_Duration_Seconds \in Nat
=============================================================================
