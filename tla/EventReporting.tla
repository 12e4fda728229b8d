--------------------------- MODULE EventReporting ---------------------------
(***************************************************************************)
(* Intrinsic reporting of an Analog Input: ai.c (limits, time delay, acks) *)
(* and the distribution of its notifications by nc.c.                      *)
(*                                                                         *)
(* The Present_Value is where it lies with respect to the limits; writing  *)
(* a limit or the deadband moves it as a new value does.  Time stamps are  *)
(* counted in notifications: the object is evaluated once a second, so no  *)
(* two of its notifications have the same one, and the clock is not set    *)
(* back.  The TO-FAULT transition never happens for an Analog Input.       *)
(***************************************************************************)
EXTENDS Integers, FiniteSets

CONSTANTS
    Recipients,       \* Recipient_List of the class: records, see Reachable
    Ack_Required,     \* the transitions that are to be acknowledged
    TimeDelays,       \* the values written to Time_Delay
    MaxChanges        \* how often the value or the configuration changes

Transitions == {"offnormal", "normal"}

States == {"NORMAL", "HIGH_LIMIT", "LOW_LIMIT"}

\* Below Low_Limit; up to Low_Limit + Deadband; clear of both limits; from
\* High_Limit - Deadband; above High_Limit.
Regions == {"low", "lowband", "middle", "highband", "high"}

ASSUME EventAssumption ==
    /\ Ack_Required \subseteq Transitions
    /\ TimeDelays \subseteq Nat /\ TimeDelays # {}
    /\ MaxChanges \in Nat
    /\ \A r \in Recipients :
          /\ r.kind \in {"device", "address"} /\ r.confirmed \in BOOLEAN
          /\ r.transitions \subseteq Transitions

VARIABLES
    Present_Value, Event_State, Time_Delay, Remaining_Time_Delay,
    Limit_Enable, Event_Enable,
    Notification_Class,   \* whether the class it names exists
    Acked,                \* [Transitions -> [bIsAcked, Time_Stamp]]
    Event_Time_Stamps,    \* [Transitions -> Nat]
    bSendAckNotify,
    now,                  \* the date and time
    bound,                \* whether the device recipients' addresses are known
    told,                 \* the event notifications an operator may acknowledge
    lastTold,             \* [Recipients -> the To State last sent to it]
    ackedAt,              \* history: the time stamp last acknowledged, per transition
    changes               \* changes so far

erVars == <<Present_Value, Event_State, Time_Delay, Remaining_Time_Delay, Limit_Enable,
            Event_Enable, Notification_Class, Acked, Event_Time_Stamps, bSendAckNotify,
            now, bound, told, lastTold, ackedAt, changes>>

config == <<Present_Value, Time_Delay, Limit_Enable, Event_Enable, Notification_Class,
            bound, changes>>

TransitionTo(state) == IF state = "NORMAL" THEN "normal" ELSE "offnormal"

-----------------------------------------------------------------------------
(* Notification_Class_common_reporting_function.                           *)

IsRecipientActive(r, to) == TransitionTo(to) \in r.transitions

\* Who is sent the notification.  For an address that wants confirmed
\* notifications the device is looked up with an address that was never set:
\* it may be found or not.
Reached(to) ==
    {active \in SUBSET {r \in Recipients : IsRecipientActive(r, to)} :
        \A r \in Recipients :
            IsRecipientActive(r, to) =>
                /\ r.kind = "device" => (r \in active <=> bound)
                /\ r.kind = "address" /\ ~r.confirmed => r \in active}

\* Notifications go out only if the class exists; if it does not, ackRequired is
\* left as it was on the stack.
common_reporting_function(to) ==
    IF Notification_Class
    THEN {[to |-> active, ackRequired |-> TransitionTo(to) \in Ack_Required] :
             active \in Reached(to)}
    ELSE [to : {{}}, ackRequired : BOOLEAN]

-----------------------------------------------------------------------------
(* Analog_Input_Intrinsic_Reporting.                                       *)

High == "high" \in Limit_Enable

Low == "low" \in Limit_Enable

\* The state the value asks for, given the state the object is in.
Target ==
    CASE Event_State = "NORMAL" /\ Present_Value = "high" /\ High
            /\ "offnormal" \in Event_Enable -> "HIGH_LIMIT"
      [] Event_State = "NORMAL" /\ Present_Value = "low" /\ Low
            /\ "offnormal" \in Event_Enable -> "LOW_LIMIT"
      [] Event_State = "HIGH_LIMIT" /\ Present_Value \in {"low", "lowband", "middle"}
            /\ High /\ "normal" \in Event_Enable -> "NORMAL"
      [] Event_State = "LOW_LIMIT" /\ Present_Value \in {"high", "highband", "middle"}
            /\ Low /\ "normal" \in Event_Enable -> "NORMAL"
      [] OTHER -> Event_State

AckToState(state) == state

AckNotification ==
    /\ bSendAckNotify
    /\ bSendAckNotify' = FALSE
    /\ now' = now + 1
    /\ \E n \in common_reporting_function(AckToState(Event_State)) :
          lastTold' = [r \in Recipients |->
                          IF r \in n.to THEN AckToState(Event_State) ELSE lastTold[r]]
    /\ UNCHANGED <<config, Event_State, Remaining_Time_Delay, Acked, Event_Time_Stamps,
                   told, ackedAt>>

Delayed_Reload ==
    /\ ~bSendAckNotify
    /\ Target = Event_State \/ Remaining_Time_Delay > 0
    /\ Remaining_Time_Delay' = Time_Delay
    /\ UNCHANGED <<config, Event_State, Acked, Event_Time_Stamps, bSendAckNotify, now,
                   told, lastTold, ackedAt>>

Delayed ==
    /\ ~bSendAckNotify
    /\ \/ /\ Target = Event_State
          /\ Remaining_Time_Delay' = Time_Delay
       \/ /\ Target # Event_State
          /\ Remaining_Time_Delay > 0
          /\ Remaining_Time_Delay' = Remaining_Time_Delay - 1
    /\ UNCHANGED <<config, Event_State, Acked, Event_Time_Stamps, bSendAckNotify, now,
                   told, lastTold, ackedAt>>

\* The transition, with the bookkeeping of Event_Time_Stamps and of the
\* acknowledgement it asks for.
Transition_Quiet ==
    /\ ~bSendAckNotify
    /\ Target # Event_State /\ Remaining_Time_Delay = 0
    /\ Event_State' = Target /\ now' = now + 1
    /\ Event_Time_Stamps' = [Event_Time_Stamps EXCEPT ![TransitionTo(Target)] = now + 1]
    /\ \E n \in common_reporting_function(Target) :
          /\ lastTold' = [r \in Recipients |-> IF r \in n.to THEN Target ELSE lastTold[r]]
          /\ told' = IF n.to = {} THEN told
                     ELSE told \cup {[state |-> Target, at |-> now + 1, ack |-> n.ackRequired]}
          /\ Acked' = IF n.ackRequired
                      THEN [Acked EXCEPT ![TransitionTo(Target)].bIsAcked = FALSE] ELSE Acked
    /\ UNCHANGED <<config, Remaining_Time_Delay, bSendAckNotify, ackedAt>>

Transition ==
    /\ ~bSendAckNotify
    /\ Target # Event_State /\ Remaining_Time_Delay = 0
    /\ Event_State' = Target /\ now' = now + 1
    /\ Event_Time_Stamps' = [Event_Time_Stamps EXCEPT ![TransitionTo(Target)] = now + 1]
    /\ \E n \in common_reporting_function(Target) :
          /\ lastTold' = [r \in Recipients |-> IF r \in n.to THEN Target ELSE lastTold[r]]
          /\ told' = IF n.to = {} THEN told
                     ELSE told \cup {[state |-> Target, at |-> now + 1, ack |-> n.ackRequired]}
          /\ Acked' = IF n.ackRequired
                      THEN [Acked EXCEPT ![TransitionTo(Target)] =
                              [bIsAcked |-> FALSE, Time_Stamp |-> now + 1]]
                      ELSE Acked
    /\ UNCHANGED <<config, Remaining_Time_Delay, bSendAckNotify, ackedAt>>

\* Once a second, from Device_local_reporting; nothing at all is done while no
\* limit is enabled.
Intrinsic_Reporting ==
    \/ Limit_Enable = {} /\ UNCHANGED erVars
    \/ Limit_Enable # {} /\ (AckNotification \/ Delayed \/ Transition)

-----------------------------------------------------------------------------
(* AcknowledgeAlarm: Analog_Input_Alarm_Ack.                               *)

\* An acknowledgement names the state and the time stamp of a notification its
\* sender has seen.  A refusal changes nothing.
Alarm_Ack(n) ==
    LET t == TransitionTo(n.state)
    IN  /\ ~Acked[t].bIsAcked
        /\ Acked[t].Time_Stamp <= n.at
        /\ Acked' = [Acked EXCEPT ![t].bIsAcked = TRUE]
        /\ bSendAckNotify' = TRUE
        /\ ackedAt' = [ackedAt EXCEPT ![t] = n.at]
        /\ UNCHANGED <<config, Event_State, Remaining_Time_Delay, Event_Time_Stamps, now,
                       told, lastTold>>

-----------------------------------------------------------------------------
(* The value changes, a property is written, a recipient is bound.         *)

Change ==
    /\ changes < MaxChanges
    /\ changes' = changes + 1
    /\ UNCHANGED <<Event_State, Acked, Event_Time_Stamps, bSendAckNotify, now, told,
                   lastTold, ackedAt>>

Present_Value_Set(r) ==
    /\ Change
    /\ Present_Value' = r
    /\ UNCHANGED <<Time_Delay, Remaining_Time_Delay, Limit_Enable, Event_Enable,
                   Notification_Class, bound>>

Write_Property ==
    /\ Change
    /\ \/ /\ \E d \in TimeDelays : Time_Delay' = d /\ Remaining_Time_Delay' = d
          /\ UNCHANGED <<Limit_Enable, Event_Enable, Notification_Class>>
       \/ /\ Limit_Enable' \in SUBSET {"high", "low"}
          /\ UNCHANGED <<Time_Delay, Remaining_Time_Delay, Event_Enable, Notification_Class>>
       \/ /\ Event_Enable' \in SUBSET Transitions
          /\ UNCHANGED <<Time_Delay, Remaining_Time_Delay, Limit_Enable, Notification_Class>>
       \/ /\ Notification_Class' \in BOOLEAN
          /\ UNCHANGED <<Time_Delay, Remaining_Time_Delay, Limit_Enable, Event_Enable>>
    /\ UNCHANGED <<Present_Value, bound>>

\* An I-Am answers the Who-Is of Notification_Class_find_recipient, or the
\* binding expires.
Bind ==
    /\ Change
    /\ bound' \in BOOLEAN
    /\ UNCHANGED <<Present_Value, Time_Delay, Remaining_Time_Delay, Limit_Enable,
                   Event_Enable, Notification_Class>>

-----------------------------------------------------------------------------

\* Analog_Input_Init, after which the object has been configured.
ERInit ==
    /\ Present_Value = "middle" /\ Event_State = "NORMAL"
    /\ Time_Delay \in TimeDelays /\ Remaining_Time_Delay = Time_Delay
    /\ Limit_Enable = {"high", "low"} /\ Event_Enable = Transitions
    /\ Notification_Class = TRUE /\ bound \in BOOLEAN
    /\ Acked = [t \in Transitions |-> [bIsAcked |-> TRUE, Time_Stamp |-> 0]]
    /\ Event_Time_Stamps = [t \in Transitions |-> 0]
    /\ bSendAckNotify = FALSE
    /\ now = 0 /\ told = {} /\ lastTold = [r \in Recipients |-> "NORMAL"]
    /\ ackedAt = [t \in Transitions |-> 0] /\ changes = 0

ERNext ==
    \/ Intrinsic_Reporting
    \/ \E n \in told : Alarm_Ack(n)
    \/ \E r \in Regions : Present_Value_Set(r)
    \/ Write_Property
    \/ Bind

\* The main loop calls Device_local_reporting every second.
ERFairness == WF_erVars(Intrinsic_Reporting)

ERSpec == ERInit /\ [][ERNext]_erVars /\ ERFairness

-----------------------------------------------------------------------------

\* The object's state is well formed; in particular the remaining delay, an
\* unsigned counter that is decremented, never passes below zero or above the
\* longest delay written.
ERTypeOK ==
    /\ Present_Value \in Regions /\ Event_State \in States
    /\ Time_Delay \in TimeDelays
    /\ \E d \in TimeDelays : Remaining_Time_Delay \in 0 .. d
    /\ Limit_Enable \subseteq {"high", "low"} /\ Event_Enable \subseteq Transitions
    /\ \A t \in Transitions : Acked[t].bIsAcked \in BOOLEAN /\ Acked[t].Time_Stamp \in 0 .. now
    /\ \A n \in told : n.at \in 1 .. now
    /\ lastTold \in [Recipients -> States]

\* An event that asked for an acknowledgement shows as acknowledged only if an
\* operator acknowledged that event or a later one of the same transition: an
\* acknowledgement that arrives late, after the object has left the state and
\* come back to it, is refused by the comparison of time stamps.
NoFalseAck ==
    \A n \in told :
        LET t == TransitionTo(n.state)
        IN  n.ack /\ Acked[t].bIsAcked => ackedAt[t] >= n.at

\* Whatever a recipient is sent, event or acknowledgement notification, tells it
\* the state the object is in when it is sent.
TellsPresentState ==
    [][\A r \in Recipients : lastTold'[r] # lastTold[r] => lastTold'[r] = Event_State']_erVars

\* An out of range value that stays so raises the alarm, whatever the value did
\* before and however many acknowledgement notifications take their turn first.
AlarmRaised ==
    <>[](/\ Present_Value = "high" /\ Limit_Enable = {"high", "low"}
         /\ Event_Enable = Transitions)
        => <>[](Event_State = "HIGH_LIMIT")
=============================================================================
