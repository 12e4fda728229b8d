------------------------ MODULE EventReportingProofs ------------------------
(***************************************************************************)
(* Proofs about intrinsic reporting, for every recipient list, every set   *)
(* of transitions that ask for an acknowledgement and every time delay.    *)
(***************************************************************************)
EXTENDS EventReporting, TLAPS

Acks == [bIsAcked : BOOLEAN, Time_Stamp : Nat]

ERTypes ==
    /\ Present_Value \in Regions /\ Event_State \in States
    /\ Time_Delay \in TimeDelays /\ Remaining_Time_Delay \in Nat
    /\ \E d \in TimeDelays : Remaining_Time_Delay <= d
    /\ Limit_Enable \subseteq {"high", "low"} /\ Event_Enable \subseteq Transitions
    /\ Acked \in [Transitions -> Acks] /\ ackedAt \in [Transitions -> Nat]
    /\ now \in Nat
    /\ told \subseteq [state : States, at : Nat, ack : BOOLEAN]
    /\ lastTold \in [Recipients -> States]

\* The time stamp kept for a transition is that of the last notification that
\* asked for an acknowledgement, until one as late as it is acknowledged.
Covered(n) ==
    LET t == TransitionTo(n.state)
    IN  n.ack => IF Acked[t].bIsAcked THEN ackedAt[t] >= n.at ELSE Acked[t].Time_Stamp >= n.at

ERInv ==
    /\ ERTypes
    /\ \A t \in Transitions : Acked[t].Time_Stamp <= now
    /\ \A n \in told : n.at \in 1 .. now /\ Covered(n)

\* The initial state.
LEMMA ERInitOK == ERInit => ERInv
<1> SUFFICES ASSUME ERInit PROVE ERInv
  OBVIOUS
<1>1. ERTypes
  BY EventAssumption DEF ERInit, ERTypes, Regions, States, Transitions, Acks
<1> QED
  BY <1>1 DEF ERInv, ERInit

\* A transition concerns one of the two kinds.
LEMMA TransitionKind ==
  ASSUME NEW s \in States
  PROVE  TransitionTo(s) \in Transitions
  BY DEF TransitionTo, Transitions

\* The state the value asks for is a state.
LEMMA TargetIsState ==
  ASSUME Event_State \in States
  PROVE  Target \in States
  BY DEF Target, States

\* Whoever is reached is a recipient.
LEMMA ReachedRecipients ==
  ASSUME NEW to, NEW n \in common_reporting_function(to)
  PROVE  n.to \subseteq Recipients /\ n.ackRequired \in BOOLEAN
<1>1. CASE Notification_Class
  <2>1. PICK active \in Reached(to) :
          n = [to |-> active, ackRequired |-> TransitionTo(to) \in Ack_Required]
    BY <1>1 DEF common_reporting_function
  <2>2. active \subseteq Recipients
    BY <2>1 DEF Reached
  <2> QED
    BY <2>1, <2>2
<1>2. CASE ~Notification_Class
  BY <1>2 DEF common_reporting_function
<1> QED
  BY <1>1, <1>2

\* Steps that leave the acknowledgements and what was told alone.
LEMMA SameAcks ==
  ASSUME ERInv, ERTypes', UNCHANGED <<Acked, ackedAt, told>>, now' >= now
  PROVE  ERInv'
<1>1. now \in Nat /\ now' \in Nat
  BY DEF ERInv, ERTypes
<1>2. \A n \in told : n.at \in 1 .. now' /\ Covered(n)'
  BY <1>1 DEF ERInv, Covered
<1>3. \A t \in Transitions : Acked'[t].Time_Stamp <= now'
  BY <1>1 DEF ERInv, ERTypes, Acks
<1> QED
  BY <1>2, <1>3 DEF ERInv

\* The notification of a transition.
LEMMA TransitionOK ==
  ASSUME ERInv, Transition
  PROVE  ERInv'
<1> DEFINE t == TransitionTo(Target)
<1>0. /\ ERTypes /\ Target \in States /\ t \in Transitions /\ now \in Nat /\ now' = now + 1
      /\ Acked \in [Transitions -> Acks] /\ ackedAt \in [Transitions -> Nat]
  BY TargetIsState, TransitionKind DEF ERInv, ERTypes, Transition
<1>1. PICK n \in common_reporting_function(Target) :
        /\ lastTold' = [r \in Recipients |-> IF r \in n.to THEN Target ELSE lastTold[r]]
        /\ told' = IF n.to = {} THEN told
                   ELSE told \cup {[state |-> Target, at |-> now + 1, ack |-> n.ackRequired]}
        /\ Acked' = IF n.ackRequired
                    THEN [Acked EXCEPT ![t] = [bIsAcked |-> FALSE, Time_Stamp |-> now + 1]]
                    ELSE Acked
  BY DEF Transition
<1>2. n.to \subseteq Recipients /\ n.ackRequired \in BOOLEAN
  BY ReachedRecipients
<1> DEFINE new == [state |-> Target, at |-> now + 1, ack |-> n.ackRequired]
<1> HIDE DEF t
<1>3. UNCHANGED <<config, Remaining_Time_Delay, ackedAt>> /\ Event_State' = Target
  BY DEF Transition
<1>4. Acked' \in [Transitions -> Acks]
  BY <1>0, <1>1, <1>2 DEF Acks
<1>5. told' \subseteq told \cup {new} /\ new \in [state : States, at : Nat, ack : BOOLEAN]
  BY <1>0, <1>1, <1>2
<1>6. lastTold' \in [Recipients -> States]
  BY <1>0, <1>1 DEF ERTypes
<1>7. ERTypes'
  BY <1>0, <1>3, <1>4, <1>5, <1>6 DEF ERTypes, config
<1>8. \A u \in Transitions : Acked'[u].Time_Stamp <= now'
  BY <1>0, <1>1 DEF ERInv, Acks
<1>9. ASSUME NEW m \in told' PROVE m.at \in 1 .. now' /\ Covered(m)'
  <2>1. CASE m \in told
    <3>1. m.at \in 1 .. now /\ Covered(m) /\ m.state \in States
      BY <2>1 DEF ERInv, ERTypes
    <3>2. CASE n.ackRequired /\ TransitionTo(m.state) = t
      <4>1. Acked'[t] = [bIsAcked |-> FALSE, Time_Stamp |-> now + 1]
        BY <1>0, <1>1, <3>2
      <4> QED
        BY <1>0, <3>1, <3>2, <4>1 DEF Covered
    <3>3. CASE ~(n.ackRequired /\ TransitionTo(m.state) = t)
      <4>1. Acked'[TransitionTo(m.state)] = Acked[TransitionTo(m.state)]
        BY <1>0, <1>1, <3>1, <3>3, TransitionKind
      <4> QED
        BY <1>0, <1>3, <3>1, <4>1 DEF Covered
    <3> QED
      BY <3>2, <3>3
  <2>2. CASE m = new
    <3>1. n.ackRequired => Acked'[t] = [bIsAcked |-> FALSE, Time_Stamp |-> now + 1]
      BY <1>0, <1>1
    <3> QED
      BY <1>0, <2>2, <3>1 DEF Covered, t
  <2> QED
    BY <1>5, <2>1, <2>2
<1> QED
  BY <1>7, <1>8, <1>9 DEF ERInv

\* An acknowledgement is accepted only if it is as late as the last notification
\* that asked for one (Analog_Input_Alarm_Ack).
LEMMA AlarmAckOK ==
  ASSUME ERInv, NEW n \in told, Alarm_Ack(n)
  PROVE  ERInv'
<1> DEFINE t == TransitionTo(n.state)
<1>0. /\ ERTypes /\ n.at \in Nat /\ t \in Transitions
      /\ Acked \in [Transitions -> Acks] /\ ackedAt \in [Transitions -> Nat]
  BY TransitionKind DEF ERInv, ERTypes
<1>1. /\ ~Acked[t].bIsAcked /\ Acked[t].Time_Stamp <= n.at
      /\ Acked' = [Acked EXCEPT ![t].bIsAcked = TRUE]
      /\ ackedAt' = [ackedAt EXCEPT ![t] = n.at]
      /\ UNCHANGED <<config, Event_State, Remaining_Time_Delay, now, told, lastTold>>
  BY DEF Alarm_Ack
<1> HIDE DEF t
<1>2. /\ Acked' \in [Transitions -> Acks] /\ ackedAt' \in [Transitions -> Nat]
      /\ Acked'[t].bIsAcked /\ ackedAt'[t] = n.at
      /\ \A u \in Transitions : Acked'[u].Time_Stamp = Acked[u].Time_Stamp
      /\ \A u \in Transitions : u # t => Acked'[u] = Acked[u] /\ ackedAt'[u] = ackedAt[u]
  BY <1>0, <1>1 DEF Acks
<1>3. ERTypes'
  BY <1>0, <1>1, <1>2 DEF ERTypes, config
<1>4. ASSUME NEW m \in told PROVE Covered(m)'
  <2>1. Covered(m) /\ TransitionTo(m.state) \in Transitions /\ m.at \in Nat
    BY TransitionKind DEF ERInv, ERTypes
  <2>2. CASE TransitionTo(m.state) = t
    <3>1. m.ack => Acked[t].Time_Stamp >= m.at
      BY <1>1, <2>1, <2>2 DEF Covered
    <3>2. Acked[t].Time_Stamp \in Nat
      BY <1>0 DEF Acks
    <3>3. m.ack => ackedAt'[t] >= m.at
      BY <1>0, <1>1, <1>2, <2>1, <3>1, <3>2
    <3> QED
      BY <1>2, <2>2, <3>3 DEF Covered
  <2>3. CASE TransitionTo(m.state) # t
    BY <1>2, <2>1, <2>3 DEF Covered
  <2> QED
    BY <2>2, <2>3
<1> QED
  BY <1>1, <1>2, <1>3, <1>4 DEF ERInv

\* Every step keeps the invariant.
LEMMA ERStepOK == ERInv /\ [ERNext]_erVars => ERInv'
<1> SUFFICES ASSUME ERInv, [ERNext]_erVars
             PROVE  ERInv'
  OBVIOUS
<1>0. ERTypes /\ now \in Nat
  BY DEF ERInv, ERTypes
<1>1. CASE AckNotification
  <2>1. PICK n \in common_reporting_function(AckToState(Event_State)) :
          lastTold' = [r \in Recipients |->
                         IF r \in n.to THEN AckToState(Event_State) ELSE lastTold[r]]
    BY <1>1 DEF AckNotification
  <2>2. lastTold' \in [Recipients -> States]
    BY <1>0, <2>1 DEF AckToState, ERTypes
  <2>3. ERTypes'
    BY <1>0, <1>1, <2>2 DEF AckNotification, ERTypes, config
  <2> QED
    BY <1>0, <1>1, <2>3, SameAcks DEF AckNotification
<1>2. CASE Delayed
  <2>1. \E d \in TimeDelays : Remaining_Time_Delay' \in Nat /\ Remaining_Time_Delay' <= d
    BY <1>0, <1>2, EventAssumption DEF Delayed, ERTypes
  <2>2. ERTypes'
    BY <1>0, <1>2, <2>1 DEF Delayed, ERTypes, config
  <2> QED
    BY <1>0, <1>2, <2>2, SameAcks DEF Delayed
<1>3. CASE Transition
  BY <1>3, TransitionOK
<1>4. ASSUME NEW n \in told, Alarm_Ack(n)
      PROVE  ERInv'
  BY <1>4, AlarmAckOK
<1>5. ASSUME NEW r \in Regions, Present_Value_Set(r)
      PROVE  ERInv'
  <2>1. ERTypes'
    BY <1>0, <1>5 DEF Present_Value_Set, Change, ERTypes
  <2> QED
    BY <1>0, <1>5, <2>1, SameAcks DEF Present_Value_Set, Change
<1>6. CASE Write_Property
  <2>1. \E d \in TimeDelays : Remaining_Time_Delay' \in Nat /\ Remaining_Time_Delay' <= d
    BY <1>0, <1>6, EventAssumption DEF Write_Property, ERTypes
  <2>2. /\ Time_Delay' \in TimeDelays
        /\ Limit_Enable' \subseteq {"high", "low"} /\ Event_Enable' \subseteq Transitions
    BY <1>0, <1>6 DEF Write_Property, ERTypes
  <2>3. ERTypes'
    BY <1>0, <1>6, <2>1, <2>2 DEF Write_Property, Change, ERTypes
  <2> QED
    BY <1>0, <1>6, <2>3, SameAcks DEF Write_Property, Change
<1>7. CASE Bind
  <2>1. ERTypes'
    BY <1>0, <1>7 DEF Bind, Change, ERTypes
  <2> QED
    BY <1>0, <1>7, <2>1, SameAcks DEF Bind, Change
<1>8. CASE UNCHANGED erVars
  <2>1. ERTypes'
    BY <1>0, <1>8 DEF erVars, ERTypes
  <2> QED
    BY <1>0, <1>8, <2>1, SameAcks DEF erVars
<1> QED
  BY <1>1, <1>2, <1>3, <1>4, <1>5, <1>6, <1>7, <1>8 DEF ERNext, Intrinsic_Reporting

\* The invariant holds throughout.
LEMMA ERInvariant == ERSpec => []ERInv
  BY ERInitOK, ERStepOK, PTL DEF ERSpec

\* The object's state stays well formed: in particular Remaining_Time_Delay, an
\* unsigned counter, is never decremented below zero (Analog_Input_Intrinsic_Reporting).
THEOREM EventTypeOK == ERSpec => []ERTypeOK
<1>1. ERInv => ERTypeOK
  <2> SUFFICES ASSUME ERInv PROVE ERTypeOK
    OBVIOUS
  <2>1. \E d \in TimeDelays : Remaining_Time_Delay \in 0 .. d
    BY EventAssumption DEF ERInv, ERTypes
  <2>2. \A t \in Transitions : Acked[t].bIsAcked \in BOOLEAN /\ Acked[t].Time_Stamp \in 0 .. now
    BY DEF ERInv, ERTypes, Acks
  <2> QED
    BY <2>1, <2>2 DEF ERInv, ERTypes, ERTypeOK
<1> QED
  BY <1>1, ERInvariant, PTL

\* An event that asked for an acknowledgement shows as acknowledged only after it, or
\* a later one of its transition, was acknowledged (Analog_Input_Alarm_Ack).
THEOREM AcknowledgedWasSeen == ERSpec => []NoFalseAck
<1>1. ERInv => NoFalseAck
  BY DEF ERInv, NoFalseAck, Covered
<1> QED
  BY <1>1, ERInvariant, PTL

\* Whatever a recipient is sent tells it the state the object is in when it is sent,
\* also an acknowledgement notification for a state it has left since
\* (Analog_Input_Intrinsic_Reporting).
THEOREM RecipientsToldPresent == ERSpec => TellsPresentState
<1>1. ASSUME [ERNext]_erVars
      PROVE  \A r \in Recipients : lastTold'[r] # lastTold[r] => lastTold'[r] = Event_State'
  <2>1. CASE AckNotification
    BY <2>1 DEF AckNotification, AckToState
  <2>2. CASE Transition
    BY <2>2 DEF Transition
  <2>3. CASE UNCHANGED lastTold
    BY <2>3
  <2> QED
    BY <1>1, <2>1, <2>2, <2>3
    DEF ERNext, Intrinsic_Reporting, Delayed, Alarm_Ack, Present_Value_Set, Write_Property,
        Bind, Change, erVars
<1> QED
  BY <1>1, PTL DEF ERSpec, TellsPresentState
=============================================================================
