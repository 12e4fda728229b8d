------------------------------- MODULE Device -------------------------------
(***************************************************************************)
(* A client device at work: the transaction state machine and device       *)
(* communication control composed with the code that issues confirmed      *)
(* requests, the network and the peers that answer.                        *)
(*                                                                         *)
(*  - an application (apps/readprop and the other clients) sends a         *)
(*    request, remembers its invoke ID and polls the TSM with it;          *)
(*  - a notifier (the event notifications of object/nc.c) sends a request  *)
(*    and forgets the invoke ID it was given;                              *)
(*  - the network loses, duplicates, delays and reorders messages.         *)
(*                                                                         *)
(* An invoke ID returns to use only after the other free IDs have had      *)
(* their turn.  With 255 IDs that is longer than a message lives and than  *)
(* an application takes to poll; the few IDs of an instance are kept apart *)
(* by the guard Forgotten.                                                 *)
(***************************************************************************)
EXTENDS TSM, DCC

CONSTANTS
  Apps,          \* applications that poll for the outcome
  Notifiers,     \* senders that do not
  MaxRequests    \* requests each of them issues

Users == Apps \cup Notifiers

ASSUME UsersAssumption ==
  /\ Apps \cap Notifiers = {}
  /\ MaxRequests \in Nat
  /\ Pdus = Users \X (1 .. MaxRequests)

VARIABLES
  Request_Invoke_ID,   \* what each application remembers
  outcome,             \* of its latest request
  issued,              \* number of requests each user has issued
  net,                 \* messages in flight
  served               \* requests a peer has executed (history)

appVars == <<Request_Invoke_ID, outcome, issued>>
vars == <<tsmVars, dccVars, appVars, net, served>>

Message == [kind : {"request", "reply"}, id : InvokeIDs, pdu : Pdus]

RequestOf(slot) == [kind |-> "request", id |-> slot.InvokeID, pdu |-> slot.pdu]

-----------------------------------------------------------------------------

Init ==
  /\ TSMInit
  /\ DCCInit
  /\ Request_Invoke_ID = [a \in Apps |-> 0]
  /\ outcome = [a \in Apps |-> "none"]
  /\ issued = [u \in Users |-> 0]
  /\ net = {}
  /\ served = {}

\* Nothing in flight and no application still refers to the ID.
Forgotten(id) ==
  /\ \A m \in net : m.id # id
  /\ \A a \in Apps : Request_Invoke_ID[a] # id

MaySend(u) ==
  /\ u \in Apps => outcome[u] # "pending"
  /\ issued[u] < MaxRequests
  /\ dcc_communication_enabled
  /\ tsm_transaction_available(TSM_List)
  /\ Forgotten(UnusedID(TSM_List, Current_Invoke_ID))

\* Send_..._Request: reserve an invoke ID, start the transaction, transmit.
\* A request that is not sent (communication disabled, no slot) returns 0 and
\* changes nothing.
Send(u) ==
  LET id == UnusedID(TSM_List, Current_Invoke_ID)
      pdu == <<u, issued[u] + 1>>
  IN /\ MaySend(u)
     /\ TSM_List' = tsm_set_confirmed_unsegmented_transaction(
                      Reserve(TSM_List, id), id, pdu)
     /\ Current_Invoke_ID' = Increment(id)
     /\ net' = net \cup {[kind |-> "request", id |-> id, pdu |-> pdu]}
     /\ issued' = [issued EXCEPT ![u] = @ + 1]
     /\ Request_Invoke_ID' = [a \in Apps |-> IF a = u THEN id
                                                      ELSE Request_Invoke_ID[a]]
     /\ outcome' = [a \in Apps |-> IF a = u THEN "pending" ELSE outcome[a]]
     /\ UNCHANGED <<dccVars, served>>

\* Mutant: the reserved slot of a request that does not fit is not given back.
SendTooLong_Kept(u) ==
  LET id == UnusedID(TSM_List, Current_Invoke_ID)
  IN /\ MaySend(u)
     /\ TSM_List' = Reserve(TSM_List, id)
     /\ Current_Invoke_ID' = Increment(id)
     /\ UNCHANGED <<dccVars, appVars, net, served>>

\* The same for a request longer than the destination accepts.
SendTooLong(u) ==
  LET id == UnusedID(TSM_List, Current_Invoke_ID)
  IN /\ MaySend(u)
     /\ TSM_List' = tsm_free_invoke_id(Reserve(TSM_List, id), id)
     /\ Current_Invoke_ID' = Increment(id)
     /\ UNCHANGED <<dccVars, appVars, net, served>>

\* The poll of the application's main loop.
Poll(a) ==
  /\ outcome[a] = "pending"
  /\ \/ /\ tsm_invoke_id_free(TSM_List, Request_Invoke_ID[a])
        /\ outcome' = [outcome EXCEPT ![a] = "done"]
        /\ UNCHANGED TSM_List
     \/ /\ tsm_invoke_id_failed(TSM_List, Request_Invoke_ID[a])
        /\ TSM_List' = tsm_free_invoke_id(TSM_List, Request_Invoke_ID[a])
        /\ outcome' = [outcome EXCEPT ![a] = "failed"]
  /\ Request_Invoke_ID' = [Request_Invoke_ID EXCEPT ![a] = 0]
  /\ UNCHANGED <<Current_Invoke_ID, dccVars, issued, net, served>>

\* tsm_timer_milliseconds, with the transmissions it makes.
TransactionTimer(milliseconds) ==
  /\ Timer(milliseconds)
  /\ net' = net \cup {RequestOf(TSM_List[i]) :
                        i \in Retransmitted(TSM_List, milliseconds)}
  /\ UNCHANGED <<dccVars, appVars, served>>

\* apdu_handler for a SimpleACK, ComplexACK, Error, Reject or Abort: whatever
\* the source and the service, the invoke ID is freed.
ReceiveReply(m) ==
  /\ m.kind = "reply"
  /\ Free(m.id)
  /\ UNCHANGED <<dccVars, appVars, net, served>>

Control ==
  /\ DCCNext
  /\ UNCHANGED <<tsmVars, appVars, net, served>>

-----------------------------------------------------------------------------
(***************************************************************************)
(* The environment.  A message stays in net until it is lost, so it may be *)
(* delivered late, more than once and in any order.                        *)
(***************************************************************************)

\* A peer executes a request and answers it.
Serve(m) ==
  /\ m.kind = "request"
  /\ served' = served \cup {m.pdu}
  /\ net' = net \cup {[m EXCEPT !.kind = "reply"]}
  /\ UNCHANGED <<tsmVars, dccVars, appVars>>

Lose(m) ==
  /\ net' = net \ {m}
  /\ UNCHANGED <<tsmVars, dccVars, appVars, served>>

Next ==
  \/ \E u \in Users : Send(u) \/ SendTooLong(u)
  \/ \E a \in Apps : Poll(a)
  \/ \E milliseconds \in Elapsed : TransactionTimer(milliseconds)
  \/ Control
  \/ \E m \in net : ReceiveReply(m) \/ Serve(m) \/ Lose(m)

Spec == Init /\ [][Next]_vars

\* The main loop calls the timers and the poll again and again; nothing is
\* assumed of the network or the peers.
FairSpec ==
  /\ Spec
  /\ \A a \in Apps : WF_vars(Poll(a))
  /\ \A milliseconds \in Elapsed : WF_vars(TransactionTimer(milliseconds))
  /\ \A seconds \in Seconds :
       WF_vars(dcc_timer_seconds(seconds) /\ UNCHANGED <<tsmVars, appVars, net, served>>)

-----------------------------------------------------------------------------
(***************************************************************************)
(* Properties.                                                             *)
(***************************************************************************)

\* The types of the composed state.
TypeOK ==
  /\ TSMTypeOK
  /\ DCCTypeOK
  /\ Request_Invoke_ID \in [Apps -> {0} \cup InvokeIDs]
  /\ outcome \in [Apps -> {"none", "pending", "done", "failed"}]
  /\ issued \in [Users -> 0 .. MaxRequests]
  /\ net \subseteq Message
  /\ served \subseteq Pdus

\* An application that finds its invoke ID free takes the request for done
\* (the main loop of readprop).  It is right: a peer executed that very
\* request, in spite of losses, retries, duplicate and late replies, as long as
\* an ID is not used again while messages that carry it live (Forgotten).
DoneMeansServed ==
  \A a \in Apps : outcome[a] = "done" => <<a, issued[a]>> \in served

\* No slot leaks: what an application has reserved is either the request it
\* is polling for, or has been given back on every path of the Send function
\* and of the poll.
NoOrphans ==
  TypeOK /\ \A i \in Slots :
    TSM_List[i].InvokeID # 0 =>
      \/ \E a \in Apps : /\ outcome[a] = "pending"
                         /\ Request_Invoke_ID[a] = TSM_List[i].InvokeID
                         /\ TSM_List[i].pdu = <<a, issued[a]>>
      \/ TSM_List[i].pdu \in Notifiers \X (1 .. MaxRequests)

\* A poll always comes to an end: retries run out even if every message is
\* lost and while communication is disabled.
RequestsResolve ==
  \A a \in Apps : outcome[a] = "pending" ~> outcome[a] # "pending"

Disabling == \E status \in CommunicationStates \ {"ENABLE"}, minutes \in Durations :
               dcc_set_status_duration(status, minutes)

\* A disable for a number of minutes ends by itself, unless it is asked for
\* again and again (dcc_timer_seconds).
DisableEnds ==
  \/ DCC_Time_Duration_Seconds # 0 ~> dcc_communication_enabled
  \/ []<><<Disabling>>_dccVars
=============================================================================
