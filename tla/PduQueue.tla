------------------------------ MODULE PduQueue ------------------------------
(***************************************************************************)
(* What the MS/TP datalink promises of its send queue: PDUs leave in the   *)
(* order they were accepted, each once, except that the reply to the       *)
(* request being answered may leave before the others.                     *)
(***************************************************************************)
EXTENDS Naturals, Sequences

CONSTANTS Pdus, Capacity, IsReply(_)

VARIABLES
  queue,    \* the PDUs accepted and not yet sent
  sent      \* those sent, in order

queueVars == <<queue, sent>>

QInit == queue = <<>> /\ sent = <<>>

Accept ==
  /\ Len(queue) < Capacity
  /\ Len(queue') = Len(queue) + 1
  /\ queue' \in {Append(queue, p) : p \in Pdus}
  /\ UNCHANGED sent

Take(i) ==
  /\ i = 1 \/ IsReply(queue[i])
  /\ sent' = Append(sent, queue[i])
  /\ queue' = SubSeq(queue, 1, i - 1) \o SubSeq(queue, i + 1, Len(queue))

QNext == Accept \/ (\E i \in DOMAIN queue : Take(i))

QSpec == QInit /\ [][QNext]_queueVars
=============================================================================
