-------------------------- MODULE NetchanInvariant --------------------------
(***************************************************************************)
(* The inductive invariant of Netchan.  It says of every message what the  *)
(* packets and the buffers on its way hold: the packets of an end carry    *)
(* whole messages or parts of them, what a receiver has collected is how   *)
(* a message begins, and the acknowledgements only rise.                   *)
(***************************************************************************)
EXTENDS Netchan

CellSeq == Seq((1..MaxMessages) \X Nat)

\* The types of what TypeOK leaves open.
History ==
  /\ net \in [Ends -> SUBSET PacketType]
  /\ unsentBuffer \in [Ends -> CellSeq] /\ fragmentBuffer \in [Ends -> CellSeq]
  /\ sent \in [Ends -> Seq(Messages)]
  /\ got \in [Ends -> Seq([sequence : 1..MaxMessages, message : CellSeq])]

\* The sequence number of a message is its place among those sent.
SentInOrder ==
  \A e \in Ends :
     /\ Len(sent[e]) <= MaxMessages
     /\ \A n \in 1..Len(sent[e]) : \E length \in Lengths : sent[e][n] = Cells(n, length)

\* What is not sent yet is the rest of the last message, and the fragment
\* before it is on its way.
Sending ==
  \A e \in Ends : unsentFragments[e] =>
     /\ unsentBuffer[e] = sent[e][outgoingSequence[e]]
     /\ unsentFragmentStart[e] = 0
          \/ \E q \in net[Peer(e)] : /\ q.sequence = outgoingSequence[e]
                                     /\ q.start + Len(q.data) = unsentFragmentStart[e]

\* An acknowledgement is of a message that its sender has got.
AckedIsGot(e, ack) == /\ ack <= incomingSequence[e]
                      /\ ack = 0 \/ \E i \in DOMAIN got[e] : got[e][i].sequence = ack

\* A packet of an end belongs to a message it has sent.
PacketOf(e, p) == /\ p.sequence <= Len(sent[e])
                  /\ ~p.fragmented => p.data = sent[e][p.sequence]
                  /\ p.fragmented => Tiles(e, p)
                  /\ AckedIsGot(e, p.ack)

Packets == \A e \in Ends : \A p \in net[Peer(e)] : PacketOf(e, p)

\* What is collected of a message is how it begins.
Collecting ==
  \A e \in Ends :
     IF fragmentSequence[e] = 0 THEN fragmentBuffer[e] = <<>>
     ELSE /\ fragmentSequence[e] <= Len(sent[Peer(e)])
          /\ LET message == sent[Peer(e)][fragmentSequence[e]]
                 length  == Len(fragmentBuffer[e])
             IN length <= Len(message) /\ fragmentBuffer[e] = SubSeq(message, 1, length)

\* The acknowledgements rise with the sequence numbers, and what is still to
\* come acknowledges no less than what has come.
AcksRise ==
  \A e \in Ends :
     /\ \A p, q \in net[e] : p.sequence < q.sequence => p.ack <= q.ack
     /\ \A p \in net[e] : incomingSequence[e] < p.sequence => incomingAcknowledged[e] <= p.ack
     /\ incomingAcknowledged[e] <= incomingSequence[Peer(e)]

\* The last message that an end has got is the one it acknowledges.
LastIsAcknowledged == \A e \in Ends : incomingSequence[e] = Channel!LastGot(e)

IInv == /\ TypeOK /\ History /\ SentInOrder /\ Sending /\ Packets
        /\ Collecting /\ AcksRise /\ LastIsAcknowledged
=============================================================================
