------------------------------- MODULE Netchan -------------------------------
(***************************************************************************)
(* A pair of netchans (src/source/common/net_chan.cpp) over a network that *)
(* loses, duplicates and reorders packets.  A message that does not fit    *)
(* into a packet is sent in fragments, one by one; they are put together   *)
(* only if they arrive in order, and nothing is sent again.                *)
(*                                                                         *)
(* A message is a sequence of cells, each of which says which message it   *)
(* is from and where it stood there.  Compression is left out.             *)
(***************************************************************************)
EXTENDS Naturals, Sequences, FiniteSets

CONSTANTS FragmentSize,   \* FRAGMENT_SIZE
          Lengths,        \* lengths of messages
          MaxMessages     \* bound: messages sent by each end

ASSUME FragmentSizeAssumption == FragmentSize \in Nat \ {0}
ASSUME LengthsAssumption      == Lengths \subseteq Nat
ASSUME MaxMessagesAssumption  == MaxMessages \in Nat

Ends    == {"client", "server"}
Peer(e) == IF e = "client" THEN "server" ELSE "client"

VARIABLES
  outgoingSequence, incomingSequence, incomingAcknowledged,
  unsentFragments, unsentFragmentStart, unsentBuffer,
  fragmentSequence, fragmentBuffer,
  net,   \* every packet sent to an end: any of them may arrive, at any time and again
  sent,  \* history: the messages sent by an end
  got    \* history: the messages that Netchan_Process has let through

sendVars == <<outgoingSequence, unsentFragments, unsentFragmentStart, unsentBuffer, sent>>
recvVars == <<incomingSequence, incomingAcknowledged, fragmentSequence, fragmentBuffer, got>>
vars     == <<sendVars, recvVars, net>>

\* Netchan_Setup.
Init ==
  /\ outgoingSequence = [e \in Ends |-> 1] /\ incomingSequence = [e \in Ends |-> 0]
  /\ incomingAcknowledged = [e \in Ends |-> 0]
  /\ unsentFragments = [e \in Ends |-> FALSE] /\ unsentFragmentStart = [e \in Ends |-> 0]
  /\ unsentBuffer = [e \in Ends |-> <<>>]
  /\ fragmentSequence = [e \in Ends |-> 0] /\ fragmentBuffer = [e \in Ends |-> <<>>]
  /\ net = [e \in Ends |-> {}]
  /\ sent = [e \in Ends |-> <<>>] /\ got = [e \in Ends |-> <<>>]

Cells(sequence, length) == [i \in 1..length |-> <<sequence, i>>]
Messages == {Cells(n, length) : n \in 1..MaxMessages, length \in Lengths}

-----------------------------------------------------------------------------
(* Sending.                                                                *)

Packet(e, fragmented, start, last, data) ==
  [sequence |-> outgoingSequence[e], ack |-> incomingSequence[e], fragmented |-> fragmented,
   start |-> start, last |-> last, data |-> data]

\* NET_SendPacket may fail.
Sends(e, packet) == net' = [net EXCEPT ![Peer(e)] = @ \cup {packet}]

CeilDiv(a, b) == (a + b - 1) \div b

IsLast_Fits(rest) == rest <= FragmentSize
IsLast(rest)      == rest < FragmentSize

\* The fragments of what is left are made equally long.
FragmentLength(rest) == IF IsLast(rest) THEN rest
                        ELSE CeilDiv(rest, CeilDiv(rest, FragmentSize))

DropAllFragments_SameSequence(e) ==
  /\ unsentFragments' = [unsentFragments EXCEPT ![e] = FALSE]
  /\ UNCHANGED outgoingSequence
\* The rest is not sent, and its sequence number is not used again.
DropAllFragments(e) ==
  /\ unsentFragments' = [unsentFragments EXCEPT ![e] = FALSE]
  /\ outgoingSequence' = [outgoingSequence EXCEPT ![e] = @ + 1]

\* Netchan_TransmitNextFragment, for a message and the place it has come to.
TransmitFragment(e, buffer, start) ==
  LET rest   == Len(buffer) - start
      length == FragmentLength(rest)
      done   == start + length = Len(buffer) /\ length # FragmentSize
  IN \/ /\ Sends(e, Packet(e, TRUE, start, IsLast(rest), SubSeq(buffer, start + 1, start + length)))
        /\ unsentFragmentStart' = [unsentFragmentStart EXCEPT ![e] = start + length]
        /\ unsentFragments' = [unsentFragments EXCEPT ![e] = ~done]
        /\ outgoingSequence' = [outgoingSequence EXCEPT ![e] = IF done THEN @ + 1 ELSE @]
     \/ \* NET_SendPacket fails.
        /\ DropAllFragments(e)
        /\ unsentFragmentStart' = [unsentFragmentStart EXCEPT ![e] = start]
        /\ UNCHANGED net

\* The next fragment, once a frame or in Netchan_PushAllFragments.
TransmitNextFragment(e) ==
  /\ unsentFragments[e]
  /\ TransmitFragment(e, unsentBuffer[e], unsentFragmentStart[e])
  /\ UNCHANGED <<unsentBuffer, sent, recvVars>>

\* Netchan_Transmit.  Its callers push all fragments of the last message out
\* before.
Transmit(e) ==
  /\ ~unsentFragments[e] /\ Len(sent[e]) < MaxMessages
  /\ \E length \in Lengths :
       LET message == Cells(outgoingSequence[e], length)
       IN /\ sent' = [sent EXCEPT ![e] = Append(@, message)]
          /\ \/ /\ length >= FragmentSize
                /\ unsentBuffer' = [unsentBuffer EXCEPT ![e] = message]
                /\ TransmitFragment(e, message, 0)
             \/ /\ length < FragmentSize
                /\ outgoingSequence' = [outgoingSequence EXCEPT ![e] = @ + 1]
                /\ unsentFragmentStart' = [unsentFragmentStart EXCEPT ![e] = 0]
                /\ Sends(e, Packet(e, FALSE, 0, FALSE, message))
                /\ UNCHANGED <<unsentFragments, unsentBuffer>>
  /\ UNCHANGED recvVars

-----------------------------------------------------------------------------
(* Receiving: Netchan_Process.                                             *)

\* "Discard out of order or duplicated packets".
IsNews(e, p) == p.sequence > incomingSequence[e]

Accepts(e, p, message) ==
  /\ incomingSequence' = [incomingSequence EXCEPT ![e] = p.sequence]
  /\ incomingAcknowledged' = [incomingAcknowledged EXCEPT ![e] = p.ack]
  /\ got' = [got EXCEPT ![e] = Append(@, [sequence |-> p.sequence, message |-> message])]

ReceiveWhole(e) ==
  \E p \in net[e] :
     /\ IsNews(e, p) /\ ~p.fragmented
     /\ Accepts(e, p, p.data)
     /\ UNCHANGED <<sendVars, net, fragmentSequence, fragmentBuffer>>

\* What is there of the message that a fragment belongs to.
Collected(e, p) == IF p.sequence = fragmentSequence[e] THEN fragmentBuffer[e] ELSE <<>>

Continues_Anywhere(e, p) == TRUE
Continues(e, p)          == p.start = Len(Collected(e, p))

\* "If we missed a fragment, dump the message", but keep what we have.
DumpFragment(e) ==
  \E p \in net[e] :
     /\ IsNews(e, p) /\ p.fragmented /\ ~Continues(e, p)
     /\ fragmentSequence' = [fragmentSequence EXCEPT ![e] = p.sequence]
     /\ fragmentBuffer' = [fragmentBuffer EXCEPT ![e] = Collected(e, p)]
     /\ UNCHANGED <<sendVars, net, incomingSequence, incomingAcknowledged, got>>

CollectFragment(e) ==
  \E p \in net[e] :
     /\ IsNews(e, p) /\ p.fragmented /\ Continues(e, p) /\ ~p.last
     /\ fragmentSequence' = [fragmentSequence EXCEPT ![e] = p.sequence]
     /\ fragmentBuffer' = [fragmentBuffer EXCEPT ![e] = Collected(e, p) \o p.data]
     /\ UNCHANGED <<sendVars, net, incomingSequence, incomingAcknowledged, got>>

ReceiveLastFragment(e) ==
  \E p \in net[e] :
     /\ IsNews(e, p) /\ p.fragmented /\ Continues(e, p) /\ p.last
     /\ fragmentSequence' = [fragmentSequence EXCEPT ![e] = p.sequence]
     /\ fragmentBuffer' = [fragmentBuffer EXCEPT ![e] = <<>>]
     /\ Accepts(e, p, Collected(e, p) \o p.data)
     /\ UNCHANGED <<sendVars, net>>

-----------------------------------------------------------------------------

Next == \E e \in Ends : \/ Transmit(e) \/ TransmitNextFragment(e)
                        \/ ReceiveWhole(e) \/ DumpFragment(e) \/ CollectFragment(e)
                        \/ ReceiveLastFragment(e)

Spec == Init /\ [][Next]_vars

-----------------------------------------------------------------------------
(* Properties.                                                             *)

PacketType == [sequence : 1..MaxMessages, ack : 0..MaxMessages, fragmented : BOOLEAN,
               start : Nat, last : BOOLEAN, data : Seq((1..MaxMessages) \X Nat)]

\* The types.  A message is sent to its end before the next one begins.
TypeOK ==
  /\ outgoingSequence \in [Ends -> 1..MaxMessages + 1]
  /\ incomingSequence \in [Ends -> 0..MaxMessages]
  /\ incomingAcknowledged \in [Ends -> 0..MaxMessages]
  /\ unsentFragments \in [Ends -> BOOLEAN] /\ unsentFragmentStart \in [Ends -> Nat]
  /\ fragmentSequence \in [Ends -> 0..MaxMessages]
  /\ \A e \in Ends :
       /\ net[e] \subseteq PacketType
       /\ Len(sent[e]) = IF unsentFragments[e] THEN outgoingSequence[e] ELSE outgoingSequence[e] - 1
       /\ unsentFragmentStart[e] <= Len(unsentBuffer[e])

\* A fragment of an end is a part of its message, fits into a packet, starts
\* where another one ends, and is marked exactly if it is the last one, which
\* ends the message.
Tiles(e, p) ==
  LET message == sent[e][p.sequence]
  IN /\ p.start + Len(p.data) <= Len(message)
     /\ p.data = SubSeq(message, p.start + 1, p.start + Len(p.data))
     /\ Len(p.data) <= FragmentSize
     /\ p.last <=> p.start + Len(p.data) = Len(message) /\ Len(p.data) # FragmentSize
     /\ p.start = 0 \/ \E q \in net[Peer(e)] :
                          q.sequence = p.sequence /\ q.start + Len(q.data) = p.start

\* The fragments on their way are a tiling of the messages.
FragmentsTile == \A e \in Ends : \A p \in net[Peer(e)] : p.fragmented => Tiles(e, p)

\* The netchans implement a channel of messages: the acknowledged sequence is
\* one that the peer has really got, it never falls, and messages arrive
\* whole, in order and at most once.
Channel == INSTANCE MessageChannel WITH acked <- incomingAcknowledged
ImplementsMessageChannel == Channel!Spec

\* The comment in Netchan_Process: "get the ack from the very first fragment".
AckOfFirstFragment ==
  [][\A e \in Ends : incomingAcknowledged'[e] # incomingAcknowledged[e] =>
        \E p \in net[e] : /\ p.sequence = incomingSequence'[e] /\ p.start = 0
                          /\ p.ack = incomingAcknowledged'[e]]_vars

\* The types, and that what is on its way are parts of messages.
Inv == TypeOK /\ FragmentsTile
=============================================================================
