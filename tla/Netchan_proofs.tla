--------------------------- MODULE Netchan_proofs ---------------------------
(***************************************************************************)
(* Proofs about Netchan for every fragment size, every set of lengths and  *)
(* every number of messages.                                               *)
(***************************************************************************)
EXTENDS NetchanInvariant, SequenceTheorems, TLAPS

USE FragmentSizeAssumption, LengthsAssumption, MaxMessagesAssumption

-----------------------------------------------------------------------------
(* The operators the model is built from.                                  *)

\* There are two ends, and each is the peer of the other one.
LEMMA Peers ==
  ASSUME NEW e \in Ends
  PROVE  /\ Peer(e) \in Ends /\ Peer(e) # e /\ Peer(Peer(e)) = e
         /\ \A f \in Ends : f # e => f = Peer(e) /\ Peer(f) = e
BY DEF Peer, Ends

\* CeilDiv rounds a quotient up, and no further.
LEMMA CeilDivBounds ==
  ASSUME NEW a \in Nat, NEW b \in Nat \ {0}
  PROVE  /\ CeilDiv(a, b) \in Nat
         /\ a <= CeilDiv(a, b) * b
         /\ \A n \in Nat : a <= n * b => CeilDiv(a, b) <= n
<1> DEFINE q == (a + b - 1) \div b
<1>1. a + b - 1 \in Nat
  OBVIOUS
<1>2. q \in Nat /\ b * q <= a + b - 1 /\ a + b - 1 < b * q + b
  BY <1>1
<1> HIDE DEF q
<1>3. a <= q * b
  BY <1>2
<1>4. ASSUME NEW n \in Nat, a <= n * b, n < q PROVE FALSE
  <2>1. n * b + b <= q * b
    BY <1>2, <1>4
  <2>2. b * q = q * b
    BY <1>2
  <2> QED
    BY <1>2, <1>4, <2>1, <2>2
<1> QED
  BY <1>2, <1>3, <1>4 DEF CeilDiv, q

\* A fragment is no longer than FRAGMENT_SIZE or than what is left, and the
\* one marked as the last is the one that takes all and is shorter.
LEMMA FragmentFits ==
  ASSUME NEW rest \in Nat
  PROVE  /\ FragmentLength(rest) \in Nat
         /\ FragmentLength(rest) <= rest /\ FragmentLength(rest) <= FragmentSize
         /\ IsLast(rest) <=> FragmentLength(rest) = rest /\ FragmentLength(rest) # FragmentSize
<1>1. CASE IsLast(rest)
  BY <1>1 DEF IsLast, FragmentLength
<1>2. CASE ~IsLast(rest)
  <2> DEFINE k == CeilDiv(rest, FragmentSize)
  <2>1. rest >= FragmentSize
    BY <1>2 DEF IsLast
  <2>2. k \in Nat /\ rest <= k * FragmentSize
    BY CeilDivBounds
  <2>3. k # 0
    BY <2>1, <2>2
  <2> HIDE DEF k
  <2>4. FragmentSize * k = k * FragmentSize /\ rest <= rest * k
    BY <2>2, <2>3
  <2>5. CeilDiv(rest, k) \in Nat /\ CeilDiv(rest, k) <= FragmentSize /\ CeilDiv(rest, k) <= rest
    BY <2>2, <2>3, <2>4, CeilDivBounds
  <2>6. FragmentLength(rest) = CeilDiv(rest, k)
    BY <1>2 DEF FragmentLength, k
  <2> QED
    BY <1>2, <2>1, <2>5, <2>6
<1> QED
  BY <1>1, <1>2

\* A message is a sequence of cells, of its length.
LEMMA CellsAreSeq ==
  ASSUME NEW n \in 1..MaxMessages, NEW length \in Nat
  PROVE  Cells(n, length) \in CellSeq /\ Len(Cells(n, length)) = length
BY DEF Cells, CellSeq

\* Messages are sequences of cells.
LEMMA MessagesAreSeq == Messages \subseteq CellSeq
BY CellsAreSeq DEF Messages

\* The parts of a sequence up to a place and from there on make the whole.
LEMMA PartsJoin ==
  ASSUME NEW S, NEW s \in Seq(S), NEW a \in 0..Len(s), NEW b \in a..Len(s)
  PROVE  SubSeq(s, 1, a) \o SubSeq(s, a + 1, b) = SubSeq(s, 1, b)
<1> DEFINE left == SubSeq(s, 1, a)  right == SubSeq(s, a + 1, b)  whole == SubSeq(s, 1, b)
<1>0. \A i \in 1..Len(s) : s[i] \in S
  BY ElementOfSeq
<1>1. left \in Seq(S) /\ Len(left) = a /\ \A i \in 1..a : left[i] = s[i]
  BY <1>0
<1>2. right \in Seq(S) /\ Len(right) = b - a /\ \A i \in 1..b - a : right[i] = s[a + i]
  BY <1>0
<1>3. whole \in Seq(S) /\ Len(whole) = b /\ \A i \in 1..b : whole[i] = s[i]
  BY <1>0
<1> HIDE DEF left, right, whole
<1>4. /\ left \o right \in Seq(S) /\ Len(left \o right) = b
      /\ \A i \in 1..b : (left \o right)[i] = IF i <= a THEN left[i] ELSE right[i - a]
  <2>1. /\ left \o right \in Seq(S)
        /\ Len(left \o right) = Len(left) + Len(right)
        /\ \A i \in 1..Len(left) + Len(right) :
              (left \o right)[i] = IF i <= Len(left) THEN left[i] ELSE right[i - Len(left)]
    BY <1>1, <1>2, ConcatProperties
  <2>2. Len(left) = a /\ Len(right) = b - a /\ a + (b - a) = b
    BY <1>1, <1>2
  <2> QED
    BY <2>1, <2>2
<1>5. \A i \in 1..b : (left \o right)[i] = whole[i]
  BY <1>1, <1>2, <1>3, <1>4
<1>6. left \o right = whole
  BY <1>3, <1>4, <1>5, SeqEqual
<1> QED
  BY <1>6 DEF left, right, whole

\* Append keeps what is there.
LEMMA AppendFacts ==
  ASSUME NEW S, NEW s \in Seq(S), NEW x \in S
  PROVE  /\ Append(s, x) \in Seq(S) /\ Append(s, x) # <<>>
         /\ Len(Append(s, x)) = Len(s) + 1 /\ Append(s, x)[Len(Append(s, x))] = x
         /\ DOMAIN s \subseteq DOMAIN Append(s, x)
         /\ \A i \in DOMAIN s : Append(s, x)[i] = s[i]
OBVIOUS

\* A part of a sequence is a sequence of the expected length.
LEMMA PartOf ==
  ASSUME NEW S, NEW s \in Seq(S), NEW a \in Nat, NEW n \in Nat, a + n <= Len(s)
  PROVE  SubSeq(s, a + 1, a + n) \in Seq(S) /\ Len(SubSeq(s, a + 1, a + n)) = n
<1>1. \A i \in 1..Len(s) : s[i] \in S
  BY ElementOfSeq
<1>2. \A i \in a + 1..a + n : s[i] \in S
  <2> SUFFICES ASSUME NEW i \in a + 1..a + n PROVE s[i] \in S
    OBVIOUS
  <2>1. Len(s) \in Nat
    BY LenProperties
  <2> QED
    BY <1>1, <2>1
<1>3. a + 1 \in Int /\ a + n \in Int
  OBVIOUS
<1>4. /\ SubSeq(s, a + 1, a + n) \in Seq(S)
      /\ Len(SubSeq(s, a + 1, a + n)) = IF a + 1 <= a + n THEN a + n - (a + 1) + 1 ELSE 0
  BY <1>2, <1>3, SubSeqProperties
<1> QED
  BY <1>4

-----------------------------------------------------------------------------
(* Sending.                                                                *)

\* Of the messages sent none is forgotten or changed.
SentGrows == \A f \in Ends : /\ Len(sent[f]) <= Len(sent'[f])
                             /\ \A n \in 1..Len(sent[f]) : sent'[f][n] = sent[f][n]

\* A step of the sending half of an end adds the packet p.
Adds(e, p) == /\ net' = [net EXCEPT ![Peer(e)] = @ \cup {p}]
              /\ PacketOf(e, p)'
              /\ p.ack = incomingSequence[e]
              /\ \A q \in net[Peer(e)] : q.sequence <= p.sequence

\* Netchan_Setup establishes the inductive invariant.
LEMMA InitInv == Init => IInv
<1> SUFFICES ASSUME Init PROVE IInv
  OBVIOUS
<1>1. <<>> \in CellSeq /\ Len(<<>>) = 0
  BY DEF CellSeq
<1>2. TypeOK
  BY DEF Init, TypeOK
<1>3. History
  BY <1>1 DEF Init, History
<1>4. \A e \in Ends : net[Peer(e)] = {} /\ net[e] = {}
  BY Peers DEF Init
<1>5. \A e \in Ends : sent[e] = <<>> /\ Len(sent[e]) = 0 /\ 1..0 = {} /\ ~unsentFragments[e]
  BY <1>1 DEF Init
<1>6. SentInOrder /\ Sending
  BY <1>5 DEF SentInOrder, Sending
<1>7. Packets /\ Collecting
  BY <1>4 DEF Init, Packets, Collecting
<1>8. AcksRise /\ LastIsAcknowledged
  BY <1>4, Peers DEF Init, AcksRise, LastIsAcknowledged, Channel!LastGot
<1> QED
  BY <1>2, <1>3, <1>6, <1>7, <1>8 DEF IInv

\* What IInv says of the types of the variables.
LEMMA TypeFacts ==
  ASSUME IInv, NEW e \in Ends
  PROVE  /\ outgoingSequence[e] \in 1..MaxMessages + 1 /\ incomingSequence[e] \in 0..MaxMessages
         /\ incomingAcknowledged[e] \in 0..MaxMessages /\ fragmentSequence[e] \in 0..MaxMessages
         /\ unsentFragments[e] \in BOOLEAN /\ unsentFragmentStart[e] \in Nat
         /\ unsentBuffer[e] \in CellSeq /\ fragmentBuffer[e] \in CellSeq
         /\ sent[e] \in Seq(Messages) /\ Len(sent[e]) \in 0..MaxMessages
         /\ got[e] \in Seq([sequence : 1..MaxMessages, message : CellSeq])
         /\ \A p \in net[e] : p \in PacketType
         /\ \A n \in 1..Len(sent[e]) : sent[e][n] \in CellSeq
<1>1. TypeOK /\ History /\ SentInOrder
  BY DEF IInv
<1>2. sent[e] \in Seq(Messages)
  BY <1>1 DEF History
<1>3. Len(sent[e]) \in 0..MaxMessages
  BY <1>1, <1>2 DEF SentInOrder
<1>4. \A n \in 1..Len(sent[e]) : sent[e][n] \in CellSeq
  BY <1>2, MessagesAreSeq, ElementOfSeq
<1> QED
  BY <1>1, <1>2, <1>3, <1>4 DEF TypeOK, History

\* A packet that is on its way stays what it is.
LEMMA PacketStays ==
  ASSUME IInv, SentGrows, UNCHANGED recvVars, NEW e \in Ends, NEW p \in net[Peer(e)],
         net[Peer(e)] \subseteq net'[Peer(e)], PacketOf(e, p)
  PROVE  PacketOf(e, p)'
<1>1. p.sequence \in 1..MaxMessages /\ p.sequence \in 1..Len(sent[e]) /\ Len(sent[e]) \in Nat
  BY TypeFacts, Peers DEF PacketOf, PacketType
<1>2. p.sequence <= Len(sent'[e]) /\ sent'[e][p.sequence] = sent[e][p.sequence]
  <2>1. sent'[e][p.sequence] = sent[e][p.sequence]
    BY <1>1 DEF SentGrows
  <2>2. Len(sent[e]) <= Len(sent'[e])
    BY DEF SentGrows
  <2>3. Len(sent'[e]) \in Nat
    BY DEF SentGrows
  <2> QED
    BY <1>1, <2>1, <2>2, <2>3
<1>3. p.fragmented => Tiles(e, p)'
  BY <1>2 DEF PacketOf, Tiles
<1>4. AckedIsGot(e, p.ack)'
  BY DEF PacketOf, AckedIsGot, recvVars
<1> QED
  BY <1>2, <1>3, <1>4 DEF PacketOf

\* What an end acknowledges it has got.
LEMMA LastIsGot ==
  ASSUME IInv, NEW e \in Ends
  PROVE  AckedIsGot(e, incomingSequence[e])
<1>1. incomingSequence[e] = Channel!LastGot(e) /\ incomingSequence[e] \in Nat
  BY TypeFacts DEF IInv, LastIsAcknowledged
<1>2. CASE got[e] = <<>>
  BY <1>1, <1>2 DEF Channel!LastGot, AckedIsGot
<1>3. CASE got[e] # <<>>
  <2>1. Len(got[e]) \in DOMAIN got[e]
    BY <1>3, TypeFacts, EmptySeq, LenProperties
  <2> QED
    BY <1>1, <1>3, <2>1 DEF Channel!LastGot, AckedIsGot
<1> QED
  BY <1>2, <1>3

\* A step of the sending half of an end that adds no packet, or a good one.
LEMMA SendStep ==
  ASSUME IInv, NEW e \in Ends, UNCHANGED recvVars, SentGrows,
         TypeOK', History', SentInOrder', Sending',
         net' = net \/ \E p \in PacketType : Adds(e, p)
  PROVE  IInv'
<1>0. TypeOK /\ History /\ Packets /\ Collecting /\ AcksRise /\ LastIsAcknowledged
  BY DEF IInv
<1>1. \A f \in Ends : net[f] \subseteq net'[f]
  BY <1>0 DEF History, Adds
<1>2. \A f \in Ends : \A q \in net'[Peer(f)] : q \in net[Peer(f)] \/ (f = e /\ Adds(e, q))
  BY <1>0, Peers DEF History, Adds
<1>3. Packets'
  <2> SUFFICES ASSUME NEW f \in Ends, NEW q \in net'[Peer(f)] PROVE PacketOf(f, q)'
    BY DEF Packets
  <2>1. CASE q \in net[Peer(f)]
    BY <1>0, <1>1, <2>1, PacketStays, Peers DEF Packets
  <2>2. CASE f = e /\ Adds(e, q)
    BY <2>2 DEF Adds
  <2> QED
    BY <1>2, <2>1, <2>2
<1>4. Collecting'
  <2> SUFFICES ASSUME NEW f \in Ends, fragmentSequence[f] # 0
               PROVE  /\ fragmentSequence[f] <= Len(sent'[Peer(f)])
                      /\ sent'[Peer(f)][fragmentSequence[f]] = sent[Peer(f)][fragmentSequence[f]]
    BY <1>0 DEF Collecting, recvVars
  <2>1. fragmentSequence[f] \in 1..Len(sent[Peer(f)]) /\ Len(sent[Peer(f)]) \in Nat
    BY <1>0, TypeFacts, Peers DEF Collecting
  <2>2. Len(sent[Peer(f)]) <= Len(sent'[Peer(f)]) /\ Len(sent'[Peer(f)]) \in Nat
    BY Peers DEF SentGrows, History
  <2> QED
    BY <2>1, <2>2, Peers DEF SentGrows
<1>5. AcksRise'
  <2> USE DEF recvVars
  <2> SUFFICES ASSUME NEW f \in Ends
               PROVE  /\ \A p, q \in net'[f] : p.sequence < q.sequence => p.ack <= q.ack
                      /\ \A p \in net'[f] : incomingSequence[f] < p.sequence
                                               => incomingAcknowledged[f] <= p.ack
                      /\ incomingAcknowledged[f] <= incomingSequence[Peer(f)]
    BY DEF AcksRise
  <2>1. Peer(f) \in Ends /\ Peer(Peer(f)) = f
    BY Peers
  <2>2. \A q \in net'[f] : /\ q.sequence \in Nat /\ q.ack \in Nat
                           /\ q \in net[f] \/ (Peer(f) = e /\ Adds(e, q))
    BY <1>2, <2>1 DEF History, PacketType
  <2>3. \A p \in net[f] : p \in PacketType /\ p.ack <= incomingSequence[Peer(f)]
    BY <1>0, <2>1, TypeFacts DEF Packets, PacketOf, AckedIsGot
  <2>4. /\ \A p, q \in net[f] : p.sequence < q.sequence => p.ack <= q.ack
        /\ \A p \in net[f] : incomingSequence[f] < p.sequence => incomingAcknowledged[f] <= p.ack
        /\ incomingAcknowledged[f] <= incomingSequence[Peer(f)]
        /\ incomingSequence[Peer(f)] \in Nat
    BY <1>0, <2>1, TypeFacts DEF AcksRise
  <2>5. ASSUME NEW p \in net'[f], NEW q \in net'[f], p.sequence < q.sequence
        PROVE  p.ack <= q.ack
    <3>1. CASE q \in net[f] /\ p \in net[f]
      BY <2>4, <2>5, <3>1
    <3>2. CASE p \notin net[f] /\ q \in net[f]
      <4>1. Peer(f) = e /\ Adds(e, p)
        BY <2>2, <3>2
      <4>2. q.sequence <= p.sequence
        BY <2>1, <3>2, <4>1 DEF Adds
      <4>3. p.sequence \in Nat /\ q.sequence \in Nat
        BY <2>2, <2>5
      <4> QED
        BY <2>5, <4>2, <4>3
    <3>3. CASE q \notin net[f]
      <4>1. Peer(f) = e /\ Adds(e, q)
        BY <2>2, <3>3
      <4>2. q.ack = incomingSequence[Peer(f)]
        BY <4>1 DEF Adds
      <4>3. CASE p \in net[f]
        BY <2>3, <4>2, <4>3
      <4>4. CASE p \notin net[f]
        <5>1. p.ack = incomingSequence[Peer(f)]
          BY <2>2, <4>4 DEF Adds
        <5> QED
          BY <2>4, <4>2, <5>1
      <4> QED
        BY <4>3, <4>4
    <3> QED
      BY <3>1, <3>2, <3>3
  <2>6. ASSUME NEW p \in net'[f], incomingSequence[f] < p.sequence
        PROVE  incomingAcknowledged[f] <= p.ack
    <3>1. CASE p \in net[f]
      BY <2>4, <2>6, <3>1
    <3>2. CASE p \notin net[f]
      <4>1. p.ack = incomingSequence[Peer(f)]
        BY <2>2, <3>2 DEF Adds
      <4> QED
        BY <2>4, <4>1
    <3> QED
      BY <3>1, <3>2
  <2> QED
    BY <2>4, <2>5, <2>6
<1>6. LastIsAcknowledged'
  BY <1>0 DEF LastIsAcknowledged, Channel!LastGot, recvVars
<1> QED
  BY <1>3, <1>4, <1>5, <1>6 DEF IInv

\* Netchan_TransmitNextFragment, for a message that is the last one sent and
\* a place up to which it is on its way.
LEMMA FragmentStep ==
  ASSUME IInv, NEW e \in Ends, NEW buffer \in CellSeq, NEW start \in 0..Len(buffer),
         TransmitFragment(e, buffer, start), UNCHANGED recvVars,
         outgoingSequence[e] <= MaxMessages, Len(sent'[e]) = outgoingSequence[e],
         sent'[e][outgoingSequence[e]] = buffer,
         unsentBuffer' = [unsentBuffer EXCEPT ![e] = buffer],
         sent' \in [Ends -> Seq(Messages)], SentInOrder', SentGrows,
         \A f \in Ends : f # e => sent'[f] = sent[f],
         start = 0 \/ \E q \in net[Peer(e)] : /\ q.sequence = outgoingSequence[e]
                                             /\ q.start + Len(q.data) = start
  PROVE  IInv'
<1> DEFINE rest   == Len(buffer) - start
           length == FragmentLength(rest)
           end    == start + length
           done   == end = Len(buffer) /\ length # FragmentSize
           piece  == SubSeq(buffer, start + 1, end)
<1> PICK p : p = Packet(e, TRUE, start, IsLast(rest), piece)
  OBVIOUS
<1>0. TypeOK /\ History /\ Sending /\ Packets
  BY DEF IInv
<1>1. Len(buffer) \in Nat /\ rest \in Nat /\ start \in Nat
  BY DEF CellSeq
<1>2. /\ length \in Nat /\ length <= rest /\ length <= FragmentSize
      /\ IsLast(rest) <=> length = rest /\ length # FragmentSize
  BY <1>1, FragmentFits
<1>3. piece = SubSeq(buffer, start + 1, end)
  OBVIOUS
<1>4. /\ p.sequence = outgoingSequence[e] /\ p.ack = incomingSequence[e] /\ p.fragmented = TRUE
      /\ p.start = start /\ p.last = IsLast(rest) /\ p.data = piece
      /\ p = [sequence |-> outgoingSequence[e], ack |-> incomingSequence[e], fragmented |-> TRUE,
              start |-> start, last |-> IsLast(rest), data |-> piece]
  BY DEF Packet
<1> HIDE DEF length, piece
<1>5. /\ end \in start..Len(buffer)
      /\ IsLast(rest) <=> done
      /\ piece \in CellSeq /\ Len(piece) = length
  <2>1. end \in start..Len(buffer)
    BY <1>1, <1>2
  <2>2. IsLast(rest) <=> done
    BY <1>1, <1>2
  <2>3. piece \in CellSeq /\ Len(piece) = length
    <3> DEFINE S == (1..MaxMessages) \X Nat
    <3>1. buffer \in Seq(S) /\ CellSeq = Seq(S)
      BY DEF CellSeq
    <3>2. start \in Nat /\ length \in Nat /\ start + length <= Len(buffer)
      BY <1>1, <1>2, <2>1
    <3> HIDE DEF S
    <3>3. /\ SubSeq(buffer, start + 1, start + length) \in Seq(S)
          /\ Len(SubSeq(buffer, start + 1, start + length)) = length
      BY <3>1, <3>2, PartOf
    <3> QED
      BY <1>3, <3>1, <3>3
  <2> QED
    BY <2>1, <2>2, <2>3
<1>6. p \in PacketType
  <2>1. IsLast(rest) \in BOOLEAN
    BY DEF IsLast
  <2>2. outgoingSequence[e] \in 1..MaxMessages /\ incomingSequence[e] \in 0..MaxMessages
    BY TypeFacts
  <2> QED
    BY <1>1, <1>4, <1>5, <2>1, <2>2 DEF PacketType, CellSeq
<1>7. \A q \in net[Peer(e)] : q.sequence <= outgoingSequence[e]
  <2> SUFFICES ASSUME NEW q \in net[Peer(e)] PROVE q.sequence <= outgoingSequence[e]
    OBVIOUS
  <2>1. q.sequence <= Len(sent[e]) /\ q.sequence \in Nat
    BY <1>0, TypeFacts, Peers DEF Packets, PacketOf, PacketType
  <2>2. Len(sent[e]) <= Len(sent'[e]) /\ Len(sent[e]) \in Nat
    BY TypeFacts DEF SentGrows
  <2> QED
    BY <2>1, <2>2, TypeFacts
<1>8. CASE Sends(e, p) /\ /\ unsentFragmentStart' = [unsentFragmentStart EXCEPT ![e] = end]
                        /\ unsentFragments' = [unsentFragments EXCEPT ![e] = ~done]
                        /\ outgoingSequence' = [outgoingSequence EXCEPT
                                                   ![e] = IF done THEN @ + 1 ELSE @]
  <2>1. net' = [net EXCEPT ![Peer(e)] = @ \cup {p}]
    BY <1>8 DEF Sends
  <2>2. p \in net'[Peer(e)] /\ \A f \in Ends : net'[f] \subseteq PacketType /\ net[f] \subseteq net'[f]
    BY <1>0, <1>6, <2>1, Peers DEF History
  <2>3. Tiles(e, p)'
    <3>1. sent'[e][p.sequence] = buffer
      BY <1>4
    <3>2. p.data = SubSeq(buffer, p.start + 1, p.start + Len(p.data)) /\ Len(p.data) <= FragmentSize
      BY <1>2, <1>3, <1>4, <1>5
    <3>3. p.last <=> p.start + Len(p.data) = Len(buffer) /\ Len(p.data) # FragmentSize
      BY <1>4, <1>5
    <3>4. p.start = 0 \/ \E q \in net'[Peer(e)] : q.sequence = p.sequence /\ q.start + Len(q.data) = p.start
      <4>1. net[Peer(e)] \subseteq net'[Peer(e)]
        BY <2>2, Peers
      <4> QED
        BY <1>4, <4>1
    <3>5. p.start + Len(p.data) <= Len(buffer)
      <4>1. end <= Len(buffer) /\ Len(piece) = length
        BY <1>1, <1>5
      <4> QED
        BY <1>4, <4>1
    <3> QED
      BY <3>1, <3>2, <3>3, <3>4, <3>5 DEF Tiles
  <2>4. AckedIsGot(e, p.ack)'
    BY <1>4, LastIsGot DEF AckedIsGot, recvVars
  <2>5. Adds(e, p)
    <3>1. p.sequence <= Len(sent'[e])
      <4>1. outgoingSequence[e] \in Nat
        BY TypeFacts
      <4>2. p.sequence = outgoingSequence[e]
        BY <1>4
      <4>3. outgoingSequence[e] <= outgoingSequence[e]
        BY <4>1
      <4> QED
        BY <4>2, <4>3, Zenon
    <3> QED
      BY <1>4, <1>7, <2>1, <2>3, <2>4, <3>1 DEF Adds, PacketOf
  <2>6. TypeOK'
    <3>1. /\ outgoingSequence' \in [Ends -> 1..MaxMessages + 1]
          /\ unsentFragments' \in [Ends -> BOOLEAN] /\ unsentFragmentStart' \in [Ends -> Nat]
      <4>1. outgoingSequence' \in [Ends -> 1..MaxMessages + 1]
        <5>1. /\ outgoingSequence \in [Ends -> 1..MaxMessages + 1]
              /\ outgoingSequence[e] \in 1..MaxMessages + 1
          BY <1>0 DEF TypeOK
        <5>2. (IF done THEN outgoingSequence[e] + 1 ELSE outgoingSequence[e]) \in 1..MaxMessages + 1
          <6> HIDE DEF done
          <6> QED
            BY <5>1
        <5> HIDE DEF done
        <5> QED
          BY <1>8, <5>1, <5>2
      <4>2. unsentFragments' \in [Ends -> BOOLEAN]
        BY <1>0, <1>1, <1>5, <1>8 DEF TypeOK
      <4>3. unsentFragmentStart' \in [Ends -> Nat]
        BY <1>0, <1>1, <1>5, <1>8 DEF TypeOK
      <4> QED
        BY <4>1, <4>2, <4>3
    <3>2. ASSUME NEW f \in Ends
          PROVE  /\ Len(sent'[f]) = IF unsentFragments'[f] THEN outgoingSequence'[f]
                                                           ELSE outgoingSequence'[f] - 1
                 /\ unsentFragmentStart'[f] <= Len(unsentBuffer'[f])
      <4>1. CASE f = e
        <5>1. /\ unsentFragmentStart'[e] = end /\ unsentBuffer'[e] = buffer
              /\ done => unsentFragments'[e] = FALSE /\ outgoingSequence'[e] = outgoingSequence[e] + 1
              /\ ~done => unsentFragments'[e] = TRUE /\ outgoingSequence'[e] = outgoingSequence[e]
          BY <1>0, <1>8 DEF TypeOK, History
        <5>2. end <= Len(buffer)
          BY <1>1, <1>5
        <5>3. outgoingSequence[e] \in Nat
          BY TypeFacts
        <5>4. CASE done
          BY <4>1, <5>1, <5>2, <5>3, <5>4
        <5>5. CASE ~done
          BY <4>1, <5>1, <5>2, <5>3, <5>5
        <5> QED
          BY <5>4, <5>5
      <4>2. CASE f # e
        <5>1. /\ unsentBuffer'[f] = unsentBuffer[f] /\ sent'[f] = sent[f]
              /\ outgoingSequence'[f] = outgoingSequence[f]
              /\ unsentFragments'[f] = unsentFragments[f]
              /\ unsentFragmentStart'[f] = unsentFragmentStart[f]
          BY <1>0, <1>8, <4>2 DEF TypeOK, History
        <5> QED
          BY <1>0, <5>1 DEF TypeOK
      <4> QED
        BY <4>1, <4>2
    <3> QED
      BY <1>0, <2>2, <3>1, <3>2 DEF TypeOK, recvVars
  <2>7. History'
    BY <1>0, <2>2, <2>1 DEF History, recvVars
  <2>8. Sending'
    <3> SUFFICES ASSUME NEW f \in Ends, unsentFragments'[f]
                 PROVE  /\ unsentBuffer'[f] = sent'[f][outgoingSequence'[f]]
                        /\ unsentFragmentStart'[f] = 0
                             \/ \E q \in net'[Peer(f)] : /\ q.sequence = outgoingSequence'[f]
                                                        /\ q.start + Len(q.data) = unsentFragmentStart'[f]
      BY DEF Sending
    <3>1. CASE f = e
      <4>1. outgoingSequence'[e] = outgoingSequence[e] /\ unsentFragmentStart'[e] = end
        BY <1>0, <1>8, <3>1 DEF TypeOK
      <4> QED
        BY <1>0, <1>4, <1>5, <2>2, <3>1, <4>1 DEF History
    <3>2. CASE f # e
      <4>1. /\ unsentBuffer'[f] = unsentBuffer[f] /\ sent'[f] = sent[f]
            /\ outgoingSequence'[f] = outgoingSequence[f]
            /\ unsentFragments[f] /\ unsentFragmentStart'[f] = unsentFragmentStart[f]
        BY <1>0, <1>8, <3>2 DEF TypeOK, History
      <4>2. net[Peer(f)] \subseteq net'[Peer(f)]
        BY <2>2, Peers
      <4>3. /\ unsentBuffer[f] = sent[f][outgoingSequence[f]]
            /\ unsentFragmentStart[f] = 0
                 \/ \E q \in net[Peer(f)] : /\ q.sequence = outgoingSequence[f]
                                            /\ q.start + Len(q.data) = unsentFragmentStart[f]
        BY <1>0, <4>1 DEF Sending
      <4> QED
        BY <4>1, <4>2, <4>3
    <3> QED
      BY <3>1, <3>2
  <2> QED
    BY <1>6, <2>5, <2>6, <2>7, <2>8, SendStep
<1>9. CASE DropAllFragments(e) /\ net' = net
             /\ unsentFragmentStart' = [unsentFragmentStart EXCEPT ![e] = start]
  <2>1. TypeOK'
    <3>1. /\ outgoingSequence' \in [Ends -> 1..MaxMessages + 1]
          /\ unsentFragments' \in [Ends -> BOOLEAN] /\ unsentFragmentStart' \in [Ends -> Nat]
      <4>1. outgoingSequence' \in [Ends -> 1..MaxMessages + 1]
        BY <1>0, <1>1, <1>9 DEF TypeOK, DropAllFragments
      <4>2. unsentFragments' \in [Ends -> BOOLEAN]
        BY <1>0, <1>1, <1>9 DEF TypeOK, DropAllFragments
      <4>3. unsentFragmentStart' \in [Ends -> Nat]
        BY <1>0, <1>1, <1>9 DEF TypeOK, DropAllFragments
      <4> QED
        BY <4>1, <4>2, <4>3
    <3>2. ASSUME NEW f \in Ends
          PROVE  /\ Len(sent'[f]) = IF unsentFragments'[f] THEN outgoingSequence'[f]
                                                           ELSE outgoingSequence'[f] - 1
                 /\ unsentFragmentStart'[f] <= Len(unsentBuffer'[f])
      <4>1. CASE f = e
        <5>1. /\ unsentFragments'[e] = FALSE /\ unsentFragmentStart'[e] = start /\ unsentBuffer'[e] = buffer
              /\ outgoingSequence'[e] = outgoingSequence[e] + 1
          BY <1>0, <1>9 DEF TypeOK, History, DropAllFragments
        <5> QED
          BY <1>1, <4>1, <5>1, TypeFacts
      <4>2. CASE f # e
        <5>1. /\ unsentBuffer'[f] = unsentBuffer[f] /\ sent'[f] = sent[f]
              /\ outgoingSequence'[f] = outgoingSequence[f]
              /\ unsentFragments'[f] = unsentFragments[f]
              /\ unsentFragmentStart'[f] = unsentFragmentStart[f]
          BY <1>0, <1>9, <4>2 DEF TypeOK, History, DropAllFragments
        <5> QED
          BY <1>0, <5>1 DEF TypeOK
      <4> QED
        BY <4>1, <4>2
    <3> QED
      BY <1>0, <1>9, <3>1, <3>2 DEF TypeOK, recvVars
  <2>2. History'
    BY <1>0, <1>9 DEF History, recvVars
  <2>3. Sending'
    <3> SUFFICES ASSUME NEW f \in Ends, unsentFragments'[f]
                 PROVE  /\ f # e /\ unsentFragments[f]
                        /\ unsentBuffer'[f] = unsentBuffer[f] /\ sent'[f] = sent[f]
                        /\ outgoingSequence'[f] = outgoingSequence[f]
                        /\ unsentFragmentStart'[f] = unsentFragmentStart[f]
      BY <1>0, <1>9 DEF Sending
    <3> QED
      BY <1>0, <1>9 DEF TypeOK, History, DropAllFragments
  <2> QED
    BY <1>9, <2>1, <2>2, <2>3, SendStep
<1> QED
  BY <1>8, <1>9 DEF TransmitFragment, length, piece

\* The sending half keeps the inductive invariant.
LEMMA TransmitNextFragmentStep ==
  ASSUME IInv, NEW e \in Ends, TransmitNextFragment(e)
  PROVE  IInv'
<1> DEFINE buffer == unsentBuffer[e]  start == unsentFragmentStart[e]
<1>0. TypeOK /\ History /\ SentInOrder /\ Sending
  BY DEF IInv
<1>1. /\ unsentFragments[e] /\ TransmitFragment(e, buffer, start)
      /\ UNCHANGED recvVars /\ sent' = sent /\ unsentBuffer' = unsentBuffer
  BY DEF TransmitNextFragment
<1>2. buffer \in CellSeq /\ start \in 0..Len(buffer)
  BY <1>0 DEF History, TypeOK, CellSeq
<1>3. /\ outgoingSequence[e] <= MaxMessages /\ Len(sent'[e]) = outgoingSequence[e]
      /\ sent'[e][outgoingSequence[e]] = buffer
      /\ start = 0 \/ \E q \in net[Peer(e)] : /\ q.sequence = outgoingSequence[e]
                                             /\ q.start + Len(q.data) = start
  BY <1>0, <1>1 DEF TypeOK, SentInOrder, Sending
<1>4. SentInOrder' /\ SentGrows /\ sent' \in [Ends -> Seq(Messages)]
  BY <1>0, <1>1, TypeFacts DEF SentInOrder, SentGrows, History
<1>5. unsentBuffer' = [unsentBuffer EXCEPT ![e] = buffer]
  BY <1>0, <1>1 DEF History
<1> QED
  BY <1>1, <1>2, <1>3, <1>4, <1>5, FragmentStep

\* Netchan_Transmit, a fragment or a whole message, keeps the invariant.
LEMMA TransmitStep ==
  ASSUME IInv, NEW e \in Ends, Transmit(e)
  PROVE  IInv'
<1> DEFINE n == outgoingSequence[e]
<1>0. TypeOK /\ History /\ SentInOrder /\ Sending /\ Packets
  BY DEF IInv
<1>1. PICK length \in Lengths :
        LET message == Cells(n, length)
        IN /\ sent' = [sent EXCEPT ![e] = Append(@, message)]
           /\ \/ /\ unsentBuffer' = [unsentBuffer EXCEPT ![e] = message]
                 /\ TransmitFragment(e, message, 0)
              \/ /\ outgoingSequence' = [outgoingSequence EXCEPT ![e] = @ + 1]
                 /\ unsentFragmentStart' = [unsentFragmentStart EXCEPT ![e] = 0]
                 /\ Sends(e, Packet(e, FALSE, 0, FALSE, message))
                 /\ UNCHANGED <<unsentFragments, unsentBuffer>>
  BY DEF Transmit
<1>2. PICK message : message = Cells(n, length)
  OBVIOUS
<1>3. /\ ~unsentFragments[e] /\ Len(sent[e]) < MaxMessages /\ UNCHANGED recvVars
      /\ n = Len(sent[e]) + 1 /\ n \in 1..MaxMessages
  BY <1>0, TypeFacts DEF Transmit, TypeOK
<1>4. message \in CellSeq /\ message \in Messages /\ length \in Nat
  BY <1>2, <1>3, CellsAreSeq DEF Messages
<1>5. /\ sent' \in [Ends -> Seq(Messages)] /\ sent'[e] = Append(sent[e], message)
      /\ \A f \in Ends : f # e => sent'[f] = sent[f]
  BY <1>0, <1>1, <1>2, <1>4 DEF History
<1>6. /\ Len(sent'[e]) = n /\ sent'[e][n] = message
      /\ \A i \in 1..Len(sent[e]) : sent'[e][i] = sent[e][i]
  <2>1. sent[e] \in Seq(Messages)
    BY TypeFacts
  <2> QED
    BY <1>3, <1>4, <1>5, <2>1
<1>7. SentGrows
  <2>1. \A f \in Ends : Len(sent[f]) \in Nat
    BY TypeFacts
  <2>2. Len(sent[e]) <= Len(sent'[e])
    BY <1>3, <1>6, <2>1
  <2>3. \A f \in Ends : f # e => Len(sent[f]) <= Len(sent'[f])
    BY <1>5, <2>1
  <2> QED
    BY <1>5, <1>6, <2>2, <2>3 DEF SentGrows
<1>8. SentInOrder'
  <2> SUFFICES ASSUME NEW f \in Ends
               PROVE  /\ Len(sent'[f]) <= MaxMessages
                      /\ \A i \in 1..Len(sent'[f]) : \E l \in Lengths : sent'[f][i] = Cells(i, l)
    BY DEF SentInOrder
  <2>1. CASE f = e
    <3>1. \A i \in 1..n : i = n \/ i \in 1..Len(sent[e])
      BY <1>3
    <3>2. \A i \in 1..Len(sent[e]) : \E l \in Lengths : sent[e][i] = Cells(i, l)
      BY <1>0 DEF SentInOrder
    <3>3. \A i \in 1..n : \E l \in Lengths : sent'[e][i] = Cells(i, l)
      BY <1>2, <1>6, <3>1, <3>2
    <3>4. Len(sent'[e]) = n /\ n <= MaxMessages
      BY <1>3, <1>6
    <3> QED
      BY <2>1, <3>3, <3>4
  <2>2. CASE f # e
    BY <1>0, <1>5, <2>2 DEF SentInOrder
  <2> QED
    BY <2>1, <2>2
<1>9. CASE /\ unsentBuffer' = [unsentBuffer EXCEPT ![e] = message]
           /\ TransmitFragment(e, message, 0)
  <2>1. 0 \in 0..Len(message) /\ n <= MaxMessages
    BY <1>3, <1>4 DEF CellSeq
  <2> QED
    BY <1>3, <1>4, <1>5, <1>6, <1>7, <1>8, <1>9, <2>1, FragmentStep
<1>10. CASE /\ outgoingSequence' = [outgoingSequence EXCEPT ![e] = @ + 1]
            /\ unsentFragmentStart' = [unsentFragmentStart EXCEPT ![e] = 0]
            /\ Sends(e, Packet(e, FALSE, 0, FALSE, message))
            /\ UNCHANGED <<unsentFragments, unsentBuffer>>
  <2>1. PICK p : p = Packet(e, FALSE, 0, FALSE, message)
    OBVIOUS
  <2>2. /\ p.sequence = n /\ p.ack = incomingSequence[e] /\ p.fragmented = FALSE /\ p.data = message
        /\ p \in PacketType
    <3>1. incomingSequence[e] \in 0..MaxMessages
      BY TypeFacts
    <3> QED
      BY <1>3, <1>4, <2>1, <3>1 DEF Packet, PacketType, CellSeq
  <2>3. net' = [net EXCEPT ![Peer(e)] = @ \cup {p}]
    BY <1>10, <2>1 DEF Sends
  <2>4. \A f \in Ends : net'[f] \subseteq PacketType /\ net[f] \subseteq net'[f]
    BY <1>0, <2>2, <2>3, Peers DEF History
  <2>5. \A q \in net[Peer(e)] : q.sequence <= p.sequence
    <3>1. \A q \in net[Peer(e)] : q.sequence \in Nat /\ q.sequence <= Len(sent[e])
      BY <1>0, TypeFacts, Peers DEF Packets, PacketOf, PacketType
    <3>2. Len(sent[e]) \in Nat
      BY TypeFacts
    <3> QED
      BY <1>3, <2>2, <3>1, <3>2
  <2>6. AckedIsGot(e, p.ack)'
    BY <1>3, <2>2, LastIsGot DEF AckedIsGot, recvVars
  <2>7. Adds(e, p)
    <3>1. p.sequence <= Len(sent'[e])
      BY <1>3, <1>6, <2>2
    <3> QED
      BY <1>6, <2>2, <2>3, <2>5, <2>6, <3>1 DEF Adds, PacketOf
  <2>8. TypeOK'
    <3>1. /\ outgoingSequence' \in [Ends -> 1..MaxMessages + 1]
          /\ unsentFragments' \in [Ends -> BOOLEAN] /\ unsentFragmentStart' \in [Ends -> Nat]
      <4>1. outgoingSequence' \in [Ends -> 1..MaxMessages + 1]
        BY <1>0, <1>3, <1>10, SMTT(30) DEF TypeOK
      <4>2. unsentFragments' \in [Ends -> BOOLEAN]
        BY <1>0, <1>3, <1>10 DEF TypeOK
      <4>3. unsentFragmentStart' \in [Ends -> Nat]
        BY <1>0, <1>3, <1>10 DEF TypeOK
      <4> QED
        BY <4>1, <4>2, <4>3
    <3>2. ASSUME NEW f \in Ends
          PROVE  /\ Len(sent'[f]) = IF unsentFragments'[f] THEN outgoingSequence'[f]
                                                           ELSE outgoingSequence'[f] - 1
                 /\ unsentFragmentStart'[f] <= Len(unsentBuffer'[f])
      <4>1. CASE f = e
        <5>1. /\ unsentFragments'[e] = FALSE /\ unsentFragmentStart'[e] = 0
              /\ outgoingSequence'[e] = n + 1
          BY <1>0, <1>3, <1>10 DEF TypeOK
        <5>2. Len(unsentBuffer'[e]) \in Nat
          BY <1>10, TypeFacts DEF CellSeq
        <5> QED
          BY <1>3, <1>6, <4>1, <5>1, <5>2
      <4>2. CASE f # e
        <5>1. /\ unsentBuffer'[f] = unsentBuffer[f] /\ sent'[f] = sent[f]
              /\ outgoingSequence'[f] = outgoingSequence[f]
              /\ unsentFragments'[f] = unsentFragments[f]
              /\ unsentFragmentStart'[f] = unsentFragmentStart[f]
          BY <1>0, <1>5, <1>10, <4>2 DEF TypeOK
        <5> QED
          BY <1>0, <5>1 DEF TypeOK
      <4> QED
        BY <4>1, <4>2
    <3> QED
      BY <1>0, <1>3, <2>4, <3>1, <3>2 DEF TypeOK, recvVars
  <2>9. History'
    BY <1>0, <1>3, <1>5, <1>10, <2>3, <2>4 DEF History, recvVars
  <2>10. Sending'
    <3> SUFFICES ASSUME NEW f \in Ends, unsentFragments'[f]
                 PROVE  /\ unsentFragments[f] /\ unsentBuffer'[f] = unsentBuffer[f]
                        /\ sent'[f] = sent[f] /\ outgoingSequence'[f] = outgoingSequence[f]
                        /\ unsentFragmentStart'[f] = unsentFragmentStart[f]
                        /\ net[Peer(f)] \subseteq net'[Peer(f)]
      BY <1>0 DEF Sending
    <3>1. f # e
      BY <1>3, <1>10
    <3> QED
      BY <1>0, <1>5, <1>10, <2>4, <3>1, Peers DEF TypeOK
  <2> QED
    BY <1>3, <1>7, <1>8, <2>2, <2>7, <2>8, <2>9, <2>10, SendStep
<1> QED
  BY <1>1, <1>2, <1>9, <1>10

-----------------------------------------------------------------------------
(* Receiving.                                                              *)

\* The message that a packet on its way to an end belongs to.
MessageOf(e, p) == sent[Peer(e)][p.sequence]

\* What is known of a packet on its way to an end.
LEMMA PacketFacts ==
  ASSUME IInv, NEW e \in Ends, NEW p \in net[e]
  PROVE  /\ p \in PacketType
         /\ p.sequence \in 1..Len(sent[Peer(e)]) /\ p.sequence \in 1..MaxMessages
         /\ p.data \in CellSeq /\ p.start \in Nat /\ p.ack \in 0..MaxMessages
         /\ MessageOf(e, p) \in CellSeq
         /\ ~p.fragmented => p.data = MessageOf(e, p)
         /\ p.fragmented => Tiles(Peer(e), p)
         /\ AckedIsGot(Peer(e), p.ack)
<1>1. Peer(e) \in Ends /\ Peer(Peer(e)) = e
  BY Peers
<1>2. p \in PacketType
  BY TypeFacts
<1>3. PacketOf(Peer(e), p)
  BY <1>1 DEF IInv, Packets
<1>4. p.sequence \in 1..Len(sent[Peer(e)])
  <2>1. Len(sent[Peer(e)]) \in Nat
    BY <1>1, TypeFacts
  <2> QED
    BY <1>2, <1>3, <2>1 DEF PacketType, PacketOf
<1>5. MessageOf(e, p) \in CellSeq
  BY <1>1, <1>4, TypeFacts DEF MessageOf
<1> QED
  BY <1>2, <1>3, <1>4, <1>5 DEF PacketType, PacketOf, MessageOf, CellSeq

\* What is collected of a message is how it begins.
LEMMA CollectedBegins ==
  ASSUME IInv, NEW e \in Ends, NEW p \in net[e]
  PROVE  /\ Collected(e, p) \in CellSeq /\ Len(Collected(e, p)) \in 0..Len(MessageOf(e, p))
         /\ Collected(e, p) = SubSeq(MessageOf(e, p), 1, Len(Collected(e, p)))
<1>1. MessageOf(e, p) \in CellSeq /\ p.sequence # 0 /\ Len(MessageOf(e, p)) \in Nat
  BY PacketFacts DEF CellSeq
<1>2. CASE p.sequence = fragmentSequence[e]
  <2>1. fragmentBuffer[e] \in CellSeq /\ Len(fragmentBuffer[e]) \in Nat
    BY TypeFacts DEF CellSeq
  <2>2. /\ Len(fragmentBuffer[e]) <= Len(MessageOf(e, p))
        /\ fragmentBuffer[e] = SubSeq(MessageOf(e, p), 1, Len(fragmentBuffer[e]))
    BY <1>1, <1>2 DEF IInv, Collecting, MessageOf
  <2>3. Collected(e, p) = fragmentBuffer[e]
    BY <1>2 DEF Collected
  <2> QED
    BY <1>1, <2>1, <2>2, <2>3
<1>3. CASE p.sequence # fragmentSequence[e]
  <2>1. Collected(e, p) = <<>> /\ Len(<<>>) = 0 /\ <<>> \in CellSeq
    BY <1>3 DEF Collected, CellSeq
  <2>2. SubSeq(MessageOf(e, p), 1, 0) = <<>>
    BY <1>1, SubSeqEmpty
  <2> QED
    BY <1>1, <2>1, <2>2
<1> QED
  BY <1>2, <1>3

\* With a fragment that continues it, still more of the message is collected,
\* and with the last one all of it.
LEMMA FragmentContinues ==
  ASSUME IInv, NEW e \in Ends, NEW p \in net[e], p.fragmented, Continues(e, p)
  PROVE  LET parts == Collected(e, p) \o p.data
         IN /\ parts \in CellSeq /\ Len(parts) \in 0..Len(MessageOf(e, p))
            /\ parts = SubSeq(MessageOf(e, p), 1, Len(parts))
            /\ p.last => parts = MessageOf(e, p)
<1> DEFINE S == (1..MaxMessages) \X Nat
           m == MessageOf(e, p)
           a == p.start
           b == p.start + Len(p.data)
           parts == Collected(e, p) \o p.data
<1>1. /\ m \in Seq(S) /\ p.data \in Seq(S) /\ a \in Nat /\ Len(p.data) \in Nat /\ Len(m) \in Nat
      /\ b \in a..Len(m) /\ p.data = SubSeq(m, a + 1, b)
      /\ p.last => b = Len(m)
  <2>1. /\ m \in Seq(S) /\ p.data \in Seq(S) /\ a \in Nat /\ Tiles(Peer(e), p)
    BY PacketFacts DEF CellSeq
  <2>2. Len(p.data) \in Nat /\ Len(m) \in Nat
    BY <2>1
  <2>3. /\ b <= Len(m) /\ p.data = SubSeq(m, a + 1, b)
        /\ p.last => b = Len(m)
    BY <2>1 DEF Tiles, MessageOf
  <2> QED
    BY <2>1, <2>2, <2>3, SMTT(30)
<1>2. Collected(e, p) = SubSeq(m, 1, a) /\ a \in 0..Len(m)
  BY CollectedBegins DEF Continues
<1> HIDE DEF S, m, a, b
<1>3. parts = SubSeq(m, 1, b)
  BY <1>1, <1>2, PartsJoin
<1>4. parts \in Seq(S) /\ Len(parts) = b
  <2>1. /\ SubSeq(m, 0 + 1, 0 + b) \in Seq(S) /\ Len(SubSeq(m, 0 + 1, 0 + b)) = b
    BY <1>1, PartOf
  <2>2. 0 + 1 = 1 /\ 0 + b = b
    BY <1>1
  <2> QED
    BY <1>3, <2>1, <2>2
<1>5. SubSeq(m, 1, Len(m)) = m
  BY <1>1, SubSeqFull
<1>6. b \in 0..Len(m)
  BY <1>1
<1> HIDE DEF parts
<1>7. /\ parts \in Seq(S) /\ Len(parts) \in 0..Len(m) /\ parts = SubSeq(m, 1, Len(parts))
      /\ p.last => parts = m
  BY <1>1, <1>3, <1>4, <1>5, <1>6
<1> QED
  BY <1>7 DEF parts, m, S, CellSeq

\* The types and the state of the collection after a step that receives p and
\* goes on with the parts of its message.
LEMMA CollectStep ==
  ASSUME IInv, NEW e \in Ends, NEW p \in net[e], NEW parts \in CellSeq,
         Len(parts) <= Len(MessageOf(e, p)), parts = SubSeq(MessageOf(e, p), 1, Len(parts)),
         fragmentSequence' = [fragmentSequence EXCEPT ![e] = p.sequence],
         fragmentBuffer' = [fragmentBuffer EXCEPT ![e] = parts],
         UNCHANGED sendVars
  PROVE  /\ fragmentSequence' \in [Ends -> 0..MaxMessages] /\ fragmentBuffer' \in [Ends -> CellSeq]
         /\ Collecting'
<1>0. TypeOK /\ History /\ Collecting
  BY DEF IInv
<1>1. p.sequence \in 1..Len(sent[Peer(e)]) /\ p.sequence \in 1..MaxMessages
  BY PacketFacts
<1>2. fragmentSequence' \in [Ends -> 0..MaxMessages] /\ fragmentBuffer' \in [Ends -> CellSeq]
  <2>1. fragmentSequence \in [Ends -> 0..MaxMessages] /\ fragmentBuffer \in [Ends -> CellSeq]
    BY <1>0 DEF TypeOK, History
  <2>2. p.sequence \in 0..MaxMessages
    BY <1>1
  <2> QED
    BY <2>1, <2>2
<1>3. ASSUME NEW f \in Ends
      PROVE  IF fragmentSequence'[f] = 0 THEN fragmentBuffer'[f] = <<>>
             ELSE /\ fragmentSequence'[f] <= Len(sent[Peer(f)])
                  /\ Len(fragmentBuffer'[f]) <= Len(sent[Peer(f)][fragmentSequence'[f]])
                  /\ fragmentBuffer'[f] = SubSeq(sent[Peer(f)][fragmentSequence'[f]], 1,
                                                 Len(fragmentBuffer'[f]))
  <2>1. CASE f = e
    <3>1. fragmentSequence'[e] = p.sequence /\ fragmentBuffer'[e] = parts
      BY <1>0 DEF TypeOK, History
    <3>2. p.sequence # 0 /\ p.sequence <= Len(sent[Peer(e)])
      BY <1>1
    <3> QED
      BY <2>1, <3>1, <3>2 DEF MessageOf
  <2>2. CASE f # e
    <3>1. fragmentSequence'[f] = fragmentSequence[f] /\ fragmentBuffer'[f] = fragmentBuffer[f]
      BY <1>0, <2>2 DEF TypeOK, History
    <3> QED
      BY <1>0, <3>1 DEF Collecting
  <2> QED
    BY <2>1, <2>2
<1> QED
  BY <1>2, <1>3 DEF Collecting, sendVars

\* A fragment is received that does not complete its message.
LEMMA PartStep ==
  ASSUME IInv, NEW e \in Ends,
         UNCHANGED <<sendVars, net, incomingSequence, incomingAcknowledged, got>>,
         fragmentSequence' \in [Ends -> 0..MaxMessages], fragmentBuffer' \in [Ends -> CellSeq],
         Collecting'
  PROVE  IInv'
<1> USE DEF sendVars
<1>1. TypeOK'
  BY DEF IInv, TypeOK
<1>2. History'
  BY DEF IInv, History
<1>3. SentInOrder' /\ Sending'
  BY DEF IInv, SentInOrder, Sending
<1>4. Packets'
  BY DEF IInv, Packets, PacketOf, Tiles, AckedIsGot
<1>5. AcksRise' /\ LastIsAcknowledged'
  BY DEF IInv, AcksRise, LastIsAcknowledged, Channel!LastGot
<1> QED
  BY <1>1, <1>2, <1>3, <1>4, <1>5 DEF IInv

\* A message is let through.
LEMMA AcceptStep ==
  ASSUME IInv, NEW e \in Ends, NEW p \in net[e], IsNews(e, p), Accepts(e, p, MessageOf(e, p)),
         UNCHANGED <<sendVars, net>>,
         fragmentSequence' \in [Ends -> 0..MaxMessages], fragmentBuffer' \in [Ends -> CellSeq],
         Collecting'
  PROVE  IInv'
<1> DEFINE entry == [sequence |-> p.sequence, message |-> MessageOf(e, p)]
<1> USE DEF sendVars
<1>0. TypeOK /\ History /\ AcksRise /\ Packets /\ LastIsAcknowledged
  BY DEF IInv
<1>1. /\ p.sequence \in 1..MaxMessages /\ p.ack \in 0..MaxMessages /\ MessageOf(e, p) \in CellSeq
      /\ AckedIsGot(Peer(e), p.ack)
  BY PacketFacts
<1>2. entry \in [sequence : 1..MaxMessages, message : CellSeq]
  BY <1>1
<1>3. /\ incomingSequence' = [incomingSequence EXCEPT ![e] = p.sequence]
      /\ incomingAcknowledged' = [incomingAcknowledged EXCEPT ![e] = p.ack]
      /\ got' = [got EXCEPT ![e] = Append(@, entry)]
      /\ p.sequence > incomingSequence[e]
  BY DEF Accepts, IsNews
<1>4. /\ got[e] \in Seq([sequence : 1..MaxMessages, message : CellSeq])
      /\ got'[e] = Append(got[e], entry)
      /\ incomingSequence'[e] = p.sequence /\ incomingAcknowledged'[e] = p.ack
      /\ \A f \in Ends : f # e => /\ got'[f] = got[f] /\ incomingSequence'[f] = incomingSequence[f]
                                  /\ incomingAcknowledged'[f] = incomingAcknowledged[f]
  BY <1>0, <1>3 DEF TypeOK, History
<1> HIDE DEF entry
<1>5. /\ Len(got'[e]) = Len(got[e]) + 1 /\ got'[e][Len(got'[e])] = entry /\ got'[e] # <<>>
      /\ DOMAIN got[e] \subseteq DOMAIN got'[e]
      /\ \A i \in DOMAIN got[e] : got'[e][i] = got[e][i]
      /\ Append(got[e], entry) \in Seq([sequence : 1..MaxMessages, message : CellSeq])
  <2> DEFINE S == [sequence : 1..MaxMessages, message : CellSeq]
  <2>1. entry \in S /\ got[e] \in Seq(S) /\ got'[e] = Append(got[e], entry)
    BY <1>2, <1>4
  <2> HIDE DEF S
  <2>2. /\ Append(got[e], entry) \in Seq(S) /\ Append(got[e], entry) # <<>>
        /\ Len(Append(got[e], entry)) = Len(got[e]) + 1
        /\ Append(got[e], entry)[Len(Append(got[e], entry))] = entry
        /\ DOMAIN got[e] \subseteq DOMAIN Append(got[e], entry)
        /\ \A i \in DOMAIN got[e] : Append(got[e], entry)[i] = got[e][i]
    BY <2>1, AppendFacts
  <2> QED
    BY <2>1, <2>2 DEF S
<1>6. TypeOK'
  BY <1>0, <1>1, <1>3 DEF TypeOK
<1>7. History'
  BY <1>0, <1>3, <1>5 DEF History
<1>8. SentInOrder' /\ Sending'
  BY DEF IInv, SentInOrder, Sending
<1>9. ASSUME NEW f \in Ends, NEW ack \in Nat, AckedIsGot(f, ack)
      PROVE  AckedIsGot(f, ack)'
  <2>1. CASE f = e
    <3>1. incomingSequence[e] \in Nat /\ p.sequence \in Nat
      BY <1>1, TypeFacts
    <3>2. ack <= incomingSequence'[e]
      BY <1>3, <1>4, <1>9, <2>1, <3>1 DEF AckedIsGot
    <3>3. ack = 0 \/ \E i \in DOMAIN got'[e] : got'[e][i].sequence = ack
      BY <1>5, <1>9, <2>1 DEF AckedIsGot
    <3> QED
      BY <2>1, <3>2, <3>3 DEF AckedIsGot
  <2>2. CASE f # e
    BY <1>4, <1>9, <2>2 DEF AckedIsGot
  <2> QED
    BY <2>1, <2>2
<1>10. Packets'
  <2> SUFFICES ASSUME NEW f \in Ends, NEW q \in net[Peer(f)] PROVE PacketOf(f, q)'
    BY DEF Packets
  <2>1. PacketOf(f, q) /\ q.ack \in Nat
    BY <1>0, Peers, TypeFacts DEF Packets, PacketType
  <2>2. AckedIsGot(f, q.ack)'
    BY <1>9, <2>1 DEF PacketOf
  <2> QED
    BY <2>1, <2>2 DEF PacketOf, Tiles
<1>11. AcksRise'
  <2> SUFFICES ASSUME NEW f \in Ends
               PROVE  /\ \A q \in net[f] : incomingSequence'[f] < q.sequence
                                            => incomingAcknowledged'[f] <= q.ack
                      /\ incomingAcknowledged'[f] <= incomingSequence'[Peer(f)]
    BY <1>0 DEF AcksRise
  <2>1. incomingAcknowledged'[f] <= incomingSequence[Peer(f)]
    BY <1>0, <1>1, <1>4 DEF AcksRise, AckedIsGot
  <2>2. incomingSequence[Peer(f)] <= incomingSequence'[Peer(f)]
    <3>1. incomingSequence[Peer(f)] \in Nat
      BY Peers, TypeFacts
    <3>2. CASE Peer(f) = e
      BY <1>1, <1>3, <1>4, <3>1, <3>2
    <3>3. CASE Peer(f) # e
      BY <1>4, <3>1, <3>3, Peers
    <3> QED
      BY <3>2, <3>3
  <2>3. incomingAcknowledged'[f] <= incomingSequence'[Peer(f)]
    <3>1. /\ incomingAcknowledged'[f] \in Nat /\ incomingSequence[Peer(f)] \in Nat
          /\ incomingSequence'[Peer(f)] \in Nat
      BY <1>6, Peers, TypeFacts, SMTT(30) DEF TypeOK
    <3> QED
      BY <2>1, <2>2, <3>1
  <2>4. \A q \in net[f] : incomingSequence'[f] < q.sequence => incomingAcknowledged'[f] <= q.ack
    BY <1>0, <1>4 DEF AcksRise
  <2> QED
    BY <2>3, <2>4
<1>12. LastIsAcknowledged'
  <2> SUFFICES ASSUME NEW f \in Ends
               PROVE  incomingSequence'[f] = IF got'[f] = <<>> THEN 0 ELSE got'[f][Len(got'[f])].sequence
    BY DEF LastIsAcknowledged, Channel!LastGot
  <2>1. CASE f = e
    <3>1. entry.sequence = p.sequence
      BY DEF entry
    <3> QED
      BY <1>4, <1>5, <2>1, <3>1
  <2>2. CASE f # e
    BY <1>0, <1>4, <2>2 DEF LastIsAcknowledged, Channel!LastGot
  <2> QED
    BY <2>1, <2>2
<1> QED
  BY <1>6, <1>7, <1>8, <1>10, <1>11, <1>12 DEF IInv

\* The receiving half keeps the inductive invariant.
LEMMA ReceiveStep ==
  ASSUME IInv, NEW e \in Ends,
         ReceiveWhole(e) \/ DumpFragment(e) \/ CollectFragment(e) \/ ReceiveLastFragment(e)
  PROVE  IInv'
<1>0. TypeOK /\ History /\ Collecting
  BY DEF IInv
<1>1. CASE ReceiveWhole(e)
  <2>1. PICK p \in net[e] :
           /\ IsNews(e, p) /\ ~p.fragmented /\ Accepts(e, p, p.data)
           /\ UNCHANGED <<sendVars, net, fragmentSequence, fragmentBuffer>>
    BY <1>1 DEF ReceiveWhole
  <2>2. p.data = MessageOf(e, p)
    BY <2>1, PacketFacts
  <2>3. /\ fragmentSequence' \in [Ends -> 0..MaxMessages] /\ fragmentBuffer' \in [Ends -> CellSeq]
        /\ Collecting'
    BY <1>0, <2>1 DEF TypeOK, History, Collecting, sendVars
  <2> QED
    BY <2>1, <2>2, <2>3, AcceptStep
<1>2. CASE DumpFragment(e)
  <2>1. PICK p \in net[e] :
           /\ fragmentSequence' = [fragmentSequence EXCEPT ![e] = p.sequence]
           /\ fragmentBuffer' = [fragmentBuffer EXCEPT ![e] = Collected(e, p)]
           /\ UNCHANGED <<sendVars, net, incomingSequence, incomingAcknowledged, got>>
    BY <1>2 DEF DumpFragment
  <2>2. PICK parts : parts = Collected(e, p)
    OBVIOUS
  <2>3. /\ parts \in CellSeq /\ Len(parts) <= Len(MessageOf(e, p))
        /\ parts = SubSeq(MessageOf(e, p), 1, Len(parts))
    BY <2>2, CollectedBegins
  <2> QED
    BY <2>1, <2>2, <2>3, CollectStep, PartStep
<1>3. CASE CollectFragment(e)
  <2>1. PICK p \in net[e] :
           /\ p.fragmented /\ Continues(e, p)
           /\ fragmentSequence' = [fragmentSequence EXCEPT ![e] = p.sequence]
           /\ fragmentBuffer' = [fragmentBuffer EXCEPT ![e] = Collected(e, p) \o p.data]
           /\ UNCHANGED <<sendVars, net, incomingSequence, incomingAcknowledged, got>>
    BY <1>3 DEF CollectFragment
  <2>2. PICK parts : parts = Collected(e, p) \o p.data
    OBVIOUS
  <2>3. /\ parts \in CellSeq /\ Len(parts) <= Len(MessageOf(e, p))
        /\ parts = SubSeq(MessageOf(e, p), 1, Len(parts))
    BY <2>1, <2>2, FragmentContinues
  <2> QED
    BY <2>1, <2>2, <2>3, CollectStep, PartStep
<1>4. CASE ReceiveLastFragment(e)
  <2>1. PICK p \in net[e] :
           /\ IsNews(e, p) /\ p.fragmented /\ Continues(e, p) /\ p.last
           /\ fragmentSequence' = [fragmentSequence EXCEPT ![e] = p.sequence]
           /\ fragmentBuffer' = [fragmentBuffer EXCEPT ![e] = <<>>]
           /\ Accepts(e, p, Collected(e, p) \o p.data)
           /\ UNCHANGED <<sendVars, net>>
    BY <1>4 DEF ReceiveLastFragment
  <2>2. Accepts(e, p, MessageOf(e, p))
    <3>1. Collected(e, p) \o p.data = MessageOf(e, p)
      BY <2>1, FragmentContinues
    <3> QED
      BY <2>1, <3>1
  <2>3. /\ <<>> \in CellSeq /\ Len(<<>>) <= Len(MessageOf(e, p))
        /\ <<>> = SubSeq(MessageOf(e, p), 1, Len(<<>>))
    <3>1. MessageOf(e, p) \in CellSeq
      BY PacketFacts
    <3>2. SubSeq(MessageOf(e, p), 1, 0) = <<>>
      BY SubSeqEmpty
    <3> QED
      BY <3>1, <3>2 DEF CellSeq
  <2>4. /\ fragmentSequence' \in [Ends -> 0..MaxMessages] /\ fragmentBuffer' \in [Ends -> CellSeq]
        /\ Collecting'
    BY <2>1, <2>3, CollectStep
  <2> QED
    BY <2>1, <2>2, <2>4, AcceptStep
<1> QED
  BY <1>1, <1>2, <1>3, <1>4

-----------------------------------------------------------------------------
(* The theorems.                                                           *)

\* The inductive invariant: the types, that the fragments on their way tile
\* their messages, that what an end has collected is how a message begins, and
\* that the acknowledgements rise.
THEOREM Invariant == Spec => []IInv
<1>1. ASSUME IInv, [Next]_vars PROVE IInv'
  <2>1. ASSUME NEW e \in Ends, Transmit(e) PROVE IInv'
    BY <1>1, <2>1, TransmitStep
  <2>2. ASSUME NEW e \in Ends, TransmitNextFragment(e) PROVE IInv'
    BY <1>1, <2>2, TransmitNextFragmentStep
  <2>3. ASSUME NEW e \in Ends,
               ReceiveWhole(e) \/ DumpFragment(e) \/ CollectFragment(e) \/ ReceiveLastFragment(e)
        PROVE  IInv'
    BY <1>1, <2>3, ReceiveStep
  <2>4. CASE UNCHANGED vars
    <3> USE <2>4 DEF vars, recvVars, sendVars
    <3>1. TypeOK' /\ History'
      BY <1>1 DEF IInv, TypeOK, History
    <3>2. SentInOrder' /\ Sending' /\ Collecting'
      BY <1>1 DEF IInv, SentInOrder, Sending, Collecting
    <3>3. Packets'
      BY <1>1 DEF IInv, Packets, PacketOf, Tiles, AckedIsGot
    <3>4. AcksRise' /\ LastIsAcknowledged'
      BY <1>1 DEF IInv, AcksRise, LastIsAcknowledged, Channel!LastGot
    <3> QED
      BY <3>1, <3>2, <3>3, <3>4 DEF IInv
  <2> QED
    BY <1>1, <2>1, <2>2, <2>3, <2>4 DEF Next
<1> QED
  BY <1>1, InitInv, PTL DEF Spec

\* The sequence numbers, acknowledgements and counts stay in their ranges, and
\* the fragments of every message tile it, whatever FRAGMENT_SIZE is.
THEOREM FragmentsTileMessages == Spec => []Inv
<1>1. IInv => Inv
  BY DEF IInv, Inv, Packets, PacketOf, FragmentsTile
<1> QED
  BY <1>1, Invariant, PTL

\* The netchans implement the message channel: whatever the network loses,
\* repeats or reorders, messages arrive whole, in order and at most once, and
\* an acknowledgement is true and never taken back.
THEOREM Refinement == Spec => ImplementsMessageChannel
<1>1. Init => Channel!Init
  BY DEF Init, Channel!Init
<1>2. ASSUME IInv, [Next]_vars PROVE [Channel!Next]_(Channel!vars)
  <2>0. TypeOK /\ History /\ LastIsAcknowledged /\ AcksRise
    BY <1>2 DEF IInv
  <2>1. ASSUME NEW e \in Ends, Transmit(e) PROVE Channel!Send(e)
    <3>1. PICK length \in Lengths :
             sent' = [sent EXCEPT ![e] = Append(@, Cells(outgoingSequence[e], length))]
      BY <2>1 DEF Transmit
    <3>2. outgoingSequence[e] \in 1..MaxMessages
      BY <1>2, <2>0, <2>1, TypeFacts DEF Transmit, TypeOK
    <3>3. Cells(outgoingSequence[e], length) \in Messages
      BY <3>2 DEF Messages
    <3>4. UNCHANGED <<got, incomingAcknowledged>>
      BY <2>1 DEF Transmit, recvVars
    <3> QED
      BY <3>1, <3>3, <3>4 DEF Channel!Send
  <2>2. ASSUME NEW e \in Ends, NEW p \in net[e], IsNews(e, p), Accepts(e, p, MessageOf(e, p)),
               sent' = sent
        PROVE  Channel!Get(e)
    <3>1. /\ p.sequence \in 1..Len(sent[Peer(e)]) /\ AckedIsGot(Peer(e), p.ack)
          /\ p.ack \in 0..MaxMessages /\ Peer(e) \in Ends
      BY <1>2, Peers, PacketFacts
    <3>2. /\ Channel!LastGot(e) = incomingSequence[e] /\ incomingSequence[e] \in Nat
          /\ Channel!LastGot(Peer(e)) = incomingSequence[Peer(e)] /\ incomingSequence[Peer(e)] \in Nat
          /\ incomingAcknowledged[e] \in Nat /\ Len(sent[Peer(e)]) \in Nat
      BY <1>2, <2>0, <3>1, TypeFacts DEF LastIsAcknowledged
    <3>3. p.sequence \in Channel!LastGot(e) + 1..Len(sent[Peer(e)])
      BY <2>2, <3>1, <3>2 DEF IsNews
    <3>4. p.ack \in incomingAcknowledged[e]..Channel!LastGot(Peer(e))
      <4>1. incomingSequence[e] < p.sequence
        BY <2>2, <3>1, <3>2 DEF IsNews
      <4>2. incomingAcknowledged[e] <= p.ack
        BY <2>0, <4>1 DEF AcksRise
      <4> QED
        BY <3>1, <3>2, <4>2 DEF AckedIsGot
    <3>5. got' = [got EXCEPT ![e] = Append(@, [sequence |-> p.sequence,
                                               message |-> sent[Peer(e)][p.sequence]])]
      BY <2>2 DEF Accepts, MessageOf
    <3>6. \E a \in incomingAcknowledged[e]..Channel!LastGot(Peer(e)) :
             /\ a = 0 \/ \E i \in DOMAIN got[Peer(e)] : got[Peer(e)][i].sequence = a
             /\ incomingAcknowledged' = [incomingAcknowledged EXCEPT ![e] = a]
      BY <2>2, <3>1, <3>4 DEF Accepts, AckedIsGot
    <3> QED
      BY <2>2, <3>3, <3>5, <3>6 DEF Channel!Get
  <2>3. ASSUME NEW e \in Ends, ReceiveWhole(e) PROVE Channel!Get(e)
    <3>1. PICK p \in net[e] : /\ IsNews(e, p) /\ ~p.fragmented /\ Accepts(e, p, p.data)
                              /\ sent' = sent
      BY <2>3 DEF ReceiveWhole, sendVars
    <3>2. p.data = MessageOf(e, p)
      BY <1>2, <3>1, PacketFacts
    <3> QED
      BY <2>2, <3>1, <3>2
  <2>4. ASSUME NEW e \in Ends, ReceiveLastFragment(e) PROVE Channel!Get(e)
    <3>1. PICK p \in net[e] : /\ IsNews(e, p) /\ p.fragmented /\ Continues(e, p) /\ p.last
                              /\ Accepts(e, p, Collected(e, p) \o p.data) /\ sent' = sent
      BY <2>4 DEF ReceiveLastFragment, sendVars
    <3>2. Collected(e, p) \o p.data = MessageOf(e, p)
      BY <1>2, <3>1, FragmentContinues
    <3> QED
      BY <2>2, <3>1, <3>2
  <2>5. ASSUME NEW e \in Ends, TransmitNextFragment(e) \/ DumpFragment(e) \/ CollectFragment(e)
        PROVE  UNCHANGED Channel!vars
    BY <2>5 DEF TransmitNextFragment, DumpFragment, CollectFragment, sendVars, recvVars, Channel!vars
  <2>6. CASE UNCHANGED vars
    BY <2>6 DEF vars, sendVars, recvVars, Channel!vars
  <2> QED
    BY <1>2, <2>1, <2>3, <2>4, <2>5, <2>6 DEF Next, Channel!Next
<1> QED
  BY <1>1, <1>2, Invariant, PTL DEF Spec, ImplementsMessageChannel, Channel!Spec
=============================================================================
