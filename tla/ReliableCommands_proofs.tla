----------------------- MODULE ReliableCommands_proofs -----------------------
(***************************************************************************)
(* Proofs about ReliableCommands for every size of the rings, every set of *)
(* configstrings and every number of commands, messages and losses.        *)
(***************************************************************************)
EXTENDS ReliableCommandsInvariant, TLAPS, WellFoundedInduction, SequenceTheorems

-----------------------------------------------------------------------------
(* Numbers.                                                                *)

\* Sets of numbers have a least one.
LEMMA LeastNumber ==
  ASSUME NEW S \in SUBSET Nat, S # {}
  PROVE  \E x \in S : \A y \in S : x <= y
<1>1. PICK x \in S : \A y \in S : ~(<<y, x>> \in OpToRel(<, Nat))
  BY NatLessThanWellFounded, WFMin, Zenon
<1>2. ASSUME NEW y \in S PROVE x <= y
  <2>1. ~(y < x)
    BY <1>1 DEF OpToRel
  <2> QED
    BY <2>1
<1> QED
  BY <1>2

-----------------------------------------------------------------------------
(* Recursion along numbers.                                                *)

\* What holds at first and is kept by every step holds to the end.
LEMMA UpTo ==
  ASSUME NEW n \in Nat, NEW good, 0 \in good, \A i \in 1..n : i - 1 \in good => i \in good
  PROVE  \A i \in 0..n : i \in good
<1> DEFINE bad == {i \in 0..n : i \notin good}
<1>1. SUFFICES ASSUME bad # {} PROVE FALSE
  OBVIOUS
<1>2. PICK b \in bad : \A i \in bad : b <= i
  <2>1. bad \in SUBSET Nat
    OBVIOUS
  <2> QED
    BY <1>1, <2>1, LeastNumber
<1>3. b \in 1..n /\ b - 1 \in 0..n /\ b - 1 \notin bad
  BY <1>2
<1> QED
  BY <1>2, <1>3

\* Steps that stay in a set, and a run of them.
Steps(f, n, S) == n \in Nat /\ f \in [1..n -> [S -> S]]
RunOf(h, f, n, S, s0) == h \in [0..n -> S] /\ h[0] = s0 /\ \A i \in 1..n : h[i] = f[i][h[i - 1]]

\* Such steps can be taken one after another.
LEMMA Iteration ==
  ASSUME NEW n, NEW S, NEW f, Steps(f, n, S), NEW s0 \in S
  PROVE  \E h : RunOf(h, f, n, S, s0)
<1> USE DEF Steps
<1> DEFINE good == {m \in 0..n : \E h \in [0..m -> S] : h[0] = s0 /\ \A i \in 1..m : h[i] = f[i][h[i - 1]]}
<1>1. 0 \in good
  <2> DEFINE h == [i \in 0..0 |-> s0]
  <2>1. h \in [0..0 -> S] /\ h[0] = s0 /\ 0 \in 0..n /\ \A i \in 1..0 : FALSE
    OBVIOUS
  <2> HIDE DEF h
  <2> QED
    BY <2>1
<1>2. ASSUME NEW m \in 1..n, m - 1 \in good PROVE m \in good
  <2>1. PICK h \in [0..m - 1 -> S] : h[0] = s0 /\ \A i \in 1..m - 1 : h[i] = f[i][h[i - 1]]
    BY <1>2
  <2>2. m - 1 \in 0..m - 1 /\ f[m][h[m - 1]] \in S
    BY <2>1
  <2> DEFINE k == [i \in 0..m |-> IF i = m THEN f[m][h[m - 1]] ELSE h[i]]
  <2>3. k \in [0..m -> S]
    BY <2>1, <2>2
  <2>4. k[0] = s0
    BY <2>1
  <2>5. ASSUME NEW i \in 1..m PROVE k[i] = f[i][k[i - 1]]
    BY <2>1, <2>5
  <2> HIDE DEF k
  <2>6. m \in 0..n
    OBVIOUS
  <2> QED
    BY <2>3, <2>4, <2>5, <2>6
<1> HIDE DEF good
<1>3. \A i \in 0..n : i \in good
  BY <1>1, <1>2, UpTo, Zenon
<1>4. n \in good
  BY <1>3
<1> QED
  BY <1>4 DEF good, RunOf

-----------------------------------------------------------------------------
(* Sizes.                                                                  *)

\* Bounded sets of numbers have a greatest one.
LEMMA GreatestNumber ==
  ASSUME NEW n \in Nat, NEW S \in SUBSET (0..n), S # {}
  PROVE  Max(S) \in S /\ \A y \in S : y <= Max(S)
<1> DEFINE T == {x \in Nat : n - x \in S}
<1>1. \A y \in S : y \in Nat /\ n - y \in T
  <2>1. \A y \in S : y \in Nat /\ n - y \in Nat /\ n - (n - y) = y
    OBVIOUS
  <2> QED
    BY <2>1
<1>2. T \in SUBSET Nat /\ \A x \in T : n - x \in S
  OBVIOUS
<1> HIDE DEF T
<1>3. PICK x \in T : \A y \in T : x <= y
  <2>1. T # {}
    BY <1>1
  <2> QED
    BY <1>2, <2>1, LeastNumber
<1>4. n - x \in S /\ \A y \in S : n - x >= y
  BY <1>1, <1>2, <1>3
<1>5. Max(S) \in S /\ \A y \in S : Max(S) >= y
  BY <1>4 DEF Max
<1> QED
  BY <1>1, <1>5

\* Numbers of commands that are in the ring at the same time do not share a
\* slot.
LEMMA SlotsDiffer ==
  ASSUME NEW a \in Nat, NEW b \in Nat, a < b, b < a + RingSize
  PROVE  a % RingSize # b % RingSize
<1>1. RingSize \in Nat /\ RingSize > 0
  BY RingAssumption
<1>2. /\ a = RingSize * (a \div RingSize) + (a % RingSize) /\ a \div RingSize \in Int
      /\ b = RingSize * (b \div RingSize) + (b % RingSize) /\ b \div RingSize \in Int
  BY <1>1
<1>3. ASSUME a % RingSize = b % RingSize PROVE FALSE
  <2>1. PICK p \in Int, q \in Int : p = a \div RingSize /\ q = b \div RingSize
    BY <1>2
  <2>2. b - a = RingSize * q - RingSize * p
    BY <1>1, <1>2, <1>3, <2>1
  <2>3. PICK d \in Int : d = RingSize * (q - p)
    BY <1>1, <2>1
  <2>4. b - a = d
    BY <1>1, <2>1, <2>2, <2>3
  <2>5. CASE q - p <= 0
    <3>1. d <= 0
      BY <1>1, <2>1, <2>3, <2>5
    <3> QED
      BY <2>4, <3>1
  <2>6. CASE q - p >= 1
    <3>1. d >= RingSize
      BY <1>1, <2>1, <2>3, <2>6
    <3> QED
      BY <1>1, <2>4, <3>1
  <2> QED
    BY <2>1, <2>5, <2>6
<1> QED
  BY <1>3

\* A slot of the ring.
LEMMA SlotExists ==
  ASSUME NEW n \in Int
  PROVE  n % RingSize \in 0..(RingSize - 1)
  BY RingAssumption

\* There are as many fragments as a string needs, at least one.
LEMMA FragmentsCounted ==
  ASSUME NEW n \in Nat \ {0}
  PROVE  NumFragments(n) \in Nat \ {0}
<1> DEFINE L == Capacity - 1
<1>1. L \in Nat /\ L > 0
  BY SizesAssumption
<1>2. NumFragments(n) = (n + L - 1) \div L
  BY DEF NumFragments, FragmentLength
<1> HIDE DEF L
<1>3. PICK q \in Int, r \in 0..(L - 1) : q = (n + L - 1) \div L /\ n + L - 1 = L * q + r
  <2>1. n + L - 1 = L * ((n + L - 1) \div L) + ((n + L - 1) % L) /\ (n + L - 1) \div L \in Int /\ (n + L - 1) % L \in 0..(L - 1)
    BY <1>1
  <2> QED
    BY <2>1
<1>4. ASSUME q <= 0 PROVE FALSE
  <2>1. L * q <= 0
    BY <1>1, <1>4
  <2> QED
    BY <1>1, <1>3, <2>1
<1> QED
  BY <1>2, <1>3, <1>4

\* A finite sequence of numbers has a bound.
LEMMA Bounded ==
  ASSUME NEW n \in Nat, NEW f \in [1..n -> Nat]
  PROVE  \E b \in Nat : \A i \in 1..n : f[i] <= b
<1> DEFINE good == {m \in 0..n : \E b \in Nat : \A i \in 1..m : f[i] <= b}
<1>1. 0 \in good
  OBVIOUS
<1>2. ASSUME NEW m \in 1..n, m - 1 \in good PROVE m \in good
  <2>1. PICK b \in Nat : \A i \in 1..(m - 1) : f[i] <= b
    BY <1>2
  <2>2. PICK d \in Nat : d = IF f[m] <= b THEN b ELSE f[m]
    OBVIOUS
  <2>3. \A i \in 1..m : f[i] <= d
    BY <2>1, <2>2
  <2> QED
    BY <2>3
<1> HIDE DEF good
<1>3. \A i \in 0..n : i \in good
  BY <1>1, <1>2, UpTo, Zenon
<1>4. n \in good
  BY <1>3
<1> QED
  BY <1>4 DEF good

\* No configstring of the level has more fragments than the client's buffer.
LEMMA FragmentsFit ==
  /\ MaxFragments \in Nat \ {0}
  /\ \A i \in Strings : i + 1 \in 1..NumStrings /\ InitialSizes[i + 1] \in Nat \ {0} /\ NumFragments(InitialSizes[i + 1]) \in 1..MaxFragments
<1> DEFINE S == {NumFragments(InitialSizes[i + 1]) : i \in Strings}
<1>1. NumStrings \in Nat \ {0} /\ \A i \in 1..NumStrings : InitialSizes[i] \in Nat \ {0}
  BY SizesAssumption DEF NumStrings
<1>2. \A i \in Strings : i + 1 \in 1..NumStrings /\ InitialSizes[i + 1] \in Nat \ {0}
  BY <1>1 DEF Strings
<1>3. \A i \in Strings : NumFragments(InitialSizes[i + 1]) \in Nat \ {0}
  BY <1>2, FragmentsCounted
<1>4. \E b \in Nat : \A i \in Strings : NumFragments(InitialSizes[i + 1]) <= b
  <2> DEFINE f == [k \in 1..NumStrings |-> NumFragments(InitialSizes[k])]
  <2>1. f \in [1..NumStrings -> Nat]
    BY <1>1, FragmentsCounted
  <2>2. PICK b \in Nat : \A k \in 1..NumStrings : f[k] <= b
    BY <1>1, <2>1, Bounded
  <2> QED
    BY <1>2, <2>2
<1>5. PICK b \in Nat : \A i \in Strings : NumFragments(InitialSizes[i + 1]) <= b
  BY <1>4
<1>6. S \in SUBSET (0..b) /\ S # {}
  <2>1. 0 \in Strings
    BY <1>1 DEF Strings
  <2> QED
    BY <1>3, <1>5, <2>1
<1>7. Max(S) \in S /\ \A y \in S : y <= Max(S)
  BY <1>6, GreatestNumber
<1>8. MaxFragments = Max(S)
  BY DEF MaxFragments
<1> HIDE DEF S
<1>9. Max(S) \in Nat \ {0}
  BY <1>3, <1>7 DEF S
<1> QED
  BY <1>2, <1>3, <1>7, <1>8, <1>9 DEF S

-----------------------------------------------------------------------------
(* What the operations of both ends write.                                 *)

\* Parts of an end that an operation leaves alone.
ReceivedSame(e, f) ==
  f.executed = e.executed /\ f.heard = e.heard /\ f.upto = e.upto /\ f.acknowledged = e.acknowledged
AddedSame(e, f)  == f.ring = e.ring /\ f.sequence = e.sequence /\ f.log = e.log
SentSame(e, f)   == f.sent = e.sent /\ f.net = e.net
ServerSame(s, t) == t.state = s.state /\ t.configStrings = s.configStrings
PiecesSame(c, d) ==
  d.strings = c.strings /\ d.fragmentIndex = c.fragmentIndex /\ d.fragmentNum = c.fragmentNum /\ d.buffer = c.buffer
ClientSame(c, d) == d.state = c.state /\ d.failed = c.failed /\ PiecesSame(c, d)

\* One command more in the queue.
PutIn(e, f, command) ==
  /\ f.sequence = e.sequence + 1 /\ f.log = Append(e.log, command)
  /\ f.ring = [e.ring EXCEPT ![(e.sequence + 1) % RingSize] = command]

\* The server adds a command.
LEMMA ServerPut ==
  ASSUME NEW s \in ServerType, NEW command \in Told, NEW t, t = Put(s, command)
  PROVE  t \in ServerType /\ PutIn(s, t, command) /\ ReceivedSame(s, t) /\ SentSame(s, t) /\ ServerSame(s, t)
<1>1. (s.sequence + 1) % RingSize \in 0..(RingSize - 1)
  <2>1. s.sequence + 1 \in Int
    BY DEF ServerType
  <2> QED
    BY <2>1, SlotExists
<1>2. [s.ring EXCEPT ![(s.sequence + 1) % RingSize] = command] \in Rings(Told)
  BY <1>1 DEF ServerType, Rings
<1>3. Append(s.log, command) \in Seq(Told) /\ s.sequence + 1 \in Nat
  BY DEF ServerType
<1> QED
  BY <1>2, <1>3 DEF ServerType, Put, PutIn, ReceivedSame, SentSame, ServerSame

\* The client adds a command.
LEMMA ClientPut ==
  ASSUME NEW c \in ClientType, NEW command \in Asked, NEW d, d = Put(c, command)
  PROVE  d \in ClientType /\ PutIn(c, d, command) /\ ReceivedSame(c, d) /\ SentSame(c, d) /\ ClientSame(c, d)
<1>1. (c.sequence + 1) % RingSize \in 0..(RingSize - 1)
  <2>1. c.sequence + 1 \in Int
    BY DEF ClientType
  <2> QED
    BY <2>1, SlotExists
<1>2. [c.ring EXCEPT ![(c.sequence + 1) % RingSize] = command] \in Rings(Asked)
  BY <1>1 DEF ClientType, Rings
<1>3. Append(c.log, command) \in Seq(Asked) /\ c.sequence + 1 \in Nat
  BY DEF ClientType
<1> QED
  BY <1>2, <1>3 DEF ClientType, Put, PutIn, ReceivedSame, SentSame, ClientSame, PiecesSame

\* A message, and what it holds.
MessageOf(e) == [ack |-> e.executed, commands |-> Unacknowledged(e), upto |-> e.sequence]

LEMMA Collected ==
  ASSUME NEW Commands, NEW e, e.ring \in Rings(Commands), e.sequence \in Nat, e.acknowledged \in Nat, e.executed \in Nat
  PROVE  /\ MessageOf(e) \in Messages(Commands)
         /\ LET m == MessageOf(e)
            IN /\ m.ack = e.executed /\ m.upto = e.sequence
               /\ Pending(e) >= 0 => Len(m.commands) = Pending(e)
               /\ \A k \in 1..Len(m.commands) :
                    m.commands[k].number = e.acknowledged + k /\ m.commands[k].command = Slot(e, e.acknowledged + k)
<1> DEFINE n == IF Pending(e) > 0 THEN Pending(e) ELSE 0
           u == Unacknowledged(e)
<1>1. n \in Nat /\ (Pending(e) >= 0 => n = Pending(e))
  BY DEF Pending
<1>2. u = [k \in 1..n |-> [number |-> e.acknowledged + k, command |-> Slot(e, e.acknowledged + k)]]
  BY DEF Unacknowledged
<1>3. ASSUME NEW k \in 1..n
      PROVE  [number |-> e.acknowledged + k, command |-> Slot(e, e.acknowledged + k)] \in [number : Nat, command : Commands]
  <2>1. e.acknowledged + k \in Nat
    BY <1>1
  <2>2. (e.acknowledged + k) % RingSize \in 0..(RingSize - 1)
    BY <2>1, SlotExists
  <2>3. Slot(e, e.acknowledged + k) \in Commands
    BY <2>2 DEF Slot, Rings
  <2> QED
    BY <2>1, <2>3
<1> HIDE DEF n, u
<1>4. u \in Seq([number : Nat, command : Commands]) /\ Len(u) = n
  BY <1>1, <1>2, <1>3
<1>5. MessageOf(e) = [ack |-> e.executed, commands |-> u, upto |-> e.sequence]
  BY DEF MessageOf, u
<1>6. \A k \in 1..n : u[k].number = e.acknowledged + k /\ u[k].command = Slot(e, e.acknowledged + k)
  BY <1>1, <1>2
<1> QED
  BY <1>1, <1>4, <1>5, <1>6 DEF Messages

\* One message more on its way.
SentOne(e, f) == f.net = Append(e.net, MessageOf(e)) /\ f.sent = e.sequence

\* The server sends.
LEMMA ServerSend ==
  ASSUME NEW s \in ServerType, NEW t, t = Send(s)
  PROVE  t \in ServerType /\ SentOne(s, t) /\ ReceivedSame(s, t) /\ AddedSame(s, t) /\ ServerSame(s, t)
<1>1. MessageOf(s) \in Messages(Told)
  BY Collected DEF ServerType
<1>2. t = [s EXCEPT !.net = Append(@, MessageOf(s)), !.sent = s.sequence]
  BY DEF Send, MessageOf
<1>3. Append(s.net, MessageOf(s)) \in Seq(Messages(Told)) /\ s.sequence \in Nat
  BY <1>1 DEF ServerType
<1> QED
  BY <1>2, <1>3 DEF ServerType, SentOne, ReceivedSame, AddedSame, ServerSame

\* The client sends.
LEMMA ClientSend ==
  ASSUME NEW c \in ClientType, NEW d, d = Send(c)
  PROVE  d \in ClientType /\ SentOne(c, d) /\ ReceivedSame(c, d) /\ AddedSame(c, d) /\ ClientSame(c, d)
<1>1. MessageOf(c) \in Messages(Asked)
  BY Collected DEF ClientType
<1>2. d = [c EXCEPT !.net = Append(@, MessageOf(c)), !.sent = c.sequence]
  BY DEF Send, MessageOf
<1>3. Append(c.net, MessageOf(c)) \in Seq(Messages(Asked)) /\ c.sequence \in Nat
  BY <1>1 DEF ClientType
<1> QED
  BY <1>2, <1>3 DEF ClientType, SentOne, ReceivedSame, AddedSame, ClientSame, PiecesSame

\* What a message brings.
Executing(e, f, c) ==
  f.executed = c.number /\ f.heard = Append(e.heard, c.command) /\ f.upto = e.upto /\ f.acknowledged = e.acknowledged

Acknowledging(e, f, m) ==
  f.executed = e.executed /\ f.heard = e.heard /\ f.upto = m.upto /\ f.acknowledged = m.ack

\* The server counts a command as executed.
LEMMA ServerExecute ==
  ASSUME NEW s \in ServerType, NEW c \in [number : Nat, command : Asked], NEW t, t = Execute(s, c)
  PROVE  t \in ServerType /\ Executing(s, t, c) /\ AddedSame(s, t) /\ SentSame(s, t) /\ ServerSame(s, t)
<1>1. Append(s.heard, c.command) \in Seq(Asked) /\ c.number \in Nat
  BY DEF ServerType
<1> QED
  BY <1>1 DEF ServerType, Execute, Executing, AddedSame, SentSame, ServerSame

\* The client counts a command as executed.
LEMMA ClientExecute ==
  ASSUME NEW c \in ClientType, NEW n \in [number : Nat, command : Told], NEW d, d = Execute(c, n)
  PROVE  d \in ClientType /\ Executing(c, d, n) /\ AddedSame(c, d) /\ SentSame(c, d) /\ ClientSame(c, d)
<1>1. Append(c.heard, n.command) \in Seq(Told) /\ n.number \in Nat
  BY DEF ClientType
<1> QED
  BY <1>1 DEF ClientType, Execute, Executing, AddedSame, SentSame, ClientSame, PiecesSame

\* The server reads an acknowledgement.
LEMMA ServerAck ==
  ASSUME NEW s \in ServerType, NEW m \in Messages(Asked), NEW t, t = [s EXCEPT !.acknowledged = m.ack, !.upto = m.upto]
  PROVE  t \in ServerType /\ Acknowledging(s, t, m) /\ AddedSame(s, t) /\ SentSame(s, t) /\ ServerSame(s, t)
  BY DEF ServerType, Messages, Acknowledging, AddedSame, SentSame, ServerSame

\* The client reads an acknowledgement.
LEMMA ClientAck ==
  ASSUME NEW c \in ClientType, NEW m \in Messages(Told), NEW d, d = [c EXCEPT !.acknowledged = m.ack, !.upto = m.upto]
  PROVE  d \in ClientType /\ Acknowledging(c, d, m) /\ AddedSame(c, d) /\ SentSame(c, d) /\ ClientSame(c, d)
  BY DEF ClientType, Messages, Acknowledging, AddedSame, SentSame, ClientSame, PiecesSame

-----------------------------------------------------------------------------
(* The queue of the server.                                                *)

\* A configstring command holds pairs.
Pairs == Seq(Strings \X Values)

LEMMA CsPairs ==
  ASSUME NEW command \in Told, IsCs(command)
  PROVE  command = <<"cs", command[2]>> /\ command[2] \in Pairs
<1>1. command \notin {Empty, <<"print">>, <<"precache">>, <<"disconnect">>}
  BY DEF IsCs, Empty
<1>2. command \notin {"csf"} \X Strings \X Nat \X (1..MaxFragments) \X Values
  BY DEF IsCs
<1>3. command \notin {"cmd"} \X (Asked \ {Empty})
  BY DEF IsCs
<1>4. command \in {"cs"} \X Pairs
  BY <1>1, <1>2, <1>3 DEF Told, FragmentCommands, Pairs
<1> QED
  BY <1>4

\* The commands that configstrings may join are not sent yet.
LEMMA RoomIsUnsent ==
  ASSUME NEW s \in ServerType, NEW pairs \in Pairs, NEW n \in HasRoom(s, pairs)
  PROVE  /\ n \in Nat /\ s.sent < n /\ (s.acknowledged <= s.sent => s.acknowledged < n)
         /\ n <= s.sequence /\ IsCs(Slot(s, n)) /\ n % RingSize \in 0..(RingSize - 1)
<1>1. n \in (s.sent + 1)..s.sequence /\ IsCs(Slot(s, n))
  BY DEF HasRoom
<1>2. s.sent \in Nat /\ s.sequence \in Nat /\ s.acknowledged \in Nat
  BY DEF ServerType
<1>3. n \in Int
  BY <1>1, <1>2
<1> QED
  BY <1>1, <1>2, <1>3, SlotExists

\* What an amended command becomes.
Amended(s, t, n, pairs) ==
  /\ t.ring = [s.ring EXCEPT ![n % RingSize] = <<"cs", Slot(s, n)[2] \o pairs>>]
  /\ t.log = [s.log EXCEPT ![n] = <<"cs", Slot(s, n)[2] \o pairs>>]
  /\ t.sequence = s.sequence

LEMMA ServerAmend ==
  ASSUME NEW s \in ServerType, NEW pairs \in Pairs, NEW n \in HasRoom(s, pairs), NEW t, t = Amend(s, n, pairs)
  PROVE  t \in ServerType /\ Amended(s, t, n, pairs) /\ ReceivedSame(s, t) /\ SentSame(s, t) /\ ServerSame(s, t)
<1>1. n % RingSize \in 0..(RingSize - 1) /\ IsCs(Slot(s, n))
  BY RoomIsUnsent
<1>2. Slot(s, n) \in Told
  BY <1>1 DEF Slot, ServerType, Rings
<1>3. Slot(s, n)[2] \o pairs \in Pairs
  BY <1>1, <1>2, CsPairs DEF Pairs
<1> DEFINE command == <<"cs", Slot(s, n)[2] \o pairs>>
<1>4. command \in Told
  BY <1>3 DEF Told, Pairs
<1>5. t = [s EXCEPT !.ring[n % RingSize] = command, !.log[n] = command]
  BY DEF Amend, Batched
<1> HIDE DEF command
<1>6. [s.ring EXCEPT ![n % RingSize] = command] \in Rings(Told)
  BY <1>1, <1>4 DEF ServerType, Rings
<1>7. [s.log EXCEPT ![n] = command] \in Seq(Told)
  <2>1. s.log \in [1..Len(s.log) -> Told] /\ Len(s.log) \in Nat
    BY DEF ServerType
  <2>2. [s.log EXCEPT ![n] = command] \in [1..Len(s.log) -> Told]
    BY <1>4, <2>1
  <2> QED
    BY <2>1, <2>2, SMT
<1>8. /\ t \in ServerType /\ t.ring = [s.ring EXCEPT ![n % RingSize] = command]
      /\ t.log = [s.log EXCEPT ![n] = command] /\ t.sequence = s.sequence
      /\ ReceivedSame(s, t) /\ SentSame(s, t) /\ ServerSame(s, t)
  BY <1>5, <1>6, <1>7 DEF ServerType, ReceivedSame, SentSame, ServerSame
<1> QED
  BY <1>8 DEF Amended, command

\* A client that is dropped is a zombie.
LEMMA Dropped ==
  ASSUME NEW s \in ServerType
  PROVE  Drop(s) \in ServerType /\ Drop(s).state = "CS_ZOMBIE"
<1>1. <<"disconnect">> \in Told
  BY DEF Told
<1>2. Put(s, <<"disconnect">>) \in ServerType
  BY <1>1, ServerPut
<1>3. PICK t \in ServerType : t = Send(Put(s, <<"disconnect">>))
  BY <1>2, ServerSend
<1> QED
  BY <1>3 DEF Drop, ServerType

\* What SV_AddServerCommand may do.
JoinsEarlier(s, t, command) ==
  /\ IsCs(command)
  /\ \E n \in HasRoom(s, command[2]) :
       n = Max(HasRoom(s, command[2])) /\ t = Amend(s, n, command[2])

Queued(s, t, command) ==
  /\ IsCs(command) => HasRoom(s, command[2]) = {}
  /\ ~Overflows(s) /\ t = Put(s, command)

LEMMA Added ==
  ASSUME NEW s \in ServerType, NEW command \in Told, NEW t, t = AddServerCommand(s, command)
  PROVE  /\ t \in ServerType
         /\ \/ s.state = "CS_ZOMBIE" /\ t = s
            \/ s.state # "CS_ZOMBIE" /\ t.state = "CS_ZOMBIE"
            \/ s.state # "CS_ZOMBIE" /\ JoinsEarlier(s, t, command)
            \/ s.state # "CS_ZOMBIE" /\ Queued(s, t, command)
<1> DEFINE room == IF IsCs(command) THEN HasRoom(s, command[2]) ELSE {}
<1>1. CASE s.state = "CS_ZOMBIE"
  <2>1. t = s
    BY <1>1 DEF AddServerCommand
  <2> QED
    BY <1>1, <2>1
<1>2. CASE s.state # "CS_ZOMBIE" /\ room # {}
  <2>1. t = Amend(s, Max(room), command[2])
    BY <1>2 DEF AddServerCommand
  <2>2. IsCs(command) /\ room = HasRoom(s, command[2]) /\ command[2] \in Pairs
    BY <1>2, CsPairs
  <2>3. room \in SUBSET (0..s.sequence) /\ s.sequence \in Nat
    BY <2>2 DEF HasRoom, ServerType
  <2> HIDE DEF room
  <2>4. Max(room) \in room
    BY <1>2, <2>3, GreatestNumber
  <2>5. t \in ServerType
    BY <2>1, <2>2, <2>4, ServerAmend
  <2> QED
    BY <1>2, <2>1, <2>2, <2>4, <2>5 DEF JoinsEarlier
<1>3. CASE s.state # "CS_ZOMBIE" /\ room = {} /\ Overflows(s)
  <2>1. PICK n \in Nat : n = s.sequence + 1
    BY DEF ServerType
  <2>2. t = Drop([s EXCEPT !.sequence = n])
    BY <1>3, <2>1 DEF AddServerCommand
  <2>3. PICK u \in ServerType : u = [s EXCEPT !.sequence = n]
    BY DEF ServerType
  <2> QED
    BY <1>3, <2>2, <2>3, Dropped
<1>4. CASE s.state # "CS_ZOMBIE" /\ room = {} /\ ~Overflows(s)
  <2>1. t = Put(s, command)
    BY <1>4 DEF AddServerCommand
  <2>2. t \in ServerType
    BY <2>1, ServerPut
  <2> QED
    BY <1>4, <2>1, <2>2 DEF Queued
<1> QED
  BY <1>1, <1>2, <1>3, <1>4

\* A recursion whose steps stay in a set.
LEMMA Recursion ==
  ASSUME NEW n, NEW S, NEW f, Steps(f, n, S), NEW s0 \in S
  PROVE  \E h \in [0..n -> S] : h = [k \in 0..n |-> IF k = 0 THEN s0 ELSE f[k][h[k - 1]]]
<1>1. PICK h : RunOf(h, f, n, S, s0)
  BY Iteration
<1>2. h \in [0..n -> S] /\ h = [k \in 0..n |-> h[k]]
  BY <1>1 DEF RunOf
<1>3. ASSUME NEW k \in 0..n PROVE h[k] = IF k = 0 THEN s0 ELSE f[k][h[k - 1]]
  <2>1. k = 0 \/ k \in 1..n
    BY DEF Steps
  <2> QED
    BY <1>1, <2>1 DEF RunOf
<1> QED
  BY <1>2, <1>3, Zenon

\* The fragments of a configstring are added one after another.
LEMMA FragmentTyped ==
  ASSUME NEW i \in Strings, NEW v \in Values, NumFragments(v[2]) \in 1..MaxFragments, NEW k \in 1..NumFragments(v[2])
  PROVE  Fragment(i, v, k - 1) \in Told
<1>1. k - 1 \in Nat /\ k - 1 < NumFragments(v[2])
  BY FragmentsFit
<1> QED
  BY <1>1 DEF Fragment, Told, FragmentCommands

LEMMA FragmentsRun ==
  ASSUME NEW s \in ServerType, NEW i \in Strings, NEW v \in Values, NumFragments(v[2]) \in 1..MaxFragments
  PROVE  \E h \in [0..NumFragments(v[2]) -> ServerType] :
           /\ h[0] = s /\ h[NumFragments(v[2])] = AddFragmentedConfigString(s, i, v)
           /\ \A k \in 1..NumFragments(v[2]) : h[k] = AddServerCommand(h[k - 1], Fragment(i, v, k - 1))
<1> DEFINE n == NumFragments(v[2])
           added[k \in 0..n] == IF k = 0 THEN s ELSE AddServerCommand(added[k - 1], Fragment(i, v, k - 1))
           f == [k \in 1..n |-> [t \in ServerType |-> AddServerCommand(t, Fragment(i, v, k - 1))]]
<1>1. n \in Nat /\ n > 0
  BY FragmentsFit
<1>2. AddFragmentedConfigString(s, i, v) = added[n]
  BY DEF AddFragmentedConfigString
<1> HIDE DEF n
<1>3. \A t \in ServerType, k \in 1..n : AddServerCommand(t, Fragment(i, v, k - 1)) \in ServerType
  BY FragmentTyped, Added DEF n
<1>4. PICK h \in [0..n -> ServerType] :
        h = [k \in 0..n |-> IF k = 0 THEN s ELSE f[k][h[k - 1]]]
  <2>1. f \in [1..n -> [ServerType -> ServerType]]
    BY <1>3
  <2> HIDE DEF f
  <2>2. Steps(f, n, ServerType)
    BY <1>1, <2>1 DEF Steps
  <2> QED
    BY <2>2, Recursion
<1>5. \A k \in 1..n : k \in 0..n /\ k # 0 /\ k - 1 \in 0..n
  BY <1>1
<1>6. \A k \in 1..n : f[k][h[k - 1]] = AddServerCommand(h[k - 1], Fragment(i, v, k - 1))
  BY <1>4, <1>5
<1>7. h = [k \in 0..n |-> IF k = 0 THEN s ELSE AddServerCommand(h[k - 1], Fragment(i, v, k - 1))]
  <2>1. \A k \in 0..n : k = 0 \/ k \in 1..n
    BY <1>1
  <2> HIDE DEF f
  <2>2. \A k \in 0..n : (IF k = 0 THEN s ELSE f[k][h[k - 1]]) = (IF k = 0 THEN s ELSE AddServerCommand(h[k - 1], Fragment(i, v, k - 1)))
    BY <1>6, <2>1
  <2> QED
    BY <1>4, <2>2, Zenon
<1>8. added = [k \in 0..n |-> IF k = 0 THEN s ELSE AddServerCommand(added[k - 1], Fragment(i, v, k - 1))]
  BY <1>7, Zenon DEF added
<1> HIDE DEF added, f
<1>9. added[0] = s /\ \A k \in 1..n : added[k] = AddServerCommand(added[k - 1], Fragment(i, v, k - 1))
  BY <1>1, <1>5, <1>8
<1>10. \A k \in 0..n : added[k] \in ServerType
  <2> DEFINE good == {k \in 0..n : added[k] \in ServerType}
  <2>1. 0 \in good
    BY <1>1, <1>9
  <2>2. ASSUME NEW k \in 1..n, k - 1 \in good PROVE k \in good
    BY <1>3, <1>5, <1>9, <2>2
  <2> HIDE DEF good
  <2>3. \A k \in 0..n : k \in good
    BY <1>1, <2>1, <2>2, UpTo, Zenon
  <2> QED
    BY <2>3 DEF good
<1>11. added \in [0..n -> ServerType]
  BY <1>8, <1>10
<1> QED
  BY <1>2, <1>9, <1>11 DEF n

\* A configstring of the level, in one piece or in fragments.
LEMMA ConfigStringFits ==
  ASSUME NEW s \in ServerType, NEW i \in Strings
  PROVE  /\ s.configStrings[i] \in Values
         /\ s.configStrings[i][2] < Capacity \/ NumFragments(s.configStrings[i][2]) \in 1..MaxFragments
<1>1. s.configStrings[i] \in Values /\ (s.configStrings[i][2] < Capacity \/ s.configStrings[i][2] = InitialSizes[i + 1])
  BY DEF ServerType, ServerStrings
<1> QED
  BY <1>1, FragmentsFit

LEMMA PairTyped ==
  ASSUME NEW i \in Strings, NEW v \in Values
  PROVE  <<<<i, v>>>> \in Pairs /\ <<"cs", <<<<i, v>>>>>> \in Told /\ IsCs(<<"cs", <<<<i, v>>>>>>)
<1>1. <<<<i, v>>>> \in Pairs
  BY DEF Pairs
<1> QED
  BY <1>1 DEF Told, Pairs, IsCs

LEMMA SentTyped ==
  ASSUME NEW s \in ServerType, NEW i \in Strings
  PROVE  SendConfigString(s, i, s.configStrings[i]) \in ServerType
<1> DEFINE v == s.configStrings[i]
<1>1. v \in Values
  BY ConfigStringFits
<1>2. CASE v[2] < Capacity
  <2>1. SendConfigString(s, i, v) = AddServerCommand(s, <<"cs", <<<<i, v>>>>>>)
    BY <1>2 DEF SendConfigString
  <2>2. <<"cs", <<<<i, v>>>>>> \in Told
    BY <1>1, PairTyped
  <2> QED
    BY <2>1, <2>2, Added
<1>3. CASE ~(v[2] < Capacity)
  <2>1. SendConfigString(s, i, v) = AddFragmentedConfigString(s, i, v)
    BY <1>3 DEF SendConfigString
  <2>2. NumFragments(v[2]) \in 1..MaxFragments
    BY <1>3, ConfigStringFits
  <2> HIDE DEF v
  <2>3. PICK h \in [0..NumFragments(v[2]) -> ServerType] : h[NumFragments(v[2])] = AddFragmentedConfigString(s, i, v)
    BY <1>1, <2>2, FragmentsRun
  <2>4. NumFragments(v[2]) \in 0..NumFragments(v[2])
    BY <2>2, FragmentsFit
  <2> QED
    BY <2>1, <2>3, <2>4 DEF v
<1> QED
  BY <1>2, <1>3

\* Configstrings are sent until there is no space.
Batches == [s : ServerType, start : 0..NumStrings]

LEMMA NextTyped ==
  ASSUME NEW batch \in Batches, NEW i \in Strings
  PROVE  SendNext(batch, i) \in Batches
<1>1. batch.s \in ServerType /\ i + 1 \in 0..NumStrings
  BY FragmentsFit DEF Batches
<1>2. SendConfigString(batch.s, i, batch.s.configStrings[i]) \in ServerType
  BY <1>1, SentTyped
<1> QED
  BY <1>1, <1>2 DEF SendNext, Batches

LEMMA ConfigstringsRun ==
  ASSUME NEW s \in ServerType, NEW start \in 0..NumStrings
  PROVE  \E h \in [0..(NumStrings - start) -> Batches] :
           /\ h[0] = [s |-> [s EXCEPT !.state = "CS_CONNECTED"], start |-> start]
           /\ Configstrings(s, start) = AskAgain(h[NumStrings - start].s, h[NumStrings - start].start)
           /\ \A k \in 1..(NumStrings - start) : h[k] = SendNext(h[k - 1], start + k - 1)
<1> DEFINE first == [s |-> [s EXCEPT !.state = "CS_CONNECTED"], start |-> start]
<1> DEFINE n == NumStrings - start
           batch[k \in 0..n] == IF k = 0 THEN first ELSE SendNext(batch[k - 1], start + k - 1)
           f == [k \in 1..n |-> [t \in Batches |-> SendNext(t, start + k - 1)]]
<1>1. n \in Nat
  BY SizesAssumption DEF NumStrings
<1>2. Configstrings(s, start) = AskAgain(batch[n].s, batch[n].start)
  BY DEF Configstrings
<1> HIDE DEF n
<1>3. \A t \in Batches, k \in 1..n : SendNext(t, start + k - 1) \in Batches
  <2>1. \A k \in 1..n : start + k - 1 \in Strings
    BY <1>1, SizesAssumption DEF n, Strings, NumStrings
  <2> QED
    BY <2>1, NextTyped
<1>4. first \in Batches
  <2>1. [s EXCEPT !.state = "CS_CONNECTED"] \in ServerType
    BY DEF ServerType
  <2> QED
    BY <2>1 DEF Batches
<1> HIDE DEF first
<1>5. PICK h \in [0..n -> Batches] :
        h = [k \in 0..n |-> IF k = 0 THEN first ELSE f[k][h[k - 1]]]
  <2>1. f \in [1..n -> [Batches -> Batches]]
    BY <1>3
  <2> HIDE DEF f
  <2>2. Steps(f, n, Batches)
    BY <1>1, <2>1 DEF Steps
  <2> QED
    BY <1>4, <2>2, Recursion
<1>6. \A k \in 1..n : k \in 0..n /\ k # 0 /\ k - 1 \in 0..n
  BY <1>1
<1>7. \A k \in 1..n : f[k][h[k - 1]] = SendNext(h[k - 1], start + k - 1)
  BY <1>5, <1>6
<1>8. h = [k \in 0..n |-> IF k = 0 THEN first ELSE SendNext(h[k - 1], start + k - 1)]
  <2>1. \A k \in 0..n : k = 0 \/ k \in 1..n
    BY <1>1
  <2> HIDE DEF f
  <2>2. \A k \in 0..n : (IF k = 0 THEN first ELSE f[k][h[k - 1]])
                         = (IF k = 0 THEN first ELSE SendNext(h[k - 1], start + k - 1))
    BY <1>7, <2>1
  <2> QED
    BY <1>5, <2>2, Zenon
<1>9. batch = [k \in 0..n |-> IF k = 0 THEN first ELSE SendNext(batch[k - 1], start + k - 1)]
  BY <1>8, Zenon DEF batch
<1> HIDE DEF batch, f
<1>10. batch[0] = first /\ \A k \in 1..n : batch[k] = SendNext(batch[k - 1], start + k - 1)
  BY <1>1, <1>6, <1>9
<1>11. \A k \in 0..n : batch[k] \in Batches
  <2> DEFINE good == {k \in 0..n : batch[k] \in Batches}
  <2>1. 0 \in good
    BY <1>1, <1>4, <1>10
  <2>2. ASSUME NEW k \in 1..n, k - 1 \in good PROVE k \in good
    BY <1>3, <1>6, <1>10, <2>2
  <2> HIDE DEF good
  <2>3. \A k \in 0..n : k \in good
    BY <1>1, <2>1, <2>2, UpTo, Zenon
  <2> QED
    BY <2>3 DEF good
<1>12. batch \in [0..n -> Batches]
  BY <1>9, <1>11
<1> QED
  BY <1>2, <1>10, <1>12 DEF n, first

\* What the server asks the client for next.
LEMMA NextAskTyped ==
  ASSUME NEW start \in 0..NumStrings
  PROVE  <<"cmd", IF start = NumStrings THEN <<"baselines">> ELSE <<"configstrings", start>>>> \in Told
<1>1. <<"baselines">> \in Asked \ {Empty} /\ <<"configstrings", start>> \in Asked \ {Empty}
  BY DEF Asked, Empty
<1> QED
  BY <1>1 DEF Told

LEMMA ConfigstringsTyped ==
  ASSUME NEW s \in ServerType, NEW start \in 0..NumStrings
  PROVE  Configstrings(s, start) \in ServerType
<1> DEFINE n == NumStrings - start
<1>1. n \in 0..n
  BY SizesAssumption DEF NumStrings
<1>2. PICK h \in [0..n -> Batches] : Configstrings(s, start) = AskAgain(h[n].s, h[n].start)
  BY ConfigstringsRun
<1>3. h[n].s \in ServerType /\ h[n].start \in 0..NumStrings
  BY <1>1, <1>2 DEF Batches
<1> QED
  BY <1>2, <1>3, NextAskTyped, Added DEF AskAgain

\* SV_ExecuteUserCommand.
LEMMA UserCommandTyped ==
  ASSUME NEW s \in ServerType, NEW c \in Asked
  PROVE  ExecuteUserCommand(s, c) \in ServerType
<1>1. CASE c[1] = "configstrings" /\ s.state \in {"CS_CONNECTING", "CS_CONNECTED"}
  <2>1. c[2] \in 0..NumStrings
    BY <1>1 DEF Asked, Empty
  <2>2. ExecuteUserCommand(s, c) = Configstrings(s, c[2])
    BY <1>1 DEF ExecuteUserCommand
  <2> QED
    BY <2>1, <2>2, ConfigstringsTyped
<1>2. CASE c[1] = "baselines" /\ s.state = "CS_CONNECTED"
  <2>1. ExecuteUserCommand(s, c) = Send(AddServerCommand(s, <<"precache">>))
    BY <1>2 DEF ExecuteUserCommand
  <2>2. <<"precache">> \in Told
    BY DEF Told
  <2> QED
    BY <2>1, <2>2, Added, ServerSend
<1>3. CASE c[1] = "begin" /\ s.state = "CS_CONNECTED"
  <2>1. ExecuteUserCommand(s, c) = [s EXCEPT !.state = "CS_SPAWNED"]
    BY <1>3 DEF ExecuteUserCommand
  <2> QED
    BY <2>1 DEF ServerType
<1>4. CASE c[1] = "begin" /\ s.state # "CS_CONNECTED"
  <2>1. ExecuteUserCommand(s, c) = Drop(s)
    BY <1>4 DEF ExecuteUserCommand
  <2> QED
    BY <2>1, Dropped
<1>5. CASE /\ ~(c[1] = "configstrings" /\ s.state \in {"CS_CONNECTING", "CS_CONNECTED"})
           /\ ~(c[1] = "baselines" /\ s.state = "CS_CONNECTED") /\ c[1] # "begin"
  <2>1. ExecuteUserCommand(s, c) = s
    BY <1>5 DEF ExecuteUserCommand
  <2> QED
    BY <2>1
<1> QED
  BY <1>1, <1>2, <1>3, <1>4, <1>5

LEMMA ServerExecutesTyped ==
  ASSUME NEW s \in ServerType, NEW c \in [number : Nat, command : Asked]
  PROVE  ServerExecutes(s, c) \in ServerType
<1>1. Execute(s, c) \in ServerType /\ c.command \in Asked
  BY ServerExecute
<1> QED
  BY <1>1, UserCommandTyped DEF ServerExecutes

\* The commands of a message are executed one after another.
LEMMA ClientMessageRun ==
  ASSUME NEW s \in ServerType, NEW m \in Messages(Asked), IsPossibleAck(s, m.ack)
  PROVE  \E h \in [0..Len(m.commands) -> ServerType] :
           /\ h[0] = [s EXCEPT !.acknowledged = m.ack, !.upto = m.upto] /\ ParseClientMessage(s, m) = h[Len(m.commands)]
           /\ \A k \in 1..Len(m.commands) : h[k] = ServerExecutes(h[k - 1], m.commands[k])
<1> DEFINE first == [s EXCEPT !.acknowledged = m.ack, !.upto = m.upto]
<1>0. m.commands \in Seq([number : Nat, command : Asked])
  BY DEF Messages
<1>a. \A k \in 1..Len(m.commands) : m.commands[k] \in [number : Nat, command : Asked]
  BY <1>0, ElementOfSeq
<1> DEFINE n == Len(m.commands)
           parsed[k \in 0..n] == IF k = 0 THEN first ELSE ServerExecutes(parsed[k - 1], m.commands[k])
           f == [k \in 1..n |-> [t \in ServerType |-> ServerExecutes(t, m.commands[k])]]
<1>1. n \in Nat
  BY <1>0
<1>2. ParseClientMessage(s, m) = parsed[n]
  BY DEF ParseClientMessage
<1> HIDE DEF n
<1>3. \A t \in ServerType, k \in 1..n : ServerExecutes(t, m.commands[k]) \in ServerType
  <2>1. \A k \in 1..n : m.commands[k] \in [number : Nat, command : Asked]
    BY <1>a DEF n
  <2> QED
    BY <2>1, ServerExecutesTyped
<1>4. first \in ServerType
  BY ServerAck, Zenon
<1> HIDE DEF first
<1>5. PICK h \in [0..n -> ServerType] :
        h = [k \in 0..n |-> IF k = 0 THEN first ELSE f[k][h[k - 1]]]
  <2>1. f \in [1..n -> [ServerType -> ServerType]]
    BY <1>3
  <2> HIDE DEF f
  <2>2. Steps(f, n, ServerType)
    BY <1>1, <2>1 DEF Steps
  <2> QED
    BY <1>4, <2>2, Recursion
<1>6. \A k \in 1..n : k \in 0..n /\ k # 0 /\ k - 1 \in 0..n
  BY <1>1
<1>7. \A k \in 1..n : f[k][h[k - 1]] = ServerExecutes(h[k - 1], m.commands[k])
  BY <1>5, <1>6
<1>8. h = [k \in 0..n |-> IF k = 0 THEN first ELSE ServerExecutes(h[k - 1], m.commands[k])]
  <2>1. \A k \in 0..n : k = 0 \/ k \in 1..n
    BY <1>1
  <2> HIDE DEF f
  <2>2. \A k \in 0..n : (IF k = 0 THEN first ELSE f[k][h[k - 1]])
                         = (IF k = 0 THEN first ELSE ServerExecutes(h[k - 1], m.commands[k]))
    BY <1>7, <2>1
  <2> QED
    BY <1>5, <2>2, Zenon
<1>9. parsed = [k \in 0..n |-> IF k = 0 THEN first ELSE ServerExecutes(parsed[k - 1], m.commands[k])]
  BY <1>8, Zenon DEF parsed
<1> HIDE DEF parsed, f
<1>10. parsed[0] = first /\ \A k \in 1..n : parsed[k] = ServerExecutes(parsed[k - 1], m.commands[k])
  BY <1>1, <1>6, <1>9
<1>11. \A k \in 0..n : parsed[k] \in ServerType
  <2> DEFINE good == {k \in 0..n : parsed[k] \in ServerType}
  <2>1. 0 \in good
    BY <1>1, <1>4, <1>10
  <2>2. ASSUME NEW k \in 1..n, k - 1 \in good PROVE k \in good
    BY <1>3, <1>6, <1>10, <2>2
  <2> HIDE DEF good
  <2>3. \A k \in 0..n : k \in good
    BY <1>1, <2>1, <2>2, UpTo, Zenon
  <2> QED
    BY <2>3 DEF good
<1>12. parsed \in [0..n -> ServerType]
  BY <1>9, <1>11
<1> QED
  BY <1>2, <1>10, <1>12 DEF n, first

-----------------------------------------------------------------------------
(* The commands that the client executes.                                  *)

\* What a failed client keeps.
Failing(c, d) == d.failed /\ d.state = "CA_DISCONNECTED"

LEMMA AddedByClient ==
  ASSUME NEW c \in ClientType, NEW command \in Asked, NEW d, d = AddReliableCommand(c, command)
  PROVE  /\ d \in ClientType
         /\ \/ Pending(c) > RingSize /\ Failing(c, d)
            \/ Pending(c) <= RingSize /\ d = Put(c, command)
<1>1. c.sequence \in Nat /\ c.acknowledged \in Nat /\ RingSize \in Nat
  BY RingAssumption DEF ClientType
<1>2. CASE c.sequence > c.acknowledged + RingSize
  <2>1. PICK e \in ClientType : e = [c EXCEPT !.acknowledged = c.sequence]
    BY <1>1 DEF ClientType
  <2>2. d = [e EXCEPT !.state = "CA_DISCONNECTED", !.failed = TRUE]
    BY <1>2, <2>1 DEF AddReliableCommand, Fail
  <2>3. d \in ClientType /\ Failing(c, d)
    BY <2>2 DEF ClientType, Failing
  <2> QED
    BY <1>1, <1>2, <2>3 DEF Pending
<1>3. CASE ~(c.sequence > c.acknowledged + RingSize)
  <2>1. d = Put(c, command)
    BY <1>3 DEF AddReliableCommand
  <2>2. d \in ClientType
    BY <2>1, ClientPut
  <2> QED
    BY <1>1, <1>3, <2>1, <2>2 DEF Pending
<1> QED
  BY <1>2, <1>3

\* The pairs of a configstring command are set one after another.
Setting(strings, pair) == [strings EXCEPT ![pair[1]] = pair[2]]

LEMMA PairsRun ==
  ASSUME NEW c \in ClientType, NEW pairs \in Pairs
  PROVE  \E h \in [0..Len(pairs) -> [Strings -> Values]] :
           /\ h[0] = c.strings /\ ParseConfigstrings(c, pairs) = [c EXCEPT !.strings = h[Len(pairs)]]
           /\ \A k \in 1..Len(pairs) : h[k] = Setting(h[k - 1], pairs[k])
<1> DEFINE S == [Strings -> Values]
<1>0. pairs \in Seq(Strings \X Values)
  BY DEF Pairs
<1>a. \A k \in 1..Len(pairs) : pairs[k][1] \in Strings /\ pairs[k][2] \in Values
  BY <1>0, ElementOfSeq
<1> DEFINE n == Len(pairs)
           strings[k \in 0..n] == IF k = 0 THEN c.strings ELSE Setting(strings[k - 1], pairs[k])
           f == [k \in 1..n |-> [t \in S |-> Setting(t, pairs[k])]]
<1>1. n \in Nat
  BY <1>0
<1>2. ParseConfigstrings(c, pairs) = [c EXCEPT !.strings = strings[n]]
  BY DEF ParseConfigstrings, Setting
<1> HIDE DEF n
<1>3. \A t \in S, k \in 1..n : Setting(t, pairs[k]) \in S
  BY <1>a DEF n, Setting
<1>4. c.strings \in S
  BY DEF ClientType
<1> HIDE DEF S
<1>5. PICK h \in [0..n -> S] :
        h = [k \in 0..n |-> IF k = 0 THEN c.strings ELSE f[k][h[k - 1]]]
  <2>1. f \in [1..n -> [S -> S]]
    BY <1>3
  <2> HIDE DEF f
  <2>2. Steps(f, n, S)
    BY <1>1, <2>1 DEF Steps
  <2> QED
    BY <1>4, <2>2, Recursion
<1>6. \A k \in 1..n : k \in 0..n /\ k # 0 /\ k - 1 \in 0..n
  BY <1>1
<1>7. \A k \in 1..n : f[k][h[k - 1]] = Setting(h[k - 1], pairs[k])
  BY <1>5, <1>6
<1>8. h = [k \in 0..n |-> IF k = 0 THEN c.strings ELSE Setting(h[k - 1], pairs[k])]
  <2>1. \A k \in 0..n : k = 0 \/ k \in 1..n
    BY <1>1
  <2> HIDE DEF f
  <2>2. \A k \in 0..n : (IF k = 0 THEN c.strings ELSE f[k][h[k - 1]])
                         = (IF k = 0 THEN c.strings ELSE Setting(h[k - 1], pairs[k]))
    BY <1>7, <2>1
  <2> QED
    BY <1>5, <2>2, Zenon
<1>9. strings = [k \in 0..n |-> IF k = 0 THEN c.strings ELSE Setting(strings[k - 1], pairs[k])]
  BY <1>8, Zenon DEF strings
<1> HIDE DEF strings, f
<1>10. strings[0] = c.strings /\ \A k \in 1..n : strings[k] = Setting(strings[k - 1], pairs[k])
  BY <1>1, <1>6, <1>9
<1>11. \A k \in 0..n : strings[k] \in S
  <2> DEFINE good == {k \in 0..n : strings[k] \in S}
  <2>1. 0 \in good
    BY <1>1, <1>4, <1>10
  <2>2. ASSUME NEW k \in 1..n, k - 1 \in good PROVE k \in good
    BY <1>3, <1>6, <1>10, <2>2
  <2> HIDE DEF good
  <2>3. \A k \in 0..n : k \in good
    BY <1>1, <2>1, <2>2, UpTo, Zenon
  <2> QED
    BY <2>3 DEF good
<1>12. strings \in [0..n -> S]
  BY <1>9, <1>11
<1> QED
  BY <1>2, <1>10, <1>12 DEF n, S

\* CL_ParseConfigstringCommand touches nothing but the strings.
LEMMA PairsTyped ==
  ASSUME NEW c \in ClientType, NEW pairs \in Pairs, NEW d, d = ParseConfigstrings(c, pairs)
  PROVE  /\ d \in ClientType /\ ReceivedSame(c, d) /\ AddedSame(c, d) /\ SentSame(c, d)
         /\ d.state = c.state /\ d.failed = c.failed
         /\ d.fragmentIndex = c.fragmentIndex /\ d.fragmentNum = c.fragmentNum
<1>1. PICK h \in [0..Len(pairs) -> [Strings -> Values]] : d = [c EXCEPT !.strings = h[Len(pairs)]]
  BY PairsRun
<1>2. Len(pairs) \in 0..Len(pairs)
  BY DEF Pairs
<1>3. h[Len(pairs)] \in [Strings -> Values]
  BY <1>1, <1>2
<1> QED
  BY <1>1, <1>3 DEF ClientType, ReceivedSame, AddedSame, SentSame

\* A fragment is a command of the server.
LEMMA FragmentParts ==
  ASSUME NEW command \in Told, IsFragment(command)
  PROVE  /\ command = <<"csf", command[2], command[3], command[4], command[5]>>
         /\ command[2] \in Strings /\ command[3] \in 0..(MaxFragments - 1) /\ command[4] \in 1..MaxFragments
         /\ command[3] < command[4] /\ command[5] \in Values
<1>1. command \notin {Empty, <<"print">>, <<"precache">>, <<"disconnect">>}
  BY DEF IsFragment, Empty
<1>2. command \notin {"cs"} \X Seq(Strings \X Values)
  BY DEF IsFragment
<1>3. command \notin {"cmd"} \X (Asked \ {Empty})
  BY DEF IsFragment
<1>4. command \in FragmentCommands
  BY <1>1, <1>2, <1>3 DEF Told
<1>5. /\ command \in {"csf"} \X Strings \X Nat \X (1..MaxFragments) \X Values
      /\ command[3] < command[4]
  BY <1>4 DEF FragmentCommands
<1> QED
  BY <1>5, FragmentsFit

\* CL_AddConfigStringFragment keeps the numbers, and an error ends the
\* connection.
FragmentTaken(c, d, i, k, count) ==
  /\ ReceivedSame(c, d) /\ AddedSame(c, d) /\ SentSame(c, d)
  /\ d.state = c.state /\ d.failed = c.failed
  /\ k + 1 # count => d.fragmentIndex = i /\ d.fragmentNum = k
  /\ k + 1 = count => d.fragmentIndex = 0 /\ d.fragmentNum = 0

LEMMA FragmentAdded ==
  ASSUME NEW c \in ClientType, NEW i \in Strings, NEW k \in 0..(MaxFragments - 1), NEW count \in Nat, NEW v \in Values,
         NEW d, d = AddFragment(c, i, k, count, v)
  PROVE  /\ d \in ClientType
         /\ IsOutOfPlace(c, i, k) => Failing(c, d)
         /\ ~IsOutOfPlace(c, i, k) => FragmentTaken(c, d, i, k, count)
<1> DEFINE buffer == [c.buffer EXCEPT ![k] = v]
           value == IF \A j \in 0..k : buffer[j] = v THEN v ELSE Garbage
<1>1. buffer \in [0..(MaxFragments - 1) -> Values] /\ value \in Values
  BY DEF ClientType, Values, Garbage
<1>2. 0 \in Strings /\ 0 \in 0..(MaxFragments - 1)
  BY FragmentsFit, SizesAssumption DEF Strings, NumStrings
<1>3. CASE IsOutOfPlace(c, i, k)
  <2>1. d = [c EXCEPT !.state = "CA_DISCONNECTED", !.failed = TRUE]
    BY <1>3 DEF AddFragment, Fail
  <2>2. d \in ClientType
    BY <2>1 DEF ClientType
  <2>3. Failing(c, d)
    BY <2>1 DEF ClientType, Failing
  <2> QED
    BY <1>3, <2>2, <2>3
<1>4. CASE ~IsOutOfPlace(c, i, k) /\ k + 1 # count
  <2>1. d = [c EXCEPT !.buffer = buffer, !.fragmentIndex = i, !.fragmentNum = k]
    BY <1>4 DEF AddFragment
  <2> HIDE DEF buffer, value
  <2>2. d \in ClientType
    BY <1>1, <2>1 DEF ClientType
  <2>3. FragmentTaken(c, d, i, k, count)
    BY <1>4, <2>1 DEF ClientType, FragmentTaken, ReceivedSame, AddedSame, SentSame
  <2> QED
    BY <1>4, <2>2, <2>3
<1>5. CASE ~IsOutOfPlace(c, i, k) /\ k + 1 = count
  <2>1. d = [c EXCEPT !.buffer = buffer, !.fragmentIndex = 0, !.fragmentNum = 0, !.strings[i] = value]
    BY <1>5 DEF AddFragment
  <2> HIDE DEF buffer, value
  <2>2. [c.strings EXCEPT ![i] = value] \in [Strings -> Values]
    BY <1>1 DEF ClientType
  <2>3. d \in ClientType
    BY <1>1, <1>2, <2>1, <2>2 DEF ClientType
  <2>4. FragmentTaken(c, d, i, k, count)
    BY <1>5, <2>1 DEF ClientType, FragmentTaken, ReceivedSame, AddedSame, SentSame
  <2> QED
    BY <1>5, <2>3, <2>4
<1> QED
  BY <1>3, <1>4, <1>5

\* What a command is about.
LEMMA ForwardedTyped ==
  ASSUME NEW command \in Told, command[1] = "cmd"
  PROVE  command[2] \in Asked \ {Empty}
<1>1. command \notin {Empty, <<"print">>, <<"precache">>, <<"disconnect">>}
  BY DEF Empty
<1>2. command \notin {"cs"} \X Seq(Strings \X Values)
  OBVIOUS
<1>3. command \notin FragmentCommands
  BY DEF FragmentCommands
<1>4. command \in {"cmd"} \X (Asked \ {Empty})
  BY <1>1, <1>2, <1>3 DEF Told
<1> QED
  BY <1>4

\* CL_ParseServerCommand.
LEMMA ServerCommandTyped ==
  ASSUME NEW c \in ClientType, NEW command \in Told
  PROVE  ParseServerCommand(c, command) \in ClientType
<1>1. CASE command[1] = "cs"
  <2>1. command[2] \in Pairs
    BY <1>1, CsPairs DEF IsCs
  <2>2. ParseServerCommand(c, command) = ParseConfigstrings(c, command[2])
    BY <1>1 DEF ParseServerCommand
  <2> QED
    BY <2>1, <2>2, PairsTyped
<1>2. CASE command[1] = "csf"
  <2>1. /\ command[2] \in Strings /\ command[3] \in 0..(MaxFragments - 1) /\ command[4] \in Nat /\ command[5] \in Values
    BY <1>2, FragmentParts, FragmentsFit DEF IsFragment
  <2>2. ParseServerCommand(c, command) = AddFragment(c, command[2], command[3], command[4], command[5])
    BY <1>2 DEF ParseServerCommand
  <2> QED
    BY <2>1, <2>2, FragmentAdded
<1>3. CASE command[1] = "cmd"
  <2>1. ParseServerCommand(c, command) = AddReliableCommand(c, command[2])
    BY <1>3 DEF ParseServerCommand
  <2> QED
    BY <1>3, <2>1, ForwardedTyped, AddedByClient
<1>4. CASE command[1] = "precache"
  <2>1. ParseServerCommand(c, command) = AddReliableCommand(c, <<"begin">>)
    BY <1>4 DEF ParseServerCommand
  <2>2. <<"begin">> \in Asked
    BY DEF Asked
  <2> QED
    BY <2>1, <2>2, AddedByClient
<1>5. CASE command[1] = "disconnect"
  <2>1. ParseServerCommand(c, command) = [c EXCEPT !.state = "CA_DISCONNECTED"]
    BY <1>5 DEF ParseServerCommand, Disconnect
  <2> QED
    BY <2>1 DEF ClientType
<1>6. CASE command[1] \notin {"cs", "csf", "cmd", "precache", "disconnect"}
  <2>1. ParseServerCommand(c, command) = c
    BY <1>6 DEF ParseServerCommand
  <2> QED
    BY <2>1
<1> QED
  BY <1>1, <1>2, <1>3, <1>4, <1>5, <1>6

LEMMA ClientExecutesTyped ==
  ASSUME NEW c \in ClientType, NEW n \in [number : Nat, command : Told]
  PROVE  ClientExecutes(c, n) \in ClientType
<1>1. Execute(c, n) \in ClientType /\ n.command \in Told
  BY ClientExecute
<1> QED
  BY <1>1, ServerCommandTyped DEF ClientExecutes

LEMMA ServerMessageRun ==
  ASSUME NEW c \in ClientType, NEW m \in Messages(Told)
  PROVE  \E h \in [0..Len(m.commands) -> ClientType] :
           /\ h[0] = [c EXCEPT !.acknowledged = m.ack, !.upto = m.upto] /\ ParseServerMessage(c, m) = h[Len(m.commands)]
           /\ \A k \in 1..Len(m.commands) : h[k] = ClientExecutes(h[k - 1], m.commands[k])
<1> DEFINE first == [c EXCEPT !.acknowledged = m.ack, !.upto = m.upto]
<1>0. m.commands \in Seq([number : Nat, command : Told])
  BY DEF Messages
<1>a. \A k \in 1..Len(m.commands) : m.commands[k] \in [number : Nat, command : Told]
  BY <1>0, ElementOfSeq
<1> DEFINE n == Len(m.commands)
           parsed[k \in 0..n] == IF k = 0 THEN first ELSE ClientExecutes(parsed[k - 1], m.commands[k])
           f == [k \in 1..n |-> [t \in ClientType |-> ClientExecutes(t, m.commands[k])]]
<1>1. n \in Nat
  BY <1>0
<1>2. ParseServerMessage(c, m) = parsed[n]
  BY DEF ParseServerMessage
<1> HIDE DEF n
<1>3. \A t \in ClientType, k \in 1..n : ClientExecutes(t, m.commands[k]) \in ClientType
  <2>1. \A k \in 1..n : m.commands[k] \in [number : Nat, command : Told]
    BY <1>a DEF n
  <2> QED
    BY <2>1, ClientExecutesTyped
<1>4. first \in ClientType
  BY ClientAck, Zenon
<1> HIDE DEF first
<1>5. PICK h \in [0..n -> ClientType] :
        h = [k \in 0..n |-> IF k = 0 THEN first ELSE f[k][h[k - 1]]]
  <2>1. f \in [1..n -> [ClientType -> ClientType]]
    BY <1>3
  <2> HIDE DEF f
  <2>2. Steps(f, n, ClientType)
    BY <1>1, <2>1 DEF Steps
  <2> QED
    BY <1>4, <2>2, Recursion
<1>6. \A k \in 1..n : k \in 0..n /\ k # 0 /\ k - 1 \in 0..n
  BY <1>1
<1>7. \A k \in 1..n : f[k][h[k - 1]] = ClientExecutes(h[k - 1], m.commands[k])
  BY <1>5, <1>6
<1>8. h = [k \in 0..n |-> IF k = 0 THEN first ELSE ClientExecutes(h[k - 1], m.commands[k])]
  <2>1. \A k \in 0..n : k = 0 \/ k \in 1..n
    BY <1>1
  <2> HIDE DEF f
  <2>2. \A k \in 0..n : (IF k = 0 THEN first ELSE f[k][h[k - 1]])
                         = (IF k = 0 THEN first ELSE ClientExecutes(h[k - 1], m.commands[k]))
    BY <1>7, <2>1
  <2> QED
    BY <1>5, <2>2, Zenon
<1>9. parsed = [k \in 0..n |-> IF k = 0 THEN first ELSE ClientExecutes(parsed[k - 1], m.commands[k])]
  BY <1>8, Zenon DEF parsed
<1> HIDE DEF parsed, f
<1>10. parsed[0] = first /\ \A k \in 1..n : parsed[k] = ClientExecutes(parsed[k - 1], m.commands[k])
  BY <1>1, <1>6, <1>9
<1>11. \A k \in 0..n : parsed[k] \in ClientType
  <2> DEFINE good == {k \in 0..n : parsed[k] \in ClientType}
  <2>1. 0 \in good
    BY <1>1, <1>4, <1>10
  <2>2. ASSUME NEW k \in 1..n, k - 1 \in good PROVE k \in good
    BY <1>3, <1>6, <1>10, <2>2
  <2> HIDE DEF good
  <2>3. \A k \in 0..n : k \in good
    BY <1>1, <2>1, <2>2, UpTo, Zenon
  <2> QED
    BY <2>3 DEF good
<1>12. parsed \in [0..n -> ClientType]
  BY <1>9, <1>11
<1> QED
  BY <1>2, <1>10, <1>12 DEF n, first

-----------------------------------------------------------------------------
(* The numbers of two ends.                                                *)

\* An end that adds commands A and executes commands B.
Typed(e, A, B) ==
  /\ e.ring \in Rings(A) /\ e.log \in Seq(A) /\ e.heard \in Seq(B) /\ e.net \in Seq(Messages(A))
  /\ e.sequence \in Nat /\ e.acknowledged \in Nat /\ e.sent \in Nat /\ e.executed \in Nat /\ e.upto \in Nat

LEMMA EndsTyped ==
  /\ \A s \in ServerType : Typed(s, Told, Asked)
  /\ \A c \in ClientType : Typed(c, Asked, Told)
  BY DEF ServerType, ClientType, Typed

LEMMA EndNumbers ==
  ASSUME NEW A, NEW B, NEW e, Typed(e, A, B)
  PROVE  /\ e.sequence \in Nat /\ e.acknowledged \in Nat /\ e.sent \in Nat /\ e.executed \in Nat /\ e.upto \in Nat
         /\ Len(e.log) \in Nat /\ Len(e.heard) \in Nat /\ Len(e.net) \in Nat
  BY DEF Typed

\* Both directions.
Both(e, f) == Numbered(e, f) /\ Numbered(f, e)

\* One end has added commands or amended some.
Grown(e, g) ==
  ReceivedSame(e, g) /\ SentSame(e, g) /\ g.sequence = Len(g.log) /\ g.sequence >= e.sequence

LEMMA GrownKeepsNumbers ==
  ASSUME NEW A, NEW B, NEW e, NEW f, NEW g, Typed(e, A, B), Typed(f, B, A), Typed(g, A, B), Both(e, f), Grown(e, g)
  PROVE  Both(g, f)
<1>1. InOrder(g, f) /\ InOrder(f, g)
  BY DEF Both, Numbered, InOrder, Grown, ReceivedSame, SentSame, Typed
<1>2. \A j \in 1..Len(g.net) : Carried(g, f, g.net[j])
  BY DEF Both, Numbered, Carried, Grown, ReceivedSame, SentSame
<1>3. \A j \in 1..Len(f.net) : Carried(f, g, f.net[j])
  BY DEF Both, Numbered, Carried, Grown, ReceivedSame, SentSame
<1> QED
  BY <1>1, <1>2, <1>3 DEF Both, Numbered, Grown, SentSame

\* Messages, and their parts.
LEMMA MessageTyped ==
  ASSUME NEW A, NEW m \in Messages(A)
  PROVE  /\ m.ack \in Nat /\ m.upto \in Nat /\ m.commands \in Seq([number : Nat, command : A])
         /\ Len(m.commands) \in Nat /\ Before(m) \in Int /\ Before(m) + Len(m.commands) = m.upto
         /\ \A k \in 1..Len(m.commands) : m.commands[k].number \in Nat /\ m.commands[k].command \in A
<1>1. m.ack \in Nat /\ m.upto \in Nat /\ m.commands \in Seq([number : Nat, command : A])
  BY DEF Messages
<1>2. \A k \in 1..Len(m.commands) : m.commands[k] \in [number : Nat, command : A]
  BY <1>1, ElementOfSeq
<1>3. Len(m.commands) \in Nat
  BY <1>1
<1> QED
  BY <1>1, <1>2, <1>3 DEF Before

LEMMA NetTyped ==
  ASSUME NEW A, NEW B, NEW e, Typed(e, A, B), NEW j \in 1..Len(e.net)
  PROVE  e.net[j] \in Messages(A)
  BY ElementOfSeq DEF Typed

\* A message is sent.
LEMMA SentKeepsNumbers ==
  ASSUME NEW A, NEW B, NEW e, NEW f, NEW g, Typed(e, A, B), Typed(f, B, A), Typed(g, A, B), Both(e, f),
         SentOne(e, g), ReceivedSame(e, g), AddedSame(e, g)
  PROVE  Both(g, f)
<1>1. /\ e.sequence \in Nat /\ e.acknowledged \in Nat /\ e.sent \in Nat /\ e.executed \in Nat /\ Len(e.net) \in Nat
      /\ f.executed \in Nat /\ f.acknowledged \in Nat /\ f.sent \in Nat
  BY EndNumbers
<1>2. /\ InOrder(e, f) /\ InOrder(f, e)
      /\ \A j \in 1..Len(e.net) : Carried(e, f, e.net[j])
      /\ \A j, k \in 1..Len(e.net) : j <= k => e.net[j].ack <= e.net[k].ack
      /\ \A j \in 1..Len(f.net) : Carried(f, e, f.net[j])
      /\ \A j, k \in 1..Len(f.net) : j <= k => f.net[j].ack <= f.net[k].ack
  BY DEF Both, Numbered
<1>3. PICK m \in Messages(A) :
        /\ m = MessageOf(e) /\ m.ack = e.executed /\ m.upto = e.sequence /\ Len(m.commands) = Pending(e)
        /\ \A k \in 1..Len(m.commands) : m.commands[k].number = e.acknowledged + k
  <2>1. Pending(e) >= 0
    BY <1>1, <1>2 DEF InOrder, Pending
  <2>2. e.ring \in Rings(A)
    BY DEF Typed
  <2> QED
    BY <1>1, <2>1, <2>2, Collected
<1>4. Before(m) = e.acknowledged
  BY <1>1, <1>3 DEF Before, Pending
<1>5. /\ g.sequence = e.sequence /\ g.log = e.log /\ g.acknowledged = e.acknowledged /\ g.executed = e.executed
      /\ g.heard = e.heard /\ g.sent = e.sequence
  BY DEF SentOne, ReceivedSame, AddedSame
<1>6. /\ Len(g.net) = Len(e.net) + 1 /\ g.net[Len(e.net) + 1] = m
      /\ \A j \in 1..Len(e.net) : g.net[j] = e.net[j]
  <2>1. e.net \in Seq(Messages(A)) /\ g.net = Append(e.net, m)
    BY <1>3 DEF SentOne, Typed
  <2> QED
    BY <2>1, AppendProperties
<1>7. InOrder(g, f) /\ InOrder(f, g)
  BY <1>1, <1>2, <1>5 DEF InOrder
<1>8. Carried(g, f, m)
  BY <1>1, <1>2, <1>3, <1>4, <1>5 DEF Carried, InOrder
<1>9. ASSUME NEW j \in 1..Len(e.net) PROVE Carried(g, f, e.net[j])
  <2>1. e.net[j].upto \in Nat
    BY NetTyped, MessageTyped
  <2> QED
    BY <1>1, <1>2, <1>5, <2>1 DEF Carried, InOrder
<1>10. ASSUME NEW j \in 1..Len(g.net) PROVE Carried(g, f, g.net[j])
  <2>1. CASE j = Len(e.net) + 1
    BY <1>6, <1>8, <2>1
  <2>2. CASE j # Len(e.net) + 1
    <3>1. j \in 1..Len(e.net)
      BY <1>1, <1>6, <2>2
    <3> QED
      BY <1>6, <1>9, <3>1
  <2> QED
    BY <2>1, <2>2
<1>11. ASSUME NEW j \in 1..Len(g.net), NEW k \in 1..Len(g.net), j <= k PROVE g.net[j].ack <= g.net[k].ack
  <2>1. CASE k = Len(e.net) + 1 /\ j # k
    <3>1. j \in 1..Len(e.net)
      BY <1>1, <1>6, <1>11, <2>1
    <3>2. e.net[j].ack <= e.executed
      BY <1>2, <3>1 DEF Carried
    <3> QED
      BY <1>3, <1>6, <2>1, <3>1, <3>2
  <2>2. CASE k = j
    <3>1. g.net[k].ack \in Nat
      BY NetTyped, MessageTyped
    <3> QED
      BY <2>2, <3>1
  <2>3. CASE k # Len(e.net) + 1
    <3>1. j \in 1..Len(e.net) /\ k \in 1..Len(e.net)
      BY <1>1, <1>6, <1>11, <2>3
    <3> QED
      BY <1>2, <1>6, <1>11, <3>1
  <2> QED
    BY <2>1, <2>2, <2>3
<1>12. \A j \in 1..Len(f.net) : Carried(f, g, f.net[j])
  BY <1>2, <1>5 DEF Carried
<1> QED
  BY <1>2, <1>7, <1>10, <1>11, <1>12 DEF Both, Numbered

\* Messages are lost, or taken: the others are as they were.
Thinned(e, g) ==
  \E p \in [1..Len(g.net) -> 1..Len(e.net)] :
    /\ \A j, k \in 1..Len(g.net) : j <= k => p[j] <= p[k]
    /\ \A j \in 1..Len(g.net) : g.net[j] = e.net[p[j]]

LEMMA ThinnedKeepsNumbers ==
  ASSUME NEW A, NEW B, NEW e, NEW f, NEW g, Typed(e, A, B), Typed(f, B, A), Typed(g, A, B), Both(e, f),
         Thinned(e, g), ReceivedSame(e, g), AddedSame(e, g), g.sent = e.sent
  PROVE  Both(g, f)
<1>1. InOrder(g, f) /\ InOrder(f, g)
  BY DEF Both, Numbered, InOrder, ReceivedSame, AddedSame, Typed
<1>2. PICK p \in [1..Len(g.net) -> 1..Len(e.net)] :
        /\ \A j, k \in 1..Len(g.net) : j <= k => p[j] <= p[k]
        /\ \A j \in 1..Len(g.net) : g.net[j] = e.net[p[j]]
  BY DEF Thinned
<1>3. ASSUME NEW j \in 1..Len(g.net) PROVE Carried(g, f, g.net[j])
  <2>1. p[j] \in 1..Len(e.net) /\ g.net[j] = e.net[p[j]]
    BY <1>2
  <2>2. Carried(e, f, e.net[p[j]])
    BY <2>1 DEF Both, Numbered
  <2> QED
    BY <2>1, <2>2 DEF Carried, ReceivedSame
<1>4. ASSUME NEW j \in 1..Len(g.net), NEW k \in 1..Len(g.net), j <= k PROVE g.net[j].ack <= g.net[k].ack
  <2>1. p[j] \in 1..Len(e.net) /\ p[k] \in 1..Len(e.net) /\ p[j] <= p[k] /\ g.net[j] = e.net[p[j]] /\ g.net[k] = e.net[p[k]]
    BY <1>2, <1>4
  <2>2. \A x, y \in 1..Len(e.net) : x <= y => e.net[x].ack <= e.net[y].ack
    BY DEF Both, Numbered
  <2> QED
    BY <2>1, <2>2
<1>5. \A j \in 1..Len(f.net) : Carried(f, g, f.net[j])
  BY DEF Both, Numbered, Carried, ReceivedSame
<1> QED
  BY <1>1, <1>3, <1>4, <1>5 DEF Both, Numbered

LEMMA TailShifts ==
  ASSUME NEW M, NEW net \in Seq(M), net # <<>>
  PROVE  /\ Len(Tail(net)) \in Nat /\ Len(net) = Len(Tail(net)) + 1 /\ 1 \in 1..Len(net)
         /\ \A j \in 1..Len(Tail(net)) : Tail(net)[j] = net[j + 1]
<1>1. Len(net) \in Nat /\ Len(Tail(net)) = Len(net) - 1 /\ \A j \in 1..Len(Tail(net)) : Tail(net)[j] = net[j + 1]
  BY HeadTailProperties
<1>2. Len(net) > 0
  OBVIOUS
<1> QED
  BY <1>1, <1>2

LEMMA TailThins ==
  ASSUME NEW e, NEW g, Len(g.net) \in Nat, Len(e.net) = Len(g.net) + 1, \A j \in 1..Len(g.net) : g.net[j] = e.net[j + 1]
  PROVE  Thinned(e, g)
<1> DEFINE p == [j \in 1..Len(g.net) |-> j + 1]
<1>1. p \in [1..Len(g.net) -> 1..Len(e.net)]
  OBVIOUS
<1>2. \A j \in 1..Len(g.net) : p[j] = j + 1 /\ j \in Nat
  OBVIOUS
<1> HIDE DEF p
<1> QED
  BY <1>1, <1>2 DEF Thinned

LEMMA RemovalThins ==
  ASSUME NEW M, NEW e, NEW g, e.net \in Seq(M), NEW i \in 1..Len(e.net), g.net = RemoveAt(e.net, i)
  PROVE  Thinned(e, g) /\ g.net \in Seq(M)
<1>1. Len(e.net) \in Nat /\ g.net = SubSeq(e.net, 1, i - 1) \o SubSeq(e.net, i + 1, Len(e.net))
  BY DEF RemoveAt
<1>2. PICK a \in Seq(M) : a = SubSeq(e.net, 1, i - 1) /\ Len(a) = i - 1 /\ \A j \in 1..(i - 1) : a[j] = e.net[j]
  <2>1. 1 \in 1..(Len(e.net) + 1) /\ i - 1 \in 0..Len(e.net) /\ (1 > i - 1 => i - 1 = 0)
    BY <1>1
  <2>2. SubSeq(e.net, 1, i - 1) \in Seq(M) /\ Len(SubSeq(e.net, 1, i - 1)) = i - 1
    BY <1>1, <2>1, SubSeqProperties
  <2>3. \A j \in 1..(i - 1) : SubSeq(e.net, 1, i - 1)[j] = e.net[j]
    <3>1. \A j \in 1..(i - 1) : e.net[j] \in M
      BY <1>1
    <3>2. \A j \in 1..(i - 1) - 1 + 1 : SubSeq(e.net, 1, i - 1)[j] = e.net[1 + j - 1]
      BY <3>1, SubSeqProperties
    <3> QED
      BY <3>2
  <2> QED
    BY <2>2, <2>3
<1>3. PICK b \in Seq(M) : /\ b = SubSeq(e.net, i + 1, Len(e.net)) /\ Len(b) = Len(e.net) - i
                          /\ \A j \in 1..(Len(e.net) - i) : b[j] = e.net[i + j]
  <2>1. i + 1 \in 1..(Len(e.net) + 1) /\ Len(e.net) \in i..(Len(e.net) + 1)
    BY <1>1
  <2>2. SubSeq(e.net, i + 1, Len(e.net)) \in Seq(M) /\ Len(SubSeq(e.net, i + 1, Len(e.net))) = Len(e.net) - i
    BY <1>1, <2>1, SubSeqProperties
  <2>3. \A j \in 1..(Len(e.net) - i) : SubSeq(e.net, i + 1, Len(e.net))[j] = e.net[i + j]
    BY <1>1, <2>1, SubSeqProperties
  <2> QED
    BY <2>2, <2>3
<1>4. /\ g.net \in Seq(M) /\ Len(g.net) = Len(e.net) - 1
      /\ \A j \in 1..Len(g.net) : g.net[j] = IF j <= i - 1 THEN a[j] ELSE b[j - (i - 1)]
  <2>1. g.net = a \o b
    BY <1>1, <1>2, <1>3, Zenon
  <2>2. /\ a \o b \in Seq(M) /\ Len(a \o b) = Len(a) + Len(b)
        /\ \A j \in 1..(Len(a) + Len(b)) : (a \o b)[j] = IF j <= Len(a) THEN a[j] ELSE b[j - Len(a)]
    BY ConcatProperties
  <2>3. Len(a) = i - 1 /\ Len(b) = Len(e.net) - i /\ Len(a) + Len(b) = Len(e.net) - 1
    <3>1. Len(a) = i - 1 /\ Len(b) = Len(e.net) - i
      BY <1>2, <1>3, Zenon
    <3>2. i \in Nat /\ Len(e.net) \in Nat
      BY <1>1
    <3> QED
      BY <3>1, <3>2
  <2>4. Len(g.net) = Len(e.net) - 1 /\ g.net \in Seq(M)
    BY <2>1, <2>2, <2>3
  <2>5. \A j \in 1..(Len(e.net) - 1) : g.net[j] = IF j <= i - 1 THEN a[j] ELSE b[j - (i - 1)]
    BY <2>1, <2>2, <2>3, Zenon
  <2> QED
    BY <2>4, <2>5
<1> DEFINE p == [j \in 1..Len(g.net) |-> IF j <= i - 1 THEN j ELSE j + 1]
<1>5. PICK n \in Nat : n = Len(g.net) /\ Len(e.net) = n + 1
  <2>1. Len(e.net) \in Nat
    BY <1>1
  <2>2. Len(g.net) = Len(e.net) - 1 /\ Len(g.net) \in Nat
    BY <1>4, <2>1
  <2> QED
    BY <2>1, <2>2
<1>6. p \in [1..Len(g.net) -> 1..Len(e.net)]
  BY <1>5
<1>7. \A j \in 1..Len(g.net) : p[j] = IF j <= i - 1 THEN j ELSE j + 1
  OBVIOUS
<1> HIDE DEF p
<1>8. ASSUME NEW j \in 1..Len(g.net) PROVE g.net[j] = e.net[p[j]]
  <2>1. CASE j <= i - 1
    <3>1. p[j] = j /\ g.net[j] = a[j]
      BY <1>4, <1>7, <2>1
    <3>2. j \in 1..(i - 1)
      BY <1>5, <2>1
    <3> QED
      BY <1>2, <3>1, <3>2
  <2>2. CASE ~(j <= i - 1)
    <3>1. j - (i - 1) \in 1..(Len(e.net) - i) /\ i + (j - (i - 1)) = j + 1
      BY <1>5, <2>2
    <3>2. b[j - (i - 1)] = e.net[i + (j - (i - 1))]
      BY <1>3, <3>1
    <3> QED
      BY <1>4, <1>7, <2>2, <3>1, <3>2
  <2> QED
    BY <2>1, <2>2
<1>9. \A j, k \in 1..Len(g.net) : j <= k => p[j] <= p[k]
  BY <1>5, <1>7
<1> QED
  BY <1>4, <1>6, <1>8, <1>9 DEF Thinned

\* A command is executed: the next one of those sent.
LEMMA ExecutingKeepsNumbers ==
  ASSUME NEW A, NEW B, NEW e, NEW f, NEW g, Typed(e, A, B), Typed(f, B, A), Typed(g, A, B), Both(e, f),
         NEW n, n.number = e.executed + 1, n.number <= f.sent,
         Executing(e, g, n), AddedSame(e, g), SentSame(e, g)
  PROVE  Both(g, f)
<1>1. /\ e.sequence \in Nat /\ e.acknowledged \in Nat /\ e.sent \in Nat /\ e.executed \in Nat
      /\ f.executed \in Nat /\ f.acknowledged \in Nat /\ f.sent \in Nat /\ f.sequence \in Nat
  BY EndNumbers
<1>2. /\ InOrder(e, f) /\ InOrder(f, e)
      /\ \A j \in 1..Len(e.net) : Carried(e, f, e.net[j])
      /\ \A j, k \in 1..Len(e.net) : j <= k => e.net[j].ack <= e.net[k].ack
      /\ \A j \in 1..Len(f.net) : Carried(f, e, f.net[j])
      /\ \A j, k \in 1..Len(f.net) : j <= k => f.net[j].ack <= f.net[k].ack
  BY DEF Both, Numbered
<1>3. /\ g.sequence = e.sequence /\ g.log = e.log /\ g.acknowledged = e.acknowledged /\ g.executed = e.executed + 1
      /\ g.sent = e.sent /\ g.net = e.net /\ g.heard = Append(e.heard, n.command)
  BY DEF Executing, AddedSame, SentSame
<1>4. Len(g.heard) = Len(e.heard) + 1
  BY <1>3 DEF Typed
<1>5. InOrder(g, f) /\ InOrder(f, g)
  BY <1>1, <1>2, <1>3, <1>4 DEF InOrder
<1>6. ASSUME NEW j \in 1..Len(g.net) PROVE Carried(g, f, g.net[j])
  <2>1. g.net[j] = e.net[j] /\ Carried(e, f, e.net[j]) /\ e.net[j].ack \in Nat
    BY <1>2, <1>3, <1>6, NetTyped, MessageTyped
  <2> QED
    BY <1>1, <1>3, <2>1 DEF Carried
<1>7. ASSUME NEW j \in 1..Len(f.net) PROVE Carried(f, g, f.net[j])
  <2>1. Carried(f, e, f.net[j]) /\ Before(f.net[j]) \in Int
    BY <1>2, <1>7, NetTyped, MessageTyped
  <2> QED
    BY <1>1, <1>3, <2>1 DEF Carried
<1> QED
  BY <1>2, <1>3, <1>5, <1>6, <1>7 DEF Both, Numbered

\* A message arrives: the acknowledgement in it is one of what was sent.
LEMMA AckKeepsNumbers ==
  ASSUME NEW A, NEW B, NEW e, NEW f, NEW g, NEW h, Typed(e, A, B), Typed(f, B, A), Typed(g, A, B), Typed(h, B, A),
         Both(e, f), f.net # <<>>, h.net = Tail(f.net), h.sent = f.sent, ReceivedSame(f, h), AddedSame(f, h),
         Acknowledging(e, g, f.net[1]), AddedSame(e, g), SentSame(e, g)
  PROVE  Both(g, h) /\ Carried(f, e, f.net[1])
<1>1. /\ e.sequence \in Nat /\ e.acknowledged \in Nat /\ e.sent \in Nat /\ e.executed \in Nat
      /\ h.executed \in Nat /\ h.acknowledged \in Nat /\ h.sent \in Nat /\ h.sequence \in Nat
  BY EndNumbers
<1>2. /\ Thinned(f, h) /\ Len(h.net) \in Nat /\ Len(f.net) = Len(h.net) + 1
      /\ \A j \in 1..Len(h.net) : h.net[j] = f.net[j + 1]
  <2>1. f.net \in Seq(Messages(B))
    BY DEF Typed
  <2>2. /\ Len(h.net) \in Nat /\ Len(f.net) = Len(h.net) + 1 /\ 1 \in 1..Len(f.net)
        /\ \A j \in 1..Len(h.net) : h.net[j] = f.net[j + 1]
    BY <2>1, TailShifts
  <2> QED
    BY <2>2, TailThins
<1>3. Both(e, h)
  <2>1. Both(f, e)
    BY DEF Both
  <2>2. Both(h, e)
    BY <1>2, <2>1, ThinnedKeepsNumbers
  <2> QED
    BY <2>2 DEF Both
<1>4. /\ InOrder(e, h) /\ InOrder(h, e)
      /\ \A j \in 1..Len(e.net) : Carried(e, h, e.net[j])
      /\ \A j, k \in 1..Len(e.net) : j <= k => e.net[j].ack <= e.net[k].ack
      /\ \A j \in 1..Len(h.net) : Carried(h, e, h.net[j])
      /\ \A j, k \in 1..Len(h.net) : j <= k => h.net[j].ack <= h.net[k].ack
  BY <1>3 DEF Both, Numbered
<1>5. Carried(f, e, f.net[1]) /\ \A j \in 1..Len(h.net) : f.net[1].ack <= h.net[j].ack
  <2>1. 1 \in 1..Len(f.net) /\ \A j \in 1..Len(h.net) : j + 1 \in 1..Len(f.net) /\ 1 <= j + 1
    BY <1>2
  <2>2. /\ \A j \in 1..Len(f.net) : Carried(f, e, f.net[j])
        /\ \A j, k \in 1..Len(f.net) : j <= k => f.net[j].ack <= f.net[k].ack
    BY DEF Both, Numbered
  <2> QED
    BY <1>2, <2>1, <2>2
<1>6. f.net[1].ack \in Nat /\ e.acknowledged <= f.net[1].ack /\ f.net[1].ack <= h.executed
  <2>1. 1 \in 1..Len(f.net)
    BY <1>2
  <2>2. f.net[1].ack \in Nat
    BY <2>1, NetTyped, MessageTyped
  <2> QED
    BY <1>5, <2>2 DEF Carried, ReceivedSame
<1>7. /\ g.sequence = e.sequence /\ g.log = e.log /\ g.acknowledged = f.net[1].ack /\ g.executed = e.executed
      /\ g.sent = e.sent /\ g.net = e.net /\ g.heard = e.heard
  BY DEF Acknowledging, AddedSame, SentSame
<1>8. InOrder(g, h) /\ InOrder(h, g)
  BY <1>1, <1>4, <1>6, <1>7 DEF InOrder
<1>9. ASSUME NEW j \in 1..Len(g.net) PROVE Carried(g, h, g.net[j])
  BY <1>4, <1>7 DEF Carried
<1>10. ASSUME NEW j \in 1..Len(h.net) PROVE Carried(h, g, h.net[j])
  BY <1>4, <1>5, <1>7 DEF Carried
<1> QED
  BY <1>4, <1>5, <1>7, <1>8, <1>9, <1>10 DEF Both, Numbered

-----------------------------------------------------------------------------
(* What the server says.                                                   *)

\* What an end has sent stays, and what it has executed; the rest may grow.
Later(e, g) ==
  /\ g.sent >= e.sent /\ Len(g.log) >= Len(e.log) /\ \A n \in 1..e.sent : g.log[n] = e.log[n]
  /\ g.executed >= e.executed /\ \A n \in 1..e.executed : g.heard[n] = e.heard[n]

LEMMA LaterTransitive ==
  ASSUME NEW A, NEW B, NEW e, NEW f, NEW g, Typed(e, A, B), Typed(f, A, B), Typed(g, A, B), Later(e, f), Later(f, g)
  PROVE  Later(e, g)
<1>1. /\ e.sent \in Nat /\ f.sent \in Nat /\ g.sent \in Nat /\ e.executed \in Nat /\ f.executed \in Nat /\ g.executed \in Nat
      /\ Len(e.log) \in Nat /\ Len(f.log) \in Nat /\ Len(g.log) \in Nat
  BY EndNumbers
<1>2. ASSUME NEW n \in 1..e.sent PROVE g.log[n] = e.log[n]
  <2>1. n \in 1..f.sent
    BY <1>1 DEF Later
  <2> QED
    BY <2>1 DEF Later
<1>3. ASSUME NEW n \in 1..e.executed PROVE g.heard[n] = e.heard[n]
  <2>1. n \in 1..f.executed
    BY <1>1 DEF Later
  <2> QED
    BY <2>1 DEF Later
<1>4. g.sent >= e.sent /\ Len(g.log) >= Len(e.log) /\ g.executed >= e.executed
  <2>1. f.sent >= e.sent /\ Len(f.log) >= Len(e.log) /\ f.executed >= e.executed
    BY Zenon DEF Later
  <2>2. g.sent >= f.sent /\ Len(g.log) >= Len(f.log) /\ g.executed >= f.executed
    BY Zenon DEF Later
  <2> QED
    BY <1>1, <2>1, <2>2
<1> QED
  BY <1>2, <1>3, <1>4 DEF Later

\* A command that is put in is the last one.
LEMMA PutInGrows ==
  ASSUME NEW A, NEW B, NEW e, NEW g, Typed(e, A, B), Typed(g, A, B), e.sequence = Len(e.log), e.sent <= e.sequence,
         NEW command, PutIn(e, g, command), ReceivedSame(e, g), SentSame(e, g)
  PROVE  /\ Grown(e, g) /\ Later(e, g) /\ g.sequence = e.sequence + 1 /\ g.log[e.sequence + 1] = command
         /\ \A n \in 1..e.sequence : g.log[n] = e.log[n]
<1>1. /\ e.sent \in Nat /\ e.executed \in Nat /\ e.sequence \in Nat /\ g.log = Append(e.log, command)
      /\ g.sequence = e.sequence + 1 /\ g.sent = e.sent /\ g.executed = e.executed /\ g.heard = e.heard
  BY EndNumbers DEF PutIn, SentSame, ReceivedSame
<1>2. e.log \in Seq(A \cup {command})
  BY DEF Typed
<1>3. Len(g.log) = Len(e.log) + 1 /\ g.log[Len(e.log) + 1] = command /\ \A n \in 1..Len(e.log) : g.log[n] = e.log[n]
  BY <1>1, <1>2, AppendProperties
<1>4. \A n \in 1..e.sent : g.log[n] = e.log[n]
  BY <1>1, <1>3
<1> QED
  BY <1>1, <1>3, <1>4 DEF Grown, Later

\* A command that is amended has not been sent.
LEMMA AmendedGrows ==
  ASSUME NEW s \in ServerType, NEW t \in ServerType, NEW pairs \in Pairs, NEW n \in HasRoom(s, pairs),
         s.sequence = Len(s.log), Amended(s, t, n, pairs), ReceivedSame(s, t), SentSame(s, t)
  PROVE  /\ Grown(s, t) /\ Later(s, t) /\ t.sequence = s.sequence /\ n \in 1..s.sequence
         /\ t.log[n] = <<"cs", Slot(s, n)[2] \o pairs>>
         /\ \A k \in 1..s.sequence : k # n => t.log[k] = s.log[k]
<1>1. s.sent \in Nat /\ s.executed \in Nat /\ s.sequence \in Nat
  BY EndsTyped, EndNumbers
<1>2. n \in Nat /\ s.sent < n /\ n <= s.sequence
  BY RoomIsUnsent
<1>3. PICK command : command = <<"cs", Slot(s, n)[2] \o pairs>>
  OBVIOUS
<1>4. /\ t.log = [s.log EXCEPT ![n] = command] /\ t.sequence = s.sequence
      /\ t.sent = s.sent /\ t.executed = s.executed /\ t.heard = s.heard
  BY <1>3 DEF Amended, ReceivedSame, SentSame
<1>5. DOMAIN s.log = 1..s.sequence /\ Len(s.log) = s.sequence
  BY DEF ServerType
<1>6. Len(t.log) = Len(s.log)
  <2>1. DOMAIN t.log = DOMAIN s.log
    BY <1>4
  <2>2. DOMAIN t.log = 1..Len(t.log) /\ Len(t.log) \in Nat
    BY DEF ServerType
  <2> QED
    BY <1>1, <1>5, <2>1, <2>2
<1>7. t.log[n] = command /\ \A k \in 1..s.sequence : k # n => t.log[k] = s.log[k]
  BY <1>1, <1>2, <1>4, <1>5
<1>8. \A k \in 1..s.sent : t.log[k] = s.log[k]
  BY <1>1, <1>2, <1>5, <1>7
<1>9. Grown(s, t) /\ Later(s, t)
  BY <1>1, <1>4, <1>5, <1>6, <1>8 DEF Grown, Later, ReceivedSame, SentSame
<1>10. n \in 1..s.sequence
  BY <1>1, <1>2
<1>11. t.log[n] = <<"cs", Slot(s, n)[2] \o pairs>>
  BY <1>3, <1>7, Zenon
<1> QED
  BY <1>4, <1>7, <1>9, <1>10, <1>11, Zenon

\* SV_AddServerCommand keeps the numbers, unless it drops the client.
LEMMA AddedKeepsNumbers ==
  ASSUME NEW s \in ServerType, NEW c \in ClientType, NEW command \in Told, NEW t, t = AddServerCommand(s, command),
         Both(s, c), t.state # "CS_ZOMBIE"
  PROVE  s.state # "CS_ZOMBIE" /\ Both(t, c) /\ Later(s, t) /\ ReceivedSame(s, t) /\ SentSame(s, t) /\ ServerSame(s, t)
<1>1. s.sequence = Len(s.log) /\ s.sent <= s.sequence
  BY DEF Both, Numbered, InOrder
<1>2. t \in ServerType
  BY Added
<1>3. s.state # "CS_ZOMBIE" /\ Grown(s, t) /\ Later(s, t) /\ ReceivedSame(s, t) /\ SentSame(s, t) /\ ServerSame(s, t)
  <2>1. CASE s.state # "CS_ZOMBIE" /\ JoinsEarlier(s, t, command)
    <3>1. PICK n \in HasRoom(s, command[2]) : t = Amend(s, n, command[2])
      BY <2>1 DEF JoinsEarlier
    <3>2. command[2] \in Pairs
      BY <2>1, CsPairs DEF JoinsEarlier
    <3>3. Amended(s, t, n, command[2]) /\ ReceivedSame(s, t) /\ SentSame(s, t) /\ ServerSame(s, t)
      BY <3>1, <3>2, ServerAmend
    <3> QED
      BY <1>1, <1>2, <2>1, <3>2, <3>3, AmendedGrows
  <2>2. CASE s.state # "CS_ZOMBIE" /\ Queued(s, t, command)
    <3>1. PutIn(s, t, command) /\ ReceivedSame(s, t) /\ SentSame(s, t) /\ ServerSame(s, t)
      BY <2>2, ServerPut DEF Queued
    <3>2. Typed(s, Told, Asked) /\ Typed(t, Told, Asked)
      BY <1>2, EndsTyped
    <3> QED
      BY <1>1, <2>2, <3>1, <3>2, PutInGrows
  <2> QED
    BY <2>1, <2>2, Added
<1>4. Typed(s, Told, Asked) /\ Typed(t, Told, Asked) /\ Typed(c, Asked, Told)
  BY <1>2, EndsTyped
<1> QED
  BY <1>3, <1>4, GrownKeepsNumbers

\* What SV_AddFragmentedConfigString keeps, fragment by fragment.
LEMMA FragmentsKeep ==
  ASSUME NEW s \in ServerType, NEW i \in Strings, NEW v \in Values, NumFragments(v[2]) \in 1..MaxFragments,
         NEW G, s \in G[0],
         \A k \in 1..NumFragments(v[2]) : \A t \in ServerType :
           t \in G[k - 1] => AddServerCommand(t, Fragment(i, v, k - 1)) \in G[k]
  PROVE  AddFragmentedConfigString(s, i, v) \in G[NumFragments(v[2])]
<1>1. PICK h \in [0..NumFragments(v[2]) -> ServerType] :
        /\ h[0] = s /\ h[NumFragments(v[2])] = AddFragmentedConfigString(s, i, v)
        /\ \A k \in 1..NumFragments(v[2]) : h[k] = AddServerCommand(h[k - 1], Fragment(i, v, k - 1))
  BY FragmentsRun
<1>2. PICK n \in Nat : n = NumFragments(v[2])
  BY FragmentsFit
<1> DEFINE good == {k \in 0..n : h[k] \in G[k]}
<1>3. 0 \in good
  BY <1>1, <1>2
<1>4. ASSUME NEW k \in 1..n, k - 1 \in good PROVE k \in good
  <2>1. k \in 0..n /\ k - 1 \in 0..n /\ h[k - 1] \in ServerType /\ h[k - 1] \in G[k - 1]
    BY <1>1, <1>2, <1>4
  <2>2. h[k] \in G[k]
    BY <1>1, <1>2, <2>1
  <2> QED
    BY <2>1, <2>2
<1> HIDE DEF good
<1>5. \A k \in 0..n : k \in good
  BY <1>3, <1>4, UpTo, Zenon
<1>6. h[n] \in G[n]
  BY <1>5 DEF good
<1> QED
  BY <1>1, <1>2, <1>6

\* What Configstrings keeps, string by string.
LEMMA ConfigstringsKeep ==
  ASSUME NEW s \in ServerType, NEW start \in 0..NumStrings, NEW G, [s EXCEPT !.state = "CS_CONNECTED"] \in G[start],
         \A i \in Strings : \A t \in ServerType : t \in G[i] => SendConfigString(t, i, t.configStrings[i]) \in G[i + 1]
  PROVE  \E t \in ServerType, next \in 0..NumStrings : t \in G[next] /\ Configstrings(s, start) = AskAgain(t, next)
<1>1. PICK h \in [0..(NumStrings - start) -> Batches] :
        /\ h[0] = [s |-> [s EXCEPT !.state = "CS_CONNECTED"], start |-> start]
        /\ Configstrings(s, start) = AskAgain(h[NumStrings - start].s, h[NumStrings - start].start)
        /\ \A k \in 1..(NumStrings - start) : h[k] = SendNext(h[k - 1], start + k - 1)
  BY ConfigstringsRun
<1>2. PICK n \in Nat : n = NumStrings - start /\ \A k \in 1..n : start + k - 1 \in Strings
  BY SizesAssumption DEF Strings, NumStrings
<1> DEFINE good == {k \in 0..n : /\ h[k].s \in G[h[k].start]
                                 /\ h[k].start = start + k \/ NoSpaceLeft(h[k].s)}
<1>3. 0 \in good
  BY <1>1, <1>2
<1>4. ASSUME NEW k \in 1..n, k - 1 \in good PROVE k \in good
  <2>1. k \in 0..n /\ k - 1 \in 0..n
    OBVIOUS
  <2>2. PICK batch \in Batches : batch = h[k - 1]
    BY <1>1, <1>2, <2>1
  <2>3. batch.s \in ServerType /\ batch.s \in G[batch.start] /\ (batch.start = start + (k - 1) \/ NoSpaceLeft(batch.s))
    BY <1>4, <2>2 DEF Batches
  <2>4. h[k] = SendNext(batch, start + k - 1)
    BY <1>1, <1>2, <2>2
  <2>5. CASE NoSpaceLeft(batch.s)
    <3>1. h[k] = batch
      BY <2>4, <2>5 DEF SendNext
    <3> QED
      BY <2>1, <2>3, <2>5, <3>1
  <2>6. CASE ~NoSpaceLeft(batch.s)
    <3>1. PICK i \in Strings : i = start + k - 1 /\ i = batch.start /\ i + 1 = start + k
      <4>1. start + k - 1 \in Strings
        BY <1>2
      <4>2. start + k - 1 = start + (k - 1) /\ start + k - 1 + 1 = start + k
        OBVIOUS
      <4> QED
        BY <2>3, <2>6, <4>1, <4>2
    <3>2. h[k] = [s |-> SendConfigString(batch.s, i, batch.s.configStrings[i]), start |-> i + 1]
      BY <2>4, <2>6, <3>1 DEF SendNext
    <3>3. SendConfigString(batch.s, i, batch.s.configStrings[i]) \in G[i + 1]
      BY <2>3, <3>1
    <3> QED
      BY <2>1, <3>1, <3>2, <3>3
  <2> QED
    BY <2>5, <2>6
<1> HIDE DEF good
<1>5. \A k \in 0..n : k \in good
  BY <1>3, <1>4, UpTo, Zenon
<1>6. n \in 0..n /\ h[n].s \in G[h[n].start]
  BY <1>5 DEF good
<1>7. h[n].s \in ServerType /\ h[n].start \in 0..NumStrings
  BY <1>1, <1>2, <1>6 DEF Batches
<1> QED
  BY <1>1, <1>2, <1>6, <1>7

\* What the server may have become by saying something.
Spoken(s, c) ==
  {t \in ServerType : t.state # "CS_ZOMBIE" =>
     s.state # "CS_ZOMBIE" /\ Both(t, c) /\ Later(s, t) /\ ReceivedSame(s, t)}

LEMMA SpokenAdds ==
  ASSUME NEW s \in ServerType, NEW c \in ClientType, NEW t \in Spoken(s, c), NEW command \in Told
  PROVE  AddServerCommand(t, command) \in Spoken(s, c)
<1>1. PICK u \in ServerType : u = AddServerCommand(t, command)
  BY Added DEF Spoken
<1>2. ASSUME u.state # "CS_ZOMBIE" PROVE s.state # "CS_ZOMBIE" /\ Both(u, c) /\ Later(s, u) /\ ReceivedSame(s, u)
  <2>1. t \in ServerType /\ t.state # "CS_ZOMBIE"
    BY <1>1, <1>2, Added DEF Spoken
  <2>2. s.state # "CS_ZOMBIE" /\ Both(t, c) /\ Later(s, t) /\ ReceivedSame(s, t)
    BY <2>1 DEF Spoken
  <2>3. Both(u, c) /\ Later(t, u) /\ ReceivedSame(t, u)
    BY <1>1, <1>2, <2>1, <2>2, AddedKeepsNumbers
  <2>4. Later(s, u)
    BY <1>1, <2>1, <2>2, <2>3, EndsTyped, LaterTransitive
  <2> QED
    BY <2>2, <2>3, <2>4 DEF ReceivedSame
<1> QED
  BY <1>1, <1>2 DEF Spoken

LEMMA SpokenSelf ==
  ASSUME NEW s \in ServerType, NEW c \in ClientType, s.state # "CS_ZOMBIE" => Both(s, c),
         NEW state \in {"CS_CONNECTING", "CS_CONNECTED", "CS_SPAWNED"}, s.state # "CS_ZOMBIE"
  PROVE  s \in Spoken(s, c) /\ [s EXCEPT !.state = state] \in Spoken(s, c)
<1>1. s.sent \in Nat /\ s.executed \in Nat /\ Len(s.log) \in Nat /\ s.sequence \in Nat
  BY EndsTyped, EndNumbers
<1>2. s \in Spoken(s, c)
  BY <1>1 DEF Spoken, Later, ReceivedSame
<1>3. PICK t \in ServerType : t = [s EXCEPT !.state = state]
  BY DEF ServerType
<1>4. AddedSame(s, t) /\ SentSame(s, t) /\ ReceivedSame(s, t) /\ t.state # "CS_ZOMBIE"
  BY <1>3 DEF ServerType, AddedSame, SentSame, ReceivedSame
<1>5. Grown(s, t) /\ Later(s, t)
  BY <1>1, <1>4 DEF Grown, Later, AddedSame, SentSame, ReceivedSame, Both, Numbered, InOrder
<1>6. Both(t, c)
  BY <1>5, EndsTyped, GrownKeepsNumbers
<1> QED
  BY <1>2, <1>3, <1>4, <1>5, <1>6 DEF Spoken

LEMMA SpokenFragments ==
  ASSUME NEW s \in ServerType, NEW c \in ClientType, NEW t \in Spoken(s, c), NEW i \in Strings, NEW v \in Values,
         NumFragments(v[2]) \in 1..MaxFragments
  PROVE  AddFragmentedConfigString(t, i, v) \in Spoken(s, c)
<1> DEFINE n == NumFragments(v[2])
           G == [k \in 0..n |-> Spoken(s, c)]
<1>1. n \in Nat /\ 0 \in 0..n /\ n \in 0..n /\ \A k \in 1..n : k \in 0..n /\ k - 1 \in 0..n
  BY FragmentsFit
<1>2. \A k \in 0..n : G[k] = Spoken(s, c)
  OBVIOUS
<1> HIDE DEF n, G
<1>3. \A k \in 1..n : \A u \in ServerType : u \in G[k - 1] => AddServerCommand(u, Fragment(i, v, k - 1)) \in G[k]
  BY <1>1, <1>2, FragmentTyped, SpokenAdds DEF n
<1>4. t \in ServerType /\ t \in G[0]
  BY <1>1, <1>2 DEF Spoken
<1>5. AddFragmentedConfigString(t, i, v) \in G[n]
  BY <1>3, <1>4, FragmentsKeep DEF n
<1> QED
  BY <1>1, <1>2, <1>5

LEMMA SpokenConfigString ==
  ASSUME NEW s \in ServerType, NEW c \in ClientType, NEW t \in Spoken(s, c), NEW i \in Strings
  PROVE  SendConfigString(t, i, t.configStrings[i]) \in Spoken(s, c)
<1>1. t \in ServerType
  BY DEF Spoken
<1>2. PICK v \in Values : v = t.configStrings[i] /\ (v[2] < Capacity \/ NumFragments(v[2]) \in 1..MaxFragments)
  BY <1>1, ConfigStringFits
<1>3. CASE v[2] < Capacity
  <2>1. SendConfigString(t, i, v) = AddServerCommand(t, <<"cs", <<<<i, v>>>>>>)
    BY <1>3 DEF SendConfigString
  <2>2. <<"cs", <<<<i, v>>>>>> \in Told
    BY PairTyped
  <2> QED
    BY <1>2, <2>1, <2>2, SpokenAdds
<1>4. CASE ~(v[2] < Capacity)
  <2>1. SendConfigString(t, i, v) = AddFragmentedConfigString(t, i, v)
    BY <1>4 DEF SendConfigString
  <2> QED
    BY <1>2, <1>4, <2>1, SpokenFragments
<1> QED
  BY <1>3, <1>4

LEMMA SpokenConfigstrings ==
  ASSUME NEW s \in ServerType, NEW c \in ClientType, s.state # "CS_ZOMBIE", Both(s, c), NEW start \in 0..NumStrings
  PROVE  Configstrings(s, start) \in Spoken(s, c)
<1> DEFINE G == [k \in 0..NumStrings |-> Spoken(s, c)]
<1>1. \A k \in 0..NumStrings : G[k] = Spoken(s, c)
  OBVIOUS
<1>2. \A i \in Strings : i \in 0..NumStrings /\ i + 1 \in 0..NumStrings
  BY FragmentsFit, SizesAssumption DEF Strings, NumStrings
<1> HIDE DEF G
<1>3. \A i \in Strings : \A t \in ServerType : t \in G[i] => SendConfigString(t, i, t.configStrings[i]) \in G[i + 1]
  BY <1>1, <1>2, SpokenConfigString
<1>4. [s EXCEPT !.state = "CS_CONNECTED"] \in G[start]
  BY <1>1, SpokenSelf
<1>5. PICK t \in ServerType, next \in 0..NumStrings : t \in G[next] /\ Configstrings(s, start) = AskAgain(t, next)
  BY <1>3, <1>4, ConfigstringsKeep
<1> QED
  BY <1>1, <1>5, NextAskTyped, SpokenAdds DEF AskAgain

\* SV_ExecuteUserCommand.
LEMMA SpokenUserCommand ==
  ASSUME NEW s \in ServerType, NEW c \in ClientType, s.state # "CS_ZOMBIE", Both(s, c), NEW command \in Asked
  PROVE  ExecuteUserCommand(s, command) \in Spoken(s, c)
<1>1. CASE command[1] = "configstrings" /\ s.state \in {"CS_CONNECTING", "CS_CONNECTED"}
  <2>1. command[2] \in 0..NumStrings
    BY <1>1 DEF Asked, Empty
  <2>2. ExecuteUserCommand(s, command) = Configstrings(s, command[2])
    BY <1>1 DEF ExecuteUserCommand
  <2> QED
    BY <2>1, <2>2, SpokenConfigstrings
<1>2. CASE command[1] = "baselines" /\ s.state = "CS_CONNECTED"
  <2>1. PICK t \in Spoken(s, c) : t = AddServerCommand(s, <<"precache">>)
    <3>1. <<"precache">> \in Told
      BY DEF Told
    <3> QED
      BY <3>1, SpokenSelf, SpokenAdds
  <2>2. ExecuteUserCommand(s, command) = Send(t)
    BY <1>2, <2>1 DEF ExecuteUserCommand
  <2>3. t \in ServerType
    BY DEF Spoken
  <2>4. PICK u \in ServerType : u = Send(t) /\ SentOne(t, u) /\ ReceivedSame(t, u) /\ AddedSame(t, u) /\ ServerSame(t, u)
    BY <2>3, ServerSend
  <2>5. ASSUME u.state # "CS_ZOMBIE" PROVE Both(u, c) /\ Later(s, u) /\ ReceivedSame(s, u)
    <3>1. Both(t, c) /\ Later(s, t) /\ ReceivedSame(s, t)
      BY <2>4, <2>5 DEF Spoken, ServerSame
    <3>2. Typed(s, Told, Asked) /\ Typed(t, Told, Asked) /\ Typed(u, Told, Asked) /\ Typed(c, Asked, Told)
      BY <2>3, EndsTyped
    <3>3. Both(u, c)
      BY <2>4, <3>1, <3>2, SentKeepsNumbers
    <3>4. t.sent \in Nat /\ t.sequence \in Nat /\ t.executed \in Nat /\ Len(t.log) \in Nat
      BY <3>2, EndNumbers
    <3>5. Later(t, u)
      BY <2>4, <3>1, <3>4 DEF Later, SentOne, ReceivedSame, AddedSame, Both, Numbered, InOrder
    <3>6. Later(s, u)
      BY <3>1, <3>2, <3>5, LaterTransitive
    <3> QED
      BY <2>4, <3>1, <3>3, <3>6 DEF ReceivedSame
  <2> QED
    BY <2>2, <2>4, <2>5 DEF Spoken
<1>3. CASE command[1] = "begin" /\ s.state = "CS_CONNECTED"
  <2>1. ExecuteUserCommand(s, command) = [s EXCEPT !.state = "CS_SPAWNED"]
    BY <1>3 DEF ExecuteUserCommand
  <2> QED
    BY <2>1, SpokenSelf
<1>4. CASE command[1] = "begin" /\ s.state # "CS_CONNECTED"
  <2>1. ExecuteUserCommand(s, command) = Drop(s)
    BY <1>4 DEF ExecuteUserCommand
  <2> QED
    BY <2>1, Dropped DEF Spoken
<1>5. CASE /\ ~(command[1] = "configstrings" /\ s.state \in {"CS_CONNECTING", "CS_CONNECTED"})
           /\ ~(command[1] = "baselines" /\ s.state = "CS_CONNECTED") /\ command[1] # "begin"
  <2>1. ExecuteUserCommand(s, command) = s
    BY <1>5 DEF ExecuteUserCommand
  <2> QED
    BY <2>1, SpokenSelf
<1> QED
  BY <1>1, <1>2, <1>3, <1>4, <1>5

\* A command that is executed is later.
LEMMA ExecutingIsLater ==
  ASSUME NEW A, NEW B, NEW e, NEW g, Typed(e, A, B), Typed(g, A, B), e.executed = Len(e.heard),
         NEW n, n.number = e.executed + 1, n.command \in B, Executing(e, g, n), AddedSame(e, g), SentSame(e, g)
  PROVE  Later(e, g) /\ g.executed = e.executed + 1 /\ g.heard[e.executed + 1] = n.command
<1>1. e.sent \in Nat /\ e.executed \in Nat /\ Len(e.log) \in Nat
  BY EndNumbers
<1>2. Len(g.heard) = Len(e.heard) + 1 /\ g.heard[Len(e.heard) + 1] = n.command /\ \A k \in 1..Len(e.heard) : g.heard[k] = e.heard[k]
  <2>1. e.heard \in Seq(B) /\ g.heard = Append(e.heard, n.command)
    BY DEF Typed, Executing
  <2> QED
    BY <2>1, AppendProperties
<1> QED
  BY <1>1, <1>2 DEF Later, Executing, AddedSame, SentSame

LEMMA LaterSelf ==
  ASSUME NEW A, NEW B, NEW e, Typed(e, A, B)
  PROVE  Later(e, e)
  BY EndNumbers DEF Later

\* A command of a message is executed, unless it was before.
LEMMA ServerExecutesKeeps ==
  ASSUME NEW s \in ServerType, NEW c \in ClientType, s.state # "CS_ZOMBIE" => Both(s, c),
         NEW n \in [number : Nat, command : Asked], n.number <= s.executed + 1, n.number <= c.sent,
         NEW t, t = ServerExecutes(s, n), t.state # "CS_ZOMBIE"
  PROVE  /\ t \in ServerType /\ s.state # "CS_ZOMBIE" /\ Both(t, c) /\ Later(s, t)
         /\ t.upto = s.upto /\ t.acknowledged = s.acknowledged /\ t.executed >= n.number
<1>1. s.state # "CS_ZOMBIE"
  BY DEF ServerExecutes
<1>2. Typed(s, Told, Asked) /\ Typed(c, Asked, Told) /\ s.executed \in Nat
  BY EndsTyped, EndNumbers
<1>3. CASE n.number <= s.executed
  <2>1. t = s
    BY <1>3 DEF ServerExecutes, Executed
  <2> QED
    BY <1>1, <1>2, <1>3, <2>1, LaterSelf
<1>4. CASE ~(n.number <= s.executed)
  <2>1. PICK e \in ServerType : e = Execute(s, n) /\ Executing(s, e, n) /\ AddedSame(s, e) /\ SentSame(s, e) /\ ServerSame(s, e)
    BY ServerExecute
  <2>2. t = ExecuteUserCommand(e, n.command)
    BY <1>1, <1>4, <2>1 DEF ServerExecutes, Executed
  <2>3. n.number = s.executed + 1 /\ n.command \in Asked
    BY <1>2, <1>4
  <2>4. Both(e, c) /\ e.state # "CS_ZOMBIE"
    <3>1. Typed(e, Told, Asked)
      BY EndsTyped
    <3> QED
      BY <1>1, <1>2, <2>1, <2>3, <3>1, ExecutingKeepsNumbers DEF ServerSame
  <2>5. Later(s, e) /\ e.executed = s.executed + 1
    <3>1. Typed(e, Told, Asked) /\ s.executed = Len(s.heard)
      BY <1>1, EndsTyped DEF Both, Numbered, InOrder
    <3> QED
      BY <1>2, <2>1, <2>3, <3>1, ExecutingIsLater
  <2>6. t \in Spoken(e, c)
    BY <2>2, <2>3, <2>4, SpokenUserCommand
  <2>7. t \in ServerType /\ Both(t, c) /\ Later(e, t) /\ ReceivedSame(e, t)
    BY <2>6 DEF Spoken
  <2>8. Later(s, t)
    BY <1>2, <2>1, <2>5, <2>7, EndsTyped, LaterTransitive
  <2> QED
    BY <1>1, <1>2, <2>1, <2>3, <2>5, <2>7, <2>8 DEF ReceivedSame, Executing
<1> QED
  BY <1>3, <1>4

\* SV_ParseClientMessage: the numbers stay in order, and the server knows what
\* the client had said.
LEMMA ClientMessageKeeps ==
  ASSUME NEW s \in ServerType, NEW c \in ClientType, NEW d \in ClientType, s.state # "CS_ZOMBIE", Both(s, c),
         c.net # <<>>, d.net = Tail(c.net), d.sent = c.sent, ReceivedSame(c, d), AddedSame(c, d),
         NEW t, t = ParseClientMessage(s, c.net[1]), t.state # "CS_ZOMBIE"
  PROVE  t \in ServerType /\ Both(t, d) /\ Later(s, t) /\ UpToDate(t)
<1> DEFINE m == c.net[1]
<1>1. Typed(s, Told, Asked) /\ Typed(c, Asked, Told) /\ Typed(d, Asked, Told)
  BY EndsTyped
<1>2. m \in Messages(Asked) /\ Carried(c, s, m)
  <2>1. c.net \in Seq(Messages(Asked))
    BY <1>1 DEF Typed
  <2>2. 1 \in 1..Len(c.net)
    BY <2>1
  <2> QED
    BY <1>1, <2>2, NetTyped DEF Both, Numbered
<1>3. /\ m.ack \in Nat /\ m.upto \in Nat /\ Len(m.commands) \in Nat /\ Before(m) \in Int
      /\ Before(m) + Len(m.commands) = m.upto
      /\ m.commands \in Seq([number : Nat, command : Asked])
      /\ s.acknowledged \in Nat /\ s.sent \in Nat /\ s.executed \in Nat /\ c.executed \in Nat /\ c.sent \in Nat
  BY <1>1, <1>2, MessageTyped, EndNumbers
<1>4. IsPossibleAck(s, m.ack)
  <2>1. s.acknowledged <= m.ack /\ m.ack <= c.executed
    BY <1>2 DEF Carried
  <2>2. c.executed <= s.sent
    BY DEF Both, Numbered, InOrder
  <2> QED
    BY <1>3, <2>1, <2>2 DEF IsPossibleAck
<1>5. PICK h \in [0..Len(m.commands) -> ServerType] :
        /\ h[0] = [s EXCEPT !.acknowledged = m.ack, !.upto = m.upto] /\ t = h[Len(m.commands)]
        /\ \A k \in 1..Len(m.commands) : h[k] = ServerExecutes(h[k - 1], m.commands[k])
  BY <1>2, <1>4, ClientMessageRun, Zenon
<1>6. PICK g \in ServerType : g = h[0] /\ Acknowledging(s, g, m) /\ AddedSame(s, g) /\ SentSame(s, g) /\ ServerSame(s, g)
  BY <1>2, <1>5, ServerAck, Zenon
<1>7. Both(g, d)
  BY <1>1, <1>6, EndsTyped, AckKeepsNumbers
<1>8. Later(s, g)
  BY <1>1, <1>6, LaterSelf DEF Later, Acknowledging, AddedSame, SentSame
<1> HIDE DEF m
<1>9. PICK n \in Nat : n = Len(m.commands)
  BY <1>3
<1> DEFINE good == {k \in 0..n : h[k].state # "CS_ZOMBIE" =>
                      Both(h[k], d) /\ Later(s, h[k]) /\ h[k].upto = m.upto /\ h[k].executed >= Before(m) + k}
<1>10. 0 \in good
  BY <1>2, <1>3, <1>6, <1>7, <1>8 DEF Carried, Acknowledging
<1>11. ASSUME NEW k \in 1..n, k - 1 \in good PROVE k \in good
  <2>1. k \in 0..n /\ k - 1 \in 0..n /\ h[k - 1] \in ServerType
    BY <1>5, <1>9
  <2>2. PICK e \in ServerType : e = h[k - 1]
    BY <2>1
  <2>3. e.state # "CS_ZOMBIE" => Both(e, d) /\ Later(s, e) /\ e.upto = m.upto /\ e.executed >= Before(m) + (k - 1)
    BY <1>11, <2>2
  <2>4. m.commands[k] \in [number : Nat, command : Asked] /\ h[k] = ServerExecutes(e, m.commands[k])
    BY <1>3, <1>5, <1>9, <2>2, ElementOfSeq
  <2>5. m.commands[k].number = Before(m) + k /\ m.commands[k].number <= d.sent
    BY <1>2, <1>3, <1>9 DEF Carried
  <2> HIDE DEF good
  <2>6. ASSUME h[k].state # "CS_ZOMBIE"
        PROVE  Both(h[k], d) /\ Later(s, h[k]) /\ h[k].upto = m.upto /\ h[k].executed >= Before(m) + k
    <3>1. e.state # "CS_ZOMBIE"
      BY <2>4, <2>6 DEF ServerExecutes
    <3>2. e.executed \in Nat
      BY EndsTyped, EndNumbers
    <3>3. m.commands[k].number <= e.executed + 1
      BY <1>3, <2>3, <2>5, <3>1, <3>2
    <3>4. /\ h[k] \in ServerType /\ Both(h[k], d) /\ Later(e, h[k])
          /\ h[k].upto = e.upto /\ h[k].executed >= m.commands[k].number
      BY <2>3, <2>4, <2>5, <2>6, <3>1, <3>3, ServerExecutesKeeps
    <3>5. Later(s, h[k])
      BY <2>3, <3>1, <3>4, EndsTyped, LaterTransitive
    <3> QED
      BY <2>3, <2>5, <3>1, <3>4, <3>5
  <2> QED
    BY <2>1, <2>6 DEF good
<1> HIDE DEF good
<1>12. \A k \in 0..n : k \in good
  BY <1>10, <1>11, UpTo, Zenon
<1>13. n \in 0..n /\ n \in good
  BY <1>12
<1>14. t \in ServerType /\ Both(t, d) /\ Later(s, t) /\ t.upto = m.upto /\ t.executed >= Before(m) + n
  BY <1>5, <1>9, <1>13 DEF good
<1> QED
  BY <1>3, <1>9, <1>14 DEF UpToDate

-----------------------------------------------------------------------------
(* What the client does.                                                   *)

\* An end whose commands and numbers stay.
LEMMA QuietKeepsNumbers ==
  ASSUME NEW A, NEW B, NEW e, NEW f, NEW g, Typed(e, A, B), Typed(f, B, A), Typed(g, A, B), Both(e, f),
         ReceivedSame(e, g), AddedSame(e, g), SentSame(e, g)
  PROVE  Both(g, f) /\ Later(e, g)
<1>1. e.sent \in Nat /\ e.executed \in Nat /\ Len(e.log) \in Nat /\ e.sequence \in Nat
  BY EndNumbers
<1>2. Grown(e, g)
  BY <1>1 DEF Grown, AddedSame, Both, Numbered, InOrder
<1>3. Later(e, g)
  BY <1>1 DEF Later, ReceivedSame, AddedSame, SentSame
<1> QED
  BY <1>2, <1>3, GrownKeepsNumbers

\* CL_AddReliableCommand.
LEMMA ClientAddKeeps ==
  ASSUME NEW s \in ServerType, NEW c \in ClientType, Both(s, c), NEW command \in Asked,
         NEW d, d = AddReliableCommand(c, command), d.state # "CA_DISCONNECTED"
  PROVE  /\ d \in ClientType /\ Both(s, d) /\ Later(c, d)
         /\ PutIn(c, d, command) /\ ReceivedSame(c, d) /\ SentSame(c, d) /\ ClientSame(c, d)
<1>1. d \in ClientType /\ d = Put(c, command)
  BY AddedByClient DEF Failing
<1>2. PutIn(c, d, command) /\ ReceivedSame(c, d) /\ SentSame(c, d) /\ ClientSame(c, d)
  BY <1>1, ClientPut
<1>3. Typed(c, Asked, Told) /\ Typed(d, Asked, Told) /\ Typed(s, Told, Asked)
  BY <1>1, EndsTyped
<1>4. Grown(c, d) /\ Later(c, d)
  BY <1>2, <1>3, PutInGrows DEF Both, Numbered, InOrder
<1>5. Both(d, s)
  <2>1. Both(c, s)
    BY DEF Both
  <2> QED
    BY <1>3, <1>4, <2>1, GrownKeepsNumbers
<1> QED
  BY <1>1, <1>2, <1>4, <1>5 DEF Both

\* CL_ParseServerCommand.
LEMMA ServerCommandKeeps ==
  ASSUME NEW s \in ServerType, NEW c \in ClientType, Both(s, c), NEW command \in Told,
         NEW d, d = ParseServerCommand(c, command), d.state # "CA_DISCONNECTED"
  PROVE  d \in ClientType /\ c.state # "CA_DISCONNECTED" /\ Both(s, d) /\ Later(c, d) /\ ReceivedSame(c, d)
<1>1. d \in ClientType
  BY ServerCommandTyped
<1>2. /\ Typed(c, Asked, Told) /\ Typed(d, Asked, Told) /\ Typed(s, Told, Asked) /\ Both(c, s)
      /\ \A e : Both(e, s) <=> Both(s, e)
  BY <1>1, EndsTyped DEF Both
<1>3. CASE command[1] = "cs"
  <2>1. d = ParseConfigstrings(c, command[2]) /\ command[2] \in Pairs
    BY <1>3, CsPairs DEF ParseServerCommand, IsCs
  <2>2. ReceivedSame(c, d) /\ AddedSame(c, d) /\ SentSame(c, d) /\ d.state = c.state
    BY <2>1, PairsTyped
  <2>3. Both(d, s) /\ Later(c, d)
    BY <1>2, <2>2, QuietKeepsNumbers
  <2> QED
    BY <1>1, <1>2, <2>2, <2>3
<1>4. CASE command[1] = "csf"
  <2>1. /\ command[2] \in Strings /\ command[3] \in 0..(MaxFragments - 1) /\ command[4] \in Nat /\ command[5] \in Values
    BY <1>4, FragmentParts, FragmentsFit DEF IsFragment
  <2>2. d = AddFragment(c, command[2], command[3], command[4], command[5])
    BY <1>4 DEF ParseServerCommand
  <2>3. FragmentTaken(c, d, command[2], command[3], command[4])
    BY <2>1, <2>2, FragmentAdded DEF Failing
  <2>4. ReceivedSame(c, d) /\ AddedSame(c, d) /\ SentSame(c, d) /\ d.state = c.state
    BY <2>3 DEF FragmentTaken
  <2>5. Both(d, s) /\ Later(c, d)
    BY <1>2, <2>4, QuietKeepsNumbers
  <2> QED
    BY <1>1, <1>2, <2>4, <2>5
<1>5. CASE command[1] \in {"cmd", "precache"}
  <2>1. PICK asked \in Asked : d = AddReliableCommand(c, asked)
    <3>1. <<"begin">> \in Asked
      BY DEF Asked
    <3>2. CASE command[1] = "cmd"
      BY <3>2, ForwardedTyped DEF ParseServerCommand
    <3>3. CASE command[1] = "precache"
      BY <3>1, <3>3 DEF ParseServerCommand
    <3> QED
      BY <1>5, <3>2, <3>3
  <2>2. Both(s, d) /\ Later(c, d) /\ ReceivedSame(c, d) /\ ClientSame(c, d)
    BY <2>1, ClientAddKeeps
  <2> QED
    BY <1>1, <2>2 DEF ClientSame
<1>6. CASE command[1] = "disconnect"
  BY <1>6 DEF ParseServerCommand, Disconnect, ClientType
<1>7. CASE command[1] \notin {"cs", "csf", "cmd", "precache", "disconnect"}
  <2>1. d = c
    BY <1>7 DEF ParseServerCommand
  <2> QED
    BY <1>1, <1>2, <2>1, LaterSelf DEF ReceivedSame
<1> QED
  BY <1>3, <1>4, <1>5, <1>6, <1>7

LEMMA ClientExecutesKeeps ==
  ASSUME NEW s \in ServerType, NEW c \in ClientType, c.state # "CA_DISCONNECTED" => Both(s, c),
         NEW n \in [number : Nat, command : Told], n.number <= c.executed + 1, n.number <= s.sent,
         NEW d, d = ClientExecutes(c, n), d.state # "CA_DISCONNECTED"
  PROVE  /\ d \in ClientType /\ c.state # "CA_DISCONNECTED" /\ Both(s, d) /\ Later(c, d)
         /\ d.upto = c.upto /\ d.acknowledged = c.acknowledged /\ d.executed >= n.number
<1>1. c.state # "CA_DISCONNECTED" /\ Both(c, s)
  BY DEF ClientExecutes, Both
<1>2. Typed(s, Told, Asked) /\ Typed(c, Asked, Told) /\ c.executed \in Nat
  BY EndsTyped, EndNumbers
<1>3. CASE n.number <= c.executed
  <2>1. d = c
    BY <1>3 DEF ClientExecutes, Executed
  <2> QED
    BY <1>1, <1>2, <1>3, <2>1, LaterSelf
<1>4. CASE ~(n.number <= c.executed)
  <2>1. PICK e \in ClientType : e = Execute(c, n) /\ Executing(c, e, n) /\ AddedSame(c, e) /\ SentSame(c, e) /\ ClientSame(c, e)
    BY ClientExecute
  <2>2. d = ParseServerCommand(e, n.command)
    BY <1>1, <1>4, <2>1 DEF ClientExecutes, Executed
  <2>3. n.number = c.executed + 1 /\ n.command \in Told
    BY <1>2, <1>4
  <2>4. Both(s, e)
    <3>1. Typed(e, Asked, Told)
      BY EndsTyped
    <3>2. Both(e, s)
      BY <1>1, <1>2, <2>1, <2>3, <3>1, ExecutingKeepsNumbers
    <3> QED
      BY <3>2 DEF Both
  <2>5. Later(c, e) /\ e.executed = c.executed + 1
    <3>1. Typed(e, Asked, Told) /\ c.executed = Len(c.heard)
      BY <1>1, EndsTyped DEF Both, Numbered, InOrder
    <3> QED
      BY <1>2, <2>1, <2>3, <3>1, ExecutingIsLater
  <2>6. d \in ClientType /\ Both(s, d) /\ Later(e, d) /\ ReceivedSame(e, d)
    BY <2>2, <2>3, <2>4, ServerCommandKeeps
  <2>7. Later(c, d)
    BY <1>2, <2>1, <2>5, <2>6, EndsTyped, LaterTransitive
  <2> QED
    BY <1>1, <1>2, <2>1, <2>3, <2>5, <2>6, <2>7 DEF ReceivedSame, Executing
<1> QED
  BY <1>3, <1>4

\* CL_ParseServerMessage: the same of the client.
LEMMA ServerMessageKeeps ==
  ASSUME NEW s \in ServerType, NEW t \in ServerType, NEW c \in ClientType, c.state # "CA_DISCONNECTED", Both(s, c),
         s.net # <<>>, t.net = Tail(s.net), t.sent = s.sent, ReceivedSame(s, t), AddedSame(s, t),
         NEW d, d = ParseServerMessage(c, s.net[1]), d.state # "CA_DISCONNECTED"
  PROVE  d \in ClientType /\ Both(t, d) /\ Later(c, d) /\ UpToDate(d)
<1> DEFINE m == s.net[1]
<1>1. Typed(s, Told, Asked) /\ Typed(t, Told, Asked) /\ Typed(c, Asked, Told) /\ Both(c, s)
  BY EndsTyped DEF Both
<1>2. m \in Messages(Told) /\ Carried(s, c, m)
  <2>1. s.net \in Seq(Messages(Told))
    BY <1>1 DEF Typed
  <2>2. 1 \in 1..Len(s.net)
    BY <2>1
  <2> QED
    BY <1>1, <2>2, NetTyped DEF Both, Numbered
<1>3. /\ m.ack \in Nat /\ m.upto \in Nat /\ Len(m.commands) \in Nat /\ Before(m) \in Int
      /\ Before(m) + Len(m.commands) = m.upto
      /\ m.commands \in Seq([number : Nat, command : Told])
      /\ c.executed \in Nat
  BY <1>1, <1>2, MessageTyped, EndNumbers
<1>5. PICK h \in [0..Len(m.commands) -> ClientType] :
        /\ h[0] = [c EXCEPT !.acknowledged = m.ack, !.upto = m.upto] /\ d = h[Len(m.commands)]
        /\ \A k \in 1..Len(m.commands) : h[k] = ClientExecutes(h[k - 1], m.commands[k])
  BY <1>2, ServerMessageRun, Zenon
<1>6. PICK g \in ClientType : g = h[0] /\ Acknowledging(c, g, m) /\ AddedSame(c, g) /\ SentSame(c, g) /\ ClientSame(c, g)
  BY <1>2, <1>5, ClientAck, Zenon
<1>7. Both(t, g)
  <2>1. Both(g, t)
    BY <1>1, <1>6, EndsTyped, AckKeepsNumbers
  <2> QED
    BY <2>1 DEF Both
<1>8. Later(c, g)
  BY <1>1, <1>6, LaterSelf DEF Later, Acknowledging, AddedSame, SentSame
<1> HIDE DEF m
<1>9. PICK n \in Nat : n = Len(m.commands)
  BY <1>3
<1> DEFINE good == {k \in 0..n : h[k].state # "CA_DISCONNECTED" =>
                      Both(t, h[k]) /\ Later(c, h[k]) /\ h[k].upto = m.upto /\ h[k].executed >= Before(m) + k}
<1>10. 0 \in good
  BY <1>2, <1>3, <1>6, <1>7, <1>8 DEF Carried, Acknowledging
<1>11. ASSUME NEW k \in 1..n, k - 1 \in good PROVE k \in good
  <2>1. k \in 0..n /\ k - 1 \in 0..n /\ h[k - 1] \in ClientType
    BY <1>5, <1>9
  <2>2. PICK e \in ClientType : e = h[k - 1]
    BY <2>1
  <2>3. e.state # "CA_DISCONNECTED" => Both(t, e) /\ Later(c, e) /\ e.upto = m.upto /\ e.executed >= Before(m) + (k - 1)
    BY <1>11, <2>2
  <2>4. m.commands[k] \in [number : Nat, command : Told] /\ h[k] = ClientExecutes(e, m.commands[k])
    BY <1>3, <1>5, <1>9, <2>2, ElementOfSeq
  <2>5. m.commands[k].number = Before(m) + k /\ m.commands[k].number <= t.sent
    <3>1. s.sent \in Nat
      BY <1>1, EndNumbers
    <3> QED
      BY <1>2, <1>3, <1>9, <3>1 DEF Carried
  <2> HIDE DEF good
  <2>6. ASSUME h[k].state # "CA_DISCONNECTED"
        PROVE  Both(t, h[k]) /\ Later(c, h[k]) /\ h[k].upto = m.upto /\ h[k].executed >= Before(m) + k
    <3>1. e.state # "CA_DISCONNECTED"
      BY <2>4, <2>6 DEF ClientExecutes
    <3>2. e.executed \in Nat
      BY EndsTyped, EndNumbers
    <3>3. m.commands[k].number <= e.executed + 1
      BY <1>3, <2>3, <2>5, <3>1, <3>2
    <3>4. /\ h[k] \in ClientType /\ Both(t, h[k]) /\ Later(e, h[k])
          /\ h[k].upto = e.upto /\ h[k].executed >= m.commands[k].number
      BY <2>3, <2>4, <2>5, <2>6, <3>1, <3>3, ClientExecutesKeeps
    <3>5. Later(c, h[k])
      BY <2>3, <3>1, <3>4, EndsTyped, LaterTransitive
    <3> QED
      BY <2>3, <2>5, <3>1, <3>4, <3>5
  <2> QED
    BY <2>1, <2>6 DEF good
<1> HIDE DEF good
<1>12. \A k \in 0..n : k \in good
  BY <1>10, <1>11, UpTo, Zenon
<1>13. n \in 0..n /\ n \in good
  BY <1>12
<1>14. d \in ClientType /\ Both(t, d) /\ Later(c, d) /\ d.upto = m.upto /\ d.executed >= Before(m) + n
  BY <1>5, <1>9, <1>13 DEF good
<1> QED
  BY <1>3, <1>9, <1>14 DEF UpToDate

-----------------------------------------------------------------------------
(* The numbers are in order.                                               *)

\* Messages on their way become fewer.
LEMMA ServerThinned ==
  ASSUME NEW s \in ServerType, NEW net \in Seq(Messages(Told)), NEW t, t = [s EXCEPT !.net = net]
  PROVE  t \in ServerType /\ t.net = net /\ t.sent = s.sent /\ ReceivedSame(s, t) /\ AddedSame(s, t) /\ ServerSame(s, t)
  BY DEF ServerType, ReceivedSame, AddedSame, ServerSame

LEMMA ClientThinned ==
  ASSUME NEW c \in ClientType, NEW net \in Seq(Messages(Asked)), NEW d, d = [c EXCEPT !.net = net]
  PROVE  d \in ClientType /\ d.net = net /\ d.sent = c.sent /\ ReceivedSame(c, d) /\ AddedSame(c, d) /\ ClientSame(c, d)
  BY DEF ClientType, ReceivedSame, AddedSame, ClientSame, PiecesSame

LEMMA TailTyped ==
  ASSUME NEW M, NEW net \in Seq(M), net # <<>>
  PROVE  Tail(net) \in Seq(M) /\ Head(net) = net[1] /\ net[1] \in M
  OBVIOUS

\* What a step keeps.
Keeps(s, t, c, d) ==
  /\ t \in ServerType /\ d \in ClientType
  /\ Up(t, d) => /\ Up(s, c)
                 /\ Both(s, c) => Both(t, d) /\ Later(s, t) /\ Later(c, d)
                 /\ Both(s, c) /\ UpToDate(s) => UpToDate(t)
                 /\ Both(s, c) /\ UpToDate(c) => UpToDate(d)

LEMMA ServerReceivesKeeps ==
  ASSUME Types, ServerReceives
  PROVE  Keeps(server, server', client, client')
<1>1. PICK s \in ServerType, c \in ClientType : s = server /\ c = client
  BY DEF Types
<1>2. c.net \in Seq(Messages(Asked)) /\ c.net # <<>>
  BY <1>1 DEF ServerReceives, ServerCanReceive, ClientType
<1>3. Tail(c.net) \in Seq(Messages(Asked)) /\ Head(c.net) = c.net[1] /\ c.net[1] \in Messages(Asked)
  BY <1>2, TailTyped
<1>4. PICK d : d = client' /\ d = [c EXCEPT !.net = Tail(c.net)]
  BY <1>1 DEF ServerReceives
<1>5. d \in ClientType /\ d.net = Tail(c.net) /\ d.sent = c.sent /\ ReceivedSame(c, d) /\ AddedSame(c, d) /\ ClientSame(c, d)
  BY <1>3, <1>4, ClientThinned
<1>6. PICK t : t = server' /\ t = IF s.state = "CS_ZOMBIE" THEN s ELSE ParseClientMessage(s, c.net[1])
  BY <1>1, <1>3 DEF ServerReceives
<1>7. Later(c, d) /\ (UpToDate(c) => UpToDate(d))
  BY <1>5, EndsTyped, LaterSelf DEF Later, ReceivedSame, AddedSame, UpToDate
<1>8. CASE s.state = "CS_ZOMBIE"
  BY <1>1, <1>4, <1>5, <1>6, <1>8 DEF Keeps, Up
<1>9. CASE s.state # "CS_ZOMBIE"
  <2>1. t = ParseClientMessage(s, c.net[1])
    BY <1>6, <1>9
  <2>2. t \in ServerType
    <3>1. CASE IsPossibleAck(s, c.net[1].ack)
      <4>1. PICK m \in Messages(Asked) : m = c.net[1]
        BY <1>3
      <4>2. PICK h \in [0..Len(m.commands) -> ServerType] :
              /\ h[0] = [s EXCEPT !.acknowledged = m.ack, !.upto = m.upto] /\ ParseClientMessage(s, m) = h[Len(m.commands)]
              /\ \A k \in 1..Len(m.commands) : h[k] = ServerExecutes(h[k - 1], m.commands[k])
        BY <3>1, <4>1, ClientMessageRun, Zenon
      <4>3. Len(m.commands) \in 0..Len(m.commands)
        BY MessageTyped
      <4> QED
        BY <2>1, <4>1, <4>2, <4>3
    <3>2. CASE ~IsPossibleAck(s, c.net[1].ack)
      BY <2>1, <3>2 DEF ParseClientMessage
    <3> QED
      BY <3>1, <3>2
  <2>3. ASSUME t.state # "CS_ZOMBIE", Both(s, c) PROVE Both(t, d) /\ Later(s, t) /\ UpToDate(t)
    BY <1>2, <1>5, <1>9, <2>1, <2>3, ClientMessageKeeps
  <2> QED
    BY <1>1, <1>4, <1>5, <1>6, <1>7, <1>9, <2>2, <2>3 DEF Keeps, Up, ClientSame
<1> QED
  BY <1>8, <1>9

LEMMA ClientReceivesKeeps ==
  ASSUME Types, ClientReceives
  PROVE  Keeps(server, server', client, client')
<1>1. PICK s \in ServerType, c \in ClientType : s = server /\ c = client
  BY DEF Types
<1>2. s.net \in Seq(Messages(Told)) /\ s.net # <<>>
  BY <1>1 DEF ClientReceives, ClientCanReceive, ServerType
<1>3. Tail(s.net) \in Seq(Messages(Told)) /\ Head(s.net) = s.net[1] /\ s.net[1] \in Messages(Told)
  BY <1>2, TailTyped
<1>4. PICK t : t = server' /\ t = [s EXCEPT !.net = Tail(s.net)]
  BY <1>1 DEF ClientReceives
<1>5. t \in ServerType /\ t.net = Tail(s.net) /\ t.sent = s.sent /\ ReceivedSame(s, t) /\ AddedSame(s, t) /\ ServerSame(s, t)
  BY <1>3, <1>4, ServerThinned
<1>6. PICK d : d = client' /\ d = IF c.state = "CA_DISCONNECTED" THEN c ELSE ParseServerMessage(c, s.net[1])
  BY <1>1, <1>3 DEF ClientReceives
<1>7. Later(s, t) /\ (UpToDate(s) => UpToDate(t))
  BY <1>5, EndsTyped, LaterSelf DEF Later, ReceivedSame, AddedSame, UpToDate
<1>8. CASE c.state = "CA_DISCONNECTED"
  BY <1>1, <1>4, <1>5, <1>6, <1>8 DEF Keeps, Up
<1>9. CASE c.state # "CA_DISCONNECTED"
  <2>1. d = ParseServerMessage(c, s.net[1])
    BY <1>6, <1>9
  <2>2. d \in ClientType
    <3>1. PICK m \in Messages(Told) : m = s.net[1]
      BY <1>3
    <3>2. PICK h \in [0..Len(m.commands) -> ClientType] :
            /\ h[0] = [c EXCEPT !.acknowledged = m.ack, !.upto = m.upto] /\ ParseServerMessage(c, m) = h[Len(m.commands)]
            /\ \A k \in 1..Len(m.commands) : h[k] = ClientExecutes(h[k - 1], m.commands[k])
      BY ServerMessageRun, Zenon
    <3>3. Len(m.commands) \in 0..Len(m.commands)
      BY MessageTyped
    <3> QED
      BY <2>1, <3>1, <3>2, <3>3
  <2>3. ASSUME d.state # "CA_DISCONNECTED", Both(s, c) PROVE Both(t, d) /\ Later(c, d) /\ UpToDate(d)
    BY <1>2, <1>5, <1>9, <2>1, <2>3, ServerMessageKeeps
  <2> QED
    BY <1>1, <1>4, <1>5, <1>6, <1>7, <1>9, <2>2, <2>3 DEF Keeps, Up, ServerSame
<1> QED
  BY <1>8, <1>9

\* A message that is sent holds all that is not acknowledged.
LEMMA SendIsLater ==
  ASSUME NEW A, NEW B, NEW e, NEW f, NEW g, Typed(e, A, B), Both(e, f), SentOne(e, g), ReceivedSame(e, g), AddedSame(e, g)
  PROVE  Later(e, g)
  BY EndNumbers DEF Later, SentOne, ReceivedSame, AddedSame, Both, Numbered, InOrder

LEMMA ServerSendsKeeps ==
  ASSUME Types, ServerSends
  PROVE  Keeps(server, server', client, client')
<1>1. PICK s \in ServerType, c \in ClientType, t \in {server'} : s = server /\ c = client /\ c = client' /\ t = server' /\ t = Send(s)
  BY DEF Types, ServerSends
<1>2. t \in ServerType /\ SentOne(s, t) /\ ReceivedSame(s, t) /\ AddedSame(s, t) /\ ServerSame(s, t)
  BY <1>1, ServerSend
<1>3. Typed(s, Told, Asked) /\ Typed(t, Told, Asked) /\ Typed(c, Asked, Told)
  BY <1>2, EndsTyped
<1>4. ASSUME Both(s, c) PROVE Both(t, c) /\ Later(s, t) /\ Later(c, c)
  BY <1>2, <1>3, <1>4, SentKeepsNumbers, SendIsLater, LaterSelf
<1> QED
  BY <1>1, <1>2, <1>4 DEF Keeps, Up, ServerSame, ReceivedSame, UpToDate

LEMMA ClientSendsKeeps ==
  ASSUME Types, ClientSends
  PROVE  Keeps(server, server', client, client')
<1>1. PICK s \in ServerType, c \in ClientType, d \in {client'} : s = server /\ c = client /\ s = server' /\ d = client' /\ d = Send(c)
  BY DEF Types, ClientSends
<1>2. d \in ClientType /\ SentOne(c, d) /\ ReceivedSame(c, d) /\ AddedSame(c, d) /\ ClientSame(c, d)
  BY <1>1, ClientSend
<1>3. Typed(c, Asked, Told) /\ Typed(d, Asked, Told) /\ Typed(s, Told, Asked)
  BY <1>2, EndsTyped
<1>4. ASSUME Both(s, c) PROVE Both(s, d) /\ Later(s, s) /\ Later(c, d)
  <2>1. Both(c, s)
    BY <1>4 DEF Both
  <2>2. Both(d, s) /\ Later(c, d)
    BY <1>2, <1>3, <2>1, SentKeepsNumbers, SendIsLater
  <2> QED
    BY <1>3, <2>2, LaterSelf DEF Both
<1> QED
  BY <1>1, <1>2, <1>4 DEF Keeps, Up, ClientSame, ReceivedSame, UpToDate

LEMMA BroadcastKeeps ==
  ASSUME Types, Broadcast
  PROVE  Keeps(server, server', client, client')
<1>1. PICK s \in ServerType, c \in ClientType, t \in {server'} :
        s = server /\ c = client /\ c = client' /\ t = server' /\ t = AddServerCommand(s, <<"print">>)
  BY DEF Types, Broadcast
<1>2. <<"print">> \in Told
  BY DEF Told
<1>3. t \in ServerType /\ (t.state # "CS_ZOMBIE" => s.state # "CS_ZOMBIE")
  BY <1>1, <1>2, Added
<1>4. ASSUME Both(s, c), t.state # "CS_ZOMBIE" PROVE Both(t, c) /\ Later(s, t) /\ Later(c, c) /\ ReceivedSame(s, t)
  BY <1>1, <1>2, <1>4, AddedKeepsNumbers, EndsTyped, LaterSelf
<1> QED
  BY <1>1, <1>3, <1>4 DEF Keeps, Up, ReceivedSame, UpToDate

\* SV_SetConfigString changes a string, and adds a command.
LEMMA StringSet ==
  ASSUME Types, SetConfigString
  PROVE  \E u \in ServerType, i \in Strings, v \in Values :
           /\ i \in Changeable /\ v[2] \in ChangeSizes
           /\ ReceivedSame(server, u) /\ AddedSame(server, u) /\ SentSame(server, u) /\ u.state = server.state
           /\ u.configStrings[i] = v /\ \A j \in Strings : j # i => u.configStrings[j] = server.configStrings[j]
           /\ server' = AddServerCommand(u, <<"cs", <<<<i, v>>>>>>) /\ client' = client
<1>1. PICK s \in ServerType, n \in Nat : s = server /\ n = changes + 1
  BY DEF Types
<1>2. PICK i \in Changeable, size \in ChangeSizes :
        /\ server' = AddServerCommand([s EXCEPT !.configStrings[i] = <<n, size>>], <<"cs", <<<<i, <<n, size>>>>>>>>)
        /\ client' = client
  BY <1>1 DEF SetConfigString
<1>20. PICK u : u = [s EXCEPT !.configStrings[i] = <<n, size>>]
  OBVIOUS
<1>3. i \in Strings /\ size \in Nat /\ size < Capacity
  BY SizesAssumption
<1>4. PICK v \in Values : v = <<n, size>> /\ v[2] \in ChangeSizes /\ v[2] < Capacity
  <2>1. PICK v \in Values : v = <<n, size>>
    BY <1>3 DEF Values
  <2>2. v[2] = size
    BY <2>1
  <2> QED
    BY <1>3, <2>1, <2>2
<1>5. s.configStrings \in [Strings -> Values] /\ \A k \in Strings : s.configStrings[k][2] < Capacity \/ s.configStrings[k][2] = InitialSizes[k + 1]
  BY DEF ServerType, ServerStrings
<1>6. PICK f \in [Strings -> Values] : f = [s.configStrings EXCEPT ![i] = v]
  BY <1>5
<1>7. f[i] = v /\ \A k \in Strings : k # i => f[k] = s.configStrings[k]
  BY <1>3, <1>5, <1>6
<1>8. f \in ServerStrings
  <2>1. \A k \in Strings : f[k][2] < Capacity \/ f[k][2] = InitialSizes[k + 1]
    BY <1>4, <1>5, <1>7
  <2> QED
    BY <2>1 DEF ServerStrings
<1>9. u = [s EXCEPT !.configStrings = f]
  BY <1>4, <1>6, <1>20
<1>10. u \in ServerType /\ ReceivedSame(s, u) /\ AddedSame(s, u) /\ SentSame(s, u) /\ u.state = s.state /\ u.configStrings = f
  BY <1>8, <1>9 DEF ServerType, ReceivedSame, AddedSame, SentSame
<1>11. server' = AddServerCommand(u, <<"cs", <<<<i, v>>>>>>) /\ client' = client
  BY <1>2, <1>4, <1>20
<1> QED
  BY <1>1, <1>3, <1>4, <1>7, <1>10, <1>11, Zenon

LEMMA SetConfigStringKeeps ==
  ASSUME Types, SetConfigString
  PROVE  Keeps(server, server', client, client')
<1>1. PICK s \in ServerType, c \in ClientType, t \in {server'} : s = server /\ c = client /\ c = client' /\ t = server'
  BY DEF Types, SetConfigString
<1>2. PICK u \in ServerType, i \in Strings, v \in Values :
        /\ ReceivedSame(s, u) /\ AddedSame(s, u) /\ SentSame(s, u) /\ u.state = s.state
        /\ t = AddServerCommand(u, <<"cs", <<<<i, v>>>>>>)
  BY <1>1, StringSet
<1>3. PICK command \in Told : t = AddServerCommand(u, command)
  BY <1>2, PairTyped
<1>4. t \in ServerType /\ (t.state # "CS_ZOMBIE" => s.state # "CS_ZOMBIE")
  BY <1>2, <1>3, Added
<1>5. ASSUME Both(s, c), t.state # "CS_ZOMBIE" PROVE Both(t, c) /\ Later(s, t) /\ Later(c, c) /\ ReceivedSame(s, t)
  <2>1. Both(u, c) /\ Later(s, u)
    BY <1>2, <1>5, EndsTyped, QuietKeepsNumbers
  <2>2. Both(t, c) /\ Later(u, t) /\ ReceivedSame(u, t)
    BY <1>3, <1>5, <2>1, AddedKeepsNumbers
  <2>3. Later(s, t)
    BY <1>4, <2>1, <2>2, EndsTyped, LaterTransitive
  <2> QED
    BY <1>2, <2>2, <2>3, EndsTyped, LaterSelf DEF ReceivedSame
<1> QED
  BY <1>1, <1>4, <1>5 DEF Keeps, Up, ReceivedSame, UpToDate

LEMMA SayKeeps ==
  ASSUME Types, Say
  PROVE  Keeps(server, server', client, client')
<1>1. PICK s \in ServerType, c \in ClientType, d \in {client'} :
        /\ s = server /\ c = client /\ s = server' /\ d = client' /\ d = AddReliableCommand(c, <<"say">>)
        /\ c.state # "CA_DISCONNECTED"
  BY DEF Types, Say
<1>2. <<"say">> \in Asked
  BY DEF Asked
<1>3. d \in ClientType
  BY <1>1, <1>2, AddedByClient
<1>4. ASSUME Both(s, c), d.state # "CA_DISCONNECTED" PROVE Both(s, d) /\ Later(s, s) /\ Later(c, d) /\ ReceivedSame(c, d)
  BY <1>1, <1>2, <1>4, ClientAddKeeps, EndsTyped, LaterSelf
<1> QED
  BY <1>1, <1>3, <1>4 DEF Keeps, Up, ReceivedSame, UpToDate

LEMMA LoseKeeps ==
  ASSUME Types, Lose
  PROVE  Keeps(server, server', client, client')
<1>1. PICK s \in ServerType, c \in ClientType : s = server /\ c = client
  BY DEF Types
<1>2. ASSUME NEW i \in DOMAIN s.net, server' = [s EXCEPT !.net = RemoveAt(s.net, i)], client' = c
      PROVE  Keeps(server, server', client, client')
  <2>1. s.net \in Seq(Messages(Told)) /\ i \in 1..Len(s.net)
    BY DEF ServerType
  <2>2. RemoveAt(s.net, i) \in Seq(Messages(Told))
    <3>1. PICK g : g = [net |-> RemoveAt(s.net, i)]
      OBVIOUS
    <3>2. g.net \in Seq(Messages(Told))
      BY <2>1, <3>1, RemovalThins
    <3> QED
      BY <3>1, <3>2
  <2>3. PICK t \in ServerType : /\ t = server' /\ t.net = RemoveAt(s.net, i) /\ t.sent = s.sent
                                /\ ReceivedSame(s, t) /\ AddedSame(s, t) /\ ServerSame(s, t)
    BY <1>2, <2>2, ServerThinned
  <2>4. Thinned(s, t)
    BY <2>1, <2>3, RemovalThins
  <2>5. Later(s, t) /\ Later(c, c)
    BY <2>3, EndsTyped, LaterSelf DEF Later, ReceivedSame, AddedSame
  <2>6. Both(s, c) => Both(t, c)
    BY <2>3, <2>4, EndsTyped, ThinnedKeepsNumbers
  <2> QED
    BY <1>1, <1>2, <2>3, <2>5, <2>6 DEF Keeps, Up, ServerSame, ReceivedSame, UpToDate
<1>3. ASSUME NEW i \in DOMAIN c.net, client' = [c EXCEPT !.net = RemoveAt(c.net, i)], server' = s
      PROVE  Keeps(server, server', client, client')
  <2>1. c.net \in Seq(Messages(Asked)) /\ i \in 1..Len(c.net)
    BY DEF ClientType
  <2>2. RemoveAt(c.net, i) \in Seq(Messages(Asked))
    <3>1. PICK g : g = [net |-> RemoveAt(c.net, i)]
      OBVIOUS
    <3>2. g.net \in Seq(Messages(Asked))
      BY <2>1, <3>1, RemovalThins
    <3> QED
      BY <3>1, <3>2
  <2>3. PICK d \in ClientType : /\ d = client' /\ d.net = RemoveAt(c.net, i) /\ d.sent = c.sent
                                /\ ReceivedSame(c, d) /\ AddedSame(c, d) /\ ClientSame(c, d)
    BY <1>3, <2>2, ClientThinned
  <2>4. Thinned(c, d)
    BY <2>1, <2>3, RemovalThins
  <2>5. Later(s, s) /\ Later(c, d)
    BY <2>3, EndsTyped, LaterSelf DEF Later, ReceivedSame, AddedSame
  <2>6. Both(c, s) => Both(d, s)
    BY <2>3, <2>4, EndsTyped, ThinnedKeepsNumbers
  <2> QED
    BY <1>1, <1>3, <2>3, <2>5, <2>6 DEF Keeps, Up, ClientSame, ReceivedSame, UpToDate, Both
<1> QED
  BY <1>1, <1>2, <1>3 DEF Lose

\* Every step keeps the numbers in order and adds to what both ends have sent
\* and executed, unless the connection ends.
LEMMA NextKeeps ==
  ASSUME Types, Next
  PROVE  Keeps(server, server', client, client') /\ changes' \in Nat
<1>1. changes' \in Nat
  BY DEF Types, Next, ServerReceives, ServerSends, Broadcast, SetConfigString, ClientReceives, ClientSends, Say, Lose, counters
<1> QED
  BY <1>1, ServerReceivesKeeps, ServerSendsKeeps, BroadcastKeeps, SetConfigStringKeeps, ClientReceivesKeeps,
     ClientSendsKeeps, SayKeeps, LoseKeeps DEF Next

LEMMA FirstTyped ==
  /\ FirstServer \in ServerType /\ FirstClient \in ClientType /\ <<"configstrings", 0>> \in Asked
  /\ FirstServer.net = <<>> /\ FirstServer.log = <<>> /\ FirstServer.heard = <<>>
  /\ FirstClient.net = <<>> /\ FirstClient.log = <<>> /\ FirstClient.heard = <<>>
<1>1. NumStrings \in Nat \ {0} /\ MaxFragments \in Nat \ {0}
  BY FragmentsFit, SizesAssumption DEF NumStrings
<1>2. 0 \in Strings /\ 0 \in 0..(MaxFragments - 1) /\ 0 \in 0..NumStrings
  BY <1>1 DEF Strings
<1>3. EmptyRing \in Rings(Told) /\ EmptyRing \in Rings(Asked)
  BY DEF EmptyRing, Rings, Told, Asked
<1>4. [i \in Strings |-> <<0, InitialSizes[i + 1]>>] \in ServerStrings
  BY FragmentsFit DEF ServerStrings, Values
<1>5. [i \in Strings |-> Garbage] \in [Strings -> Values] /\ [k \in 0..(MaxFragments - 1) |-> Garbage] \in [0..(MaxFragments - 1) -> Values]
  BY DEF Garbage, Values
<1>6. FirstServer \in ServerType
  BY <1>3, <1>4 DEF FirstServer, ServerType
<1>7. FirstClient \in ClientType
  BY <1>2, <1>3, <1>5 DEF FirstClient, ClientType
<1>8. <<"configstrings", 0>> \in Asked
  BY <1>2 DEF Asked
<1> QED
  BY <1>6, <1>7, <1>8 DEF FirstServer, FirstClient

LEMMA InitSound ==
  ASSUME Init
  PROVE  IInv
<1>1. PICK s \in ServerType, c \in ClientType, d \in {client} : s = FirstServer /\ c = FirstClient /\ d = Put(c, <<"configstrings", 0>>)
  BY FirstTyped DEF Init
<1>2. d \in ClientType /\ PutIn(c, d, <<"configstrings", 0>>) /\ ReceivedSame(c, d) /\ SentSame(c, d) /\ ClientSame(c, d)
  BY <1>1, FirstTyped, ClientPut
<1>3. server = s /\ client = d /\ changes = 0
  BY <1>1 DEF Init
<1>4. /\ s.sequence = 0 /\ s.acknowledged = 0 /\ s.sent = 0 /\ s.executed = 0 /\ s.upto = 0
      /\ Len(s.net) = 0 /\ Len(s.log) = 0 /\ Len(s.heard) = 0
      /\ c.sequence = 0 /\ c.acknowledged = 0 /\ c.sent = 0 /\ c.executed = 0 /\ c.upto = 0
      /\ Len(c.net) = 0 /\ Len(c.log) = 0 /\ Len(c.heard) = 0
  BY <1>1 DEF FirstServer, FirstClient
<1>5. Both(c, s)
  BY <1>4 DEF Both, Numbered, InOrder
<1>6. Both(d, s)
  <2>1. Typed(s, Told, Asked) /\ Typed(c, Asked, Told) /\ Typed(d, Asked, Told)
    BY <1>2, EndsTyped
  <2>2. Grown(c, d)
    BY <1>2, <1>4, <2>1, PutInGrows
  <2> QED
    BY <1>5, <2>1, <2>2, GrownKeepsNumbers
<1>7. UpToDate(s) /\ UpToDate(d)
  BY <1>2, <1>4 DEF UpToDate, ReceivedSame
<1> QED
  BY <1>2, <1>3, <1>6, <1>7 DEF IInv, Types, NumbersSound, Both

LEMMA StepSound ==
  ASSUME IInv, [Next]_vars
  PROVE  IInv'
<1>1. CASE Next
  <2>1. Keeps(server, server', client, client') /\ changes' \in Nat
    BY <1>1, NextKeeps DEF IInv
  <2> QED
    BY <2>1 DEF Keeps, IInv, Types, NumbersSound, Both
<1>2. CASE UNCHANGED vars
  <2>1. server' = server /\ client' = client /\ changes' = changes
    BY <1>2 DEF vars, counters
  <2>2. Types' /\ NumbersSound'
    BY <2>1 DEF IInv, Types, NumbersSound, Up, Numbered, InOrder, Carried, Before, UpToDate
  <2> QED
    BY <2>2 DEF IInv
<1> QED
  BY <1>1, <1>2

\* Whatever the commands are and whatever is lost, the numbers of the commands
\* of both ends stay in order while the connection lasts.
THEOREM NumbersInOrder == Spec => []IInv
<1>1. Init => IInv
  BY InitSound
<1>2. IInv /\ [Next]_vars => IInv'
  BY StepSound
<1> QED
  BY <1>1, <1>2, PTL DEF Spec

LEMMA SoundIsInv ==
  ASSUME IInv
  PROVE  Inv
<1>1. PICK s \in ServerType, c \in ClientType : s = server /\ c = client
  BY DEF IInv, Types
<1>2. /\ s.sequence \in Nat /\ s.acknowledged \in Nat /\ s.sent \in Nat /\ s.executed \in Nat
      /\ c.sequence \in Nat /\ c.acknowledged \in Nat /\ c.sent \in Nat /\ c.executed \in Nat
  BY EndsTyped, EndNumbers
<1>3. Connected => InOrder(s, c) /\ InOrder(c, s) /\ UpToDate(s) /\ UpToDate(c)
  BY <1>1 DEF IInv, NumbersSound, Numbered, Connected, Up
<1>4. CommandsBeforeFrames
  BY <1>1, <1>3 DEF CommandsBeforeFrames, UpToDate
<1>5. ASSUME NEW end \in {s, c}, Connected
      PROVE  /\ end.acknowledged <= end.sent /\ end.sent <= end.sequence
             /\ end.sequence = Len(end.log) /\ end.executed = Len(end.heard)
  <2>1. InOrder(s, c) /\ InOrder(c, s)
    BY <1>3, <1>5
  <2>2. CASE end = s
    BY <1>2, <2>1, <2>2 DEF InOrder
  <2>3. CASE end = c
    BY <1>2, <2>1, <2>3 DEF InOrder
  <2> QED
    BY <2>2, <2>3
<1>6. /\ s.state \in {"CS_ZOMBIE", "CS_CONNECTING", "CS_CONNECTED", "CS_SPAWNED"}
      /\ c.state \in {"CA_DISCONNECTED", "CA_CONNECTED"} /\ c.failed \in BOOLEAN /\ c.fragmentNum < MaxFragments
  <2>1. /\ s.state \in {"CS_ZOMBIE", "CS_CONNECTING", "CS_CONNECTED", "CS_SPAWNED"}
        /\ c.state \in {"CA_DISCONNECTED", "CA_CONNECTED"} /\ c.failed \in BOOLEAN /\ c.fragmentNum \in 0..(MaxFragments - 1)
    BY DEF ServerType, ClientType
  <2>2. MaxFragments \in Nat \ {0}
    BY FragmentsFit
  <2> QED
    BY <2>1, <2>2
<1>7. TypeOK
  BY <1>1, <1>5, <1>6 DEF TypeOK
<1> QED
  BY <1>4, <1>7 DEF Inv

\* No snapshot, and no move of the user, gets ahead of the commands before it.
THEOREM InvHolds == Spec => []Inv
<1>1. IInv => Inv
  BY SoundIsInv
<1> QED
  BY <1>1, NumbersInOrder, PTL

-----------------------------------------------------------------------------
(* The commands themselves, in the rings, in the messages and executed.    *)

\* What an end holds is within its log.
LEMMA WithinLog ==
  ASSUME NEW A, NEW B, NEW e, NEW f, Typed(e, A, B), Typed(f, B, A), Both(e, f)
  PROVE  /\ e.sequence = Len(e.log) /\ e.acknowledged <= f.executed /\ f.executed <= e.sent /\ e.sent <= e.sequence
         /\ f.executed = Len(f.heard)
         /\ e.sequence \in Nat /\ e.acknowledged \in Nat /\ e.sent \in Nat /\ f.executed \in Nat /\ e.executed \in Nat
         /\ \A j \in 1..Len(e.net) :
              /\ e.net[j].ack \in Nat /\ e.net[j].ack <= e.executed /\ f.acknowledged <= e.net[j].ack
              /\ e.net[j].upto \in Nat /\ e.net[j].upto <= e.sent
              /\ \A k \in 1..Len(e.net[j].commands) : Before(e.net[j]) + k \in 1..e.sent
<1>1. ASSUME NEW j \in 1..Len(e.net)
      PROVE  /\ e.net[j].ack \in Nat /\ e.net[j].ack <= e.executed /\ f.acknowledged <= e.net[j].ack
             /\ e.net[j].upto \in Nat /\ e.net[j].upto <= e.sent
             /\ \A k \in 1..Len(e.net[j].commands) : Before(e.net[j]) + k \in 1..e.sent
  <2>1. /\ e.net[j].ack \in Nat /\ e.net[j].upto \in Nat /\ Before(e.net[j]) \in Int /\ Len(e.net[j].commands) \in Nat
        /\ Before(e.net[j]) + Len(e.net[j].commands) = e.net[j].upto
    BY NetTyped, MessageTyped
  <2>2. e.sent \in Nat
    BY EndNumbers
  <2>3. Carried(e, f, e.net[j])
    BY DEF Both, Numbered
  <2>4. ASSUME NEW k \in 1..Len(e.net[j].commands) PROVE Before(e.net[j]) + k \in 1..e.sent
    BY <2>1, <2>2, <2>3 DEF Carried
  <2> QED
    BY <2>1, <2>3, <2>4 DEF Carried
<1> QED
  BY <1>1, EndNumbers DEF Both, Numbered, InOrder

\* The other direction does not change when an end adds or sends.
LEMMA OtherContents ==
  ASSUME NEW e, NEW f, NEW g, Contents(f, e), ReceivedSame(e, g)
  PROVE  Contents(f, g)
  BY DEF Contents, Heard, ReceivedSame

\* A command is added to the ring.
LEMMA PutKeepsContents ==
  ASSUME NEW A, NEW B, NEW e, NEW f, NEW g, Typed(e, A, B), Typed(f, B, A), Typed(g, A, B), Both(e, f), Contents(e, f),
         Pending(e) < RingSize, NEW command, PutIn(e, g, command), ReceivedSame(e, g), SentSame(e, g)
  PROVE  Contents(g, f)
<1>1. /\ e.sequence = Len(e.log) /\ f.executed <= e.sent /\ e.sent <= e.sequence
      /\ e.sequence \in Nat /\ e.acknowledged \in Nat /\ e.sent \in Nat /\ f.executed \in Nat
      /\ \A j \in 1..Len(e.net) : \A k \in 1..Len(e.net[j].commands) : Before(e.net[j]) + k \in 1..e.sent
  BY WithinLog
<1>2. /\ g.sequence = e.sequence + 1 /\ g.log[e.sequence + 1] = command /\ \A n \in 1..e.sequence : g.log[n] = e.log[n]
  BY <1>1, PutInGrows
<1>3. /\ g.ring = [e.ring EXCEPT ![(e.sequence + 1) % RingSize] = command]
      /\ g.acknowledged = e.acknowledged /\ g.net = e.net /\ DOMAIN e.ring = 0..(RingSize - 1)
  BY DEF PutIn, ReceivedSame, SentSame, Typed, Rings
<1>4. ASSUME NEW n \in (g.acknowledged + 1)..g.sequence PROVE Slot(g, n) = g.log[n]
  <2>1. n \in Nat /\ n % RingSize \in 0..(RingSize - 1) /\ (e.sequence + 1) % RingSize \in 0..(RingSize - 1) /\ RingSize \in Nat
    <3>1. n \in Nat /\ n \in Int /\ e.sequence + 1 \in Int
      BY <1>1, <1>2, <1>3
    <3> QED
      BY <3>1, SlotExists, RingAssumption
  <2>2. CASE n = e.sequence + 1
    BY <1>2, <1>3, <2>1, <2>2 DEF Slot
  <2>3. CASE n # e.sequence + 1
    <3>1. n \in (e.acknowledged + 1)..e.sequence /\ n \in 1..e.sequence
      BY <1>1, <1>2, <1>3, <2>3
    <3>2. n < e.sequence + 1 /\ e.sequence + 1 < n + RingSize
      BY <1>1, <2>1, <3>1 DEF Pending
    <3>3. n % RingSize # (e.sequence + 1) % RingSize
      <4>1. PICK b \in Nat : b = e.sequence + 1
        BY <1>1
      <4> QED
        BY <2>1, <3>2, <4>1, SlotsDiffer
    <3>4. Slot(g, n) = Slot(e, n)
      BY <1>3, <2>1, <3>3 DEF Slot
    <3>5. Slot(e, n) = e.log[n]
      BY <3>1 DEF Contents, Held
    <3> QED
      BY <1>2, <3>1, <3>4, <3>5
  <2> QED
    BY <2>2, <2>3
<1>5. Heard(g, f)
  <2>1. \A n \in 1..f.executed : n \in 1..e.sequence
    BY <1>1
  <2> QED
    BY <1>2, <2>1 DEF Contents, Heard
<1>6. ASSUME NEW j \in 1..Len(g.net) PROVE Copied(g, g.net[j])
  <2>1. \A k \in 1..Len(e.net[j].commands) : Before(e.net[j]) + k \in 1..e.sequence
    BY <1>1, <1>3
  <2>2. Copied(e, e.net[j])
    BY <1>3 DEF Contents
  <2> QED
    BY <1>2, <1>3, <2>1, <2>2 DEF Copied
<1> QED
  BY <1>4, <1>5, <1>6 DEF Contents, Held

\* A command that is not sent yet is amended.
LEMMA AmendKeepsContents ==
  ASSUME NEW s \in ServerType, NEW c \in ClientType, NEW t \in ServerType, Both(s, c), Contents(s, c), Pending(s) <= RingSize,
         NEW pairs \in Pairs, NEW n \in HasRoom(s, pairs), Amended(s, t, n, pairs), ReceivedSame(s, t), SentSame(s, t)
  PROVE  Contents(t, c)
<1>1. /\ s.sequence = Len(s.log) /\ c.executed <= s.sent /\ s.sent <= s.sequence /\ s.acknowledged <= s.sent
      /\ s.sequence \in Nat /\ s.acknowledged \in Nat /\ s.sent \in Nat /\ c.executed \in Nat
      /\ \A j \in 1..Len(s.net) : \A k \in 1..Len(s.net[j].commands) : Before(s.net[j]) + k \in 1..s.sent
  <2>1. Typed(s, Told, Asked) /\ Typed(c, Asked, Told)
    BY EndsTyped
  <2>2. /\ s.sequence = Len(s.log) /\ s.acknowledged <= c.executed /\ c.executed <= s.sent /\ s.sent <= s.sequence
        /\ s.sequence \in Nat /\ s.acknowledged \in Nat /\ s.sent \in Nat /\ c.executed \in Nat
        /\ \A j \in 1..Len(s.net) : \A k \in 1..Len(s.net[j].commands) : Before(s.net[j]) + k \in 1..s.sent
    BY <2>1, WithinLog
  <2>3. s.acknowledged <= s.sent
    BY <2>2
  <2> QED
    BY <2>2, <2>3
<1>2. PICK command : command = <<"cs", Slot(s, n)[2] \o pairs>>
  OBVIOUS
<1>3. t.sequence = s.sequence /\ t.log[n] = command /\ n \in 1..s.sequence /\ \A k \in 1..s.sequence : k # n => t.log[k] = s.log[k]
  BY <1>1, <1>2, AmendedGrows
<1>4. /\ t.ring = [s.ring EXCEPT ![n % RingSize] = command]
      /\ t.acknowledged = s.acknowledged /\ t.net = s.net /\ DOMAIN s.ring = 0..(RingSize - 1)
  BY <1>2 DEF Amended, ReceivedSame, SentSame, ServerType, Rings
<1>5. s.sent < n /\ s.acknowledged < n /\ n \in Nat /\ n % RingSize \in 0..(RingSize - 1) /\ RingSize \in Nat
  BY <1>1, RoomIsUnsent, RingAssumption
<1>6. ASSUME NEW k \in (t.acknowledged + 1)..t.sequence PROVE Slot(t, k) = t.log[k]
  <2>0. k \in Nat /\ k \in Int /\ k \in (s.acknowledged + 1)..s.sequence /\ k \in 1..s.sequence
    BY <1>1, <1>3, <1>4
  <2>1. k \in Nat /\ k % RingSize \in 0..(RingSize - 1) /\ k \in (s.acknowledged + 1)..s.sequence /\ k \in 1..s.sequence
    BY <2>0, SlotExists
  <2>2. CASE k = n
    BY <1>3, <1>4, <1>5, <2>2 DEF Slot
  <2>3. CASE k # n
    <3>1. k < n + RingSize /\ n < k + RingSize
      <4>1. s.sequence - s.acknowledged <= RingSize
        BY DEF Pending
      <4>2. k > s.acknowledged /\ k <= s.sequence /\ n > s.acknowledged /\ n <= s.sequence
        BY <1>1, <1>3, <1>5, <2>1
      <4> QED
        BY <1>1, <1>5, <2>1, <4>1, <4>2
    <3>2. k % RingSize # n % RingSize
      <4>1. CASE k < n
        BY <1>5, <2>1, <3>1, <4>1, SlotsDiffer
      <4>2. CASE n < k
        BY <1>5, <2>1, <3>1, <4>2, SlotsDiffer
      <4> QED
        BY <1>5, <2>1, <2>3, <4>1, <4>2
    <3>3. Slot(t, k) = Slot(s, k)
      BY <1>4, <2>1, <3>2 DEF Slot
    <3>4. Slot(s, k) = s.log[k]
      BY <2>1 DEF Contents, Held
    <3> QED
      BY <1>3, <2>1, <2>3, <3>3, <3>4
  <2> QED
    BY <2>2, <2>3
<1>7. \A k \in 1..s.sent : k \in 1..s.sequence /\ k # n
  BY <1>1, <1>5
<1>8. Heard(t, c)
  <2>1. \A k \in 1..c.executed : k \in 1..s.sent
    BY <1>1
  <2> QED
    BY <1>3, <1>7, <2>1 DEF Contents, Heard
<1>9. ASSUME NEW j \in 1..Len(t.net) PROVE Copied(t, t.net[j])
  <2>1. \A k \in 1..Len(s.net[j].commands) : Before(s.net[j]) + k \in 1..s.sent
    BY <1>1, <1>4
  <2>2. Copied(s, s.net[j])
    BY <1>4 DEF Contents
  <2> QED
    BY <1>3, <1>4, <1>7, <2>1, <2>2 DEF Copied
<1> QED
  BY <1>6, <1>8, <1>9 DEF Contents, Held

\* A message is sent.
LEMMA SendKeepsContents ==
  ASSUME NEW A, NEW B, NEW e, NEW f, NEW g, Typed(e, A, B), Typed(f, B, A), Both(e, f), Contents(e, f),
         SentOne(e, g), ReceivedSame(e, g), AddedSame(e, g)
  PROVE  /\ Contents(g, f) /\ Len(e.net) \in Nat
         /\ Len(g.net) = Len(e.net) + 1 /\ (\A j \in 1..Len(e.net) : g.net[j] = e.net[j])
         /\ g.net[Len(e.net) + 1].ack = e.executed /\ g.net[Len(e.net) + 1].upto = e.sequence
<1>1. /\ e.sequence = Len(e.log) /\ f.executed <= e.sent /\ e.sent <= e.sequence /\ e.acknowledged <= e.sent
      /\ e.sequence \in Nat /\ e.acknowledged \in Nat /\ e.sent \in Nat /\ f.executed \in Nat /\ e.executed \in Nat
  BY WithinLog
<1>2. PICK m \in Messages(A) :
        /\ m = MessageOf(e) /\ m.ack = e.executed /\ m.upto = e.sequence /\ Len(m.commands) = Pending(e)
        /\ \A k \in 1..Len(m.commands) : m.commands[k].command = Slot(e, e.acknowledged + k)
  <2>1. Pending(e) >= 0
    BY <1>1 DEF Pending
  <2>2. e.ring \in Rings(A)
    BY DEF Typed
  <2> QED
    BY <1>1, <2>1, <2>2, Collected
<1>3. Before(m) = e.acknowledged
  BY <1>1, <1>2 DEF Before, Pending
<1>4. /\ Len(g.net) = Len(e.net) + 1 /\ g.net[Len(e.net) + 1] = m /\ Len(e.net) \in Nat
      /\ \A j \in 1..Len(e.net) : g.net[j] = e.net[j]
  <2>1. e.net \in Seq(Messages(A)) /\ g.net = Append(e.net, m)
    BY <1>2 DEF SentOne, Typed
  <2> QED
    BY <2>1, AppendProperties
<1>5. g.log = e.log /\ g.acknowledged = e.acknowledged /\ g.sequence = e.sequence /\ g.ring = e.ring
  BY DEF AddedSame, ReceivedSame
<1>6. Copied(g, m)
  <2>1. \A k \in 1..Len(m.commands) : e.acknowledged + k \in (e.acknowledged + 1)..e.sequence
    BY <1>1, <1>2 DEF Pending
  <2>2. \A n \in (e.acknowledged + 1)..e.sequence : Slot(e, n) = e.log[n]
    BY DEF Contents, Held
  <2> QED
    BY <1>2, <1>3, <1>5, <2>1, <2>2 DEF Copied
<1>7. ASSUME NEW j \in 1..Len(g.net) PROVE Copied(g, g.net[j])
  <2>1. CASE j = Len(e.net) + 1
    BY <1>4, <1>6, <2>1
  <2>2. CASE j # Len(e.net) + 1
    <3>1. j \in 1..Len(e.net)
      BY <1>4, <2>2
    <3> QED
      BY <1>4, <1>5, <3>1 DEF Contents, Copied
  <2> QED
    BY <2>1, <2>2
<1>8. Held(g) /\ Heard(g, f)
  BY <1>5 DEF Contents, Held, Heard, Slot
<1> QED
  BY <1>2, <1>4, <1>7, <1>8 DEF Contents

\* Messages are lost.
LEMMA ThinnedKeepsContents ==
  ASSUME NEW e, NEW f, NEW g, Contents(e, f), Thinned(e, g), ReceivedSame(e, g), AddedSame(e, g)
  PROVE  Contents(g, f)
<1>1. PICK p \in [1..Len(g.net) -> 1..Len(e.net)] : \A j \in 1..Len(g.net) : g.net[j] = e.net[p[j]]
  BY DEF Thinned
<1>2. \A j \in 1..Len(g.net) : p[j] \in 1..Len(e.net)
  BY <1>1
<1>3. /\ g.log = e.log /\ g.ring = e.ring /\ g.sequence = e.sequence /\ g.acknowledged = e.acknowledged
      /\ Held(e) /\ Heard(e, f) /\ \A j \in 1..Len(e.net) : Copied(e, e.net[j])
  BY DEF Contents, ReceivedSame, AddedSame
<1>4. Held(g) /\ Heard(g, f)
  BY <1>3 DEF Held, Heard, Slot
<1>5. ASSUME NEW j \in 1..Len(g.net) PROVE Copied(g, g.net[j])
  <2>1. g.net[j] = e.net[p[j]] /\ Copied(e, e.net[p[j]])
    BY <1>1, <1>2, <1>3
  <2>2. PICK m : m = g.net[j]
    OBVIOUS
  <2>3. Copied(e, m)
    BY <2>1, <2>2
  <2>4. Copied(g, m)
    BY <1>3, <2>3 DEF Copied
  <2> QED
    BY <2>2, <2>4
<1> QED
  BY <1>4, <1>5 DEF Contents

\* A command is executed as it was added.
LEMMA ExecutingKeepsContents ==
  ASSUME NEW A, NEW B, NEW e, NEW f, NEW g, Typed(e, A, B), Typed(f, B, A), Typed(g, A, B), Both(e, f),
         Contents(e, f), Contents(f, e), NEW n, n.number = e.executed + 1, n.command \in B, n.command = f.log[n.number],
         Executing(e, g, n), AddedSame(e, g), SentSame(e, g)
  PROVE  Contents(g, f) /\ Contents(f, g)
<1>1. e.executed \in Nat /\ e.executed = Len(e.heard)
  BY EndNumbers DEF Both, Numbered, InOrder
<1>2. Later(e, g) /\ g.executed = e.executed + 1 /\ g.heard[e.executed + 1] = n.command
  BY <1>1, ExecutingIsLater
<1>3. ASSUME NEW k \in 1..g.executed PROVE g.heard[k] = f.log[k]
  <2>1. CASE k = e.executed + 1
    BY <1>2, <2>1
  <2>2. CASE k # e.executed + 1
    <3>1. k \in 1..e.executed
      BY <1>1, <1>2, <2>2
    <3> QED
      BY <1>2, <3>1 DEF Later, Contents, Heard
  <2> QED
    BY <2>1, <2>2
<1>4. Contents(f, g)
  BY <1>3 DEF Contents, Heard
<1>5. Contents(g, f)
  BY DEF Contents, Held, Heard, Copied, Slot, Executing, AddedSame, SentSame
<1> QED
  BY <1>4, <1>5

\* An acknowledgement arrives.
LEMMA AckKeepsContents ==
  ASSUME NEW A, NEW B, NEW e, NEW f, NEW g, NEW h, Typed(e, A, B), Typed(f, B, A),
         Both(e, f), Contents(e, f), Contents(f, e), f.net # <<>>, h.net = Tail(f.net), ReceivedSame(f, h), AddedSame(f, h),
         Acknowledging(e, g, f.net[1]), AddedSame(e, g), SentSame(e, g)
  PROVE  Contents(g, h) /\ Contents(h, g) /\ Copied(h, f.net[1]) /\ e.acknowledged <= g.acknowledged
<1>1. Thinned(f, h) /\ 1 \in 1..Len(f.net)
  <2>1. f.net \in Seq(Messages(B))
    BY DEF Typed
  <2>2. /\ Len(h.net) \in Nat /\ Len(f.net) = Len(h.net) + 1 /\ 1 \in 1..Len(f.net)
        /\ \A j \in 1..Len(h.net) : h.net[j] = f.net[j + 1]
    BY <2>1, TailShifts
  <2> QED
    BY <2>2, TailThins
<1>2. Contents(h, e)
  BY <1>1, ThinnedKeepsContents
<1>3. Contents(h, g)
  BY <1>2 DEF Contents, Heard, Acknowledging
<1>4. /\ f.net[1].ack \in Nat /\ e.acknowledged <= f.net[1].ack /\ e.acknowledged \in Nat
      /\ g.acknowledged = f.net[1].ack /\ e.sequence \in Nat
  <2>1. Both(f, e)
    BY DEF Both
  <2> QED
    BY <1>1, <2>1, WithinLog, EndNumbers DEF Acknowledging
<1>5. \A n \in (g.acknowledged + 1)..e.sequence : n \in (e.acknowledged + 1)..e.sequence
  BY <1>4
<1>6. Held(g)
  BY <1>5 DEF Contents, Held, Slot, AddedSame
<1>7. Contents(g, h)
  BY <1>6 DEF Contents, Heard, Copied, AddedSame, SentSame, ReceivedSame
<1>8. Copied(h, f.net[1])
  BY <1>1 DEF Contents, Copied, AddedSame
<1> QED
  BY <1>3, <1>4, <1>7, <1>8

-----------------------------------------------------------------------------
(* One end asks, the other one answers.                                    *)

\* The same while a message is read that holds the commands up to u: it has
\* acknowledged the questions to the answers in it.
TurnTo(s, c, u) ==
  /\ OneTurn(s, c) /\ Pending(c) <= MaxPending
  /\ \A m \in Answers(s, c) :
       /\ m <= u => Pending(c) < MaxPending
       /\ m > u => \E n \in 1..s.executed : AnsweredBy(s, c, n, m)

\* A question has been read and not answered yet.
Quiet(s, c) ==
  /\ Asks(s, c) = {} /\ Answers(s, c) = {} /\ Pending(c) <= MaxPending
  /\ c.acknowledged < s.executed /\ \A j \in 1..Len(s.net) : s.net[j].ack < s.executed

LEMMA TurnIsTurnTo ==
  ASSUME NEW s \in ServerType, NEW c \in ClientType, NEW u \in Nat, u <= c.executed
  PROVE  Turn(s, c) <=> TurnTo(s, c, u)
<1>1. c.executed \in Nat /\ s.sequence \in Nat
  BY EndsTyped, EndNumbers
<1>2. \A m \in Answers(s, c) : m \in Int /\ m > u
  BY <1>1 DEF Answers
<1> QED
  BY <1>2 DEF Turn, TurnTo

LEMMA QuietIsTurn ==
  ASSUME NEW s, NEW c, Quiet(s, c)
  PROVE  Turn(s, c)
  BY DEF Quiet, Turn, OneTurn

\* What does not ask or answer keeps the turn.
LEMMA TurnKept ==
  ASSUME NEW s \in ServerType, NEW t \in ServerType, NEW c \in ClientType, NEW d \in ClientType, NEW u \in Nat,
         TurnTo(s, c, u), Asks(t, d) \subseteq Asks(s, c), Answers(t, d) \subseteq Answers(s, c),
         s.executed <= t.executed, d.acknowledged = c.acknowledged, Pending(d) <= MaxPending,
         \A m \in Answers(t, d) : m <= u => Pending(d) < MaxPending,
         \A j \in 1..Len(t.net) : \/ \E k \in 1..Len(s.net) : t.net[j] = s.net[k]
                                  \/ t.net[j].upto = t.sequence /\ t.net[j].ack = t.executed
  PROVE  TurnTo(t, d, u)
<1>1. s.executed \in Nat /\ t.executed \in Nat /\ t.sequence \in Nat /\ d.executed \in Nat
  BY EndsTyped, EndNumbers
<1>2. OneTurn(t, d)
  BY DEF TurnTo, OneTurn
<1>3. ASSUME NEW m \in Answers(t, d), m > u PROVE \E n \in 1..t.executed : AnsweredBy(t, d, n, m)
  <2>1. PICK n \in 1..s.executed : AnsweredBy(s, c, n, m)
    BY <1>3 DEF TurnTo
  <2>2. n \in 1..t.executed /\ n <= t.executed
    BY <1>1
  <2>3. m <= t.sequence
    BY <1>1 DEF Answers
  <2>4. \A j \in 1..Len(t.net) : t.net[j].upto >= m <=> t.net[j].ack >= n
    BY <2>1, <2>2, <2>3 DEF AnsweredBy
  <2> QED
    BY <2>1, <2>2, <2>4 DEF AnsweredBy
<1> QED
  BY <1>2, <1>3 DEF TurnTo

\* The server executes a command of the client.
LEMMA AskRead ==
  ASSUME NEW s \in ServerType, NEW c \in ClientType, NEW t \in ServerType, Both(s, c), Turn(s, c),
         NEW n, n.number = s.executed + 1, n.number <= c.sent, n.command = c.log[n.number],
         Executing(s, t, n), AddedSame(s, t), SentSame(s, t)
  PROVE  IF IsAsk(n.command) THEN Quiet(t, c) ELSE Turn(t, c)
<1>1. Typed(s, Told, Asked) /\ Typed(c, Asked, Told) /\ Both(c, s) /\ s.executed \in Nat /\ c.executed \in Nat /\ s.sequence \in Nat
  BY EndsTyped, EndNumbers DEF Both
<1>2. c.acknowledged \in Nat /\ c.acknowledged <= s.executed /\ c.sent <= c.sequence /\ c.sequence \in Nat /\ c.sent \in Nat
  BY <1>1, WithinLog
<1>3. \A j \in 1..Len(s.net) : s.net[j].ack \in Nat /\ s.net[j].ack <= s.executed
  BY <1>1, WithinLog
<1>4. t.executed = s.executed + 1 /\ t.sequence = s.sequence /\ t.log = s.log /\ t.net = s.net
  BY DEF Executing, AddedSame, SentSame
<1>5. Asks(t, c) = Asks(s, c) \ {t.executed} /\ Answers(t, c) = Answers(s, c)
  BY <1>1, <1>2, <1>4 DEF Asks, Answers
<1>6. CASE IsAsk(n.command)
  <2>1. t.executed \in Asks(s, c)
    BY <1>1, <1>2, <1>4, <1>6 DEF Asks
  <2>2. Asks(t, c) = {} /\ Answers(t, c) = {}
    BY <1>5, <2>1 DEF Turn, OneTurn
  <2>3. \A j \in 1..Len(t.net) : t.net[j].ack < t.executed
    BY <1>1, <1>3, <1>4
  <2> QED
    BY <1>1, <1>2, <1>4, <1>6, <2>2, <2>3 DEF Quiet, Turn
<1>7. CASE ~IsAsk(n.command)
  <2>1. TurnTo(s, c, c.executed)
    BY <1>1, TurnIsTurnTo
  <2>2. TurnTo(t, c, c.executed)
    BY <1>1, <1>4, <1>5, <2>1, TurnKept DEF TurnTo
  <2> QED
    BY <1>1, <1>7, <2>2, TurnIsTurnTo
<1> QED
  BY <1>6, <1>7

\* The server answers.
LEMMA AnswerAdded ==
  ASSUME NEW s \in ServerType, NEW c \in ClientType, NEW t \in ServerType, Both(s, c), Quiet(s, c), s.executed > 0,
         NEW command, PutIn(s, t, command), ReceivedSame(s, t), SentSame(s, t)
  PROVE  Turn(t, c) /\ (~IsAnswer(command) => Quiet(t, c))
<1>1. Typed(s, Told, Asked) /\ Typed(t, Told, Asked) /\ Typed(c, Asked, Told) /\ c.executed \in Nat
  BY EndsTyped, EndNumbers
<1>2. /\ s.sequence = Len(s.log) /\ s.sent <= s.sequence /\ s.sent \in Nat /\ s.sequence \in Nat /\ s.executed \in Nat /\ c.executed <= s.sent
      /\ \A j \in 1..Len(s.net) : s.net[j].upto \in Nat /\ s.net[j].upto <= s.sent /\ s.net[j].ack \in Nat
  BY <1>1, WithinLog
<1>3. /\ t.sequence = s.sequence + 1 /\ t.log[s.sequence + 1] = command /\ \A n \in 1..s.sequence : t.log[n] = s.log[n]
  BY <1>1, <1>2, PutInGrows
<1>4. t.executed = s.executed /\ t.net = s.net
  BY DEF ReceivedSame, SentSame
<1>5. Asks(t, c) = {}
  BY <1>4 DEF Asks, Quiet
<1>6. \A m \in Answers(t, c) : m = s.sequence + 1 /\ IsAnswer(command)
  <2>1. ASSUME NEW m \in Answers(t, c), m # s.sequence + 1 PROVE FALSE
    <3>1. m \in (c.executed + 1)..s.sequence /\ m \in 1..s.sequence
      BY <1>1, <1>2, <1>3, <2>1 DEF Answers
    <3>2. m \in Answers(s, c)
      BY <1>3, <2>1, <3>1 DEF Answers
    <3> QED
      BY <3>2 DEF Quiet
  <2> QED
    BY <1>3, <2>1 DEF Answers
<1>7. AnsweredBy(t, c, s.executed, s.sequence + 1)
  <2>1. \A j \in 1..Len(s.net) : ~(s.net[j].upto >= s.sequence + 1) /\ ~(s.net[j].ack >= s.executed)
    BY <1>2 DEF Quiet
  <2> QED
    BY <1>2, <1>4, <2>1 DEF AnsweredBy, Quiet
<1>8. s.executed \in 1..t.executed
  BY <1>2, <1>4
<1>9. Turn(t, c)
  BY <1>5, <1>6, <1>7, <1>8 DEF Turn, OneTurn, Quiet
<1>10. ~IsAnswer(command) => Quiet(t, c)
  BY <1>4, <1>5, <1>6 DEF Quiet
<1> QED
  BY <1>9, <1>10

\* An acknowledgement arrives at the client.
LEMMA TurnAcknowledged ==
  ASSUME NEW s \in ServerType, NEW t \in ServerType, NEW c \in ClientType, NEW d \in ClientType, Both(s, c), Turn(s, c),
         MaxPending \in Nat, s.net # <<>>, t.net = Tail(s.net), ReceivedSame(s, t), AddedSame(s, t),
         Acknowledging(c, d, s.net[1]), AddedSame(c, d)
  PROVE  TurnTo(t, d, s.net[1].upto)
<1>1. Typed(s, Told, Asked) /\ Typed(c, Asked, Told) /\ s.executed \in Nat /\ c.sequence \in Nat /\ c.acknowledged \in Nat
  BY EndsTyped, EndNumbers
<1>2. /\ Len(t.net) \in Nat /\ Len(s.net) = Len(t.net) + 1 /\ \A j \in 1..Len(t.net) : t.net[j] = s.net[j + 1]
  <2>1. s.net \in Seq(Messages(Told))
    BY <1>1 DEF Typed
  <2> QED
    BY <2>1, TailShifts
<1>3. 1 \in 1..Len(s.net) /\ s.net[1].ack \in Nat /\ c.acknowledged <= s.net[1].ack /\ s.net[1].upto \in Nat
  <2>1. 1 \in 1..Len(s.net)
    BY <1>2
  <2> QED
    BY <1>1, <2>1, WithinLog
<1>4. d.sequence = c.sequence /\ d.log = c.log /\ d.executed = c.executed /\ d.acknowledged = s.net[1].ack
  BY DEF Acknowledging, AddedSame
<1>5. t.executed = s.executed /\ t.sequence = s.sequence /\ t.log = s.log
  BY DEF ReceivedSame, AddedSame
<1>6. Asks(t, d) = Asks(s, c) /\ Answers(t, d) = Answers(s, c)
  BY <1>4, <1>5 DEF Asks, Answers
<1>7. Pending(d) <= Pending(c) /\ Pending(c) <= MaxPending /\ Pending(c) \in Int /\ Pending(d) \in Int
  BY <1>1, <1>3, <1>4 DEF Pending, Turn
<1>8. ASSUME NEW m \in Answers(t, d)
      PROVE  /\ m <= s.net[1].upto => Pending(d) < MaxPending
             /\ m > s.net[1].upto => \E n \in 1..t.executed : AnsweredBy(t, d, n, m)
  <2>1. PICK n \in 1..s.executed : AnsweredBy(s, c, n, m)
    BY <1>6 DEF Turn
  <2>2. s.net[1].upto >= m <=> s.net[1].ack >= n
    BY <1>3, <2>1 DEF AnsweredBy
  <2>3. m \in Int
    BY <1>1, EndNumbers, EndsTyped DEF Answers
  <2>4. CASE m <= s.net[1].upto
    <3>1. d.acknowledged > c.acknowledged
      BY <1>1, <1>3, <1>4, <2>1, <2>2, <2>3, <2>4 DEF AnsweredBy
    <3> QED
      <4>1. Pending(d) < Pending(c)
        BY <1>1, <1>3, <1>4, <3>1 DEF Pending
      <4> QED
        BY <1>3, <1>7, <2>3, <2>4, <4>1
  <2>5. CASE m > s.net[1].upto
    <3>1. d.acknowledged < n
      BY <1>1, <1>3, <1>4, <2>2, <2>3, <2>5
    <3>2. \A j \in 1..Len(t.net) : t.net[j].upto >= m <=> t.net[j].ack >= n
      <4>1. \A j \in 1..Len(t.net) : j + 1 \in 1..Len(s.net)
        BY <1>2
      <4> QED
        BY <1>2, <2>1, <4>1 DEF AnsweredBy
    <3>3. AnsweredBy(t, d, n, m)
      BY <1>5, <2>1, <3>1, <3>2 DEF AnsweredBy
    <3> QED
      BY <1>3, <1>5, <2>3, <2>5, <3>3
  <2> QED
    BY <1>3, <2>3, <2>4, <2>5
<1> QED
  BY <1>6, <1>7, <1>8 DEF TurnTo, Turn, OneTurn

\* The client executes a command of the message that it reads.
LEMMA AnswerRead ==
  ASSUME NEW s \in ServerType, NEW c \in ClientType, NEW d \in ClientType, NEW u \in Nat, Both(s, c), TurnTo(s, c, u),
         NEW n, n.number = c.executed + 1, n.number <= u, u <= s.sent, n.command = s.log[n.number],
         Executing(c, d, n), AddedSame(c, d)
  PROVE  /\ TurnTo(s, d, u) /\ Asks(s, d) = Asks(s, c)
         /\ IsAnswer(n.command) => Asks(s, d) = {} /\ Answers(s, d) = {} /\ Pending(d) < MaxPending
<1>1. /\ s.sent \in Nat /\ s.sequence \in Nat /\ c.executed \in Nat /\ s.sent <= s.sequence /\ s.executed \in Nat
  BY EndsTyped, WithinLog
<1>2. d.executed = c.executed + 1 /\ d.acknowledged = c.acknowledged /\ d.sequence = c.sequence /\ d.log = c.log
  BY DEF Executing, AddedSame
<1>3. Asks(s, d) = Asks(s, c) /\ Answers(s, d) = Answers(s, c) \ {c.executed + 1} /\ Pending(d) = Pending(c)
  BY <1>1, <1>2 DEF Asks, Answers, Pending
<1>4. \A j \in 1..Len(s.net) : \E k \in 1..Len(s.net) : s.net[j] = s.net[k]
  OBVIOUS
<1>5. TurnTo(s, d, u)
  <2>1. Asks(s, d) \subseteq Asks(s, c) /\ Answers(s, d) \subseteq Answers(s, c) /\ s.executed <= s.executed
    BY <1>1, <1>3
  <2>2. Pending(d) <= MaxPending /\ \A m \in Answers(s, d) : m <= u => Pending(d) < MaxPending
    BY <1>3, <2>1 DEF TurnTo
  <2> QED
    BY <1>2, <1>4, <2>1, <2>2, TurnKept
<1>6. ASSUME IsAnswer(n.command) PROVE Asks(s, d) = {} /\ Answers(s, d) = {} /\ Pending(d) < MaxPending
  <2>1. c.executed + 1 \in Answers(s, c)
    BY <1>1, <1>6 DEF Answers
  <2> QED
    BY <1>3, <2>1 DEF TurnTo, OneTurn
<1> QED
  BY <1>3, <1>5, <1>6

\* The client asks.
LEMMA AskAdded ==
  ASSUME NEW s \in ServerType, NEW c \in ClientType, NEW d \in ClientType, NEW u \in Nat, Both(s, c), MaxPending \in Nat,
         Asks(s, c) = {}, Answers(s, c) = {}, Pending(c) < MaxPending,
         NEW command, PutIn(c, d, command), ReceivedSame(c, d), SentSame(c, d)
  PROVE  TurnTo(s, d, u)
<1>1. Typed(c, Asked, Told) /\ Typed(d, Asked, Told) /\ s.executed \in Nat /\ c.acknowledged \in Nat
  BY EndsTyped, EndNumbers
<1>2. c.sequence = Len(c.log) /\ c.sent <= c.sequence /\ c.sequence \in Nat
  BY <1>1, EndNumbers DEF Both, Numbered, InOrder
<1>3. d.sequence = c.sequence + 1 /\ \A n \in 1..c.sequence : d.log[n] = c.log[n]
  BY <1>1, <1>2, PutInGrows
<1>4. d.executed = c.executed /\ d.acknowledged = c.acknowledged
  BY DEF ReceivedSame
<1>5. Answers(s, d) = {} /\ Pending(d) <= MaxPending
  BY <1>1, <1>2, <1>3, <1>4 DEF Answers, Pending
<1>6. \A n \in Asks(s, d) : n = c.sequence + 1
  <2>1. ASSUME NEW n \in Asks(s, d), n # c.sequence + 1 PROVE FALSE
    <3>1. n \in (s.executed + 1)..c.sequence /\ n \in 1..c.sequence
      BY <1>1, <1>2, <1>3, <2>1 DEF Asks
    <3>2. n \in Asks(s, c)
      BY <1>3, <2>1, <3>1 DEF Asks
    <3> QED
      BY <3>2
  <2> QED
    BY <2>1
<1> QED
  BY <1>5, <1>6 DEF TurnTo, OneTurn

-----------------------------------------------------------------------------
(* What the server says flows.                                             *)

\* A command may come next in a log.
Follows(log, command) ==
  /\ log # <<>> /\ IsOpen(log[Len(log)]) => Precedes(log[Len(log)], command)
  /\ IsFragment(command) /\ command[3] > 0 => log # <<>> /\ Precedes(log[Len(log)], command)

LEMMA ClosedFollows ==
  ASSUME NEW log, Closed(log), NEW command, IsFragment(command) => command[3] = 0
  PROVE  Follows(log, command)
  BY DEF Closed, Follows

LEMMA LogPut ==
  ASSUME NEW log, NEW more, Len(log) \in Nat, Len(more) = Len(log) + 1, log # <<>> <=> Len(log) > 0, NEW command,
         more[Len(log) + 1] = command, \A n \in 1..Len(log) : more[n] = log[n],
         Linked(log), NoNotice(log), Follows(log, command), command # <<"disconnect">>
  PROVE  Linked(more) /\ NoNotice(more)
<1>1. NoNotice(more)
  <2>1. \A n \in 1..Len(more) : n = Len(log) + 1 \/ n \in 1..Len(log)
    OBVIOUS
  <2> QED
    BY <2>1 DEF NoNotice
<1>2. ASSUME NEW n \in 1..(Len(more) - 1), IsOpen(more[n]) PROVE Precedes(more[n], more[n + 1])
  <2>1. CASE n = Len(log)
    BY <1>2, <2>1 DEF Follows
  <2>2. CASE n # Len(log)
    <3>1. n \in 1..(Len(log) - 1) /\ n \in 1..Len(log) /\ n + 1 \in 1..Len(log)
      BY <2>2
    <3> QED
      BY <1>2, <3>1 DEF Linked
  <2> QED
    BY <2>1, <2>2
<1>3. ASSUME NEW n \in 1..Len(more), IsFragment(more[n]), more[n][3] > 0 PROVE n > 1 /\ Precedes(more[n - 1], more[n])
  <2>1. CASE n = Len(log) + 1
    <3>1. log # <<>> /\ Precedes(log[Len(log)], command)
      BY <1>3, <2>1 DEF Follows
    <3>2. n > 1 /\ n - 1 = Len(log) /\ Len(log) \in 1..Len(log)
      BY <2>1, <3>1
    <3> QED
      BY <2>1, <3>1, <3>2
  <2>2. CASE n # Len(log) + 1
    <3>1. n \in 1..Len(log)
      BY <2>2
    <3>2. n > 1 /\ Precedes(log[n - 1], log[n])
      BY <1>3, <3>1 DEF Linked
    <3>3. n - 1 \in 1..Len(log)
      BY <3>1, <3>2
    <3> QED
      BY <3>1, <3>2, <3>3
  <2> QED
    BY <2>1, <2>2
<1> QED
  BY <1>1, <1>2, <1>3 DEF Linked

LEMMA LogAmended ==
  ASSUME NEW log, NEW more, Len(log) \in Nat, Len(more) = Len(log), log # <<>> <=> Len(log) > 0, NEW n \in 1..Len(log),
         IsCs(log[n]), IsCs(more[n]), \A k \in 1..Len(log) : k # n => more[k] = log[k], Linked(log), NoNotice(log)
  PROVE  Linked(more) /\ NoNotice(more) /\ (Closed(log) => Closed(more))
<1>1. ~IsFragment(log[n]) /\ ~IsFragment(more[n]) /\ ~IsOpen(more[n]) /\ more[n] # <<"disconnect">>
  BY DEF IsCs, IsFragment, IsOpen
<1>2. NoNotice(more)
  BY <1>1 DEF NoNotice
<1>3. ASSUME NEW k \in 1..(Len(more) - 1), IsOpen(more[k]) PROVE Precedes(more[k], more[k + 1])
  <2>1. k # n /\ k \in 1..Len(log) /\ k + 1 \in 1..Len(log) /\ more[k] = log[k]
    BY <1>1, <1>3
  <2>2. Precedes(log[k], log[k + 1])
    BY <1>3, <2>1 DEF Linked
  <2>3. k + 1 # n
    BY <1>1, <2>2 DEF Precedes
  <2> QED
    BY <2>1, <2>2, <2>3
<1>4. ASSUME NEW k \in 1..Len(more), IsFragment(more[k]), more[k][3] > 0 PROVE k > 1 /\ Precedes(more[k - 1], more[k])
  <2>1. k # n /\ k \in 1..Len(log) /\ more[k] = log[k]
    BY <1>1, <1>4
  <2>2. k > 1 /\ Precedes(log[k - 1], log[k])
    BY <1>4, <2>1 DEF Linked
  <2>3. k - 1 # n /\ k - 1 \in 1..Len(log)
    BY <1>1, <2>1, <2>2 DEF Precedes
  <2> QED
    BY <2>1, <2>2, <2>3
<1>5. ASSUME Closed(log) PROVE Closed(more)
  <2>1. Len(log) \in 1..Len(log) /\ log # <<>>
    OBVIOUS
  <2>2. ~IsOpen(log[Len(log)])
    BY <1>5, <2>1 DEF Closed
  <2>3. ~IsOpen(more[Len(log)])
    BY <1>1, <2>1, <2>2
  <2> QED
    BY <2>3 DEF Closed
<1> QED
  BY <1>2, <1>3, <1>4, <1>5 DEF Linked

\* What the client has of a string is within what was sent.
LEMMA AssemblingKept ==
  ASSUME NEW s, NEW t, NEW c, Assembling(s, c), c.executed \in Nat, s.sent \in Nat, c.executed <= s.sent, Later(s, t)
  PROVE  Assembling(t, c)
<1>1. c.executed > 0 => c.executed \in 1..s.sent
  OBVIOUS
<1>2. c.executed > 0 => t.log[c.executed] = s.log[c.executed]
  BY <1>1 DEF Later
<1> QED
  BY <1>2 DEF Assembling

\* SV_AddServerCommand.
LEMMA AddedFlows ==
  ASSUME NEW s \in ServerType, NEW c \in ClientType, Both(s, c), Flowing(s, c),
         NEW command \in Told, command # <<"disconnect">>, Follows(s.log, command), IsAnswer(command) => Quiet(s, c),
         NEW t, t = AddServerCommand(s, command), t.state # "CS_ZOMBIE"
  PROVE  /\ Flowing(t, c) /\ (Quiet(s, c) /\ ~IsAnswer(command) => Quiet(t, c))
         /\ IsFragment(command) => t.log # <<>> /\ t.log[Len(t.log)] = command
         /\ ~IsFragment(command) /\ Closed(s.log) => Closed(t.log)
<1>1. t \in ServerType /\ s.state # "CS_ZOMBIE" /\ Both(t, c) /\ Later(s, t) /\ ReceivedSame(s, t) /\ SentSame(s, t)
  BY Added, AddedKeepsNumbers
<1>2. Typed(s, Told, Asked) /\ Typed(t, Told, Asked) /\ Typed(c, Asked, Told)
  BY <1>1, EndsTyped
<1>3. /\ s.sequence = Len(s.log) /\ c.executed <= s.sent /\ s.sent <= s.sequence /\ s.acknowledged \in Nat
      /\ s.sequence \in Nat /\ s.sent \in Nat /\ c.executed \in Nat /\ s.acknowledged <= s.sent /\ s.executed \in Nat /\ c.acknowledged \in Nat
  BY <1>2, WithinLog, EndNumbers
<1>4. s.log # <<>> <=> Len(s.log) > 0
  BY DEF ServerType
<1>5. Assembling(t, c) /\ Contents(c, t)
  BY <1>1, <1>3, AssemblingKept, OtherContents DEF Flowing
<1>6. ASSUME Answers(t, c) \subseteq Answers(s, c) PROVE Turn(t, c) /\ (Quiet(s, c) => Quiet(t, c))
  <2>1. Asks(t, c) = Asks(s, c) /\ t.executed = s.executed /\ t.net = s.net
    BY <1>1 DEF Asks, ReceivedSame, SentSame
  <2>2. TurnTo(s, c, c.executed)
    BY <1>3, TurnIsTurnTo DEF Flowing
  <2>3. \A m \in Answers(t, c) : ~(m <= c.executed)
    BY <1>2, <1>3, EndNumbers DEF Answers
  <2>4. Pending(c) <= MaxPending
    BY DEF Flowing, Turn
  <2>5. TurnTo(t, c, c.executed)
    BY <1>1, <1>3, <1>6, <2>1, <2>2, <2>3, <2>4, TurnKept
  <2>6. Turn(t, c)
    BY <1>1, <1>3, <2>5, TurnIsTurnTo
  <2> QED
    BY <1>6, <2>1, <2>6 DEF Quiet
<1>7. CASE JoinsEarlier(s, t, command)
  <2>1. IsCs(command) /\ command[2] \in Pairs /\ ~IsFragment(command) /\ ~IsAnswer(command)
    BY <1>7, CsPairs DEF JoinsEarlier, IsCs, IsFragment, IsAnswer
  <2>2. PICK n \in HasRoom(s, command[2]) : t = Amend(s, n, command[2])
    BY <1>7 DEF JoinsEarlier
  <2>3. Amended(s, t, n, command[2])
    BY <2>1, <2>2, ServerAmend
  <2>4. PICK pairs : pairs = Slot(s, n)[2] \o command[2]
    OBVIOUS
  <2>5. t.sequence = s.sequence /\ n \in 1..s.sequence /\ t.log[n] = <<"cs", pairs>> /\ \A k \in 1..s.sequence : k # n => t.log[k] = s.log[k]
    <3>1. PICK more \in Pairs : more = command[2]
      BY <2>1
    <3>2. /\ t.sequence = s.sequence /\ n \in 1..s.sequence /\ t.log[n] = <<"cs", Slot(s, n)[2] \o more>>
          /\ \A k \in 1..s.sequence : k # n => t.log[k] = s.log[k]
      <4>1. n \in HasRoom(s, more) /\ Amended(s, t, n, more)
        BY <2>2, <2>3, <3>1, Zenon
      <4>2. s.sequence = Len(s.log) /\ ReceivedSame(s, t) /\ SentSame(s, t) /\ t \in ServerType
        BY <1>1, <1>3
      <4> QED
        BY <4>1, <4>2, AmendedGrows
    <3> QED
      BY <2>4, <3>1, <3>2
  <2>6. n \in (s.acknowledged + 1)..s.sequence /\ IsCs(Slot(s, n))
    BY <1>3, <2>1, RoomIsUnsent
  <2>7. IsCs(s.log[n]) /\ IsCs(t.log[n]) /\ ~IsAnswer(t.log[n])
    BY <2>5, <2>6 DEF Flowing, Contents, Held, IsCs, IsAnswer
  <2>8. Contents(t, c) /\ Pending(t) <= RingSize
    BY <1>1, <2>1, <2>3, <2>5, AmendKeepsContents DEF Flowing, Pending, ReceivedSame
  <2>9. Len(t.log) = Len(s.log)
    BY <1>1, <1>3, <2>5 DEF Both, Numbered, InOrder
  <2>10. Linked(t.log) /\ NoNotice(t.log) /\ (Closed(s.log) => Closed(t.log))
    BY <1>3, <1>4, <2>5, <2>7, <2>9, LogAmended DEF Flowing
  <2>11. Answers(t, c) \subseteq Answers(s, c)
    <3>1. ASSUME NEW m \in Answers(t, c) PROVE m \in Answers(s, c)
      <4>1. m \in (c.executed + 1)..s.sequence /\ m \in 1..s.sequence /\ IsAnswer(t.log[m])
        BY <1>3, <2>5 DEF Answers
      <4>2. m # n
        BY <2>7, <4>1
      <4> QED
        BY <2>5, <4>1, <4>2 DEF Answers
    <3> QED
      BY <3>1
  <2> QED
    BY <1>5, <1>6, <2>1, <2>8, <2>10, <2>11 DEF Flowing
<1>8. CASE Queued(s, t, command)
  <2>1. PutIn(s, t, command) /\ ~Overflows(s)
    BY <1>8, ServerPut DEF Queued
  <2>2. t.sequence = s.sequence + 1 /\ t.log[s.sequence + 1] = command /\ \A n \in 1..s.sequence : t.log[n] = s.log[n]
    BY <1>1, <1>2, <1>3, <2>1, PutInGrows
  <2>3. Len(t.log) = Len(s.log) + 1
    BY <1>1, <1>3, <2>2 DEF Both, Numbered, InOrder
  <2>4. Pending(s) < RingSize /\ Pending(t) <= RingSize
    <3>1. RingSize \in Nat /\ Pending(s) <= RingSize /\ Pending(s) # RingSize /\ Pending(s) \in Int
      BY <1>3, <2>1, RingAssumption DEF Flowing, Overflows, Pending
    <3>2. Pending(t) = Pending(s) + 1
      BY <1>1, <1>3, <2>2 DEF Pending, ReceivedSame
    <3> QED
      BY <3>1, <3>2
  <2>5. Contents(t, c)
    BY <1>1, <1>2, <2>1, <2>4, PutKeepsContents DEF Flowing
  <2>6. Linked(t.log) /\ NoNotice(t.log)
    BY <1>3, <1>4, <2>2, <2>3, LogPut DEF Flowing
  <2>7. t.log # <<>> /\ t.log[Len(t.log)] = command
    BY <1>3, <2>2, <2>3
  <2>8. ~IsFragment(command) => Closed(t.log)
    BY <2>7 DEF Closed, IsOpen
  <2>9. Turn(t, c) /\ (Quiet(s, c) /\ ~IsAnswer(command) => Quiet(t, c))
    <3>1. CASE IsAnswer(command)
      <4>1. s.executed > 0
        BY <1>3, <3>1 DEF Quiet
      <4> QED
        BY <1>1, <2>1, <3>1, <4>1, AnswerAdded
    <3>2. CASE ~IsAnswer(command)
      <4>1. ASSUME NEW m \in Answers(t, c) PROVE m \in Answers(s, c)
        <5>1. m \in (c.executed + 1)..(s.sequence + 1) /\ IsAnswer(t.log[m])
          BY <2>2 DEF Answers
        <5>2. m # s.sequence + 1
          BY <2>2, <3>2, <5>1
        <5>3. m \in (c.executed + 1)..s.sequence /\ m \in 1..s.sequence
          BY <1>3, <5>1, <5>2
        <5> QED
          BY <2>2, <5>1, <5>3 DEF Answers
      <4> QED
        BY <1>6, <3>2, <4>1
    <3> QED
      BY <3>1, <3>2
  <2> QED
    BY <1>5, <2>4, <2>5, <2>6, <2>7, <2>8, <2>9 DEF Flowing
<1> QED
  BY <1>1, <1>7, <1>8, Added

\* What the server may become while it has a question to answer, and after.
Quieted(c) == {t \in ServerType : t.state # "CS_ZOMBIE" => Both(t, c) /\ Streaming(t, c) /\ Quiet(t, c)}
Flowed(c)  == {t \in ServerType : t.state # "CS_ZOMBIE" => Both(t, c) /\ Streaming(t, c)}

\* SV_AddFragmentedConfigString: the fragments of a string are next to each
\* other.
LEMMA FragmentsFlow ==
  ASSUME NEW c \in ClientType, NEW s \in Quieted(c), NEW i \in Strings, NEW v \in Values, NumFragments(v[2]) \in 1..MaxFragments
  PROVE  AddFragmentedConfigString(s, i, v) \in Quieted(c)
<1> DEFINE n == NumFragments(v[2])
           Part(t, k) == IF k = 0 THEN Closed(t.log) ELSE t.log # <<>> /\ t.log[Len(t.log)] = Fragment(i, v, k - 1)
           G == [k \in 0..n |-> {t \in ServerType : t.state # "CS_ZOMBIE" => Both(t, c) /\ Flowing(t, c) /\ Quiet(t, c) /\ Part(t, k)}]
<1>1. n \in Nat /\ n > 0 /\ 0 \in 0..n /\ n \in 0..n /\ \A k \in 1..n : k \in 0..n /\ k - 1 \in 0..n /\ k # 0
  BY FragmentsFit
<1>2. \A k \in 1..n : Fragment(i, v, k - 1) \in Told
  BY FragmentTyped
<1>3. \A k \in 1..n : Fragment(i, v, k - 1) = <<"csf", i, k - 1, n, v>>
  BY DEF Fragment
<1> HIDE DEF n
<1>4. \A k \in 0..n : G[k] = {t \in ServerType : t.state # "CS_ZOMBIE" => Both(t, c) /\ Flowing(t, c) /\ Quiet(t, c) /\ Part(t, k)}
  OBVIOUS
<1> HIDE DEF G
<1>5. s \in ServerType /\ s \in G[0]
  BY <1>1, <1>4 DEF Quieted, Streaming
<1>6. ASSUME NEW k \in 1..n, NEW t \in ServerType, t \in G[k - 1] PROVE AddServerCommand(t, Fragment(i, v, k - 1)) \in G[k]
  <2>1. PICK u \in ServerType : u = AddServerCommand(t, Fragment(i, v, k - 1))
    BY <1>2, Added
  <2>2. ASSUME u.state # "CS_ZOMBIE" PROVE Both(u, c) /\ Flowing(u, c) /\ Quiet(u, c) /\ Part(u, k)
    <3>1. t.state # "CS_ZOMBIE"
      BY <1>2, <2>1, <2>2, Added
    <3>2. Both(t, c) /\ Flowing(t, c) /\ Quiet(t, c) /\ Part(t, k - 1)
      BY <1>1, <1>4, <1>6, <3>1
    <3>3. PICK command \in Told : command = Fragment(i, v, k - 1) /\ command = <<"csf", i, k - 1, n, v>>
      BY <1>2, <1>3
    <3>4. IsFragment(command) /\ ~IsAnswer(command) /\ command # <<"disconnect">> /\ command[3] = k - 1
      BY <3>3 DEF IsFragment, IsAnswer
    <3>5. Follows(t.log, command)
      <4>1. CASE k = 1
        BY <3>2, <3>4, <4>1, ClosedFollows
      <4>2. CASE k # 1
        <5>1. k - 1 \in 1..n /\ k - 1 # 0
          BY <1>1, <4>2
        <5>2. t.log # <<>> /\ t.log[Len(t.log)] = <<"csf", i, k - 1 - 1, n, v>>
          BY <1>3, <3>2, <5>1
        <5>3. Precedes(t.log[Len(t.log)], command)
          BY <1>1, <3>3, <5>1, <5>2 DEF Precedes, IsFragment
        <5> QED
          BY <5>2, <5>3 DEF Follows
      <4> QED
        BY <4>1, <4>2
    <3>6. Flowing(u, c) /\ Quiet(u, c) /\ u.log # <<>> /\ u.log[Len(u.log)] = command
      BY <2>1, <2>2, <3>2, <3>3, <3>4, <3>5, AddedFlows
    <3>7. Both(u, c)
      BY <2>1, <2>2, <3>2, <3>3, AddedKeepsNumbers
    <3> QED
      BY <1>1, <3>3, <3>6, <3>7
  <2> QED
    BY <1>1, <1>4, <2>1, <2>2
<1> HIDE DEF Part
<1>7. AddFragmentedConfigString(s, i, v) \in G[n]
  BY <1>5, <1>6, FragmentsKeep DEF n
<1> USE DEF Part
<1>8. PICK t \in ServerType : t = AddFragmentedConfigString(s, i, v)
  BY <1>1, <1>4, <1>7
<1>9. ASSUME t.state # "CS_ZOMBIE" PROVE Both(t, c) /\ Streaming(t, c) /\ Quiet(t, c)
  <2>1. Both(t, c) /\ Flowing(t, c) /\ Quiet(t, c) /\ t.log[Len(t.log)] = Fragment(i, v, n - 1)
    BY <1>1, <1>4, <1>7, <1>8, <1>9
  <2>2. n \in 1..n
    BY <1>1
  <2>3. t.log[Len(t.log)] = <<"csf", i, n - 1, n, v>>
    BY <1>3, <2>1, <2>2
  <2>4. ~IsOpen(t.log[Len(t.log)])
    BY <1>1, <2>3 DEF IsOpen
  <2> QED
    BY <2>1, <2>4 DEF Streaming, Closed
<1> QED
  BY <1>8, <1>9 DEF Quieted

\* A command that neither asks nor is one of several fragments.
LEMMA PlainFlows ==
  ASSUME NEW c \in ClientType, NEW s \in ServerType, NEW command \in Told, command # <<"disconnect">>, ~IsFragment(command),
         NEW t, t = AddServerCommand(s, command)
  PROVE  /\ s \in Quieted(c) => t \in Flowed(c) /\ (~IsAnswer(command) => t \in Quieted(c))
         /\ s \in Flowed(c) /\ ~IsAnswer(command) => t \in Flowed(c)
<1>1. t \in ServerType
  BY Added
<1>2. CASE t.state = "CS_ZOMBIE"
  BY <1>1, <1>2 DEF Quieted, Flowed
<1>3. CASE t.state # "CS_ZOMBIE"
  <2>1. s.state # "CS_ZOMBIE"
    BY <1>3, Added
  <2>2. ASSUME Both(s, c), Streaming(s, c), IsAnswer(command) => Quiet(s, c)
        PROVE  Both(t, c) /\ Streaming(t, c) /\ (Quiet(s, c) /\ ~IsAnswer(command) => Quiet(t, c))
    <3>1. Follows(s.log, command)
      BY <2>2, ClosedFollows DEF Streaming
    <3>2. Flowing(t, c) /\ Closed(t.log) /\ (Quiet(s, c) /\ ~IsAnswer(command) => Quiet(t, c))
      BY <1>3, <2>2, <3>1, AddedFlows DEF Streaming
    <3>3. Both(t, c)
      BY <1>3, <2>2, AddedKeepsNumbers
    <3> QED
      BY <3>2, <3>3 DEF Streaming
  <2> QED
    BY <1>1, <2>1, <2>2 DEF Quieted, Flowed
<1> QED
  BY <1>2, <1>3

LEMMA ConfigStringFlows ==
  ASSUME NEW c \in ClientType, NEW s \in Quieted(c), NEW i \in Strings
  PROVE  SendConfigString(s, i, s.configStrings[i]) \in Quieted(c)
<1>1. s \in ServerType
  BY DEF Quieted
<1>2. PICK v \in Values : v = s.configStrings[i] /\ (v[2] < Capacity \/ NumFragments(v[2]) \in 1..MaxFragments)
  BY <1>1, ConfigStringFits
<1>3. CASE v[2] < Capacity
  <2>1. PICK command \in Told : command = <<"cs", <<<<i, v>>>>>>
    BY PairTyped
  <2>2. SendConfigString(s, i, v) = AddServerCommand(s, command)
    BY <1>3, <2>1 DEF SendConfigString
  <2>3. command # <<"disconnect">> /\ ~IsFragment(command) /\ ~IsAnswer(command)
    BY <2>1 DEF IsFragment, IsAnswer
  <2> QED
    BY <1>1, <1>2, <2>2, <2>3, PlainFlows
<1>4. CASE ~(v[2] < Capacity)
  <2>1. SendConfigString(s, i, v) = AddFragmentedConfigString(s, i, v)
    BY <1>4 DEF SendConfigString
  <2> QED
    BY <1>2, <1>4, <2>1, FragmentsFlow
<1> QED
  BY <1>3, <1>4

\* What else is in the slot does not matter.
LEMMA SlotFlows ==
  ASSUME NEW c \in ClientType, NEW s \in ServerType, s.state # "CS_ZOMBIE", NEW t \in ServerType, t.state # "CS_ZOMBIE",
         AddedSame(s, t), SentSame(s, t), ReceivedSame(s, t)
  PROVE  (s \in Quieted(c) => t \in Quieted(c)) /\ (s \in Flowed(c) => t \in Flowed(c))
<1>1. Both(s, c) => Both(t, c)
  BY EndsTyped, QuietKeepsNumbers
<1>2. Streaming(s, c) => Streaming(t, c)
  BY DEF Streaming, Flowing, Contents, Held, Heard, Copied, Slot, Pending, Turn, OneTurn, Asks, Answers, AnsweredBy,
     Assembling, AddedSame, SentSame, ReceivedSame
<1>3. Quiet(s, c) => Quiet(t, c)
  BY DEF Quiet, Asks, Answers, AddedSame, SentSame, ReceivedSame
<1> QED
  BY <1>1, <1>2, <1>3 DEF Quieted, Flowed

LEMMA StateFlows ==
  ASSUME NEW c \in ClientType, NEW s \in ServerType, NEW state \in {"CS_CONNECTING", "CS_CONNECTED", "CS_SPAWNED"},
         s.state # "CS_ZOMBIE", NEW t, t = [s EXCEPT !.state = state]
  PROVE  (s \in Quieted(c) => t \in Quieted(c)) /\ (s \in Flowed(c) => t \in Flowed(c))
<1>1. t \in ServerType /\ AddedSame(s, t) /\ SentSame(s, t) /\ ReceivedSame(s, t) /\ t.state # "CS_ZOMBIE"
  BY DEF ServerType, AddedSame, SentSame, ReceivedSame
<1> QED
  BY <1>1, SlotFlows

LEMMA ConfigstringsFlow ==
  ASSUME NEW c \in ClientType, NEW s \in Quieted(c), s.state # "CS_ZOMBIE", NEW start \in 0..NumStrings
  PROVE  Configstrings(s, start) \in Flowed(c)
<1> DEFINE G == [k \in 0..NumStrings |-> Quieted(c)]
<1>1. \A k \in 0..NumStrings : G[k] = Quieted(c)
  OBVIOUS
<1>2. \A i \in Strings : i \in 0..NumStrings /\ i + 1 \in 0..NumStrings
  BY FragmentsFit, SizesAssumption DEF Strings, NumStrings
<1> HIDE DEF G
<1>3. \A i \in Strings : \A t \in ServerType : t \in G[i] => SendConfigString(t, i, t.configStrings[i]) \in G[i + 1]
  BY <1>1, <1>2, ConfigStringFlows
<1>4. s \in ServerType /\ [s EXCEPT !.state = "CS_CONNECTED"] \in G[start]
  <2>1. s \in ServerType
    BY DEF Quieted
  <2> QED
    BY <1>1, <2>1, StateFlows
<1>5. PICK t \in ServerType, next \in 0..NumStrings : t \in Quieted(c) /\ Configstrings(s, start) = AskAgain(t, next)
  BY <1>1, <1>3, <1>4, ConfigstringsKeep
<1>6. PICK command \in Told : /\ Configstrings(s, start) = AddServerCommand(t, command)
                              /\ command # <<"disconnect">> /\ ~IsFragment(command)
  <2>1. PICK command \in Told : command = <<"cmd", IF next = NumStrings THEN <<"baselines">> ELSE <<"configstrings", next>>>>
    BY NextAskTyped
  <2>2. command # <<"disconnect">> /\ ~IsFragment(command)
    BY <2>1 DEF IsFragment
  <2> QED
    BY <1>5, <2>1, <2>2 DEF AskAgain
<1> QED
  BY <1>5, <1>6, PlainFlows

\* A message of the server is sent.
LEMMA ServerSendFlows ==
  ASSUME NEW c \in ClientType, NEW s \in Flowed(c), NEW t, t = Send(s)
  PROVE  t \in Flowed(c)
<1>1. s \in ServerType
  BY DEF Flowed
<1>2. t \in ServerType /\ SentOne(s, t) /\ ReceivedSame(s, t) /\ AddedSame(s, t) /\ ServerSame(s, t)
  BY <1>1, ServerSend
<1>3. ASSUME t.state # "CS_ZOMBIE" PROVE Both(t, c) /\ Streaming(t, c)
  <2>1. Typed(s, Told, Asked) /\ Typed(t, Told, Asked) /\ Typed(c, Asked, Told)
    BY <1>1, <1>2, EndsTyped
  <2>2. Both(s, c) /\ Streaming(s, c)
    BY <1>2, <1>3 DEF Flowed, ServerSame
  <2>3. Both(t, c) /\ Later(s, t)
    BY <1>2, <2>1, <2>2, SentKeepsNumbers, SendIsLater
  <2>4. /\ Contents(t, c) /\ Len(s.net) \in Nat
        /\ Len(t.net) = Len(s.net) + 1 /\ (\A j \in 1..Len(s.net) : t.net[j] = s.net[j])
        /\ t.net[Len(s.net) + 1].ack = s.executed /\ t.net[Len(s.net) + 1].upto = s.sequence
    BY <1>2, <2>1, <2>2, SendKeepsContents DEF Streaming, Flowing
  <2>5. Contents(c, t)
    BY <1>2, <2>2, OtherContents DEF Streaming, Flowing
  <2>6. t.executed = s.executed /\ t.sequence = s.sequence /\ t.log = s.log /\ t.acknowledged = s.acknowledged
    BY <1>2 DEF ReceivedSame, AddedSame
  <2>7. c.executed \in Nat /\ s.executed \in Nat /\ c.executed <= s.sent /\ s.sent \in Nat /\ s.sequence \in Nat
    BY <2>1, <2>2, WithinLog
  <2>8. Asks(t, c) = Asks(s, c) /\ Answers(t, c) = Answers(s, c)
    BY <2>6 DEF Asks, Answers
  <2>9. TurnTo(s, c, c.executed) /\ \A m \in Answers(s, c) : ~(m <= c.executed)
    BY <1>1, <2>2, <2>7, TurnIsTurnTo DEF Streaming, Flowing, Answers
  <2>10. ASSUME NEW j \in 1..Len(t.net)
         PROVE  \/ \E k \in 1..Len(s.net) : t.net[j] = s.net[k]
                \/ t.net[j].upto = t.sequence /\ t.net[j].ack = t.executed
    <3>1. j = Len(s.net) + 1 \/ j \in 1..Len(s.net)
      BY <2>4
    <3> QED
      BY <2>4, <2>6, <3>1
  <2>11. Turn(t, c)
    <3>1. Pending(c) <= MaxPending
      BY <2>2 DEF Streaming, Flowing, Turn
    <3>2. TurnTo(t, c, c.executed)
      BY <1>1, <1>2, <2>6, <2>7, <2>8, <2>9, <2>10, <3>1, TurnKept
    <3> QED
      BY <1>2, <2>7, <3>2, TurnIsTurnTo
  <2>12. Assembling(t, c)
    BY <2>2, <2>3, <2>7, AssemblingKept DEF Streaming, Flowing
  <2> QED
    BY <2>2, <2>3, <2>4, <2>5, <2>6, <2>11, <2>12 DEF Streaming, Flowing, Pending
<1> QED
  BY <1>2, <1>3 DEF Flowed

\* SV_ExecuteUserCommand answers what the client asks.
LEMMA UserCommandFlows ==
  ASSUME NEW c \in ClientType, NEW s \in Flowed(c), s.state # "CS_ZOMBIE", NEW command \in Asked, IsAsk(command) => s \in Quieted(c)
  PROVE  ExecuteUserCommand(s, command) \in Flowed(c)
<1>1. s \in ServerType
  BY DEF Flowed
<1>2. CASE command[1] = "configstrings" /\ s.state \in {"CS_CONNECTING", "CS_CONNECTED"}
  <2>1. command[2] \in 0..NumStrings /\ s \in Quieted(c)
    BY <1>2 DEF Asked, Empty, IsAsk
  <2>2. ExecuteUserCommand(s, command) = Configstrings(s, command[2])
    BY <1>2 DEF ExecuteUserCommand
  <2> QED
    BY <2>1, <2>2, ConfigstringsFlow
<1>3. CASE command[1] = "baselines" /\ s.state = "CS_CONNECTED"
  <2>1. s \in Quieted(c)
    BY <1>3 DEF IsAsk
  <2>2. PICK answer \in Told : answer = <<"precache">>
    BY DEF Told
  <2>3. PICK t : t = AddServerCommand(s, answer)
    OBVIOUS
  <2>4. t \in Flowed(c)
    <3>1. answer # <<"disconnect">> /\ ~IsFragment(answer)
      BY <2>2 DEF IsFragment
    <3> QED
      BY <1>1, <2>1, <2>3, <3>1, PlainFlows
  <2>5. ExecuteUserCommand(s, command) = Send(t)
    BY <1>3, <2>2, <2>3 DEF ExecuteUserCommand
  <2> QED
    BY <2>4, <2>5, ServerSendFlows
<1>4. CASE command[1] = "begin" /\ s.state = "CS_CONNECTED"
  <2>1. ExecuteUserCommand(s, command) = [s EXCEPT !.state = "CS_SPAWNED"]
    BY <1>4 DEF ExecuteUserCommand
  <2> QED
    BY <1>1, <2>1, StateFlows
<1>5. CASE command[1] = "begin" /\ s.state # "CS_CONNECTED"
  <2>1. ExecuteUserCommand(s, command) = Drop(s)
    BY <1>5 DEF ExecuteUserCommand
  <2> QED
    BY <1>1, <2>1, Dropped DEF Flowed
<1>6. CASE /\ ~(command[1] = "configstrings" /\ s.state \in {"CS_CONNECTING", "CS_CONNECTED"})
           /\ ~(command[1] = "baselines" /\ s.state = "CS_CONNECTED") /\ command[1] # "begin"
  <2>1. ExecuteUserCommand(s, command) = s
    BY <1>6 DEF ExecuteUserCommand
  <2> QED
    BY <2>1
<1> QED
  BY <1>2, <1>3, <1>4, <1>5, <1>6

\* The server reads the next command of the client.
LEMMA CommandRead ==
  ASSUME NEW c \in ClientType, NEW s \in Flowed(c), NEW n \in [number : Nat, command : Asked], s.state # "CS_ZOMBIE",
         n.number = s.executed + 1, n.number <= c.sent, n.command = c.log[n.number]
  PROVE  \E e \in Flowed(c) :
           /\ ServerExecutes(s, n) = ExecuteUserCommand(e, n.command) /\ e.state # "CS_ZOMBIE"
           /\ IsAsk(n.command) => e \in Quieted(c)
           /\ AddedSame(s, e) /\ SentSame(s, e) /\ ServerSame(s, e)
<1>1. s \in ServerType /\ s.executed \in Nat /\ n.command \in Asked /\ Both(s, c) /\ Streaming(s, c)
  BY EndsTyped, EndNumbers DEF Flowed
<1>2. PICK e \in ServerType : e = Execute(s, n) /\ Executing(s, e, n) /\ AddedSame(s, e) /\ SentSame(s, e) /\ ServerSame(s, e)
  BY <1>1, ServerExecute
<1>3. ServerExecutes(s, n) = ExecuteUserCommand(e, n.command)
  BY <1>1, <1>2 DEF ServerExecutes, Executed
<1>4. Typed(s, Told, Asked) /\ Typed(e, Told, Asked) /\ Typed(c, Asked, Told)
  BY <1>1, EndsTyped
<1>5. Both(e, c)
  BY <1>1, <1>2, <1>4, ExecutingKeepsNumbers
<1>6. Contents(e, c) /\ Contents(c, e)
  BY <1>1, <1>2, <1>4, ExecutingKeepsContents DEF Streaming, Flowing
<1>7. Turn(e, c) /\ (IsAsk(n.command) => Quiet(e, c))
  <2>1. Turn(s, c)
    BY <1>1 DEF Streaming, Flowing
  <2>2. IF IsAsk(n.command) THEN Quiet(e, c) ELSE Turn(e, c)
    BY <1>1, <1>2, <2>1, AskRead
  <2> QED
    BY <2>2, QuietIsTurn
<1>8. Streaming(e, c)
  BY <1>1, <1>2, <1>6, <1>7 DEF Streaming, Flowing, Pending, Assembling, Executing, AddedSame
<1>9. e \in Flowed(c) /\ e.state # "CS_ZOMBIE" /\ (IsAsk(n.command) => e \in Quieted(c))
  BY <1>2, <1>5, <1>7, <1>8 DEF Flowed, Quieted, ServerSame
<1> QED
  BY <1>2, <1>3, <1>9

LEMMA ServerExecutesFlows ==
  ASSUME NEW c \in ClientType, NEW s \in Flowed(c), NEW n \in [number : Nat, command : Asked],
         n.number <= s.executed + 1, n.number <= c.sent, n.command = c.log[n.number]
  PROVE  ServerExecutes(s, n) \in Flowed(c)
<1>1. s.executed \in Nat /\ n.command \in Asked
  BY EndsTyped, EndNumbers DEF Flowed
<1>2. CASE s.state = "CS_ZOMBIE" \/ n.number <= s.executed
  BY <1>2 DEF ServerExecutes, Executed
<1>3. CASE ~(s.state = "CS_ZOMBIE" \/ n.number <= s.executed)
  <2>1. n.number = s.executed + 1 /\ s.state # "CS_ZOMBIE"
    BY <1>1, <1>3
  <2> QED
    BY <1>1, <2>1, CommandRead, UserCommandFlows
<1> QED
  BY <1>2, <1>3

\* What the server becomes, command by command.
ServerRun(h, n, s, t, d) ==
  /\ h \in [0..n -> ServerType] /\ h[n] = t /\ \A k \in 0..n : h[k] \in Flowed(d)
  /\ AddedSame(s, h[0]) /\ SentSame(s, h[0]) /\ ServerSame(s, h[0])
  /\ \A k \in 1..n : \E x \in [number : Nat, command : Asked] :
       /\ h[k] = ServerExecutes(h[k - 1], x)
       /\ h[k - 1].state # "CS_ZOMBIE" => x.number <= h[k - 1].executed + 1
       /\ x.number <= d.sent /\ x.command = d.log[x.number]

LEMMA ClientMessageSteps ==
  ASSUME NEW c \in ClientType, NEW d \in ClientType, NEW s \in ServerType, s.state # "CS_ZOMBIE", Both(s, c), Streaming(s, c),
         c.net # <<>>, d.net = Tail(c.net), d.sent = c.sent, ReceivedSame(c, d), AddedSame(c, d), ClientSame(c, d)
  PROVE  \E n \in Nat : \E h : ServerRun(h, n, s, ParseClientMessage(s, c.net[1]), d)
<1> DEFINE m == c.net[1]
           t == ParseClientMessage(s, m)
<1>1. Typed(s, Told, Asked) /\ Typed(c, Asked, Told) /\ Typed(d, Asked, Told)
  BY EndsTyped
<1>2. m \in Messages(Asked) /\ Carried(c, s, m)
  <2>1. c.net \in Seq(Messages(Asked))
    BY <1>1 DEF Typed
  <2>2. 1 \in 1..Len(c.net)
    BY <2>1
  <2> QED
    BY <1>1, <2>2, NetTyped DEF Both, Numbered
<1>3. /\ m.ack \in Nat /\ m.upto \in Nat /\ Len(m.commands) \in Nat /\ Before(m) \in Int
      /\ Before(m) + Len(m.commands) = m.upto
      /\ m.commands \in Seq([number : Nat, command : Asked])
      /\ s.acknowledged \in Nat /\ s.sent \in Nat /\ s.executed \in Nat /\ c.executed \in Nat /\ c.sent \in Nat /\ s.sequence \in Nat
  BY <1>1, <1>2, MessageTyped, EndNumbers
<1>4. IsPossibleAck(s, m.ack)
  <2>1. s.acknowledged <= m.ack /\ m.ack <= c.executed
    BY <1>2 DEF Carried
  <2>2. c.executed <= s.sent
    BY DEF Both, Numbered, InOrder
  <2> QED
    BY <1>3, <2>1, <2>2 DEF IsPossibleAck
<1>5. PICK h \in [0..Len(m.commands) -> ServerType] :
        /\ h[0] = [s EXCEPT !.acknowledged = m.ack, !.upto = m.upto] /\ t = h[Len(m.commands)]
        /\ \A k \in 1..Len(m.commands) : h[k] = ServerExecutes(h[k - 1], m.commands[k])
  BY <1>2, <1>4, ClientMessageRun, Zenon
<1>6. PICK g \in ServerType : g = h[0] /\ Acknowledging(s, g, m) /\ AddedSame(s, g) /\ SentSame(s, g) /\ ServerSame(s, g)
  BY <1>2, <1>5, ServerAck, Zenon
<1>7. Both(g, d)
  BY <1>1, <1>6, EndsTyped, AckKeepsNumbers
<1>8. Contents(g, d) /\ Contents(d, g) /\ Copied(d, m) /\ s.acknowledged <= g.acknowledged
  BY <1>1, <1>6, AckKeepsContents DEF Streaming, Flowing
<1> HIDE DEF m, t
<1>9. g \in Flowed(d)
  <2>1. /\ g.executed = s.executed /\ g.net = s.net /\ g.sequence = s.sequence /\ g.log = s.log
        /\ d.executed = c.executed /\ d.acknowledged = c.acknowledged /\ d.sequence = c.sequence /\ d.log = c.log
    BY <1>6 DEF Acknowledging, AddedSame, SentSame, ReceivedSame
  <2>2. Turn(g, d)
    BY <2>1 DEF Streaming, Flowing, Turn, OneTurn, Asks, Answers, AnsweredBy, Pending
  <2>3. Pending(g) <= RingSize
    <3>1. g.acknowledged \in Nat /\ RingSize \in Nat
      BY EndsTyped, EndNumbers, RingAssumption
    <3> QED
      BY <1>3, <1>8, <2>1, <3>1 DEF Streaming, Flowing, Pending
  <2>4. Assembling(g, d) /\ d.state = "CA_CONNECTED" /\ ~d.failed
    BY <2>1 DEF Streaming, Flowing, Assembling, ClientSame, PiecesSame
  <2> QED
    BY <1>7, <1>8, <2>1, <2>2, <2>3, <2>4 DEF Flowed, Streaming, Flowing
<1>10. PICK n \in Nat : n = Len(m.commands)
  BY <1>3
<1> DEFINE good == {k \in 0..n : h[k] \in Flowed(d) /\ (h[k].state # "CS_ZOMBIE" => h[k].executed >= Before(m) + k)}
<1>11. 0 \in good
  BY <1>2, <1>3, <1>6, <1>9 DEF Carried, Acknowledging
<1>12. ASSUME NEW k \in 1..n
       PROVE  /\ k \in 0..n /\ k - 1 \in 0..n /\ h[k - 1] \in ServerType
              /\ m.commands[k] \in [number : Nat, command : Asked] /\ h[k] = ServerExecutes(h[k - 1], m.commands[k])
              /\ m.commands[k].number = Before(m) + k /\ m.commands[k].number <= d.sent
              /\ m.commands[k].command = d.log[m.commands[k].number]
  <2>1. k \in 0..n /\ k - 1 \in 0..n /\ h[k - 1] \in ServerType
    BY <1>5, <1>10
  <2>2. m.commands[k] \in [number : Nat, command : Asked] /\ h[k] = ServerExecutes(h[k - 1], m.commands[k])
    BY <1>3, <1>5, <1>10, ElementOfSeq
  <2>3. m.commands[k].number = Before(m) + k /\ m.commands[k].command = d.log[Before(m) + k]
    BY <1>2, <1>8, <1>10 DEF Carried, Copied
  <2>4. m.commands[k].number <= d.sent
    BY <1>2, <1>3, <1>10, <2>3 DEF Carried
  <2> QED
    BY <2>1, <2>2, <2>3, <2>4
<1>13. ASSUME NEW k \in 1..n, k - 1 \in good
       PROVE  h[k - 1] \in Flowed(d) /\ (h[k - 1].state # "CS_ZOMBIE" => m.commands[k].number <= h[k - 1].executed + 1)
  <2>1. PICK e \in ServerType : e = h[k - 1]
    BY <1>12
  <2>2. e \in Flowed(d) /\ (e.state # "CS_ZOMBIE" => e.executed >= Before(m) + (k - 1))
    BY <1>13, <2>1
  <2>3. e.executed \in Nat /\ m.commands[k].number = Before(m) + k
    BY <1>12, EndsTyped, EndNumbers
  <2> HIDE DEF good
  <2>4. e.state # "CS_ZOMBIE" => m.commands[k].number <= e.executed + 1
    BY <1>3, <2>2, <2>3
  <2> QED
    BY <2>1, <2>2, <2>4
<1>14. ASSUME NEW k \in 1..n, k - 1 \in good PROVE k \in good
  <2>1. PICK e \in ServerType, x \in [number : Nat, command : Asked] : e = h[k - 1] /\ x = m.commands[k]
    BY <1>12
  <2>2. /\ e \in Flowed(d) /\ (e.state # "CS_ZOMBIE" => x.number <= e.executed + 1)
        /\ h[k] = ServerExecutes(e, x) /\ x.number = Before(m) + k /\ x.number <= d.sent /\ x.command = d.log[x.number]
    BY <1>12, <1>13, <1>14, <2>1
  <2>3. CASE e.state = "CS_ZOMBIE"
    <3>1. h[k] = e
      BY <2>2, <2>3 DEF ServerExecutes
    <3> QED
      BY <1>12, <2>2, <2>3, <3>1
  <2>4. CASE e.state # "CS_ZOMBIE"
    <3>1. h[k] \in Flowed(d)
      BY <2>2, <2>4, ServerExecutesFlows
    <3>2. h[k].state # "CS_ZOMBIE" => h[k].executed >= x.number
      BY <2>2, <2>4, ServerExecutesKeeps DEF Flowed
    <3> QED
      BY <1>12, <2>2, <3>1, <3>2
  <2> QED
    BY <2>3, <2>4
<1>15. \A k \in 0..n : k \in good
  <2> HIDE DEF good
  <2> QED
    BY <1>11, <1>14, UpTo, Zenon
<1>16. \A k \in 0..n : h[k] \in Flowed(d)
  BY <1>15
<1>17. ASSUME NEW k \in 1..n
       PROVE  \E x \in [number : Nat, command : Asked] :
                /\ h[k] = ServerExecutes(h[k - 1], x)
                /\ h[k - 1].state # "CS_ZOMBIE" => x.number <= h[k - 1].executed + 1
                /\ x.number <= d.sent /\ x.command = d.log[x.number]
  <2>1. k - 1 \in good
    BY <1>12, <1>15
  <2>2. PICK x \in [number : Nat, command : Asked] : x = m.commands[k]
    BY <1>12
  <2> QED
    BY <1>12, <1>13, <2>1, <2>2
<1>18. h \in [0..n -> ServerType] /\ h[n] = ParseClientMessage(s, c.net[1])
  BY <1>5, <1>10 DEF t, m
<1> HIDE DEF good
<1>19. ServerRun(h, n, s, ParseClientMessage(s, c.net[1]), d)
  BY <1>6, <1>16, <1>17, <1>18, Zenon DEF ServerRun
<1> QED
  BY <1>19

LEMMA ClientMessageFlows ==
  ASSUME NEW c \in ClientType, NEW d \in ClientType, NEW s \in ServerType, s.state # "CS_ZOMBIE", Both(s, c), Streaming(s, c),
         c.net # <<>>, d.net = Tail(c.net), d.sent = c.sent, ReceivedSame(c, d), AddedSame(c, d), ClientSame(c, d)
  PROVE  ParseClientMessage(s, c.net[1]) \in Flowed(d)
<1>a. PICK n \in Nat : \E h : ServerRun(h, n, s, ParseClientMessage(s, c.net[1]), d)
  BY ClientMessageSteps
<1>1. PICK h : ServerRun(h, n, s, ParseClientMessage(s, c.net[1]), d)
  BY <1>a
<1>2. n \in 0..n
  OBVIOUS
<1> QED
  BY <1>1, <1>2 DEF ServerRun

-----------------------------------------------------------------------------
(* What the client has heard.                                              *)

\* All that flows, but for whose turn it is.
Steady(s, c) ==
  /\ c.state = "CA_CONNECTED" /\ ~c.failed
  /\ Contents(s, c) /\ Contents(c, s) /\ Pending(s) <= RingSize
  /\ Linked(s.log) /\ NoNotice(s.log) /\ Assembling(s, c) /\ Closed(s.log)

LEMMA SteadyStreams ==
  ASSUME NEW s, NEW c
  PROVE  Streaming(s, c) <=> Steady(s, c) /\ Turn(s, c)
  BY DEF Streaming, Flowing, Steady

\* A fragment is never out of place.
LEMMA PiecesFit ==
  ASSUME NEW s \in ServerType, NEW c \in ClientType, c.executed + 1 \in 1..Len(s.log), Linked(s.log), Assembling(s, c),
         NEW command \in Told, command = s.log[c.executed + 1]
  PROVE  IF IsFragment(command) THEN ~IsOutOfPlace(c, command[2], command[3]) ELSE c.fragmentIndex = 0 /\ c.fragmentNum = 0
<1>1. c.executed \in Nat /\ Len(s.log) \in Nat /\ c.fragmentIndex \in Nat /\ c.fragmentNum \in Nat
  <2>1. \A i \in Strings : i \in Nat
    BY FragmentsFit, SizesAssumption DEF Strings, NumStrings
  <2> QED
    BY <2>1, FragmentsFit DEF ClientType, ServerType
<1>2. CASE c.executed > 0 /\ IsOpen(s.log[c.executed])
  <2>1. c.executed \in 1..(Len(s.log) - 1)
    BY <1>1, <1>2
  <2>2. Precedes(s.log[c.executed], command)
    BY <1>2, <2>1 DEF Linked
  <2>3. c.fragmentIndex = s.log[c.executed][2] /\ c.fragmentNum = s.log[c.executed][3]
    BY <1>2 DEF Assembling
  <2>4. IsFragment(command) /\ c.fragmentIndex = command[2] /\ c.fragmentNum + 1 = command[3]
    BY <2>2, <2>3 DEF Precedes
  <2> QED
    BY <2>4 DEF IsOutOfPlace
<1>3. CASE ~(c.executed > 0 /\ IsOpen(s.log[c.executed]))
  <2>1. c.fragmentIndex = 0 /\ c.fragmentNum = 0
    BY <1>3 DEF Assembling
  <2> QED
    BY <2>1 DEF IsOutOfPlace
<1> QED
  BY <1>2, <1>3

\* What the client takes of a fragment is what the server has said last.
LEMMA PiecesTaken ==
  ASSUME NEW s \in ServerType, NEW d \in ClientType, d.executed > 0, NEW command \in Told, command = s.log[d.executed],
         \/ ~IsFragment(command) /\ d.fragmentIndex = 0 /\ d.fragmentNum = 0
         \/ /\ IsFragment(command)
            /\ command[3] + 1 # command[4] => d.fragmentIndex = command[2] /\ d.fragmentNum = command[3]
            /\ command[3] + 1 = command[4] => d.fragmentIndex = 0 /\ d.fragmentNum = 0
  PROVE  Assembling(s, d)
<1>1. CASE ~IsFragment(command)
  BY <1>1 DEF Assembling, IsOpen
<1>2. CASE IsFragment(command)
  <2>1. command[3] < command[4] /\ command[3] \in Nat /\ command[4] \in Nat
    BY <1>2, FragmentParts, FragmentsFit
  <2> QED
    BY <1>2, <2>1 DEF Assembling, IsOpen
<1> QED
  BY <1>1, <1>2

\* An end whose queue stays as it is.
LEMMA QuietKeepsContents ==
  ASSUME NEW e, NEW f, NEW g, Contents(e, f), Contents(f, e), ReceivedSame(e, g), AddedSame(e, g), SentSame(e, g)
  PROVE  Contents(g, f) /\ Contents(f, g)
  BY DEF Contents, Held, Heard, Copied, Slot, ReceivedSame, AddedSame, SentSame

LEMMA QuietKeepsTurn ==
  ASSUME NEW s, NEW c, NEW d, NEW u, TurnTo(s, c, u), ReceivedSame(c, d), AddedSame(c, d)
  PROVE  TurnTo(s, d, u)
  BY DEF TurnTo, OneTurn, Asks, Answers, AnsweredBy, Pending, ReceivedSame, AddedSame

\* A notice says disconnect.
LEMMA NoticeTyped ==
  ASSUME NEW command \in Told, command[1] = "disconnect"
  PROVE  command = <<"disconnect">>
<1>1. command \notin {"cs"} \X Seq(Strings \X Values) /\ command \notin {"cmd"} \X (Asked \ {Empty})
  OBVIOUS
<1>2. command \notin FragmentCommands
  BY DEF FragmentCommands
<1>3. command \in {Empty, <<"print">>, <<"precache">>, <<"disconnect">>}
  BY <1>1, <1>2 DEF Told
<1> QED
  BY <1>3 DEF Empty

\* The client executes the next command of the server.
LEMMA ServerCommandFlows ==
  ASSUME UserWaits, NEW s \in ServerType, NEW c \in ClientType, NEW e \in ClientType, NEW u \in Nat,
         Both(s, c), Both(s, e), Steady(s, c), TurnTo(s, c, u),
         NEW n \in [number : Nat, command : Told], n.number = c.executed + 1, n.number <= u, u <= s.sent,
         n.command = s.log[n.number], Executing(c, e, n), AddedSame(c, e), SentSame(c, e), ClientSame(c, e),
         NEW d, d = ParseServerCommand(e, n.command)
  PROVE  Steady(s, d) /\ TurnTo(s, d, u)
<1>1. Typed(s, Told, Asked) /\ Typed(c, Asked, Told) /\ Typed(e, Asked, Told) /\ d \in ClientType /\ Both(e, s) /\ Both(c, s)
  BY EndsTyped, ServerCommandTyped DEF Both
<1>2. /\ s.sequence = Len(s.log) /\ s.sent <= s.sequence /\ s.sent \in Nat /\ s.sequence \in Nat /\ c.executed \in Nat
      /\ RingSize \in Nat /\ MaxPending \in Nat /\ MaxPending <= RingSize
  BY <1>1, WithinLog, RingAssumption DEF UserWaits
<1>3. c.executed + 1 \in 1..Len(s.log) /\ e.executed = c.executed + 1 /\ n.command \in Told
  BY <1>2 DEF Executing
<1>4. Contents(s, e) /\ Contents(e, s)
  <2>1. Contents(s, c) /\ Contents(c, s)
    BY DEF Steady
  <2> QED
    BY <1>1, <2>1, ExecutingKeepsContents
<1>5. /\ TurnTo(s, e, u)
      /\ IsAnswer(n.command) => Asks(s, e) = {} /\ Answers(s, e) = {} /\ Pending(e) < MaxPending
  BY <1>1, AnswerRead
<1>6. IF IsFragment(n.command) THEN ~IsOutOfPlace(e, n.command[2], n.command[3]) ELSE e.fragmentIndex = 0 /\ e.fragmentNum = 0
  <2>1. IF IsFragment(n.command) THEN ~IsOutOfPlace(c, n.command[2], n.command[3]) ELSE c.fragmentIndex = 0 /\ c.fragmentNum = 0
    BY <1>3, PiecesFit DEF Steady
  <2> QED
    BY <2>1 DEF IsOutOfPlace, ClientSame, PiecesSame
<1>7. e.state = "CA_CONNECTED" /\ ~e.failed
  BY DEF Steady, ClientSame
<1>8. ASSUME ReceivedSame(e, d), d.state = "CA_CONNECTED", ~d.failed, Contents(s, d), Contents(d, s),
             \/ ~IsFragment(n.command) /\ d.fragmentIndex = 0 /\ d.fragmentNum = 0
             \/ /\ IsFragment(n.command)
                /\ n.command[3] + 1 # n.command[4] => d.fragmentIndex = n.command[2] /\ d.fragmentNum = n.command[3]
                /\ n.command[3] + 1 = n.command[4] => d.fragmentIndex = 0 /\ d.fragmentNum = 0
      PROVE  Steady(s, d)
  <2>1. d.executed = c.executed + 1 /\ d.executed > 0
    BY <1>2, <1>3, <1>8 DEF ReceivedSame
  <2>2. Assembling(s, d)
    BY <1>1, <1>3, <1>8, <2>1, PiecesTaken
  <2> QED
    BY <1>8, <2>2 DEF Steady
<1>9. CASE n.command[1] = "cs"
  <2>1. d = ParseConfigstrings(e, n.command[2]) /\ n.command[2] \in Pairs /\ ~IsFragment(n.command)
    BY <1>3, <1>9, CsPairs DEF ParseServerCommand, IsCs, IsFragment
  <2>2. /\ ReceivedSame(e, d) /\ AddedSame(e, d) /\ SentSame(e, d) /\ d.state = e.state /\ d.failed = e.failed
        /\ d.fragmentIndex = e.fragmentIndex /\ d.fragmentNum = e.fragmentNum
    BY <2>1, PairsTyped
  <2>3. Contents(d, s) /\ Contents(s, d) /\ TurnTo(s, d, u)
    BY <1>4, <1>5, <2>2, QuietKeepsContents, QuietKeepsTurn
  <2> QED
    BY <1>6, <1>7, <1>8, <2>1, <2>2, <2>3
<1>10. CASE n.command[1] = "csf"
  <2>1. /\ n.command[2] \in Strings /\ n.command[3] \in 0..(MaxFragments - 1) /\ n.command[4] \in Nat /\ n.command[5] \in Values
        /\ IsFragment(n.command)
    <3>1. n.command \in Told /\ IsFragment(n.command)
      BY <1>3, <1>10 DEF IsFragment
    <3>2. /\ n.command[2] \in Strings /\ n.command[3] \in 0..(MaxFragments - 1) /\ n.command[4] \in 1..MaxFragments
          /\ n.command[5] \in Values
      BY <3>1, FragmentParts, Zenon
    <3>3. n.command[4] \in Nat
      BY <3>2, FragmentsFit
    <3> QED
      BY <3>1, <3>2, <3>3, Zenon
  <2>2. d = AddFragment(e, n.command[2], n.command[3], n.command[4], n.command[5])
    BY <1>10 DEF ParseServerCommand
  <2>3. FragmentTaken(e, d, n.command[2], n.command[3], n.command[4])
    <3>1. PICK i \in Strings, k \in 0..(MaxFragments - 1), count \in Nat, v \in Values :
            i = n.command[2] /\ k = n.command[3] /\ count = n.command[4] /\ v = n.command[5]
      BY <2>1, Zenon
    <3>2. d = AddFragment(e, i, k, count, v) /\ ~IsOutOfPlace(e, i, k)
      BY <1>6, <2>1, <2>2, <3>1, Zenon
    <3>3. FragmentTaken(e, d, i, k, count)
      BY <3>2, FragmentAdded
    <3> QED
      BY <3>1, <3>3, Zenon
  <2>4. ReceivedSame(e, d) /\ AddedSame(e, d) /\ SentSame(e, d) /\ d.state = e.state /\ d.failed = e.failed
    BY <2>3 DEF FragmentTaken
  <2>5. Contents(d, s) /\ Contents(s, d) /\ TurnTo(s, d, u)
    BY <1>4, <1>5, <2>4, QuietKeepsContents, QuietKeepsTurn
  <2> QED
    BY <1>7, <1>8, <2>1, <2>3, <2>4, <2>5 DEF FragmentTaken
<1>11. CASE n.command[1] \in {"cmd", "precache"}
  <2>1. PICK asked \in Asked : d = AddReliableCommand(e, asked)
    <3>1. <<"begin">> \in Asked
      BY DEF Asked
    <3>2. CASE n.command[1] = "cmd"
      BY <1>3, <3>2, ForwardedTyped DEF ParseServerCommand
    <3>3. CASE n.command[1] = "precache"
      BY <3>1, <3>3 DEF ParseServerCommand
    <3> QED
      BY <1>11, <3>2, <3>3
  <2>2. ~IsFragment(n.command) /\ Asks(s, e) = {} /\ Answers(s, e) = {} /\ Pending(e) < MaxPending
    BY <1>5, <1>11 DEF IsAnswer, IsFragment
  <2>3. Pending(e) < RingSize /\ ~(Pending(e) > RingSize)
    <3>1. Pending(e) \in Int
      BY <1>1, EndNumbers DEF Pending
    <3> QED
      BY <1>2, <2>2, <3>1
  <2>4. d = Put(e, asked)
    BY <2>1, <2>3, AddedByClient
  <2>5. PutIn(e, d, asked) /\ ReceivedSame(e, d) /\ SentSame(e, d) /\ ClientSame(e, d)
    BY <2>4, ClientPut
  <2>6. TurnTo(s, d, u)
    BY <1>1, <1>2, <2>2, <2>5, AskAdded
  <2>7. Contents(d, s) /\ Contents(s, d)
    <3>1. Typed(d, Asked, Told)
      BY <1>1, EndsTyped
    <3>2. Contents(d, s)
      BY <1>1, <1>4, <2>3, <2>5, <3>1, PutKeepsContents
    <3> QED
      BY <1>4, <2>5, <3>2, OtherContents
  <2> QED
    BY <1>6, <1>7, <1>8, <2>2, <2>5, <2>6, <2>7 DEF ClientSame, PiecesSame
<1>12. CASE n.command[1] = "disconnect"
  <2>1. n.command = <<"disconnect">> /\ n.command = s.log[c.executed + 1]
    BY <1>3, <1>12, NoticeTyped
  <2> QED
    BY <1>3, <2>1 DEF Steady, NoNotice
<1>13. CASE n.command[1] \notin {"cs", "csf", "cmd", "precache", "disconnect"}
  <2>1. d = e /\ ~IsFragment(n.command)
    BY <1>13 DEF ParseServerCommand, IsFragment
  <2> QED
    BY <1>4, <1>5, <1>6, <1>7, <1>8, <2>1 DEF ReceivedSame
<1> QED
  BY <1>9, <1>10, <1>11, <1>12, <1>13

LEMMA ClientExecutesFlows ==
  ASSUME UserWaits, NEW s \in ServerType, NEW c \in ClientType, NEW u \in Nat, u <= s.sent,
         Both(s, c), Steady(s, c), TurnTo(s, c, u),
         NEW n \in [number : Nat, command : Told], n.number <= c.executed + 1, n.number <= u, n.command = s.log[n.number],
         NEW d, d = ClientExecutes(c, n)
  PROVE  Steady(s, d) /\ TurnTo(s, d, u)
<1>1. Typed(s, Told, Asked) /\ Typed(c, Asked, Told) /\ c.executed \in Nat /\ s.sent \in Nat /\ Both(c, s)
  BY EndsTyped, EndNumbers DEF Both
<1>2. CASE n.number <= c.executed
  BY <1>2 DEF ClientExecutes, Executed
<1>3. CASE ~(n.number <= c.executed)
  <2>1. PICK e \in ClientType : e = Execute(c, n) /\ Executing(c, e, n) /\ AddedSame(c, e) /\ SentSame(c, e) /\ ClientSame(c, e)
    BY ClientExecute
  <2>2. d = ParseServerCommand(e, n.command)
    BY <1>3, <2>1 DEF ClientExecutes, Executed, Steady
  <2>3. n.number = c.executed + 1 /\ n.number <= s.sent
    BY <1>1, <1>3
  <2>4. Both(s, e)
    <3>1. Typed(e, Asked, Told)
      BY EndsTyped
    <3>2. Both(e, s)
      BY <1>1, <2>1, <2>3, <3>1, ExecutingKeepsNumbers
    <3> QED
      BY <3>2 DEF Both
  <2> QED
    BY <2>1, <2>2, <2>3, <2>4, ServerCommandFlows
<1> QED
  BY <1>2, <1>3

\* What the client becomes, command by command.
ClientRun(h, n, t, c, d) ==
  /\ h \in [0..n -> ClientType] /\ h[n] = d
  /\ AddedSame(c, h[0]) /\ h[0].executed = c.executed /\ ClientSame(c, h[0])
  /\ \A k \in 0..n : Both(t, h[k]) /\ Steady(t, h[k])
  /\ \A k \in 1..n : \E x \in [number : Nat, command : Told] :
       /\ h[k] = ClientExecutes(h[k - 1], x)
       /\ x.number <= h[k - 1].executed + 1 /\ x.number <= t.sent /\ x.command = t.log[x.number]

LEMMA ServerMessageSteps ==
  ASSUME UserWaits, NEW s \in ServerType, NEW t \in ServerType, NEW c \in ClientType, Both(s, c), Streaming(s, c),
         s.net # <<>>, t.net = Tail(s.net), t.sent = s.sent, ReceivedSame(s, t), AddedSame(s, t),
         NEW d, d = ParseServerMessage(c, s.net[1])
  PROVE  Streaming(t, d) /\ \E n \in Nat : \E h : ClientRun(h, n, t, c, d)
<1> DEFINE m == s.net[1]
<1>1. Typed(s, Told, Asked) /\ Typed(t, Told, Asked) /\ Typed(c, Asked, Told) /\ Both(c, s) /\ Steady(s, c) /\ Turn(s, c)
  BY EndsTyped, SteadyStreams DEF Both
<1>2. m \in Messages(Told) /\ Carried(s, c, m) /\ MaxPending \in Nat
  <2>1. s.net \in Seq(Messages(Told))
    BY <1>1 DEF Typed
  <2>2. 1 \in 1..Len(s.net)
    BY <2>1
  <2>3. MaxPending \in Nat
    BY RingAssumption DEF UserWaits
  <2> QED
    BY <1>1, <2>2, <2>3, NetTyped DEF Both, Numbered
<1>3. /\ m.ack \in Nat /\ m.upto \in Nat /\ Len(m.commands) \in Nat /\ Before(m) \in Int
      /\ Before(m) + Len(m.commands) = m.upto
      /\ m.commands \in Seq([number : Nat, command : Told])
      /\ c.executed \in Nat /\ s.sent \in Nat
  BY <1>1, <1>2, MessageTyped, EndNumbers
<1>4. PICK h \in [0..Len(m.commands) -> ClientType] :
        /\ h[0] = [c EXCEPT !.acknowledged = m.ack, !.upto = m.upto] /\ d = h[Len(m.commands)]
        /\ \A k \in 1..Len(m.commands) : h[k] = ClientExecutes(h[k - 1], m.commands[k])
  BY <1>2, ServerMessageRun, Zenon
<1>5. PICK g \in ClientType : g = h[0] /\ Acknowledging(c, g, m) /\ AddedSame(c, g) /\ SentSame(c, g) /\ ClientSame(c, g)
  BY <1>2, <1>4, ClientAck, Zenon
<1>6. Both(t, g)
  <2>1. Both(g, t)
    BY <1>1, <1>5, EndsTyped, AckKeepsNumbers
  <2> QED
    BY <2>1 DEF Both
<1>7. Contents(g, t) /\ Contents(t, g) /\ Copied(t, m)
  BY <1>1, <1>5, AckKeepsContents DEF Steady
<1>8. TurnTo(t, g, m.upto)
  BY <1>1, <1>2, <1>5, TurnAcknowledged
<1> HIDE DEF m
<1>9. Steady(t, g)
  <2>1. Pending(t) = Pending(s) /\ t.log = s.log /\ g.executed = c.executed
    BY <1>5 DEF Pending, ReceivedSame, AddedSame, Acknowledging
  <2> QED
    BY <1>1, <1>5, <1>7, <2>1 DEF Steady, Assembling, ClientSame, PiecesSame
<1>10. PICK n \in Nat : n = Len(m.commands)
  BY <1>3
<1> DEFINE good == {k \in 0..n : /\ Both(t, h[k]) /\ Steady(t, h[k]) /\ TurnTo(t, h[k], m.upto)
                                 /\ h[k].executed >= Before(m) + k}
<1>11. 0 \in good
  BY <1>2, <1>3, <1>5, <1>6, <1>8, <1>9 DEF Carried, Acknowledging
<1>12. ASSUME NEW k \in 1..n
       PROVE  /\ k \in 0..n /\ k - 1 \in 0..n /\ h[k - 1] \in ClientType
              /\ m.commands[k] \in [number : Nat, command : Told] /\ h[k] = ClientExecutes(h[k - 1], m.commands[k])
              /\ m.commands[k].number = Before(m) + k /\ m.commands[k].number <= m.upto /\ m.upto <= t.sent
              /\ m.commands[k].command = t.log[m.commands[k].number]
  <2>1. k \in 0..n /\ k - 1 \in 0..n /\ h[k - 1] \in ClientType
    BY <1>4, <1>10
  <2>2. m.commands[k] \in [number : Nat, command : Told] /\ h[k] = ClientExecutes(h[k - 1], m.commands[k])
    BY <1>3, <1>4, <1>10, ElementOfSeq
  <2>3. /\ m.commands[k].number = Before(m) + k /\ m.commands[k].number <= m.upto /\ m.upto <= t.sent
        /\ m.commands[k].command = t.log[m.commands[k].number]
    <3>1. k \in 1..Len(m.commands)
      BY <1>10
    <3>2. m.commands[k].number = Before(m) + k /\ m.upto <= s.sent
      BY <1>2, <3>1 DEF Carried
    <3>3. m.commands[k].command = t.log[Before(m) + k]
      BY <1>7, <3>1 DEF Copied
    <3>4. Before(m) + k <= m.upto
      BY <1>3, <3>1
    <3> QED
      BY <1>3, <3>1, <3>2, <3>3, <3>4
  <2> QED
    BY <2>1, <2>2, <2>3
<1>13. ASSUME NEW k \in 1..n, k - 1 \in good
       PROVE  /\ Both(t, h[k - 1]) /\ Steady(t, h[k - 1]) /\ TurnTo(t, h[k - 1], m.upto)
              /\ m.commands[k].number <= h[k - 1].executed + 1 /\ m.commands[k].number <= t.sent
  <2>1. PICK e \in ClientType : e = h[k - 1]
    BY <1>12
  <2>2. Both(t, e) /\ Steady(t, e) /\ TurnTo(t, e, m.upto) /\ e.executed >= Before(m) + (k - 1)
    BY <1>13, <2>1
  <2> HIDE DEF good
  <2>3. e.executed \in Nat /\ t.sent \in Nat
    BY <1>1, EndsTyped, EndNumbers
  <2>4. PICK w \in Nat : w = m.commands[k].number /\ w = Before(m) + k /\ w <= m.upto /\ m.upto <= t.sent
    BY <1>12
  <2>5. k \in Int /\ k - 1 + 1 = k
    OBVIOUS
  <2>6. w <= e.executed + 1
    BY <1>3, <2>2, <2>3, <2>4, <2>5
  <2>7. w <= t.sent
    BY <1>3, <2>3, <2>4
  <2> QED
    BY <2>1, <2>2, <2>4, <2>6, <2>7
<1>14. ASSUME NEW k \in 1..n, k - 1 \in good PROVE k \in good
  <2>1. PICK e \in ClientType, x \in [number : Nat, command : Told] : e = h[k - 1] /\ x = m.commands[k]
    BY <1>12
  <2>2. /\ Both(t, e) /\ Steady(t, e) /\ TurnTo(t, e, m.upto) /\ x.number <= e.executed + 1 /\ x.number <= t.sent
        /\ h[k] = ClientExecutes(e, x) /\ x.number = Before(m) + k /\ x.number <= m.upto /\ m.upto <= t.sent
        /\ x.command = t.log[x.number]
    BY <1>12, <1>13, <1>14, <2>1
  <2> HIDE DEF good
  <2>3. Steady(t, h[k]) /\ TurnTo(t, h[k], m.upto)
    BY <1>3, <2>2, ClientExecutesFlows
  <2>4. h[k].state # "CA_DISCONNECTED"
    BY <2>3 DEF Steady
  <2>5. Both(t, h[k]) /\ h[k].executed >= x.number
    BY <2>2, <2>4, ClientExecutesKeeps
  <2> QED
    BY <1>12, <2>2, <2>3, <2>5 DEF good
<1>15. \A k \in 0..n : k \in good
  <2> HIDE DEF good
  <2> QED
    BY <1>11, <1>14, UpTo, Zenon
<1>16. n \in 0..n /\ n \in good
  <2> HIDE DEF good
  <2> QED
    BY <1>15
<1>17. d \in ClientType /\ Steady(t, d) /\ TurnTo(t, d, m.upto) /\ d.executed >= m.upto
  BY <1>3, <1>4, <1>10, <1>16
<1>18. Streaming(t, d)
  BY <1>3, <1>17, TurnIsTurnTo, SteadyStreams
<1>19. \A k \in 0..n : Both(t, h[k]) /\ Steady(t, h[k])
  BY <1>15
<1>20. ASSUME NEW k \in 1..n
       PROVE  \E x \in [number : Nat, command : Told] :
                /\ h[k] = ClientExecutes(h[k - 1], x)
                /\ x.number <= h[k - 1].executed + 1 /\ x.number <= t.sent /\ x.command = t.log[x.number]
  <2>1. k - 1 \in good
    BY <1>12, <1>15
  <2>2. PICK x \in [number : Nat, command : Told] : x = m.commands[k]
    BY <1>12
  <2> QED
    BY <1>12, <1>13, <2>1, <2>2
<1>21. h \in [0..n -> ClientType] /\ h[n] = d
  BY <1>4, <1>10
<1>22. AddedSame(c, h[0]) /\ h[0].executed = c.executed /\ ClientSame(c, h[0])
  BY <1>5 DEF Acknowledging
<1> HIDE DEF good
<1>23. ClientRun(h, n, t, c, d)
  BY <1>19, <1>20, <1>21, <1>22, Zenon DEF ClientRun
<1> QED
  BY <1>18, <1>23

LEMMA ServerMessageFlows ==
  ASSUME UserWaits, NEW s \in ServerType, NEW t \in ServerType, NEW c \in ClientType, Both(s, c), Streaming(s, c),
         s.net # <<>>, t.net = Tail(s.net), t.sent = s.sent, ReceivedSame(s, t), AddedSame(s, t),
         NEW d, d = ParseServerMessage(c, s.net[1])
  PROVE  Streaming(t, d)
  BY ServerMessageSteps

-----------------------------------------------------------------------------
(* Both directions are reliable streams.                                   *)

LEMMA StreamingIsFlowed ==
  ASSUME NEW s \in ServerType, NEW c \in ClientType, s.state # "CS_ZOMBIE", Both(s, c), Streaming(s, c)
  PROVE  s \in Flowed(c)
  BY DEF Flowed

\* The client's queue changes: commands that do not ask, messages and losses.
LEMMA ClientSideStreams ==
  ASSUME NEW s \in ServerType, NEW c \in ClientType, NEW d \in ClientType, Both(s, c), Streaming(s, c),
         ReceivedSame(c, d), ClientSame(c, d), Contents(d, s), TurnTo(s, d, d.executed)
  PROVE  Streaming(s, d)
<1>1. Contents(s, d)
  BY OtherContents DEF Streaming, Flowing
<1>2. Turn(s, d)
  BY EndsTyped, EndNumbers, TurnIsTurnTo
<1> QED
  BY <1>1, <1>2 DEF Streaming, Flowing, Assembling, ClientSame, PiecesSame, ReceivedSame

LEMMA ServerReceivesStreams ==
  ASSUME NEW s \in ServerType, NEW c \in ClientType, s = server, c = client, s.state # "CS_ZOMBIE", Both(s, c), Streaming(s, c),
         ServerReceives, server'.state # "CS_ZOMBIE"
  PROVE  Streaming(server', client')
<1>1. c.net \in Seq(Messages(Asked)) /\ c.net # <<>>
  BY DEF ServerReceives, ServerCanReceive, ClientType
<1>2. Tail(c.net) \in Seq(Messages(Asked)) /\ Head(c.net) = c.net[1]
  BY <1>1, TailTyped
<1>3. PICK d \in ClientType : /\ d = client' /\ d.net = Tail(c.net) /\ d.sent = c.sent
                              /\ ReceivedSame(c, d) /\ AddedSame(c, d) /\ ClientSame(c, d)
  <2>1. client' = [c EXCEPT !.net = Tail(c.net)]
    BY DEF ServerReceives
  <2>2. PICK net \in Seq(Messages(Asked)) : net = Tail(c.net)
    BY <1>2
  <2>3. client' = [c EXCEPT !.net = net]
    BY <2>1, <2>2
  <2>4. /\ client' \in ClientType /\ client'.net = net /\ client'.sent = c.sent
        /\ ReceivedSame(c, client') /\ AddedSame(c, client') /\ ClientSame(c, client')
    BY <2>3, ClientThinned
  <2> QED
    BY <2>2, <2>4, Zenon
<1>4. server' = ParseClientMessage(s, c.net[1])
  BY <1>2 DEF ServerReceives
<1>5. server' \in Flowed(client')
  BY <1>1, <1>3, <1>4, ClientMessageFlows
<1> QED
  BY <1>5 DEF Flowed

LEMMA ClientReceivesStreams ==
  ASSUME UserWaits, NEW s \in ServerType, NEW c \in ClientType, s = server, c = client, Both(s, c), Streaming(s, c), ClientReceives
  PROVE  Streaming(server', client')
<1>1. s.net \in Seq(Messages(Told)) /\ s.net # <<>>
  BY DEF ClientReceives, ClientCanReceive, ServerType
<1>2. Tail(s.net) \in Seq(Messages(Told)) /\ Head(s.net) = s.net[1]
  BY <1>1, TailTyped
<1>3. PICK t \in ServerType : /\ t = server' /\ t.net = Tail(s.net) /\ t.sent = s.sent
                              /\ ReceivedSame(s, t) /\ AddedSame(s, t)
  <2>1. server' = [s EXCEPT !.net = Tail(s.net)]
    BY DEF ClientReceives
  <2>2. PICK net \in Seq(Messages(Told)) : net = Tail(s.net)
    BY <1>2
  <2>3. server' = [s EXCEPT !.net = net]
    BY <2>1, <2>2
  <2> QED
    BY <2>2, <2>3, ServerThinned
<1>4. client' = ParseServerMessage(c, s.net[1])
  BY <1>2 DEF ClientReceives, Streaming, Flowing
<1> QED
  BY <1>1, <1>3, <1>4, ServerMessageFlows

LEMMA ServerSendsStreams ==
  ASSUME NEW s \in ServerType, NEW c \in ClientType, s = server, c = client, s.state # "CS_ZOMBIE", Both(s, c), Streaming(s, c),
         ServerSends, server'.state # "CS_ZOMBIE"
  PROVE  Streaming(server', client')
<1>1. server' = Send(s) /\ client' = c
  BY DEF ServerSends
<1>2. server' \in Flowed(c)
  BY <1>1, StreamingIsFlowed, ServerSendFlows
<1> QED
  BY <1>1, <1>2 DEF Flowed

LEMMA BroadcastStreams ==
  ASSUME NEW s \in ServerType, NEW c \in ClientType, s = server, c = client, s.state # "CS_ZOMBIE", Both(s, c), Streaming(s, c),
         Broadcast, server'.state # "CS_ZOMBIE"
  PROVE  Streaming(server', client')
<1>1. PICK command \in Told : command = <<"print">>
  BY DEF Told
<1>2. server' = AddServerCommand(s, command) /\ client' = c
  BY <1>1 DEF Broadcast
<1>3. command # <<"disconnect">> /\ ~IsFragment(command) /\ ~IsAnswer(command)
  BY <1>1 DEF IsFragment, IsAnswer
<1>4. server' \in Flowed(c)
  BY <1>2, <1>3, StreamingIsFlowed, PlainFlows
<1> QED
  BY <1>2, <1>4 DEF Flowed

LEMMA SetConfigStringStreams ==
  ASSUME Types, NEW s \in ServerType, NEW c \in ClientType, s = server, c = client, s.state # "CS_ZOMBIE", Both(s, c),
         Streaming(s, c), SetConfigString, server'.state # "CS_ZOMBIE"
  PROVE  Streaming(server', client')
<1>1. PICK u \in ServerType, i \in Strings, v \in Values :
        /\ v[2] \in ChangeSizes /\ ReceivedSame(server, u) /\ AddedSame(server, u) /\ SentSame(server, u)
        /\ u.state = server.state /\ server' = AddServerCommand(u, <<"cs", <<<<i, v>>>>>>) /\ client' = client
  BY StringSet
<1>2. u \in Flowed(c)
  BY <1>1, StreamingIsFlowed, SlotFlows
<1>3. PICK command \in Told : command = <<"cs", <<<<i, v>>>>>>
  BY PairTyped
<1>4. server' = AddServerCommand(u, command) /\ client' = c
  BY <1>1, <1>3
<1>5. command # <<"disconnect">> /\ ~IsFragment(command) /\ ~IsAnswer(command)
  BY <1>3 DEF IsFragment, IsAnswer
<1>6. server' \in Flowed(c)
  BY <1>2, <1>4, <1>5, PlainFlows
<1> QED
  BY <1>4, <1>6 DEF Flowed

LEMMA ClientSendsStreams ==
  ASSUME NEW s \in ServerType, NEW c \in ClientType, s = server, c = client, Both(s, c), Streaming(s, c), ClientSends
  PROVE  Streaming(server', client')
<1>1. PICK d \in ClientType : /\ d = client' /\ SentOne(c, d) /\ ReceivedSame(c, d) /\ AddedSame(c, d) /\ ClientSame(c, d)
  <2>1. client' = Send(c)
    BY DEF ClientSends
  <2> QED
    BY <2>1, ClientSend
<1>2. server' = s
  BY DEF ClientSends
<1>3. Contents(d, s)
  <2>1. Both(c, s) /\ Contents(c, s)
    BY DEF Both, Streaming, Flowing
  <2> QED
    BY <1>1, <2>1, EndsTyped, SendKeepsContents
<1>4. TurnTo(s, d, d.executed)
  <2>1. TurnTo(s, c, c.executed)
    BY EndsTyped, EndNumbers, TurnIsTurnTo DEF Streaming, Flowing
  <2> QED
    BY <1>1, <2>1, QuietKeepsTurn DEF ReceivedSame
<1> QED
  BY <1>1, <1>2, <1>3, <1>4, ClientSideStreams

LEMMA SayStreams ==
  ASSUME UserWaits, NEW s \in ServerType, NEW c \in ClientType, s = server, c = client, Both(s, c), Streaming(s, c), Say
  PROVE  Streaming(server', client')
<1>1. PICK command \in Asked : command = <<"say">>
  BY DEF Asked
<1>2. client' = AddReliableCommand(c, command) /\ server' = s /\ Pending(c) < MaxPending
  BY <1>1 DEF Say
<1>3. Typed(c, Asked, Told) /\ Typed(s, Told, Asked) /\ Both(c, s)
  BY EndsTyped DEF Both
<1>4. /\ c.sequence = Len(c.log) /\ c.sent <= c.sequence /\ c.sequence \in Nat /\ c.acknowledged \in Nat /\ c.executed \in Nat
      /\ s.executed \in Nat /\ MaxPending \in Nat /\ MaxPending <= RingSize /\ RingSize \in Nat
  BY <1>3, WithinLog, RingAssumption DEF UserWaits
<1>5. Pending(c) < RingSize /\ ~(Pending(c) > RingSize)
  BY <1>2, <1>4 DEF Pending
<1>6. PICK d \in ClientType : /\ d = client' /\ PutIn(c, d, command)
                              /\ ReceivedSame(c, d) /\ SentSame(c, d) /\ ClientSame(c, d)
  BY <1>2, <1>5, AddedByClient, ClientPut
<1>7. Contents(d, s)
  BY <1>3, <1>5, <1>6, EndsTyped, PutKeepsContents DEF Streaming, Flowing
<1>8. d.sequence = c.sequence + 1 /\ d.log[c.sequence + 1] = command /\ \A n \in 1..c.sequence : d.log[n] = c.log[n]
  BY <1>3, <1>4, <1>6, EndsTyped, PutInGrows
<1>9. Asks(s, d) \subseteq Asks(s, c)
  <2>1. ASSUME NEW n \in Asks(s, d) PROVE n \in Asks(s, c)
    <3>1. n # c.sequence + 1
      BY <1>1, <1>8 DEF Asks, IsAsk
    <3>2. n \in (s.executed + 1)..c.sequence /\ n \in 1..c.sequence
      BY <1>4, <1>8, <3>1 DEF Asks
    <3> QED
      BY <1>8, <3>2 DEF Asks
  <2> QED
    BY <2>1
<1>10. TurnTo(s, d, d.executed)
  <2>1. d.executed = c.executed /\ d.acknowledged = c.acknowledged
    BY <1>6 DEF ReceivedSame
  <2>2. Answers(s, d) = Answers(s, c)
    BY <2>1 DEF Answers
  <2>3. TurnTo(s, c, c.executed)
    BY <1>4, TurnIsTurnTo DEF Streaming, Flowing
  <2>4. Pending(d) <= MaxPending
    BY <1>2, <1>4, <1>8, <2>1 DEF Pending
  <2>5. \A m \in Answers(s, d) : ~(m <= d.executed)
    BY <1>3, <1>4, <2>1, EndNumbers DEF Answers
  <2>6. \A j \in 1..Len(s.net) : \E k \in 1..Len(s.net) : s.net[j] = s.net[k]
    OBVIOUS
  <2> QED
    BY <1>4, <1>9, <2>1, <2>2, <2>3, <2>4, <2>5, <2>6, TurnKept
<1> QED
  BY <1>2, <1>6, <1>7, <1>10, ClientSideStreams

LEMMA LoseStreams ==
  ASSUME NEW s \in ServerType, NEW c \in ClientType, s = server, c = client, Both(s, c), Streaming(s, c), Lose
  PROVE  Streaming(server', client')
<1>1. s.net \in Seq(Messages(Told)) /\ c.net \in Seq(Messages(Asked)) /\ c.executed \in Nat /\ s.sequence \in Nat /\ s.executed \in Nat
  BY DEF ServerType, ClientType
<1>2. TurnTo(s, c, c.executed) /\ \A m \in Answers(s, c) : ~(m <= c.executed)
  BY <1>1, TurnIsTurnTo DEF Streaming, Flowing, Answers
<1>3. ASSUME NEW i \in DOMAIN s.net, server' = [s EXCEPT !.net = RemoveAt(s.net, i)], client' = c
      PROVE  Streaming(server', client')
  <2>1. i \in 1..Len(s.net)
    BY <1>1
  <2>2. PICK g : g = [net |-> RemoveAt(s.net, i)]
    OBVIOUS
  <2>3. g.net = RemoveAt(s.net, i)
    BY <2>2
  <2>4. g.net \in Seq(Messages(Told)) /\ Thinned(s, g)
    BY <1>1, <2>1, <2>3, RemovalThins
  <2>5. PICK t \in ServerType : /\ t = server' /\ t.net = g.net /\ t.sent = s.sent
                                /\ ReceivedSame(s, t) /\ AddedSame(s, t) /\ ServerSame(s, t)
    BY <1>3, <2>3, <2>4, ServerThinned
  <2>6. Thinned(s, t)
    BY <2>4, <2>5 DEF Thinned
  <2>7. Contents(t, c) /\ Contents(c, t)
    BY <2>5, <2>6, ThinnedKeepsContents, OtherContents DEF Streaming, Flowing
  <2>8. Turn(t, c)
    <3>1. Asks(t, c) = Asks(s, c) /\ Answers(t, c) = Answers(s, c) /\ t.executed = s.executed
      BY <2>5 DEF Asks, Answers, ReceivedSame, AddedSame
    <3>2. \A j \in 1..Len(t.net) : \E k \in 1..Len(s.net) : t.net[j] = s.net[k]
      BY <2>6 DEF Thinned
    <3>3. Pending(c) <= MaxPending
      BY <1>2 DEF TurnTo
    <3>4. TurnTo(t, c, c.executed)
      <4>1. \A m \in Answers(t, c) : m <= c.executed => Pending(c) < MaxPending
        BY <1>2, <3>1
      <4>2. Pending(c) <= MaxPending /\ s.executed <= t.executed /\ c.acknowledged = c.acknowledged
        BY <1>1, <3>1, <3>3
      <4>3. Asks(t, c) \subseteq Asks(s, c) /\ Answers(t, c) \subseteq Answers(s, c)
        BY <3>1
      <4>4. \A j \in 1..Len(t.net) : \/ \E k \in 1..Len(s.net) : t.net[j] = s.net[k]
                                     \/ t.net[j].upto = t.sequence /\ t.net[j].ack = t.executed
        BY <3>2
      <4> QED
        BY <1>1, <1>2, <4>1, <4>2, <4>3, <4>4, TurnKept
    <3> QED
      BY <1>1, <3>4, TurnIsTurnTo
  <2> QED
    BY <1>3, <2>5, <2>7, <2>8 DEF Streaming, Flowing, Assembling, Pending, ReceivedSame, AddedSame
<1>4. ASSUME NEW i \in DOMAIN c.net, client' = [c EXCEPT !.net = RemoveAt(c.net, i)], server' = s
      PROVE  Streaming(server', client')
  <2>1. i \in 1..Len(c.net)
    BY <1>1
  <2>2. PICK g : g = [net |-> RemoveAt(c.net, i)]
    OBVIOUS
  <2>3. g.net = RemoveAt(c.net, i)
    BY <2>2
  <2>4. g.net \in Seq(Messages(Asked)) /\ Thinned(c, g)
    BY <1>1, <2>1, <2>3, RemovalThins
  <2>5. PICK d \in ClientType : /\ d = client' /\ d.net = g.net /\ d.sent = c.sent
                                /\ ReceivedSame(c, d) /\ AddedSame(c, d) /\ ClientSame(c, d)
    BY <1>4, <2>3, <2>4, ClientThinned
  <2>6. Thinned(c, d)
    BY <2>4, <2>5 DEF Thinned
  <2>7. Contents(d, s)
    BY <2>5, <2>6, ThinnedKeepsContents DEF Streaming, Flowing
  <2>8. TurnTo(s, d, d.executed)
    BY <1>2, <2>5, QuietKeepsTurn DEF ReceivedSame
  <2> QED
    BY <1>4, <2>5, <2>7, <2>8, ClientSideStreams
<1> QED
  BY <1>3, <1>4 DEF Lose

\* A slot that was dropped stays so.
LEMMA ZombieStays ==
  ASSUME Next, Types, server'.state # "CS_ZOMBIE"
  PROVE  server.state # "CS_ZOMBIE"
<1>1. PICK s \in ServerType, c \in ClientType : s = server /\ c = client
  BY DEF Types
<1>2. CASE ServerReceives
  BY <1>2 DEF ServerReceives
<1>3. CASE ServerSends
  BY <1>3 DEF ServerSends
<1>4. CASE Broadcast
  BY <1>4 DEF Broadcast
<1>5. CASE SetConfigString
  BY <1>5 DEF SetConfigString
<1>6. CASE ClientReceives
  <2>1. server' = [s EXCEPT !.net = Tail(s.net)]
    BY <1>1, <1>6 DEF ClientReceives
  <2> QED
    BY <1>1, <2>1 DEF ServerType
<1>7. CASE ClientSends
  BY <1>7 DEF ClientSends
<1>8. CASE Say
  BY <1>8 DEF Say
<1>9. CASE Lose
  <2>1. server' = server \/ \E i \in DOMAIN s.net : server' = [s EXCEPT !.net = RemoveAt(s.net, i)]
    BY <1>1, <1>9 DEF Lose
  <2> QED
    BY <1>1, <2>1 DEF ServerType
<1> QED
  BY <1>2, <1>3, <1>4, <1>5, <1>6, <1>7, <1>8, <1>9 DEF Next

LEMMA StreamInit ==
  ASSUME UserWaits, Init
  PROVE  StreamInv
<1>1. PICK s \in ServerType, c \in ClientType, command \in Asked, d \in {client} :
        s = FirstServer /\ c = FirstClient /\ command = <<"configstrings", 0>> /\ d = Put(c, command)
  BY FirstTyped DEF Init
<1>2. d \in ClientType /\ PutIn(c, d, command) /\ ReceivedSame(c, d) /\ SentSame(c, d) /\ ClientSame(c, d)
  BY <1>1, ClientPut
<1>3. server = s /\ client = d
  BY <1>1 DEF Init
<1>4. /\ s.sequence = 0 /\ s.acknowledged = 0 /\ s.sent = 0 /\ s.executed = 0
      /\ Len(s.net) = 0 /\ s.log = <<>> /\ Len(s.log) = 0 /\ Len(s.heard) = 0
      /\ c.sequence = 0 /\ c.acknowledged = 0 /\ c.sent = 0 /\ c.executed = 0
      /\ Len(c.net) = 0 /\ Len(c.log) = 0 /\ Len(c.heard) = 0
      /\ c.state = "CA_CONNECTED" /\ ~c.failed /\ c.fragmentIndex = 0 /\ c.fragmentNum = 0
  BY <1>1 DEF FirstServer, FirstClient
<1>5. RingSize \in Nat /\ MaxPending \in Nat /\ MaxPending <= RingSize /\ MaxPending > 0
  BY RingAssumption DEF UserWaits
<1>6. Pending(s) = 0 /\ Pending(c) = 0
  BY <1>4 DEF Pending
<1>7. Both(s, c) /\ Both(c, s)
  BY <1>4 DEF Both, Numbered, InOrder
<1>8. Contents(s, c) /\ Contents(c, s)
  BY <1>4 DEF Contents, Held, Heard
<1>9. Contents(s, d) /\ Contents(d, s)
  <2>1. Contents(s, d)
    BY <1>2, <1>8, OtherContents
  <2>2. Contents(d, s)
    BY <1>2, <1>5, <1>6, <1>7, <1>8, EndsTyped, PutKeepsContents
  <2> QED
    BY <2>1, <2>2
<1>10. Turn(s, d)
  <2>1. Asks(s, c) = {} /\ Answers(s, c) = {}
    BY <1>4 DEF Asks, Answers
  <2>2. TurnTo(s, d, 0)
    BY <1>2, <1>5, <1>6, <1>7, <2>1, AskAdded
  <2>3. d.executed = 0
    BY <1>2, <1>4 DEF ReceivedSame
  <2> QED
    BY <1>2, <2>2, <2>3, TurnIsTurnTo
<1>11. Linked(s.log) /\ NoNotice(s.log) /\ Closed(s.log)
  BY <1>4 DEF Linked, NoNotice, Closed
<1>12. Assembling(s, d) /\ d.state = "CA_CONNECTED" /\ ~d.failed
  BY <1>2, <1>4 DEF Assembling, ReceivedSame, ClientSame, PiecesSame
<1>13. Streaming(s, d)
  BY <1>5, <1>6, <1>9, <1>10, <1>11, <1>12 DEF Streaming, Flowing
<1> QED
  BY <1>3, <1>13, InitSound DEF StreamInv

LEMMA StreamStep ==
  ASSUME UserWaits, StreamInv, [Next]_vars
  PROVE  StreamInv'
<1>1. IInv'
  BY StepSound DEF StreamInv
<1>2. ASSUME Next, server'.state # "CS_ZOMBIE" PROVE Streaming(server', client')
  <2>1. PICK s \in ServerType, c \in ClientType : s = server /\ c = client /\ Types
    BY DEF StreamInv, IInv, Types
  <2>2. s.state # "CS_ZOMBIE"
    BY <1>2, <2>1, ZombieStays DEF StreamInv, IInv
  <2>3. Streaming(s, c)
    BY <2>1, <2>2 DEF StreamInv
  <2>4. Both(s, c)
    <3>1. Up(server, client)
      BY <2>1, <2>2, <2>3 DEF Up, Streaming, Flowing
    <3> QED
      BY <2>1, <3>1 DEF StreamInv, IInv, NumbersSound, Both
  <2> QED
    BY <1>2, <2>1, <2>2, <2>3, <2>4, ServerReceivesStreams, ClientReceivesStreams, ServerSendsStreams, BroadcastStreams,
       SetConfigStringStreams, ClientSendsStreams, SayStreams, LoseStreams DEF Next
<1>3. ASSUME UNCHANGED vars, server'.state # "CS_ZOMBIE" PROVE Streaming(server', client')
  BY <1>3 DEF vars, StreamInv
<1> QED
  BY <1>1, <1>2, <1>3 DEF StreamInv, Streaming, Flowing, Contents, Held, Heard, Copied, Slot, Pending, Turn, OneTurn, Asks,
     Answers, AnsweredBy, Linked, NoNotice, Assembling, Closed, Before

\* As long as the user of the client does not run its queue full, all that is
\* sent is what was added, the client and the server take turns, and the
\* fragments of a string come one after the other.
THEOREM Flows == ASSUME UserWaits PROVE Spec => []StreamInv
<1>1. Init => StreamInv
  BY StreamInit
<1>2. StreamInv /\ [Next]_vars => StreamInv'
  BY StreamStep
<1> QED
  BY <1>1, <1>2, PTL DEF Spec

\* The beginning of a sequence.
LEMMA Beginning ==
  ASSUME NEW S, NEW s \in Seq(S), NEW n \in Nat, n <= Len(s)
  PROVE  SubSeq(s, 1, n) \in Seq(S) /\ Len(SubSeq(s, 1, n)) = n /\ \A k \in 1..n : SubSeq(s, 1, n)[k] = s[k]
<1>1. \A k \in 1..n : s[k] \in S
  BY ElementOfSeq
<1>2. SubSeq(s, 1, n) \in Seq(S) /\ Len(SubSeq(s, 1, n)) = (IF 1 <= n THEN n - 1 + 1 ELSE 0)
      /\ \A k \in 1..(n - 1 + 1) : SubSeq(s, 1, n)[k] = s[1 + k - 1]
  BY <1>1, SubSeqProperties
<1>3. PICK a : a = SubSeq(s, 1, n)
  OBVIOUS
<1>4. a \in Seq(S) /\ Len(a) = (IF 1 <= n THEN n - 1 + 1 ELSE 0) /\ \A k \in 1..(n - 1 + 1) : a[k] = s[1 + k - 1]
  BY <1>2, <1>3, Zenon
<1>5. Len(a) = n /\ n - 1 + 1 = n
  BY <1>4
<1>6. ASSUME NEW k \in 1..n PROVE a[k] = s[k]
  <2>1. 1 + k - 1 = k /\ a[k] = s[1 + k - 1]
    BY <1>4, <1>5
  <2> QED
    BY <2>1
<1> QED
  BY <1>3, <1>4, <1>5, <1>6, Zenon

\* Sequences with the same elements begin alike.
LEMMA SameStart ==
  ASSUME NEW S, NEW s \in Seq(S), NEW t \in Seq(S), NEW n \in Nat, n <= Len(s), n <= Len(t), \A k \in 1..n : t[k] = s[k]
  PROVE  SubSeq(t, 1, n) = SubSeq(s, 1, n)
<1>1. PICK a \in Seq(S) : a = SubSeq(s, 1, n) /\ Len(a) = n /\ \A k \in 1..n : a[k] = s[k]
  <2>1. SubSeq(s, 1, n) \in Seq(S) /\ Len(SubSeq(s, 1, n)) = n /\ \A k \in 1..n : SubSeq(s, 1, n)[k] = s[k]
    BY Beginning
  <2> QED
    BY <2>1, Zenon
<1>2. PICK b \in Seq(S) : b = SubSeq(t, 1, n) /\ Len(b) = n /\ \A k \in 1..n : b[k] = t[k]
  <2>1. SubSeq(t, 1, n) \in Seq(S) /\ Len(SubSeq(t, 1, n)) = n /\ \A k \in 1..n : SubSeq(t, 1, n)[k] = t[k]
    BY Beginning
  <2> QED
    BY <2>1, Zenon
<1>3. a = b
  BY <1>1, <1>2
<1> QED
  BY <1>1, <1>2, <1>3

\* A step of a stream: e adds and sends, f executes.
LEMMA StreamOf ==
  ASSUME NEW A, NEW B, NEW e, NEW f, NEW g, NEW h, Typed(e, A, B), Typed(g, A, B), Typed(f, B, A), Typed(h, B, A),
         Both(e, f), Both(g, h), Later(e, g), Later(f, h), Heard(g, h)
  PROVE  /\ Len(g.log) >= Len(e.log) /\ g.sent \in e.sent..Len(g.log)
         /\ SubSeq(g.log, 1, e.sent) = SubSeq(e.log, 1, e.sent)
         /\ IsPrefix(f.heard, h.heard) /\ IsPrefix(h.heard, SubSeq(g.log, 1, g.sent))
<1>1. /\ e.sequence = Len(e.log) /\ f.executed = Len(f.heard) /\ f.executed <= e.sent /\ e.sent <= e.sequence
      /\ e.sent \in Nat /\ f.executed \in Nat /\ e.sequence \in Nat
  BY WithinLog
<1>2. /\ g.sequence = Len(g.log) /\ h.executed = Len(h.heard) /\ h.executed <= g.sent /\ g.sent <= g.sequence
      /\ g.sent \in Nat /\ h.executed \in Nat /\ g.sequence \in Nat
  BY WithinLog
<1>3. e.log \in Seq(A) /\ g.log \in Seq(A) /\ f.heard \in Seq(A) /\ h.heard \in Seq(A)
  BY DEF Typed
<1>4. Len(g.log) >= Len(e.log) /\ e.sent <= g.sent /\ f.executed <= h.executed
  BY <1>1, <1>2 DEF Later
<1>5. SubSeq(g.log, 1, e.sent) = SubSeq(e.log, 1, e.sent)
  <2>1. \A k \in 1..e.sent : g.log[k] = e.log[k]
    BY DEF Later
  <2> QED
    BY <1>1, <1>3, <1>4, <2>1, SameStart
<1>6. IsPrefix(f.heard, h.heard)
  <2>1. \A k \in 1..f.executed : h.heard[k] = f.heard[k]
    BY DEF Later
  <2>2. SubSeq(h.heard, 1, f.executed) = SubSeq(f.heard, 1, f.executed)
    BY <1>1, <1>2, <1>3, <1>4, <2>1, SameStart
  <2> QED
    BY <1>1, <1>2, <1>4, <2>2 DEF IsPrefix
<1>7. IsPrefix(h.heard, SubSeq(g.log, 1, g.sent))
  <2>1. PICK t \in Seq(A) : t = SubSeq(g.log, 1, g.sent) /\ Len(t) = g.sent /\ \A k \in 1..g.sent : t[k] = g.log[k]
    <3>1. g.sent <= Len(g.log)
      BY <1>2
    <3>2. /\ SubSeq(g.log, 1, g.sent) \in Seq(A) /\ Len(SubSeq(g.log, 1, g.sent)) = g.sent
          /\ \A k \in 1..g.sent : SubSeq(g.log, 1, g.sent)[k] = g.log[k]
      BY <1>2, <1>3, <3>1, Beginning
    <3> QED
      BY <1>2, <1>3, <3>2, Zenon
  <2>2. \A k \in 1..h.executed : k \in 1..g.sent
    BY <1>2
  <2>3. \A k \in 1..h.executed : t[k] = h.heard[k]
    BY <2>1, <2>2 DEF Heard
  <2>4. SubSeq(t, 1, h.executed) = SubSeq(h.heard, 1, h.executed)
    BY <1>2, <1>3, <2>1, <2>3, SameStart
  <2> QED
    BY <1>2, <2>1, <2>4 DEF IsPrefix
<1> QED
  BY <1>1, <1>2, <1>4, <1>5, <1>6, <1>7

LEMMA StreamsStep ==
  ASSUME StreamInv, StreamInv', [Next]_vars
  PROVE  [ServerStream!Next]_(ServerStream!vars) /\ [ClientStream!Next]_(ClientStream!vars)
<1>1. CASE UNCHANGED vars
  BY <1>1 DEF vars, ServerStream!vars, ClientStream!vars, Connected
<1>2. CASE Next /\ ~Connected'
  BY <1>2 DEF ServerStream!Next, ClientStream!Next
<1>3. CASE Next /\ Connected'
  <2>1. Keeps(server, server', client, client')
    BY <1>3, NextKeeps DEF StreamInv, IInv
  <2>2. PICK s \in ServerType, c \in ClientType, t \in ServerType, d \in ClientType :
          s = server /\ c = client /\ t = server' /\ d = client'
    BY <2>1 DEF StreamInv, IInv, Types, Keeps
  <2>3. Up(t, d) /\ Up(s, c)
    BY <1>3, <2>1, <2>2 DEF Connected, Up, Keeps
  <2>4. Connected /\ Connected'
    BY <1>3, <2>2, <2>3 DEF Connected, Up
  <2>5. Both(s, c)
    BY <2>2, <2>3 DEF StreamInv, IInv, NumbersSound, Both
  <2>6. Both(t, d) /\ Later(s, t) /\ Later(c, d)
    BY <2>1, <2>2, <2>3, <2>5 DEF Keeps
  <2>7. Contents(t, d) /\ Contents(d, t)
    <3>1. Streaming(server', client')
      BY <2>2, <2>3 DEF StreamInv, Up
    <3> QED
      BY <2>2, <3>1 DEF Streaming, Flowing
  <2>8. Both(d, t) /\ Both(c, s) /\ Heard(t, d) /\ Heard(d, t)
    BY <2>5, <2>6, <2>7 DEF Both, Contents
  <2>9. /\ Typed(s, Told, Asked) /\ Typed(t, Told, Asked) /\ Typed(c, Asked, Told) /\ Typed(d, Asked, Told)
    BY EndsTyped
  <2>10. /\ Len(t.log) >= Len(s.log) /\ t.sent \in s.sent..Len(t.log)
         /\ SubSeq(t.log, 1, s.sent) = SubSeq(s.log, 1, s.sent)
         /\ IsPrefix(c.heard, d.heard) /\ IsPrefix(d.heard, SubSeq(t.log, 1, t.sent))
    BY <2>5, <2>6, <2>8, <2>9, StreamOf
  <2>11. ServerStream!Step
    BY <2>2, <2>4, <2>10, Zenon DEF ServerStream!Step, ServerStream!IsPrefix, IsPrefix
  <2>12. /\ Len(d.log) >= Len(c.log) /\ d.sent \in c.sent..Len(d.log)
         /\ SubSeq(d.log, 1, c.sent) = SubSeq(c.log, 1, c.sent)
         /\ IsPrefix(s.heard, t.heard) /\ IsPrefix(t.heard, SubSeq(d.log, 1, d.sent))
    BY <2>6, <2>8, <2>9, StreamOf
  <2>13. ClientStream!Step
    BY <2>2, <2>4, <2>12, Zenon DEF ClientStream!Step, ClientStream!IsPrefix, IsPrefix
  <2> QED
    BY <2>11, <2>13 DEF ServerStream!Next, ClientStream!Next
<1> QED
  BY <1>1, <1>2, <1>3

LEMMA StreamsInit ==
  ASSUME Init
  PROVE  ServerStream!Init /\ ClientStream!Init
<1>1. PICK c \in ClientType, command \in Asked, d \in {client} : c = FirstClient /\ command = <<"configstrings", 0>> /\ d = Put(c, command)
  BY FirstTyped DEF Init
<1>2. ReceivedSame(c, d) /\ SentSame(c, d) /\ ClientSame(c, d)
  BY <1>1, ClientPut
<1>3. server = FirstServer /\ client = d
  BY <1>1 DEF Init
<1>4. client.sent = 0 /\ client.heard = <<>> /\ client.state = "CA_CONNECTED"
  BY <1>1, <1>2, <1>3 DEF FirstClient, SentSame, ReceivedSame, ClientSame
<1>5. server.sent = 0 /\ server.heard = <<>> /\ server.state = "CS_CONNECTING"
  BY <1>3 DEF FirstServer
<1> QED
  BY <1>4, <1>5 DEF ServerStream!Init, ClientStream!Init, Connected

\* Each end executes what the other one has added: in order, each command
\* once, and as it was when it was sent first.
THEOREM StreamsHold == ASSUME UserWaits PROVE Spec => Streams
<1>1. Init => ServerStream!Init /\ ClientStream!Init
  BY StreamsInit
<1>2. StreamInv /\ StreamInv' /\ [Next]_vars => [ServerStream!Next]_(ServerStream!vars) /\ [ClientStream!Next]_(ClientStream!vars)
  BY StreamsStep
<1>3. Spec => []StreamInv
  BY Flows
<1> QED
  BY <1>1, <1>2, <1>3, PTL DEF Spec, Streams, ServerStreamSpec, ClientStreamSpec, ServerStream!Spec, ClientStream!Spec

LEMMA StreamIsErrorFree ==
  ASSUME StreamInv
  PROVE  NoClientError
  BY DEF StreamInv, Streaming, Flowing, NoClientError

\* The server does not run a client into one of its errors: it never finds a
\* fragment out of place, or its own queue full.
THEOREM NoClientErrorHolds == ASSUME UserWaits PROVE Spec => []NoClientError
<1>1. StreamInv => NoClientError
  BY StreamIsErrorFree
<1>2. Spec => []StreamInv
  BY Flows
<1> QED
  BY <1>1, <1>2, PTL


-----------------------------------------------------------------------------
(* Configstrings: what a log says of them.                                 *)

LEMMA SetsWrites ==
  ASSUME NEW command, NEW i, NEW v, Sets(command, i, v)
  PROVE  Writes(command, i)
  BY DEF Sets, Writes

LEMMA SetsOne ==
  ASSUME NEW command \in Told, NEW i, NEW v, NEW w, Sets(command, i, v), Sets(command, i, w)
  PROVE  v = w
<1>1. CASE IsCs(command)
  <2>1. ~IsFragment(command) /\ command[2] \in Pairs
    BY <1>1, CsPairs DEF IsCs, IsFragment
  <2>2. PICK k \in 1..Len(command[2]) : command[2][k] = <<i, v>> /\ \A j \in (k + 1)..Len(command[2]) : command[2][j][1] # i
    BY <2>1 DEF Sets
  <2>3. PICK l \in 1..Len(command[2]) : command[2][l] = <<i, w>> /\ \A j \in (l + 1)..Len(command[2]) : command[2][j][1] # i
    BY <2>1 DEF Sets
  <2>4. Len(command[2]) \in Nat
    BY <2>1 DEF Pairs
  <2>5. k = l
    <3>1. ~(k < l)
      BY <2>2, <2>3, <2>4
    <3>2. ~(l < k)
      BY <2>2, <2>3, <2>4
    <3> QED
      BY <3>1, <3>2
  <2> QED
    BY <2>2, <2>3, <2>5
<1>2. CASE ~IsCs(command)
  BY <1>2 DEF Sets
<1> QED
  BY <1>1, <1>2

\* A string has one value.
LEMMA StandsOne ==
  ASSUME NEW log \in Seq(Told), NEW n \in Nat, n <= Len(log), NEW i, NEW v, NEW w, Stands(log, n, i, v), Stands(log, n, i, w)
  PROVE  v = w
<1>1. PICK p \in 1..n : Sets(log[p], i, v) /\ \A q \in (p + 1)..n : ~Writes(log[q], i)
  BY DEF Stands
<1>2. PICK r \in 1..n : Sets(log[r], i, w) /\ \A q \in (r + 1)..n : ~Writes(log[q], i)
  BY DEF Stands
<1>3. Writes(log[p], i) /\ Writes(log[r], i)
  BY <1>1, <1>2, SetsWrites
<1>4. ~(p < r)
  <2>1. p < r => r \in (p + 1)..n
    OBVIOUS
  <2> QED
    BY <1>1, <1>3, <2>1
<1>5. ~(r < p)
  <2>1. r < p => p \in (r + 1)..n
    OBVIOUS
  <2> QED
    BY <1>2, <1>3, <2>1
<1>6. p = r /\ log[p] \in Told
  BY <1>4, <1>5, ElementOfSeq
<1> QED
  BY <1>1, <1>2, <1>6, SetsOne

LEMMA KnownKept ==
  ASSUME NEW log, NEW more, NEW n \in Nat, \A k \in 1..n : more[k] = log[k], NEW i, NEW v, Known(log, n, i, v)
  PROVE  Known(more, n, i, v)
<1>1. ASSUME Stands(log, n, i, v) PROVE Stands(more, n, i, v)
  <2>1. PICK p \in 1..n : Sets(log[p], i, v) /\ \A q \in (p + 1)..n : ~Writes(log[q], i)
    BY <1>1 DEF Stands
  <2>2. \A q \in (p + 1)..n : q \in 1..n
    OBVIOUS
  <2>3. Sets(more[p], i, v) /\ \A q \in (p + 1)..n : ~Writes(more[q], i)
    BY <2>1, <2>2
  <2> QED
    BY <2>3 DEF Stands
<1>2. (\E p \in 1..n : Writes(more[p], i)) => (\E p \in 1..n : Writes(log[p], i))
  OBVIOUS
<1> QED
  BY <1>1, <1>2 DEF Known

\* One command more.
LEMMA KnownMore ==
  ASSUME NEW log, NEW more, NEW n \in Nat, \A k \in 1..n : more[k] = log[k], NEW i, NEW v,
         \/ Known(log, n, i, v) /\ ~Writes(more[n + 1], i)
         \/ Sets(more[n + 1], i, v)
  PROVE  Known(more, n + 1, i, v)
<1>1. CASE Sets(more[n + 1], i, v)
  <2>1. n + 1 \in 1..(n + 1) /\ \A q \in (n + 1 + 1)..(n + 1) : FALSE
    OBVIOUS
  <2>2. Stands(more, n + 1, i, v)
    BY <1>1, <2>1 DEF Stands
  <2> QED
    BY <2>2 DEF Known
<1>2. CASE Known(log, n, i, v) /\ ~Writes(more[n + 1], i)
  <2>1. Known(more, n, i, v)
    BY <1>2, KnownKept
  <2>2. ASSUME NEW p \in 1..(n + 1), Writes(more[p], i) PROVE Stands(more, n + 1, i, v)
    <3>1. p \in 1..n
      BY <1>2, <2>2
    <3>2. PICK r \in 1..n : Sets(more[r], i, v) /\ \A q \in (r + 1)..n : ~Writes(more[q], i)
      BY <2>1, <2>2, <3>1 DEF Known, Stands
    <3>3. r \in 1..(n + 1) /\ \A q \in (r + 1)..(n + 1) : q = n + 1 \/ q \in (r + 1)..n
      OBVIOUS
    <3>4. \A q \in (r + 1)..(n + 1) : ~Writes(more[q], i)
      BY <1>2, <3>2, <3>3
    <3> QED
      BY <3>2, <3>3, <3>4 DEF Stands
  <2> QED
    BY <2>2 DEF Known
<1> QED
  BY <1>1, <1>2

\* A command is amended, to say the same of string i.
LEMMA KnownAmended ==
  ASSUME NEW log, NEW more, NEW n \in Nat, NEW r \in 1..n, \A k \in 1..n : k # r => more[k] = log[k], NEW i, NEW v,
         Writes(more[r], i) <=> Writes(log[r], i), Sets(log[r], i, v) => Sets(more[r], i, v), Known(log, n, i, v)
  PROVE  Known(more, n, i, v)
<1>1. \A k \in 1..n : Writes(more[k], i) <=> Writes(log[k], i)
  BY Zenon
<1>2. \A k \in 1..n : Sets(log[k], i, v) => Sets(more[k], i, v)
  BY Zenon
<1>3. ASSUME Stands(log, n, i, v) PROVE Stands(more, n, i, v)
  <2>1. PICK p \in 1..n : Sets(log[p], i, v) /\ \A q \in (p + 1)..n : ~Writes(log[q], i)
    BY <1>3 DEF Stands
  <2>2. \A q \in (p + 1)..n : q \in 1..n
    OBVIOUS
  <2>3. Sets(more[p], i, v) /\ \A q \in (p + 1)..n : ~Writes(more[q], i)
    BY <1>1, <1>2, <2>1, <2>2
  <2> QED
    BY <2>3 DEF Stands
<1> QED
  BY <1>1, <1>3 DEF Known

\* Of a command with a pair more.
LEMMA PairJoined ==
  ASSUME NEW pairs \in Pairs, NEW i \in Strings, NEW v \in Values, NEW more, more = pairs \o <<<<i, v>>>>
  PROVE  /\ Len(more) = Len(pairs) + 1 /\ Len(pairs) \in Nat /\ more[Len(pairs) + 1] = <<i, v>>
         /\ \A k \in 1..Len(pairs) : more[k] = pairs[k]
<1>1. PICK pair \in Strings \X Values : pair = <<i, v>>
  OBVIOUS
<1>2. <<pair>> \in Seq(Strings \X Values) /\ Len(<<pair>>) = 1 /\ <<pair>>[1] = pair
  OBVIOUS
<1>3. PICK last \in Seq(Strings \X Values) : last = <<pair>> /\ Len(last) = 1 /\ last[1] = pair
  BY <1>2
<1>4. pairs \in Seq(Strings \X Values) /\ more = pairs \o last
  BY <1>1, <1>3 DEF Pairs
<1>5. Len(pairs) \in Nat /\ Len(more) = Len(pairs) + 1
  BY <1>3, <1>4
<1>6. /\ \A k \in 1..Len(pairs) : more[k] = pairs[k]
      /\ more[Len(pairs) + 1] = pair
  <2>1. \A k \in 1..(Len(pairs) + Len(last)) : (pairs \o last)[k] = IF k <= Len(pairs) THEN pairs[k] ELSE last[k - Len(pairs)]
    BY <1>4, ConcatProperties
  <2>2. PICK n \in Nat : n = Len(pairs) /\ Len(last) = 1
    BY <1>3, <1>5
  <2>3. PICK g : g = pairs \o last
    OBVIOUS
  <2>4. \A k \in 1..(n + 1) : (k <= n => g[k] = pairs[k]) /\ (~(k <= n) => g[k] = last[k - n])
    BY <2>1, <2>2, <2>3, Zenon
  <2>5. n + 1 \in 1..(n + 1) /\ ~(n + 1 <= n) /\ (n + 1) - n = 1 /\ \A k \in 1..n : k \in 1..(n + 1) /\ k <= n
    OBVIOUS
  <2>6. g[n + 1] = last[(n + 1) - n]
    <3>1. PICK k \in 1..(n + 1) : k = n + 1
      BY <2>5, Zenon
    <3>2. ~(k <= n)
      BY <2>5, <3>1, Zenon
    <3>3. g[k] = last[k - n]
      BY <2>4, <3>2, Zenon
    <3> QED
      BY <3>1, <3>3, Zenon
  <2>7. g[n + 1] = last[1]
    BY <2>5, <2>6, Zenon
  <2>8. ASSUME NEW k \in 1..n PROVE g[k] = pairs[k]
    <3>1. k \in 1..(n + 1) /\ k <= n
      BY <2>5
    <3> QED
      BY <2>4, <3>1
  <2> QED
    BY <1>3, <1>4, <2>2, <2>3, <2>7, <2>8, Zenon
<1> QED
  BY <1>1, <1>5, <1>6

LEMMA JoinedSays ==
  ASSUME NEW pairs \in Pairs, NEW i \in Strings, NEW v \in Values
  PROVE  /\ Sets(<<"cs", pairs \o <<<<i, v>>>>>>, i, v)
         /\ \A j : Writes(<<"cs", pairs>>, j) => Writes(<<"cs", pairs \o <<<<i, v>>>>>>, j)
         /\ \A j : j # i /\ Writes(<<"cs", pairs \o <<<<i, v>>>>>>, j) => Writes(<<"cs", pairs>>, j)
         /\ \A j, w : j # i /\ Sets(<<"cs", pairs>>, j, w) => Sets(<<"cs", pairs \o <<<<i, v>>>>>>, j, w)
<1>0. PICK more, old, new : more = pairs \o <<<<i, v>>>> /\ old = <<"cs", pairs>> /\ new = <<"cs", pairs \o <<<<i, v>>>>>>
  OBVIOUS
<1>1. /\ more = new[2] /\ Len(more) = Len(pairs) + 1 /\ Len(pairs) \in Nat /\ more[Len(pairs) + 1] = <<i, v>>
      /\ \A k \in 1..Len(pairs) : more[k] = pairs[k]
  BY <1>0, PairJoined
<1>2. IsCs(old) /\ IsCs(new) /\ ~IsFragment(old) /\ ~IsFragment(new) /\ old[2] = pairs
  BY <1>0 DEF IsCs, IsFragment
<1>3. Sets(new, i, v)
  <2>1. Len(more) \in 1..Len(more) /\ more[Len(more)] = <<i, v>> /\ \A j \in (Len(more) + 1)..Len(more) : FALSE
    BY <1>1
  <2> QED
    BY <1>1, <1>2, <2>1 DEF Sets
<1>4. ASSUME NEW j, Writes(old, j) PROVE Writes(new, j)
  <2>1. PICK k \in 1..Len(pairs) : pairs[k][1] = j
    BY <1>2, <1>4 DEF Writes
  <2>2. k \in 1..Len(more) /\ more[k] = pairs[k]
    BY <1>1
  <2> QED
    BY <1>1, <1>2, <2>1, <2>2 DEF Writes
<1>5. ASSUME NEW j, j # i, Writes(new, j) PROVE Writes(old, j)
  <2>1. PICK k \in 1..Len(more) : more[k][1] = j
    BY <1>1, <1>2, <1>5 DEF Writes
  <2>2. k \in 1..Len(pairs)
    BY <1>1, <1>5, <2>1
  <2> QED
    BY <1>1, <1>2, <2>1, <2>2 DEF Writes
<1>6. ASSUME NEW j, NEW w, j # i, Sets(old, j, w) PROVE Sets(new, j, w)
  <2>1. PICK k \in 1..Len(pairs) : pairs[k] = <<j, w>> /\ \A l \in (k + 1)..Len(pairs) : pairs[l][1] # j
    BY <1>2, <1>6 DEF Sets
  <2>2. k \in 1..Len(more) /\ more[k] = <<j, w>>
    BY <1>1, <2>1
  <2>3. ASSUME NEW l \in (k + 1)..Len(more) PROVE more[l][1] # j
    <3>1. CASE l = Len(more)
      BY <1>1, <1>6, <3>1
    <3>2. CASE l # Len(more)
      <4>1. l \in (k + 1)..Len(pairs) /\ l \in 1..Len(pairs)
        BY <1>1, <3>2
      <4> QED
        BY <1>1, <2>1, <4>1
    <3> QED
      BY <3>1, <3>2
  <2> QED
    BY <1>1, <1>2, <2>2, <2>3 DEF Sets
<1>7. /\ Sets(new, i, v)
      /\ \A j : Writes(old, j) => Writes(new, j)
      /\ \A j : j # i /\ Writes(new, j) => Writes(old, j)
      /\ \A j, w : j # i /\ Sets(old, j, w) => Sets(new, j, w)
  BY <1>3, <1>4, <1>5, <1>6, Zenon
<1> QED
  BY <1>0, <1>7, Zenon

LEMMA JoinedFits ==
  ASSUME NEW pairs \in Pairs, NEW i \in Strings, Short(i), NEW v \in Values, v[2] \in ShortSizes,
         \A l \in 1..Len(pairs) : Short(pairs[l][1]) /\ pairs[l][2][2] \in ShortSizes,
         NEW more, more = pairs \o <<<<i, v>>>>
  PROVE  \A l \in 1..Len(more) : Short(more[l][1]) /\ more[l][2][2] \in ShortSizes
<1>1. /\ Len(more) = Len(pairs) + 1 /\ Len(pairs) \in Nat /\ more[Len(pairs) + 1] = <<i, v>>
      /\ \A k \in 1..Len(pairs) : more[k] = pairs[k]
  BY PairJoined
<1>2. ASSUME NEW l \in 1..Len(more) PROVE Short(more[l][1]) /\ more[l][2][2] \in ShortSizes
  <2>1. CASE l = Len(pairs) + 1
    <3>1. more[l][1] = i /\ more[l][2] = v
      BY <1>1, <2>1
    <3> QED
      BY <3>1
  <2>2. CASE l # Len(pairs) + 1
    <3>1. l \in 1..Len(pairs)
      BY <1>1, <2>2
    <3> QED
      BY <1>1, <3>1, Zenon
  <2> QED
    BY <2>1, <2>2
<1> QED
  BY <1>2

\* Values of one length take the same room.
LEMMA SameRoom ==
  ASSUME NEW pairs \in Pairs, NEW i \in Strings, NEW v \in Values, NEW j \in Strings, NEW w \in Values, v[2] = w[2]
  PROVE  Length(pairs \o <<<<i, v>>>>) = Length(pairs \o <<<<j, w>>>>)
<1>1. PICK a : /\ a = pairs \o <<<<i, v>>>> /\ a \in Seq(Strings \X Values)
               /\ Len(a) = Len(pairs) + 1 /\ Len(pairs) \in Nat /\ a[Len(pairs) + 1] = <<i, v>>
               /\ \A k \in 1..Len(pairs) : a[k] = pairs[k]
  <2>0. pairs \o <<<<i, v>>>> \in Seq(Strings \X Values)
    BY DEF Pairs
  <2>1. PICK a \in Seq(Strings \X Values) : a = pairs \o <<<<i, v>>>>
    BY <2>0, Zenon
  <2>2. /\ Len(a) = Len(pairs) + 1 /\ Len(pairs) \in Nat /\ a[Len(pairs) + 1] = <<i, v>>
        /\ \A k \in 1..Len(pairs) : a[k] = pairs[k]
    BY <2>1, PairJoined
  <2> QED
    BY <2>1, <2>2
<1>2. PICK b : /\ b = pairs \o <<<<j, w>>>> /\ b \in Seq(Strings \X Values)
               /\ Len(b) = Len(pairs) + 1 /\ Len(pairs) \in Nat /\ b[Len(pairs) + 1] = <<j, w>>
               /\ \A k \in 1..Len(pairs) : b[k] = pairs[k]
  <2>0. pairs \o <<<<j, w>>>> \in Seq(Strings \X Values)
    BY DEF Pairs
  <2>1. PICK b \in Seq(Strings \X Values) : b = pairs \o <<<<j, w>>>>
    BY <2>0, Zenon
  <2>2. /\ Len(b) = Len(pairs) + 1 /\ Len(pairs) \in Nat /\ b[Len(pairs) + 1] = <<j, w>>
        /\ \A k \in 1..Len(pairs) : b[k] = pairs[k]
    BY <2>1, PairJoined
  <2> QED
    BY <2>1, <2>2
<1>3. DOMAIN a = 1..(Len(pairs) + 1) /\ DOMAIN b = 1..(Len(pairs) + 1)
  BY <1>1, <1>2
<1>4. \A k \in 1..(Len(pairs) + 1) : a[k][2][2] = b[k][2][2]
  <2>1. \A k \in 1..(Len(pairs) + 1) : k = Len(pairs) + 1 \/ k \in 1..Len(pairs)
    BY <1>1
  <2> QED
    BY <1>1, <1>2, <2>1
<1>5. [k \in DOMAIN a |-> a[k][2][2]] = [k \in DOMAIN b |-> b[k][2][2]]
  BY <1>3, <1>4
<1>6. Length(a) = Length(b)
  BY <1>5, Zenon DEF Length
<1> QED
  BY <1>1, <1>2, <1>6

\* What has been told stays told.
LEMMA PreparedMore ==
  ASSUME NEW log, NEW more, \A i : Written(log, i) => Written(more, i), NEW next, Prepared(log, next)
  PROVE  Prepared(more, next)
  BY DEF Prepared

\* Of what the client has executed nothing changes.
LEMMA LearntKept ==
  ASSUME NEW s \in ServerType, NEW t \in ServerType, NEW c \in ClientType, Both(s, c), Later(s, t), Learnt(s, c)
  PROVE  Learnt(t, c)
<1>1. c.executed \in Nat /\ s.sent \in Nat /\ c.executed <= s.sent
  BY EndsTyped, WithinLog
<1>2. \A k \in 1..c.executed : t.log[k] = s.log[k]
  BY <1>1 DEF Later
<1>3. \A i \in Strings : Known(t.log, c.executed, i, c.strings[i])
  BY <1>1, <1>2, KnownKept DEF Learnt
<1>4. c.executed > 0 => t.log[c.executed] = s.log[c.executed]
  BY <1>1, <1>2
<1> QED
  BY <1>3, <1>4 DEF Learnt

\* The server puts a command into its queue.
LEMMA PutTells ==
  ASSUME NEW s \in ServerType, NEW t \in ServerType, NEW c \in ClientType, Both(s, c),
         Learnt(s, c), Covered(s, c), Sized(s), Filled(s),
         NEW command \in Told, PutIn(s, t, command), ReceivedSame(s, t), SentSame(s, t), ServerSame(s, t),
         IsCs(command) => /\ \A k \in 1..Len(command[2]) : Short(command[2][k][1]) /\ command[2][k][2][2] \in ShortSizes
                          /\ \A n \in (s.sent + 1)..s.sequence : IsCs(s.log[n]) => Full(s.log[n]),
         IsFragment(command) => ~Short(command[2]),
         command[1] = "cmd" => Prepared(s.log, command[2]), command[1] = "precache" => Prepared(s.log, <<"begin">>)
  PROVE  /\ Learnt(t, c) /\ Covered(t, c) /\ Sized(t) /\ Filled(t)
         /\ \A i \in Strings : (Current(s, i) /\ ~Writes(command, i)) \/ Sets(command, i, s.configStrings[i]) => Current(t, i)
         /\ \A i : Written(s.log, i) \/ Writes(command, i) => Written(t.log, i)
<1>1. s.sequence = Len(s.log) /\ s.sent <= s.sequence /\ s.sequence \in Nat /\ s.sent \in Nat
  BY EndsTyped, WithinLog
<1>2. /\ Later(s, t) /\ t.sequence = s.sequence + 1 /\ t.log[s.sequence + 1] = command
      /\ \A n \in 1..s.sequence : t.log[n] = s.log[n]
  BY <1>1, EndsTyped, PutInGrows
<1>3. Len(t.log) = s.sequence + 1
  BY <1>1 DEF PutIn, ServerType
<1>4. t.configStrings = s.configStrings /\ t.state = s.state /\ t.sent = s.sent
  BY DEF ServerSame, SentSame
<1>5. Learnt(t, c)
  BY <1>2, LearntKept
<1>6. \A n \in 1..Len(t.log) : n = s.sequence + 1 \/ n \in 1..s.sequence
  BY <1>1, <1>3
<1>7. ASSUME NEW i, Written(s.log, i) \/ Writes(command, i) PROVE Written(t.log, i)
  <2>1. CASE Written(s.log, i)
    <3>1. PICK p \in 1..s.sequence : Writes(s.log[p], i)
      BY <1>1, <2>1 DEF Written
    <3>2. p \in 1..Len(t.log) /\ t.log[p] = s.log[p]
      BY <1>1, <1>2, <1>3
    <3> QED
      BY <3>1, <3>2 DEF Written
  <2>2. CASE Writes(command, i)
    <3>1. s.sequence + 1 \in 1..Len(t.log)
      BY <1>1, <1>3
    <3> QED
      BY <1>2, <2>2, <3>1 DEF Written
  <2> QED
    BY <1>7, <2>1, <2>2
<1>8. \A next : Prepared(s.log, next) => Prepared(t.log, next)
  BY <1>7, PreparedMore
<1>9. Covered(t, c)
  <2>1. t.state = "CS_SPAWNED" => \A i \in Strings : Written(t.log, i)
    BY <1>4, <1>7 DEF Covered
  <2>2. \A n \in 1..Len(c.log) : Prepared(t.log, c.log[n])
    BY <1>8 DEF Covered
  <2>3. ASSUME NEW n \in 1..Len(t.log)
        PROVE  /\ t.log[n][1] = "cmd" => Prepared(t.log, t.log[n][2])
               /\ t.log[n][1] = "precache" => Prepared(t.log, <<"begin">>)
    <3>1. CASE n = s.sequence + 1
      BY <1>2, <1>8, <3>1
    <3>2. CASE n \in 1..s.sequence
      BY <1>1, <1>2, <1>8, <3>2 DEF Covered
    <3> QED
      BY <1>6, <3>1, <3>2
  <2> QED
    BY <2>1, <2>2, <2>3 DEF Covered
<1>10. Sized(t)
  <2>1. ASSUME NEW n \in 1..Len(t.log)
        PROVE  /\ IsCs(t.log[n]) => \A k \in 1..Len(t.log[n][2]) :
                                      Short(t.log[n][2][k][1]) /\ t.log[n][2][k][2][2] \in ShortSizes
               /\ IsFragment(t.log[n]) => ~Short(t.log[n][2])
    <3>1. CASE n = s.sequence + 1
      BY <1>2, <3>1
    <3>2. CASE n \in 1..s.sequence
      BY <1>1, <1>2, <3>2 DEF Sized
    <3> QED
      BY <1>6, <3>1, <3>2
  <2> QED
    BY <1>4, <2>1 DEF Sized
<1>11. Filled(t)
  <2>1. ASSUME NEW n \in (t.sent + 1)..t.sequence, NEW k \in (t.sent + 1)..t.sequence, n < k, IsCs(t.log[n]), IsCs(t.log[k])
        PROVE  Full(t.log[n])
    <3>1. n \in (s.sent + 1)..s.sequence /\ n \in 1..s.sequence /\ t.log[n] = s.log[n]
      BY <1>1, <1>2, <1>4, <2>1
    <3>2. CASE k = s.sequence + 1
      BY <1>2, <2>1, <3>1, <3>2
    <3>3. CASE k # s.sequence + 1
      <4>1. k \in (s.sent + 1)..s.sequence /\ k \in 1..s.sequence /\ t.log[k] = s.log[k]
        BY <1>1, <1>2, <1>4, <2>1, <3>3
      <4> QED
        BY <2>1, <3>1, <4>1 DEF Filled
    <3> QED
      BY <3>2, <3>3
  <2> QED
    BY <2>1 DEF Filled
<1>12. ASSUME NEW i \in Strings, (Current(s, i) /\ ~Writes(command, i)) \/ Sets(command, i, s.configStrings[i]) PROVE Current(t, i)
  <2>1. \/ Known(s.log, s.sequence, i, s.configStrings[i]) /\ ~Writes(t.log[s.sequence + 1], i)
        \/ Sets(t.log[s.sequence + 1], i, s.configStrings[i])
    BY <1>1, <1>2, <1>12 DEF Current
  <2>2. Known(t.log, s.sequence + 1, i, s.configStrings[i])
    BY <1>1, <1>2, <2>1, KnownMore
  <2> QED
    BY <1>3, <1>4, <2>2 DEF Current
<1> QED
  BY <1>5, <1>7, <1>9, <1>10, <1>11, <1>12

\* Only the last command with configstrings has room.
LEMMA LastHasRoom ==
  ASSUME OneLength, NEW s \in ServerType, NEW c \in ClientType, Both(s, c), Held(s), Sized(s), Filled(s),
         NEW i \in Strings, NEW v \in Values, v[2] \in ShortSizes, NEW n \in HasRoom(s, <<<<i, v>>>>)
  PROVE  /\ n \in (s.sent + 1)..s.sequence /\ IsCs(s.log[n]) /\ Slot(s, n) = s.log[n] /\ ~Full(s.log[n])
         /\ \A k \in (s.sent + 1)..s.sequence : IsCs(s.log[k]) => k <= n
<1>1. s.acknowledged <= s.sent /\ s.acknowledged \in Nat /\ s.sent \in Nat /\ s.sequence \in Nat
  <2>1. s.acknowledged <= c.executed /\ c.executed <= s.sent /\ c.executed \in Nat
    BY EndsTyped, WithinLog
  <2> QED
    BY <2>1, EndsTyped, WithinLog
<1>2. /\ n \in (s.sent + 1)..s.sequence /\ IsCs(Slot(s, n)) /\ Length(Slot(s, n)[2] \o <<<<i, v>>>>) <= Capacity
  BY DEF HasRoom
<1>3. Slot(s, n) = s.log[n]
  BY <1>1, <1>2 DEF Held
<1>4. s.log[n][2] \in Pairs
  <2>1. n \in 1..Len(s.log)
    BY <1>1, <1>2, EndsTyped, WithinLog
  <2>2. s.log[n] \in Told
    BY <2>1 DEF ServerType
  <2> QED
    BY <1>2, <1>3, <2>2, CsPairs
<1>5. ~Full(s.log[n])
  <2>1. <<0, v[2]>> \in Values
    BY DEF Values
  <2>2. Length(s.log[n][2] \o <<<<i, <<0, v[2]>>>>>>) <= Capacity
    BY <1>2, <1>3, <1>4, <2>1, SameRoom
  <2> QED
    BY <2>2 DEF Full
<1>6. \A k \in (s.sent + 1)..s.sequence : IsCs(s.log[k]) => k <= n
  <2>1. ASSUME NEW k \in (s.sent + 1)..s.sequence, IsCs(s.log[k]), n < k PROVE FALSE
    BY <1>2, <1>3, <1>5, <2>1 DEF Filled
  <2>2. n \in Int /\ \A k \in (s.sent + 1)..s.sequence : k \in Int /\ (k <= n \/ n < k)
    BY <1>1, <1>2
  <2> QED
    BY <2>1, <2>2
<1> QED
  BY <1>2, <1>3, <1>5, <1>6

\* The server adds to a command that is not sent.
LEMMA AmendTells ==
  ASSUME OneLength, NEW s \in ServerType, NEW t \in ServerType, NEW c \in ClientType, Both(s, c), Held(s),
         Learnt(s, c), Covered(s, c), Sized(s), Filled(s),
         NEW i \in Strings, Short(i), \A j \in Strings : j # i => Current(s, j),
         NEW v \in Values, v = s.configStrings[i], NEW n \in HasRoom(s, <<<<i, v>>>>), Amended(s, t, n, <<<<i, v>>>>),
         ReceivedSame(s, t), SentSame(s, t), ServerSame(s, t)
  PROVE  /\ Learnt(t, c) /\ Covered(t, c) /\ Sized(t) /\ Filled(t) /\ \A j \in Strings : Current(t, j)
         /\ \A j : Written(s.log, j) => Written(t.log, j)
         /\ Written(t.log, i)
<1>1. s.sequence = Len(s.log) /\ s.sent <= s.sequence /\ s.sequence \in Nat /\ s.sent \in Nat
  BY EndsTyped, WithinLog
<1>2. v[2] \in ShortSizes
  BY DEF Sized
<1>3. /\ n \in (s.sent + 1)..s.sequence /\ IsCs(s.log[n]) /\ Slot(s, n) = s.log[n]
      /\ \A k \in (s.sent + 1)..s.sequence : IsCs(s.log[k]) => k <= n
  BY <1>2, LastHasRoom
<1>4. <<<<i, v>>>> \in Pairs
  BY PairTyped
<1>5. /\ Later(s, t) /\ t.sequence = s.sequence /\ n \in 1..s.sequence
      /\ t.log[n] = <<"cs", s.log[n][2] \o <<<<i, v>>>>>> /\ \A k \in 1..s.sequence : k # n => t.log[k] = s.log[k]
  <2>1. PICK pairs \in Pairs : pairs = <<<<i, v>>>>
    BY <1>4
  <2>2. n \in HasRoom(s, pairs) /\ Amended(s, t, n, pairs)
    BY <2>1
  <2>3. /\ Later(s, t) /\ t.sequence = s.sequence /\ n \in 1..s.sequence
        /\ t.log[n] = <<"cs", Slot(s, n)[2] \o pairs>> /\ \A k \in 1..s.sequence : k # n => t.log[k] = s.log[k]
    BY <1>1, <2>2, AmendedGrows
  <2>4. t.log[n] = <<"cs", s.log[n][2] \o pairs>>
    BY <1>3, <2>3
  <2> QED
    BY <2>1, <2>3, <2>4
<1>6. Len(t.log) = s.sequence
  BY <1>1, <1>4 DEF Amended, ServerType
<1>7. t.configStrings = s.configStrings /\ t.state = s.state /\ t.sent = s.sent
  BY DEF ServerSame, SentSame
<1>8. s.log[n] \in Told /\ s.log[n] = <<"cs", s.log[n][2]>> /\ s.log[n][2] \in Pairs
  <2>1. s.log[n] \in Told
    <3>1. s.log \in Seq(Told) /\ n \in 1..Len(s.log)
      BY <1>1, <1>5 DEF ServerType
    <3> QED
      BY <3>1, ElementOfSeq
  <2>2. PICK command \in Told : command = s.log[n] /\ IsCs(command)
    BY <1>3, <2>1
  <2>3. command = <<"cs", command[2]>> /\ command[2] \in Pairs
    BY <2>2, CsPairs
  <2> QED
    BY <2>2, <2>3
<1>9. /\ Sets(t.log[n], i, v) /\ \A j : Writes(s.log[n], j) => Writes(t.log[n], j)
      /\ \A j : j # i /\ Writes(t.log[n], j) => Writes(s.log[n], j)
      /\ \A j, w : j # i /\ Sets(s.log[n], j, w) => Sets(t.log[n], j, w)
  <2>1. PICK pairs \in Pairs : pairs = s.log[n][2]
    BY <1>8
  <2>2. s.log[n] = <<"cs", pairs>> /\ t.log[n] = <<"cs", pairs \o <<<<i, v>>>>>>
    BY <1>5, <1>8, <2>1
  <2>3. /\ Sets(<<"cs", pairs \o <<<<i, v>>>>>>, i, v)
        /\ \A j : Writes(<<"cs", pairs>>, j) => Writes(<<"cs", pairs \o <<<<i, v>>>>>>, j)
        /\ \A j : j # i /\ Writes(<<"cs", pairs \o <<<<i, v>>>>>>, j) => Writes(<<"cs", pairs>>, j)
        /\ \A j, w : j # i /\ Sets(<<"cs", pairs>>, j, w) => Sets(<<"cs", pairs \o <<<<i, v>>>>>>, j, w)
    BY JoinedSays, Zenon
  <2> QED
    BY <2>2, <2>3, Zenon
<1>10. IsCs(t.log[n]) /\ t.log[n][1] # "cmd" /\ t.log[n][1] # "precache" /\ ~IsFragment(t.log[n])
  BY <1>5 DEF IsCs, IsFragment
<1>11. Learnt(t, c)
  BY <1>5, LearntKept
<1>12. ASSUME NEW j, Written(s.log, j) PROVE Written(t.log, j)
  <2>1. PICK p \in 1..s.sequence : Writes(s.log[p], j)
    BY <1>1, <1>12 DEF Written
  <2>2. Writes(t.log[p], j)
    BY <1>5, <1>9, <2>1
  <2> QED
    BY <1>6, <2>2 DEF Written
<1>13. Written(t.log, i)
  <2>1. Writes(t.log[n], i)
    BY <1>9, SetsWrites
  <2> QED
    BY <1>5, <1>6, <2>1 DEF Written
<1>14. Covered(t, c)
  <2>1. \A next : Prepared(s.log, next) => Prepared(t.log, next)
    BY <1>12, PreparedMore
  <2>2. t.state = "CS_SPAWNED" => \A j \in Strings : Written(t.log, j)
    BY <1>7, <1>12 DEF Covered
  <2>3. \A k \in 1..Len(c.log) : Prepared(t.log, c.log[k])
    BY <2>1 DEF Covered
  <2>4. ASSUME NEW k \in 1..Len(t.log)
        PROVE  /\ t.log[k][1] = "cmd" => Prepared(t.log, t.log[k][2])
               /\ t.log[k][1] = "precache" => Prepared(t.log, <<"begin">>)
    <3>1. CASE k = n
      BY <1>10, <3>1
    <3>2. CASE k # n
      BY <1>1, <1>5, <1>6, <2>1, <3>2 DEF Covered
    <3> QED
      BY <3>1, <3>2
  <2> QED
    BY <2>2, <2>3, <2>4 DEF Covered
<1>15. Sized(t)
  <2>1. ASSUME NEW k \in 1..Len(t.log)
        PROVE  /\ IsCs(t.log[k]) => \A l \in 1..Len(t.log[k][2]) :
                                      Short(t.log[k][2][l][1]) /\ t.log[k][2][l][2][2] \in ShortSizes
               /\ IsFragment(t.log[k]) => ~Short(t.log[k][2])
    <3>1. CASE k # n
      BY <1>1, <1>5, <1>6, <2>1, <3>1 DEF Sized
    <3>2. CASE k = n
      <4>1. PICK pairs, more : pairs \in Pairs /\ pairs = s.log[n][2] /\ more = pairs \o <<<<i, v>>>>
        BY <1>8
      <4>2. t.log[n] = <<"cs", more>>
        BY <1>5, <4>1
      <4>3. \A l \in 1..Len(pairs) : Short(pairs[l][1]) /\ pairs[l][2][2] \in ShortSizes
        BY <1>1, <1>3, <1>5, <4>1 DEF Sized
      <4>4. \A l \in 1..Len(more) : Short(more[l][1]) /\ more[l][2][2] \in ShortSizes
        BY <1>2, <4>1, <4>3, JoinedFits
      <4>5. t.log[n][2] = more
        BY <4>2
      <4> QED
        BY <1>10, <3>2, <4>4, <4>5, Zenon
    <3> QED
      BY <3>1, <3>2
  <2> QED
    BY <1>7, <2>1 DEF Sized
<1>16. Filled(t)
  <2>1. ASSUME NEW m \in (t.sent + 1)..t.sequence, NEW k \in (t.sent + 1)..t.sequence, m < k, IsCs(t.log[m]), IsCs(t.log[k])
        PROVE  Full(t.log[m])
    <3>1. m \in (s.sent + 1)..s.sequence /\ k \in (s.sent + 1)..s.sequence /\ m \in 1..s.sequence /\ k \in 1..s.sequence
      BY <1>1, <1>5, <1>7, <2>1
    <3>2. IsCs(s.log[k])
      BY <1>3, <1>5, <2>1, <3>1
    <3>3. m < n
      BY <1>1, <1>3, <2>1, <3>1, <3>2
    <3>4. t.log[m] = s.log[m]
      BY <1>1, <1>5, <3>1, <3>3
    <3> QED
      BY <2>1, <3>1, <3>2, <3>4 DEF Filled
  <2> QED
    BY <2>1 DEF Filled
<1>17. ASSUME NEW j \in Strings, j # i PROVE Current(t, j)
  <2>1. Known(s.log, s.sequence, j, s.configStrings[j])
    BY <1>1, <1>17 DEF Current
  <2>2. Writes(t.log[n], j) <=> Writes(s.log[n], j)
    BY <1>9, <1>17
  <2>3. Known(t.log, s.sequence, j, s.configStrings[j])
    BY <1>1, <1>5, <1>9, <1>17, <2>1, <2>2, KnownAmended
  <2> QED
    BY <1>6, <1>7, <2>3 DEF Current
<1>18. Current(t, i)
  <2>1. ASSUME NEW q \in (n + 1)..s.sequence PROVE ~Writes(t.log[q], i)
    <3>1. q # n /\ q \in 1..s.sequence /\ q \in (s.sent + 1)..s.sequence /\ ~(q <= n)
      BY <1>1, <1>3
    <3>2. t.log[q] = s.log[q] /\ ~IsCs(s.log[q])
      BY <1>3, <1>5, <3>1
    <3>3. ~(IsFragment(s.log[q]) /\ s.log[q][2] = i)
      BY <1>1, <3>1 DEF Sized
    <3> QED
      BY <3>2, <3>3 DEF Writes
  <2>2. Stands(t.log, s.sequence, i, v)
    BY <1>5, <1>9, <2>1 DEF Stands
  <2> QED
    BY <1>6, <1>7, <2>2 DEF Current, Known
<1> QED
  BY <1>11, <1>12, <1>13, <1>14, <1>15, <1>16, <1>17, <1>18

\* SV_AddServerCommand, of what does not join others.
LEMMA OtherTells ==
  ASSUME NEW s \in ServerType, NEW c \in ClientType, Both(s, c), Telling(s, c), NEW command \in Told, ~IsCs(command),
         IsFragment(command) => ~Short(command[2]),
         command[1] = "cmd" => Prepared(s.log, command[2]), command[1] = "precache" => Prepared(s.log, <<"begin">>),
         \A i \in Strings : Writes(command, i) => Sets(command, i, s.configStrings[i]),
         NEW t, t = AddServerCommand(s, command), t.state # "CS_ZOMBIE"
  PROVE  /\ Telling(t, c) /\ t.configStrings = s.configStrings
         /\ \A i : Written(s.log, i) \/ Writes(command, i) => Written(t.log, i)
<1>1. t \in ServerType /\ Queued(s, t, command)
  BY Added DEF JoinsEarlier
<1>2. PutIn(s, t, command) /\ ReceivedSame(s, t) /\ SentSame(s, t) /\ ServerSame(s, t)
  BY <1>1, ServerPut DEF Queued
<1>3. /\ Learnt(t, c) /\ Covered(t, c) /\ Sized(t) /\ Filled(t)
      /\ \A i \in Strings : (Current(s, i) /\ ~Writes(command, i)) \/ Sets(command, i, s.configStrings[i]) => Current(t, i)
      /\ \A i : Written(s.log, i) \/ Writes(command, i) => Written(t.log, i)
  BY <1>1, <1>2, PutTells DEF Telling
<1>4. \A i \in Strings : Current(t, i)
  BY <1>3 DEF Telling
<1> QED
  BY <1>2, <1>3, <1>4 DEF Telling, ServerSame

\* SV_AddServerCommand, of a configstring.
LEMMA StringTells ==
  ASSUME OneLength, NEW s \in ServerType, NEW c \in ClientType, Both(s, c), Held(s),
         Learnt(s, c), Covered(s, c), Sized(s), Filled(s),
         NEW i \in Strings, Short(i), \A j \in Strings : j # i => Current(s, j),
         NEW v \in Values, v = s.configStrings[i],
         NEW t, t = AddServerCommand(s, <<"cs", <<<<i, v>>>>>>), t.state # "CS_ZOMBIE"
  PROVE  Telling(t, c) /\ Written(t.log, i) /\ \A j : Written(s.log, j) => Written(t.log, j)
<1>1. PICK command \in Told : command = <<"cs", <<<<i, v>>>>>> /\ IsCs(command) /\ command[2] = <<<<i, v>>>> /\ command[2] \in Pairs
  BY PairTyped
<1>2. t \in ServerType /\ (JoinsEarlier(s, t, command) \/ Queued(s, t, command))
  BY <1>1, Added
<1>3. CASE JoinsEarlier(s, t, command)
  <2>1. PICK n \in HasRoom(s, <<<<i, v>>>>) : t = Amend(s, n, <<<<i, v>>>>)
    BY <1>1, <1>3 DEF JoinsEarlier
  <2>2. Amended(s, t, n, <<<<i, v>>>>) /\ ReceivedSame(s, t) /\ SentSame(s, t) /\ ServerSame(s, t)
    BY <1>1, <2>1, ServerAmend
  <2> QED
    BY <1>2, <2>2, AmendTells DEF Telling
<1>4. CASE Queued(s, t, command)
  <2>1. PutIn(s, t, command) /\ ReceivedSame(s, t) /\ SentSame(s, t) /\ ServerSame(s, t)
    BY <1>1, <1>4, ServerPut DEF Queued
  <2>2. v[2] \in ShortSizes
    BY DEF Sized
  <2>3. ASSUME NEW n \in (s.sent + 1)..s.sequence, IsCs(s.log[n]) PROVE Full(s.log[n])
    <3>1. s.acknowledged <= s.sent /\ s.acknowledged \in Nat /\ s.sent \in Nat /\ s.sequence = Len(s.log) /\ s.sequence \in Nat
      <4>1. s.acknowledged <= c.executed /\ c.executed <= s.sent /\ c.executed \in Nat
        BY EndsTyped, WithinLog
      <4> QED
        BY <4>1, EndsTyped, WithinLog
    <3>2. Slot(s, n) = s.log[n]
      BY <3>1 DEF Held
    <3>3. ~(Length(s.log[n][2] \o <<<<i, v>>>>) <= Capacity)
      BY <1>1, <1>4, <2>3, <3>2 DEF Queued, HasRoom
    <3>4. s.log[n][2] \in Pairs
      <4>1. n \in 1..Len(s.log)
        BY <3>1
      <4>2. s.log[n] \in Told
        BY <4>1 DEF ServerType
      <4> QED
        BY <2>3, <4>2, CsPairs
    <3>5. ASSUME NEW j \in Strings, NEW size \in ShortSizes, Length(s.log[n][2] \o <<<<j, <<0, size>>>>>>) <= Capacity PROVE FALSE
      <4>1. size = v[2]
        BY <2>2 DEF OneLength
      <4>2. <<0, size>> \in Values
        BY <4>1 DEF Values
      <4>3. Length(s.log[n][2] \o <<<<i, v>>>>) = Length(s.log[n][2] \o <<<<j, <<0, size>>>>>>)
        BY <3>4, <4>1, <4>2, SameRoom
      <4> QED
        BY <3>3, <3>5, <4>3
    <3> QED
      BY <3>5 DEF Full
  <2>4. Len(<<<<i, v>>>>) = 1 /\ <<<<i, v>>>>[1] = <<i, v>>
    OBVIOUS
  <2>5. ~IsFragment(command) /\ command[1] # "cmd" /\ command[1] # "precache"
    BY <1>1 DEF IsFragment
  <2>6. \A k \in 1..Len(command[2]) : Short(command[2][k][1]) /\ command[2][k][2][2] \in ShortSizes
    BY <1>1, <2>2, <2>4
  <2>7. \A j \in Strings : j # i => ~Writes(command, j)
    BY <1>1, <2>4, <2>5 DEF Writes
  <2>8. Sets(command, i, v) /\ Writes(command, i)
    <3>1. 1 \in 1..1 /\ \A j \in (1 + 1)..1 : FALSE
      OBVIOUS
    <3>2. Sets(command, i, v)
      BY <1>1, <2>4, <3>1 DEF Sets
    <3> QED
      BY <3>2, SetsWrites
  <2>9. /\ Learnt(t, c) /\ Covered(t, c) /\ Sized(t) /\ Filled(t)
        /\ \A j \in Strings : (Current(s, j) /\ ~Writes(command, j)) \/ Sets(command, j, s.configStrings[j]) => Current(t, j)
        /\ \A j : Written(s.log, j) \/ Writes(command, j) => Written(t.log, j)
    BY <1>2, <2>1, <2>3, <2>5, <2>6, PutTells
  <2>10. \A j \in Strings : Current(t, j)
    BY <2>7, <2>8, <2>9
  <2> QED
    BY <2>8, <2>9, <2>10 DEF Telling
<1> QED
  BY <1>2, <1>3, <1>4

\* What the server may become while it tells strings: all that was written in
\* a log stays so, and more is.
Writing(c, log, S) ==
  {t \in ServerType : t.state # "CS_ZOMBIE" => /\ Telling(t, c)
                                               /\ \A i : Written(log, i) \/ i \in S => Written(t.log, i)}

\* SV_AddFragmentedConfigString.
LEMMA FragmentsTell ==
  ASSUME NEW c \in ClientType, NEW s \in ServerType, Both(s, c), Telling(s, c), NEW i \in Strings, ~Short(i),
         NEW v \in Values, v = s.configStrings[i], NumFragments(v[2]) \in 1..MaxFragments
  PROVE  AddFragmentedConfigString(s, i, v) \in Writing(c, s.log, {i})
<1> DEFINE n == NumFragments(v[2])
           Part(k) == {t \in ServerType : t.state # "CS_ZOMBIE" => /\ Both(t, c) /\ Telling(t, c) /\ t.configStrings[i] = v
                                                                   /\ \A j : Written(s.log, j) => Written(t.log, j)
                                                                   /\ k = n => Written(t.log, i)}
           G == [k \in 0..n |-> Part(k)]
<1>1. n \in Nat /\ n > 0 /\ 0 \in 0..n /\ n \in 0..n /\ \A k \in 1..n : k \in 0..n /\ k - 1 \in 0..n /\ k # 0
  BY FragmentsFit
<1>2. \A k \in 1..n : Fragment(i, v, k - 1) \in Told
  BY FragmentTyped
<1>3. \A k \in 1..n : Fragment(i, v, k - 1) = <<"csf", i, k - 1, n, v>>
  BY DEF Fragment
<1> HIDE DEF n
<1>4. \A k \in 0..n : G[k] = Part(k)
  OBVIOUS
<1> HIDE DEF G
<1>5. s \in G[0]
  BY <1>1, <1>4
<1>6. ASSUME NEW k \in 1..n, NEW t \in ServerType, t \in G[k - 1] PROVE AddServerCommand(t, Fragment(i, v, k - 1)) \in G[k]
  <2>1. PICK command \in Told : command = Fragment(i, v, k - 1) /\ command = <<"csf", i, k - 1, n, v>>
    BY <1>2, <1>3
  <2>2. PICK u \in ServerType : u = AddServerCommand(t, command)
    BY Added
  <2>3. ASSUME u.state # "CS_ZOMBIE"
        PROVE  /\ Both(u, c) /\ Telling(u, c) /\ u.configStrings[i] = v
               /\ \A j : Written(s.log, j) => Written(u.log, j)
               /\ k = n => Written(u.log, i)
    <3>1. t.state # "CS_ZOMBIE"
      BY <2>2, <2>3, Added
    <3>2. Both(t, c) /\ Telling(t, c) /\ t.configStrings[i] = v /\ \A j : Written(s.log, j) => Written(t.log, j)
      BY <1>1, <1>4, <1>6, <3>1
    <3>3. /\ ~IsCs(command) /\ IsFragment(command) /\ command[2] = i /\ command[5] = v
          /\ command[1] # "cmd" /\ command[1] # "precache" /\ (IsOpen(command) <=> k - 1 + 1 < n)
      BY <2>1 DEF IsCs, IsFragment, IsOpen
    <3>4. \A j \in Strings : Writes(command, j) => Sets(command, j, t.configStrings[j])
      BY <3>2, <3>3 DEF Writes, Sets
    <3>5. k = n => Writes(command, i)
      BY <1>1, <3>3 DEF Writes
    <3>6. /\ Telling(u, c) /\ u.configStrings = t.configStrings
          /\ \A j : Written(t.log, j) \/ Writes(command, j) => Written(u.log, j)
      BY <2>2, <2>3, <3>2, <3>3, <3>4, OtherTells
    <3>7. Both(u, c)
      BY <2>2, <2>3, <3>2, AddedKeepsNumbers
    <3> QED
      BY <3>2, <3>5, <3>6, <3>7
  <2> QED
    BY <1>1, <1>4, <2>1, <2>2, <2>3
<1> HIDE DEF Part
<1>7. AddFragmentedConfigString(s, i, v) \in G[n]
  BY <1>5, <1>6, FragmentsKeep DEF n
<1> USE DEF Part
<1> QED
  BY <1>1, <1>4, <1>7 DEF Writing

\* SV_SendConfigString.
LEMMA ConfigStringTells ==
  ASSUME OneLength, NEW c \in ClientType, NEW s \in Quieted(c), s.state # "CS_ZOMBIE" => Telling(s, c), NEW i \in Strings
  PROVE  SendConfigString(s, i, s.configStrings[i]) \in Writing(c, s.log, {i})
<1>1. s \in ServerType
  BY DEF Quieted
<1>2. PICK v \in Values : v = s.configStrings[i] /\ (v[2] < Capacity \/ NumFragments(v[2]) \in 1..MaxFragments)
  BY <1>1, ConfigStringFits
<1>3. PICK t \in ServerType : t = SendConfigString(s, i, v)
  BY <1>2, ConfigStringFlows DEF Quieted
<1>4. CASE s.state = "CS_ZOMBIE"
  <2>1. s \in Spoken(s, c)
    BY <1>1, <1>4 DEF Spoken
  <2>2. t \in Spoken(s, c)
    <3>1. SendConfigString(s, i, s.configStrings[i]) \in Spoken(s, c)
      BY <1>1, <2>1, SpokenConfigString
    <3> QED
      BY <1>2, <1>3, <3>1
  <2>3. t.state = "CS_ZOMBIE"
    BY <1>4, <2>2 DEF Spoken
  <2> QED
    BY <1>2, <1>3, <2>3 DEF Writing
<1>5. CASE s.state # "CS_ZOMBIE"
  <2>1. Both(s, c) /\ Telling(s, c) /\ Held(s)
    BY <1>5 DEF Quieted, Streaming, Flowing, Contents
  <2>2. CASE Short(i)
    <3>1. v[2] < Capacity
      <4>1. v[2] \in ShortSizes
        BY <1>2, <2>1, <2>2 DEF Telling, Sized
      <4>2. \A size \in ShortSizes : size < Capacity
        BY SizesAssumption DEF ShortSizes, Short
      <4> QED
        BY <4>1, <4>2
    <3>2. t = AddServerCommand(s, <<"cs", <<<<i, v>>>>>>)
      BY <1>3, <3>1 DEF SendConfigString
    <3>3. t.state # "CS_ZOMBIE" => Telling(t, c) /\ Written(t.log, i) /\ \A j : Written(s.log, j) => Written(t.log, j)
      BY <1>1, <1>2, <2>1, <2>2, <3>2, StringTells DEF Telling
    <3> QED
      BY <1>2, <1>3, <3>3 DEF Writing
  <2>3. CASE ~Short(i)
    <3>1. ~(v[2] < Capacity)
      <4>1. v[2] >= Capacity
        BY <1>2, <2>1, <2>3 DEF Telling, Sized
      <4> QED
        BY <4>1, SizesAssumption DEF Values
    <3>2. t = AddFragmentedConfigString(s, i, v)
      BY <1>3, <3>1 DEF SendConfigString
    <3> QED
      BY <1>1, <1>2, <1>3, <2>1, <2>3, <3>1, <3>2, FragmentsTell
  <2> QED
    BY <2>2, <2>3
<1> QED
  BY <1>4, <1>5

\* What has been told does not depend on the rest of the slot and the client.
LEMMA TellingKept ==
  ASSUME NEW s \in ServerType, NEW t \in ServerType, NEW c \in ClientType, NEW d \in ClientType, Telling(s, c),
         AddedSame(s, t), t.sent >= s.sent, t.configStrings = s.configStrings,
         t.state = "CS_SPAWNED" => s.state = "CS_SPAWNED" \/ \A i \in Strings : Written(s.log, i),
         d.executed = c.executed, d.strings = c.strings, d.buffer = c.buffer,
         \A n \in 1..Len(d.log) : Prepared(s.log, d.log[n])
  PROVE  Telling(t, d)
<1>1. t.log = s.log /\ t.sequence = s.sequence /\ s.sent \in Nat /\ t.sent \in Nat /\ s.sequence \in Nat
  BY EndsTyped, EndNumbers DEF AddedSame
<1>2. Learnt(t, d)
  BY <1>1 DEF Telling, Learnt
<1>3. \A i \in Strings : Current(t, i)
  BY <1>1 DEF Telling, Current
<1>4. Covered(t, d)
  BY <1>1 DEF Telling, Covered
<1>5. Sized(t)
  BY <1>1 DEF Telling, Sized
<1>6. Filled(t)
  <2>1. \A n \in (t.sent + 1)..t.sequence : n \in (s.sent + 1)..s.sequence
    BY <1>1
  <2> QED
    BY <1>1, <2>1 DEF Telling, Filled
<1> QED
  BY <1>2, <1>3, <1>4, <1>5, <1>6 DEF Telling

\* Nothing is said to a zombie.
LEMMA ZombieIsToldNothing ==
  ASSUME NEW c \in ClientType, NEW s \in ServerType, s.state = "CS_ZOMBIE", NEW i \in Strings
  PROVE  SendConfigString(s, i, s.configStrings[i]).state = "CS_ZOMBIE"
<1>1. s \in Spoken(s, c)
  BY DEF Spoken
<1>2. SendConfigString(s, i, s.configStrings[i]) \in Spoken(s, c)
  BY <1>1, SpokenConfigString
<1> QED
  BY <1>2 DEF Spoken

\* What the server may become while it reads a message.
Tells(c) == {t \in ServerType : t.state # "CS_ZOMBIE" => Telling(t, c)}

\* Configstrings of the server from the given one on.
LEMMA ConfigstringsTell ==
  ASSUME OneLength, NEW c \in ClientType, NEW s \in Quieted(c), s.state # "CS_ZOMBIE", Telling(s, c),
         NEW start \in 0..NumStrings, \A i \in 0..(start - 1) : Written(s.log, i)
  PROVE  Configstrings(s, start) \in Tells(c)
<1> DEFINE Until(k) == {t \in Quieted(c) : t.state # "CS_ZOMBIE" => Telling(t, c) /\ \A i \in 0..(k - 1) : Written(t.log, i)}
           G == [k \in 0..NumStrings |-> Until(k)]
<1>1. \A k \in 0..NumStrings : G[k] = Until(k)
  OBVIOUS
<1>2. /\ Strings = 0..(NumStrings - 1) /\ NumStrings \in Nat
      /\ \A i \in Strings : i \in 0..NumStrings /\ i + 1 \in 0..NumStrings /\ (i + 1) - 1 = i
      /\ \A i \in Strings : \A j \in 0..i : j = i \/ j \in 0..(i - 1)
  BY FragmentsFit, SizesAssumption DEF Strings, NumStrings
<1>3. s \in ServerType
  BY DEF Quieted
<1> HIDE DEF G
<1>4. ASSUME NEW i \in Strings, NEW t \in ServerType, t \in G[i] PROVE SendConfigString(t, i, t.configStrings[i]) \in G[i + 1]
  <2>1. t \in Until(i)
    BY <1>1, <1>2, <1>4
  <2>2. t \in Quieted(c) /\ (t.state # "CS_ZOMBIE" => Telling(t, c) /\ \A j \in 0..(i - 1) : Written(t.log, j))
    BY <2>1
  <2>3. PICK u : u = SendConfigString(t, i, t.configStrings[i])
    OBVIOUS
  <2>4. u \in Quieted(c) /\ u \in Writing(c, t.log, {i})
    BY <2>2, <2>3, ConfigStringFlows, ConfigStringTells
  <2>5. ASSUME u.state # "CS_ZOMBIE" PROVE Telling(u, c) /\ \A j \in 0..((i + 1) - 1) : Written(u.log, j)
    <3>1. t.state # "CS_ZOMBIE"
      BY <2>3, <2>5, ZombieIsToldNothing
    <3>2. Telling(u, c) /\ \A j : Written(t.log, j) \/ j = i => Written(u.log, j)
      BY <2>4, <2>5 DEF Writing
    <3> QED
      BY <1>2, <2>2, <3>1, <3>2
  <2>6. u \in Until(i + 1)
    BY <2>4, <2>5
  <2> QED
    BY <1>1, <1>2, <2>3, <2>6
<1>5. [s EXCEPT !.state = "CS_CONNECTED"] \in G[start]
  <2>0. PICK t : t = [s EXCEPT !.state = "CS_CONNECTED"]
    OBVIOUS
  <2>1. t \in ServerType /\ t.state = "CS_CONNECTED" /\ AddedSame(s, t) /\ SentSame(s, t) /\ t.configStrings = s.configStrings
    BY <1>3, <2>0 DEF ServerType, AddedSame, SentSame
  <2>2. t \in Quieted(c)
    BY <1>3, <2>0, StateFlows
  <2>3. t.sent >= s.sent /\ t.log = s.log
    BY <1>3, <2>1, EndsTyped, EndNumbers DEF SentSame, AddedSame
  <2>4. \A n \in 1..Len(c.log) : Prepared(s.log, c.log[n])
    BY DEF Telling, Covered
  <2>5. Telling(t, c)
    BY <1>3, <2>1, <2>3, <2>4, TellingKept
  <2> QED
    BY <1>1, <2>0, <2>1, <2>2, <2>3, <2>5
<1> HIDE DEF Until
<1>6. PICK t \in ServerType, next \in 0..NumStrings : t \in G[next] /\ Configstrings(s, start) = AskAgain(t, next)
  BY <1>3, <1>4, <1>5, ConfigstringsKeep
<1>7. t \in Quieted(c) /\ (t.state # "CS_ZOMBIE" => Telling(t, c) /\ \A i \in 0..(next - 1) : Written(t.log, i))
  BY <1>1, <1>6 DEF Until
<1>8. PICK asked \in Asked, command \in Told :
        /\ asked = (IF next = NumStrings THEN <<"baselines">> ELSE <<"configstrings", next>>)
        /\ command = <<"cmd", asked>> /\ Configstrings(s, start) = AddServerCommand(t, command)
  <2>1. (IF next = NumStrings THEN <<"baselines">> ELSE <<"configstrings", next>>) \in Asked
    BY DEF Asked
  <2> QED
    BY <1>6, <2>1, NextAskTyped DEF AskAgain
<1>9. PICK u \in ServerType : u = Configstrings(s, start)
  BY <1>8, Added
<1>10. ASSUME u.state # "CS_ZOMBIE" PROVE Telling(u, c)
  <2>1. t.state # "CS_ZOMBIE"
    BY <1>8, <1>9, <1>10, Added
  <2>2. Both(t, c) /\ Telling(t, c)
    BY <1>7, <2>1 DEF Quieted
  <2>3. Prepared(t.log, asked)
    <3>1. CASE next = NumStrings
      <4>1. asked[1] = "baselines"
        BY <1>8, <3>1
      <4> QED
        BY <1>2, <1>7, <2>1, <3>1, <4>1 DEF Prepared
    <3>2. CASE next # NumStrings
      <4>1. asked[1] = "configstrings" /\ asked[2] = next
        BY <1>8, <3>2
      <4> QED
        BY <1>7, <2>1, <4>1 DEF Prepared
    <3> QED
      BY <3>1, <3>2
  <2>4. ~IsCs(command) /\ ~IsFragment(command) /\ command[1] = "cmd" /\ command[2] = asked
    BY <1>8 DEF IsCs, IsFragment
  <2>5. \A i \in Strings : ~Writes(command, i)
    BY <2>4 DEF Writes
  <2> QED
    BY <1>8, <1>9, <1>10, <2>2, <2>3, <2>4, <2>5, OtherTells
<1> QED
  BY <1>9, <1>10 DEF Tells

\* SV_ExecuteUserCommand.
LEMMA UserCommandTells ==
  ASSUME OneLength, NEW c \in ClientType, NEW s \in Flowed(c), s.state # "CS_ZOMBIE", Telling(s, c),
         NEW command \in Asked, IsAsk(command) => s \in Quieted(c), Prepared(s.log, command)
  PROVE  ExecuteUserCommand(s, command) \in Tells(c)
<1>1. s \in ServerType /\ Both(s, c) /\ \A n \in 1..Len(c.log) : Prepared(s.log, c.log[n])
  BY DEF Flowed, Telling, Covered
<1>2. CASE command[1] = "configstrings" /\ s.state \in {"CS_CONNECTING", "CS_CONNECTED"}
  <2>1. command[2] \in 0..NumStrings /\ s \in Quieted(c)
    BY <1>2 DEF Asked, Empty, IsAsk
  <2>2. ExecuteUserCommand(s, command) = Configstrings(s, command[2])
    BY <1>2 DEF ExecuteUserCommand
  <2>3. \A i \in 0..(command[2] - 1) : Written(s.log, i)
    BY <1>2 DEF Prepared
  <2> QED
    BY <2>1, <2>2, <2>3, ConfigstringsTell
<1>3. CASE command[1] = "baselines" /\ s.state = "CS_CONNECTED"
  <2>1. PICK answer \in Told : answer = <<"precache">>
    BY DEF Told
  <2>2. PICK t \in ServerType : t = AddServerCommand(s, answer)
    BY <1>1, Added
  <2>3. ~IsCs(answer) /\ ~IsFragment(answer) /\ answer[1] = "precache"
    BY <2>1 DEF IsCs, IsFragment
  <2>4. Prepared(s.log, <<"begin">>)
    BY <1>3 DEF Prepared
  <2>5. \A i \in Strings : ~Writes(answer, i)
    BY <2>3 DEF Writes
  <2>6. PICK u \in ServerType : u = Send(t) /\ SentOne(t, u) /\ ReceivedSame(t, u) /\ AddedSame(t, u) /\ ServerSame(t, u)
    BY ServerSend
  <2>7. ExecuteUserCommand(s, command) = u
    BY <1>3, <2>1, <2>2, <2>6 DEF ExecuteUserCommand
  <2>8. ASSUME u.state # "CS_ZOMBIE" PROVE Telling(u, c)
    <3>1. t.state # "CS_ZOMBIE"
      BY <2>6, <2>8 DEF ServerSame
    <3>2. Telling(t, c)
      BY <1>1, <2>2, <2>3, <2>4, <2>5, <3>1, OtherTells
    <3>3. Both(t, c)
      BY <1>1, <2>2, <3>1, AddedKeepsNumbers
    <3>4. t.sent <= t.sequence /\ u.sent = t.sequence
      BY <2>6, <3>3, EndsTyped, WithinLog DEF SentOne
    <3>5. \A n \in 1..Len(c.log) : Prepared(t.log, c.log[n])
      BY <3>2 DEF Telling, Covered
    <3> QED
      BY <2>6, <3>2, <3>4, <3>5, TellingKept DEF ServerSame
  <2> QED
    BY <2>7, <2>8 DEF Tells
<1>4. CASE command[1] = "begin" /\ s.state = "CS_CONNECTED"
  <2>1. PICK t : t = [s EXCEPT !.state = "CS_SPAWNED"]
    OBVIOUS
  <2>2. ExecuteUserCommand(s, command) = t
    BY <1>4, <2>1 DEF ExecuteUserCommand
  <2>3. t \in ServerType /\ AddedSame(s, t) /\ SentSame(s, t) /\ t.configStrings = s.configStrings
    BY <1>1, <2>1 DEF ServerType, AddedSame, SentSame
  <2>4. \A i \in Strings : Written(s.log, i)
    BY <1>4 DEF Prepared
  <2>5. t.sent >= s.sent
    BY <1>1, <2>3, EndsTyped, EndNumbers DEF SentSame
  <2>6. Telling(t, c)
    BY <1>1, <2>3, <2>4, <2>5, TellingKept
  <2> QED
    BY <2>2, <2>3, <2>6 DEF Tells
<1>5. CASE command[1] = "begin" /\ s.state # "CS_CONNECTED"
  <2>1. ExecuteUserCommand(s, command) = Drop(s)
    BY <1>5 DEF ExecuteUserCommand
  <2> QED
    BY <1>1, <2>1, Dropped DEF Tells
<1>6. CASE /\ ~(command[1] = "configstrings" /\ s.state \in {"CS_CONNECTING", "CS_CONNECTED"})
           /\ ~(command[1] = "baselines" /\ s.state = "CS_CONNECTED") /\ command[1] # "begin"
  <2>1. ExecuteUserCommand(s, command) = s
    BY <1>6 DEF ExecuteUserCommand
  <2> QED
    BY <1>1, <2>1 DEF Tells
<1> QED
  BY <1>2, <1>3, <1>4, <1>5, <1>6

LEMMA ServerExecutesTells ==
  ASSUME OneLength, NEW c \in ClientType, NEW s \in Flowed(c), s.state # "CS_ZOMBIE" => Telling(s, c),
         NEW n \in [number : Nat, command : Asked], s.state # "CS_ZOMBIE" => n.number <= s.executed + 1,
         n.number <= c.sent, n.command = c.log[n.number]
  PROVE  ServerExecutes(s, n) \in Tells(c)
<1>1. s \in ServerType /\ s.executed \in Nat /\ c.sent \in Nat /\ n.command \in Asked /\ n.number \in Nat
  BY EndsTyped, EndNumbers DEF Flowed
<1>2. CASE s.state = "CS_ZOMBIE" \/ n.number <= s.executed
  <2>1. ServerExecutes(s, n) = s
    BY <1>2 DEF ServerExecutes, Executed
  <2> QED
    BY <1>1, <2>1 DEF Tells
<1>3. CASE ~(s.state = "CS_ZOMBIE" \/ n.number <= s.executed)
  <2>1. n.number = s.executed + 1 /\ s.state # "CS_ZOMBIE" /\ Both(s, c)
    BY <1>1, <1>3 DEF Flowed
  <2>2. PICK e \in Flowed(c) :
          /\ ServerExecutes(s, n) = ExecuteUserCommand(e, n.command) /\ e.state # "CS_ZOMBIE"
          /\ IsAsk(n.command) => e \in Quieted(c)
          /\ AddedSame(s, e) /\ SentSame(s, e) /\ ServerSame(s, e)
    BY <2>1, CommandRead
  <2>3. n.number \in 1..Len(c.log)
    <3>1. Typed(s, Told, Asked) /\ Typed(c, Asked, Told) /\ Both(c, s)
      BY <1>1, <2>1, EndsTyped DEF Both
    <3>2. c.sent <= Len(c.log)
      BY <3>1, WithinLog
    <3>3. Len(c.log) \in Nat
      BY DEF ClientType
    <3> QED
      BY <1>1, <2>1, <3>2, <3>3
  <2>4. \A k \in 1..Len(c.log) : Prepared(s.log, c.log[k])
    BY <2>1 DEF Telling, Covered
  <2>5. e \in ServerType /\ e.sent >= s.sent /\ e.configStrings = s.configStrings /\ e.state = s.state /\ e.log = s.log
    BY <1>1, <2>2, EndsTyped, EndNumbers DEF Flowed, SentSame, ServerSame, AddedSame
  <2>6. Telling(e, c)
    BY <1>1, <2>1, <2>2, <2>4, <2>5, TellingKept
  <2>7. Prepared(e.log, n.command)
    BY <2>3, <2>4, <2>5
  <2> QED
    BY <1>1, <2>2, <2>6, <2>7, UserCommandTells
<1> QED
  BY <1>2, <1>3

\* SV_ParseClientMessage.
LEMMA ClientMessageTells ==
  ASSUME OneLength, NEW c \in ClientType, NEW d \in ClientType, NEW s \in ServerType, s.state # "CS_ZOMBIE", Both(s, c),
         Streaming(s, c), Telling(s, c),
         c.net # <<>>, d.net = Tail(c.net), d.sent = c.sent, ReceivedSame(c, d), AddedSame(c, d), ClientSame(c, d)
  PROVE  ParseClientMessage(s, c.net[1]) \in Tells(d)
<1>a. PICK n \in Nat : \E h : ServerRun(h, n, s, ParseClientMessage(s, c.net[1]), d)
  BY ClientMessageSteps
<1>0. PICK h : ServerRun(h, n, s, ParseClientMessage(s, c.net[1]), d)
  BY <1>a
<1>1. /\ h \in [0..n -> ServerType] /\ h[n] = ParseClientMessage(s, c.net[1]) /\ \A k \in 0..n : h[k] \in Flowed(d)
      /\ AddedSame(s, h[0]) /\ SentSame(s, h[0]) /\ ServerSame(s, h[0])
      /\ \A k \in 1..n : \E x \in [number : Nat, command : Asked] :
           /\ h[k] = ServerExecutes(h[k - 1], x)
           /\ h[k - 1].state # "CS_ZOMBIE" => x.number <= h[k - 1].executed + 1
           /\ x.number <= d.sent /\ x.command = d.log[x.number]
  BY <1>0, Zenon DEF ServerRun
<1> DEFINE good == {k \in 0..n : h[k] \in Tells(d)}
<1>2. 0 \in good
  <2>1. PICK g \in ServerType : g = h[0]
    BY <1>1
  <2>2. /\ AddedSame(s, g) /\ g.sent >= s.sent /\ g.configStrings = s.configStrings /\ g.state = s.state
        /\ d.executed = c.executed /\ d.strings = c.strings /\ d.buffer = c.buffer /\ d.log = c.log
    <3>1. s.sent \in Nat
      BY EndsTyped, EndNumbers
    <3> QED
      BY <1>1, <2>1, <3>1 DEF SentSame, ServerSame, ReceivedSame, AddedSame, ClientSame, PiecesSame
  <2>3. \A k \in 1..Len(d.log) : Prepared(s.log, d.log[k])
    BY <2>2 DEF Telling, Covered
  <2>4. Telling(g, d)
    BY <2>2, <2>3, TellingKept
  <2> QED
    BY <2>1, <2>4 DEF Tells
<1>3. ASSUME NEW k \in 1..n, k - 1 \in good PROVE k \in good
  <2>1. k \in 0..n /\ k - 1 \in 0..n
    OBVIOUS
  <2>2. PICK e \in Flowed(d) : e = h[k - 1] /\ e \in Tells(d)
    BY <1>1, <1>3, <2>1
  <2>3. PICK x \in [number : Nat, command : Asked] :
          /\ h[k] = ServerExecutes(e, x)
          /\ e.state # "CS_ZOMBIE" => x.number <= e.executed + 1
          /\ x.number <= d.sent /\ x.command = d.log[x.number]
    BY <1>1, <2>2
  <2>4. e.state # "CS_ZOMBIE" => Telling(e, d)
    BY <2>2 DEF Tells
  <2>5. h[k] \in Tells(d)
    BY <2>3, <2>4, ServerExecutesTells
  <2> QED
    BY <2>1, <2>5
<1> HIDE DEF good
<1>4. \A k \in 0..n : k \in good
  BY <1>2, <1>3, UpTo, Zenon
<1>5. n \in good
  BY <1>4
<1> QED
  BY <1>1, <1>5 DEF good

-----------------------------------------------------------------------------
(* What the client learns.                                                 *)

\* CL_ParseConfigstringCommand: of several values of a string the last one
\* stays.
PairsSet(c, d, pairs) ==
  /\ d.buffer = c.buffer /\ d.log = c.log
  /\ \A i \in Strings :
       \/ (\A k \in 1..Len(pairs) : pairs[k][1] # i) /\ d.strings[i] = c.strings[i]
       \/ \E k \in 1..Len(pairs) : pairs[k] = <<i, d.strings[i]>> /\ \A j \in (k + 1)..Len(pairs) : pairs[j][1] # i

LEMMA PairsLearnt ==
  ASSUME NEW c \in ClientType, NEW pairs \in Pairs, NEW d, d = ParseConfigstrings(c, pairs)
  PROVE  PairsSet(c, d, pairs)
<1>1. PICK h \in [0..Len(pairs) -> [Strings -> Values]] :
        /\ h[0] = c.strings /\ d = [c EXCEPT !.strings = h[Len(pairs)]]
        /\ \A k \in 1..Len(pairs) : h[k] = Setting(h[k - 1], pairs[k])
  BY PairsRun
<1>2. PICK n \in Nat : n = Len(pairs)
  BY DEF Pairs
<1>3. d.buffer = c.buffer /\ d.log = c.log /\ d.strings = h[n]
  BY <1>1, <1>2 DEF ClientType
<1>4. \A k \in 1..n : pairs[k] \in Strings \X Values
  BY <1>2 DEF Pairs
<1>5. ASSUME NEW i \in Strings
      PROVE  \/ (\A k \in 1..n : pairs[k][1] # i) /\ h[n][i] = c.strings[i]
             \/ \E k \in 1..n : pairs[k] = <<i, h[n][i]>> /\ \A j \in (k + 1)..n : pairs[j][1] # i
  <2> DEFINE Old(k)  == (\A j \in 1..k : pairs[j][1] # i) /\ h[k][i] = c.strings[i]
             LastPair(k) == \E j \in 1..k : pairs[j] = <<i, h[k][i]>> /\ \A l \in (j + 1)..k : pairs[l][1] # i
             good    == {k \in 0..n : Old(k) \/ LastPair(k)}
  <2>1. 0 \in good
    BY <1>1
  <2>2. ASSUME NEW k \in 1..n, k - 1 \in good PROVE k \in good
    <3>1. k \in 0..n /\ k - 1 \in 0..n /\ h[k - 1] \in [Strings -> Values] /\ h[k] = Setting(h[k - 1], pairs[k])
      BY <1>1, <1>2
    <3>2. PICK pair \in Strings \X Values : pair = pairs[k]
      BY <1>4
    <3>3. pair = <<pair[1], pair[2]>> /\ h[k] = [h[k - 1] EXCEPT ![pair[1]] = pair[2]]
      BY <3>1, <3>2 DEF Setting
    <3>4. CASE pair[1] = i
      <4>1. h[k][i] = pair[2]
        BY <3>1, <3>3, <3>4
      <4>2. pairs[k] = <<i, h[k][i]>>
        BY <3>2, <3>3, <3>4, <4>1
      <4>3. k \in 1..k /\ \A l \in (k + 1)..k : FALSE
        OBVIOUS
      <4>4. LastPair(k)
        BY <4>2, <4>3
      <4> QED
        BY <3>1, <4>4
    <3>5. CASE pair[1] # i
      <4>1. h[k][i] = h[k - 1][i]
        BY <3>1, <3>3, <3>5
      <4>2. CASE Old(k - 1)
        <5>1. \A j \in 1..k : j = k \/ j \in 1..(k - 1)
          OBVIOUS
        <5>2. Old(k)
          BY <3>2, <3>5, <4>1, <4>2, <5>1
        <5> QED
          BY <3>1, <5>2
      <4>3. CASE LastPair(k - 1)
        <5>1. PICK j \in 1..(k - 1) : pairs[j] = <<i, h[k - 1][i]>> /\ \A l \in (j + 1)..(k - 1) : pairs[l][1] # i
          BY <4>3
        <5>2. j \in 1..k /\ \A l \in (j + 1)..k : l = k \/ l \in (j + 1)..(k - 1)
          OBVIOUS
        <5>3. LastPair(k)
          BY <3>2, <3>5, <4>1, <5>1, <5>2
        <5> QED
          BY <3>1, <5>3
      <4> HIDE DEF Old, LastPair
      <4> QED
        BY <2>2, <4>2, <4>3
    <3> HIDE DEF good
    <3> QED
      BY <3>4, <3>5
  <2>3. \A k \in 0..n : k \in good
    <3> HIDE DEF good
    <3> QED
      BY <2>1, <2>2, UpTo, Zenon
  <2>4. n \in good
    <3> HIDE DEF good
    <3> QED
      BY <2>3
  <2> QED
    BY <2>4
<1>6. ASSUME NEW i \in Strings
      PROVE  \/ (\A k \in 1..Len(pairs) : pairs[k][1] # i) /\ d.strings[i] = c.strings[i]
             \/ \E k \in 1..Len(pairs) : pairs[k] = <<i, d.strings[i]>> /\ \A j \in (k + 1)..Len(pairs) : pairs[j][1] # i
  <2>1. \/ (\A k \in 1..n : pairs[k][1] # i) /\ h[n][i] = c.strings[i]
        \/ \E k \in 1..n : pairs[k] = <<i, h[n][i]>> /\ \A j \in (k + 1)..n : pairs[j][1] # i
    BY <1>5
  <2> QED
    BY <1>2, <1>3, <2>1, Zenon
<1> QED
  BY <1>3, <1>6, Zenon DEF PairsSet

\* CL_AddConfigStringFragment: the last fragment makes the string.
LEMMA FragmentLearnt ==
  ASSUME NEW c \in ClientType, NEW i \in Strings, NEW k \in 0..(MaxFragments - 1), NEW count \in Nat, NEW v \in Values,
         ~IsOutOfPlace(c, i, k), \A j \in 0..(k - 1) : c.buffer[j] = v, NEW d, d = AddFragment(c, i, k, count, v)
  PROVE  /\ d.log = c.log /\ \A j \in 0..k : d.buffer[j] = v
         /\ \A j \in Strings : d.strings[j] = IF j = i /\ k + 1 = count THEN v ELSE c.strings[j]
<1> DEFINE buffer == [c.buffer EXCEPT ![k] = v]
           value == IF \A j \in 0..k : buffer[j] = v THEN v ELSE Garbage
<1>1. \A j \in 0..k : buffer[j] = v
  <2>1. c.buffer \in [0..(MaxFragments - 1) -> Values] /\ MaxFragments \in Nat
    BY FragmentsFit DEF ClientType
  <2>2. \A j \in 0..k : j = k \/ j \in 0..(k - 1)
    OBVIOUS
  <2>3. \A j \in 0..k : j \in 0..(MaxFragments - 1)
    BY <2>1
  <2> QED
    BY <2>1, <2>2, <2>3
<1>2. value = v /\ c.strings \in [Strings -> Values]
  BY <1>1 DEF ClientType
<1> HIDE DEF buffer
<1>3. CASE k + 1 # count
  <2>1. d = [c EXCEPT !.buffer = buffer, !.fragmentIndex = i, !.fragmentNum = k]
    BY <1>3 DEF AddFragment, buffer
  <2>2. d.log = c.log /\ d.buffer = buffer /\ d.strings = c.strings
    BY <2>1 DEF ClientType
  <2> QED
    BY <1>1, <1>3, <2>2
<1>4. CASE k + 1 = count
  <2>1. d = [c EXCEPT !.buffer = buffer, !.fragmentIndex = 0, !.fragmentNum = 0, !.strings[i] = value]
    BY <1>4 DEF AddFragment, buffer
  <2>2. PICK f \in [Strings -> Values] : f = [c.strings EXCEPT ![i] = v]
    BY <1>2
  <2> HIDE DEF value
  <2>3. d = [c EXCEPT !.buffer = buffer, !.fragmentIndex = 0, !.fragmentNum = 0, !.strings = f]
    BY <1>2, <2>1, <2>2
  <2>4. d.log = c.log /\ d.buffer = buffer /\ d.strings = f
    BY <2>3 DEF ClientType
  <2> QED
    BY <1>1, <1>2, <1>4, <2>2, <2>4
<1> QED
  BY <1>3, <1>4

\* CL_ParseServerCommand.
LEMMA ServerCommandTells ==
  ASSUME NEW s \in ServerType, NEW c \in ClientType, NEW e \in ClientType, Both(s, c), Steady(s, c), Telling(s, c),
         NEW n \in [number : Nat, command : Told], n.number = c.executed + 1, n.number <= s.sent,
         n.command = s.log[n.number], Executing(c, e, n), AddedSame(c, e), ClientSame(c, e),
         NEW d \in ClientType, d = ParseServerCommand(e, n.command), d.executed = c.executed + 1, Steady(s, d)
  PROVE  Telling(s, d)
<1>1. c.executed \in Nat /\ Len(s.log) \in Nat /\ c.executed + 1 \in 1..Len(s.log)
  <2>1. s.sequence = Len(s.log) /\ s.sent <= s.sequence /\ s.sequence \in Nat /\ s.sent \in Nat /\ c.executed \in Nat
    BY EndsTyped, WithinLog
  <2> QED
    BY <2>1
<1>2. PICK command \in Told : command = n.command /\ command = s.log[c.executed + 1] /\ d = ParseServerCommand(e, command)
  OBVIOUS
<1>3. /\ e.log = c.log /\ e.strings = c.strings /\ e.buffer = c.buffer /\ e.fragmentIndex = c.fragmentIndex
      /\ e.fragmentNum = c.fragmentNum /\ \A m \in 1..Len(c.log) : Prepared(s.log, c.log[m])
  BY DEF AddedSame, ClientSame, PiecesSame, Telling, Covered
<1>4. ASSUME \A i \in Strings : \/ ~Writes(command, i) /\ d.strings[i] = c.strings[i]
                                \/ Sets(command, i, d.strings[i]),
             IsOpen(command) => \A j \in 0..command[3] : d.buffer[j] = command[5],
             \A m \in 1..Len(d.log) : Prepared(s.log, d.log[m])
      PROVE  Telling(s, d)
  <2>1. ASSUME NEW i \in Strings PROVE Known(s.log, c.executed + 1, i, d.strings[i])
    <3>1. Known(s.log, c.executed, i, c.strings[i])
      BY DEF Telling, Learnt
    <3>2. \/ Known(s.log, c.executed, i, d.strings[i]) /\ ~Writes(s.log[c.executed + 1], i)
          \/ Sets(s.log[c.executed + 1], i, d.strings[i])
      BY <1>2, <1>4, <3>1
    <3> QED
      BY <1>1, <3>2, KnownMore
  <2>2. Learnt(s, d)
    BY <1>2, <1>4, <2>1 DEF Learnt
  <2>3. Covered(s, d)
    BY <1>4 DEF Telling, Covered
  <2> QED
    BY <2>2, <2>3 DEF Telling
<1> HIDE DEF Executing
<1>5. CASE command[1] = "cs"
  <2>1. PICK pairs \in Pairs : pairs = command[2] /\ d = ParseConfigstrings(e, pairs) /\ IsCs(command) /\ ~IsFragment(command)
    BY <1>2, <1>5, CsPairs DEF ParseServerCommand, IsCs, IsFragment
  <2>2. PairsSet(e, d, pairs)
    BY <2>1, PairsLearnt
  <2>3. ASSUME NEW i \in Strings
        PROVE  \/ ~Writes(command, i) /\ d.strings[i] = c.strings[i]
               \/ Sets(command, i, d.strings[i])
    <3>1. Writes(command, i) <=> \E k \in 1..Len(pairs) : pairs[k][1] = i
      BY <2>1 DEF Writes
    <3>2. (\E k \in 1..Len(pairs) : pairs[k] = <<i, d.strings[i]>> /\ \A j \in (k + 1)..Len(pairs) : pairs[j][1] # i)
          => Sets(command, i, d.strings[i])
      BY <2>1, Zenon DEF Sets
    <3> QED
      BY <1>3, <2>2, <3>1, <3>2 DEF PairsSet
  <2>4. ~IsOpen(command)
    BY <2>1 DEF IsOpen
  <2>5. d.log = e.log
    BY <2>2 DEF PairsSet
  <2> QED
    BY <1>3, <1>4, <2>3, <2>4, <2>5
<1>6. CASE command[1] = "csf"
  <2>1. PICK i \in Strings, k \in 0..(MaxFragments - 1), count \in Nat, v \in Values :
          /\ i = command[2] /\ k = command[3] /\ count = command[4] /\ v = command[5] /\ k < count
          /\ IsFragment(command) /\ ~IsCs(command) /\ d = AddFragment(e, i, k, count, v)
    <3>1. IsFragment(command) /\ ~IsCs(command)
      BY <1>6 DEF IsFragment, IsCs
    <3>2. /\ command[2] \in Strings /\ command[3] \in 0..(MaxFragments - 1) /\ command[4] \in Nat
          /\ command[3] < command[4] /\ command[5] \in Values
      BY <3>1, FragmentParts, FragmentsFit
    <3>3. d = AddFragment(e, command[2], command[3], command[4], command[5])
      BY <1>2, <1>6 DEF ParseServerCommand
    <3> QED
      BY <3>1, <3>2, <3>3, Zenon
  <2>2. ~IsOutOfPlace(e, i, k)
    <3>1. ~IsOutOfPlace(c, i, k)
      BY <1>1, <1>2, <2>1, PiecesFit, Zenon DEF Steady
    <3> QED
      BY <1>3, <3>1 DEF IsOutOfPlace
  <2>3. \A j \in 0..(k - 1) : e.buffer[j] = v
    <3>1. CASE k = 0
      BY <3>1
    <3>2. CASE k # 0
      <4>1. k > 0 /\ MaxFragments \in Nat
        BY <3>2, FragmentsFit
      <4>2. c.executed + 1 > 1 /\ Precedes(s.log[(c.executed + 1) - 1], command)
        BY <1>1, <1>2, <2>1, <4>1, Zenon DEF Steady, Linked
      <4>3. (c.executed + 1) - 1 = c.executed /\ c.executed > 0
        BY <1>1, <4>2
      <4>4. PICK last : last = s.log[c.executed]
        OBVIOUS
      <4>5. IsFragment(last) /\ last[3] + 1 = k /\ last[4] = count /\ last[5] = v
        BY <2>1, <4>2, <4>3, <4>4 DEF Precedes
      <4>6. last \in Told
        <5>1. c.executed \in 1..Len(s.log)
          BY <1>1, <4>3
        <5> QED
          BY <4>4, <5>1 DEF ServerType
      <4>7. last[3] \in Nat
        BY <4>5, <4>6, FragmentParts, FragmentsFit
      <4>8. IsOpen(last)
        BY <2>1, <4>5 DEF IsOpen
      <4>9. \A j \in 0..last[3] : c.buffer[j] = v
        BY <4>3, <4>4, <4>5, <4>8 DEF Telling, Learnt
      <4>10. last[3] = k - 1
        BY <4>1, <4>5, <4>7
      <4> QED
        BY <1>3, <4>9, <4>10
    <3> QED
      BY <3>1, <3>2
  <2>4. /\ d.log = e.log /\ \A j \in 0..k : d.buffer[j] = v
        /\ \A j \in Strings : d.strings[j] = IF j = i /\ k + 1 = count THEN v ELSE e.strings[j]
    BY <2>1, <2>2, <2>3, FragmentLearnt
  <2>5. IsOpen(command) <=> k + 1 # count
    <3>1. k \in Nat
      BY FragmentsFit
    <3> QED
      BY <2>1, <3>1 DEF IsOpen
  <2>6. ASSUME NEW j \in Strings
        PROVE  \/ ~Writes(command, j) /\ d.strings[j] = c.strings[j]
               \/ Sets(command, j, d.strings[j])
    <3>1. CASE j = i /\ k + 1 = count
      BY <2>1, <2>4, <2>5, <3>1 DEF Sets
    <3>2. CASE ~(j = i /\ k + 1 = count)
      <4>1. d.strings[j] = c.strings[j]
        BY <1>3, <2>4, <3>2
      <4>2. ~Writes(command, j)
        BY <2>1, <2>5, <3>2 DEF Writes
      <4> QED
        BY <4>1, <4>2
    <3> QED
      BY <3>1, <3>2
  <2> QED
    BY <1>3, <1>4, <2>1, <2>4, <2>6
<1>7. CASE command[1] \in {"cmd", "precache"}
  <2>1. PICK asked \in Asked : d = AddReliableCommand(e, asked) /\ Prepared(s.log, asked)
    <3>1. <<"begin">> \in Asked
      BY DEF Asked
    <3>2. /\ command[1] = "cmd" => Prepared(s.log, command[2])
          /\ command[1] = "precache" => Prepared(s.log, <<"begin">>)
      BY <1>1, <1>2 DEF Telling, Covered
    <3>3. CASE command[1] = "cmd"
      BY <1>2, <3>2, <3>3, ForwardedTyped DEF ParseServerCommand
    <3>4. CASE command[1] = "precache"
      BY <1>2, <3>1, <3>2, <3>4 DEF ParseServerCommand
    <3> QED
      BY <1>7, <3>3, <3>4
  <2>2. d = Put(e, asked)
    BY <2>1, AddedByClient DEF Failing, Steady
  <2>3. PutIn(e, d, asked) /\ ClientSame(e, d)
    BY <2>2, ClientPut
  <2>4. d.strings = c.strings /\ d.log = Append(c.log, asked)
    BY <1>3, <2>3 DEF PutIn, ClientSame, PiecesSame
  <2>5. ASSUME NEW m \in 1..Len(d.log) PROVE Prepared(s.log, d.log[m])
    <3>1. c.log \in Seq(Asked)
      BY DEF ClientType
    <3>2. Len(d.log) = Len(c.log) + 1 /\ d.log[Len(c.log) + 1] = asked /\ \A k \in 1..Len(c.log) : d.log[k] = c.log[k]
      BY <2>4, <3>1, AppendProperties
    <3>3. m = Len(c.log) + 1 \/ m \in 1..Len(c.log)
      BY <3>1, <3>2
    <3> QED
      BY <1>3, <2>1, <3>2, <3>3
  <2>6. ~IsFragment(command) /\ ~IsCs(command) /\ ~IsOpen(command)
    BY <1>7 DEF IsFragment, IsCs, IsOpen
  <2>7. \A i \in Strings : ~Writes(command, i)
    BY <2>6 DEF Writes
  <2> QED
    BY <1>4, <2>4, <2>5, <2>6, <2>7
<1>8. CASE command[1] = "disconnect"
  <2>1. d.state = "CA_DISCONNECTED"
    BY <1>2, <1>8 DEF ParseServerCommand, Disconnect, ClientType
  <2> QED
    BY <2>1 DEF Steady
<1>9. CASE command[1] \notin {"cs", "csf", "cmd", "precache", "disconnect"}
  <2>1. d = e /\ ~IsFragment(command) /\ ~IsCs(command) /\ ~IsOpen(command)
    BY <1>2, <1>9, Zenon DEF ParseServerCommand, IsFragment, IsCs, IsOpen
  <2>2. \A i \in Strings : ~Writes(command, i)
    BY <2>1 DEF Writes
  <2> QED
    BY <1>3, <1>4, <2>1, <2>2
<1> QED
  BY <1>5, <1>6, <1>7, <1>8, <1>9

LEMMA ClientExecutesTells ==
  ASSUME NEW s \in ServerType, NEW c \in ClientType, Both(s, c), Steady(s, c), Telling(s, c),
         NEW n \in [number : Nat, command : Told], n.number <= c.executed + 1, n.number <= s.sent, n.command = s.log[n.number],
         NEW d \in ClientType, d = ClientExecutes(c, n), Steady(s, d)
  PROVE  Telling(s, d)
<1>1. Typed(s, Told, Asked) /\ Typed(c, Asked, Told) /\ c.executed \in Nat /\ Both(c, s)
  BY EndsTyped, EndNumbers DEF Both
<1>2. CASE n.number <= c.executed
  <2>1. d = c
    BY <1>2 DEF ClientExecutes, Executed
  <2> QED
    BY <2>1
<1>3. CASE ~(n.number <= c.executed)
  <2>1. PICK e \in ClientType : e = Execute(c, n) /\ Executing(c, e, n) /\ AddedSame(c, e) /\ SentSame(c, e) /\ ClientSame(c, e)
    BY ClientExecute
  <2>2. d = ParseServerCommand(e, n.command)
    BY <1>3, <2>1 DEF ClientExecutes, Executed, Steady
  <2>3. n.number = c.executed + 1 /\ n.command \in Told
    BY <1>1, <1>3
  <2>4. Both(s, e)
    <3>1. Typed(e, Asked, Told)
      BY EndsTyped
    <3>2. Both(e, s)
      BY <1>1, <2>1, <2>3, <3>1, ExecutingKeepsNumbers
    <3> QED
      BY <3>2 DEF Both
  <2>5. ReceivedSame(e, d)
    <3>1. d.state # "CA_DISCONNECTED"
      BY DEF Steady
    <3> QED
      BY <2>2, <2>3, <2>4, <3>1, ServerCommandKeeps
  <2>6. d.executed = c.executed + 1
    BY <2>1, <2>3, <2>5 DEF ReceivedSame, Executing
  <2> QED
    BY <2>1, <2>2, <2>3, <2>6, ServerCommandTells
<1> QED
  BY <1>2, <1>3

\* CL_ParseServerMessage.
LEMMA ServerMessageTells ==
  ASSUME UserWaits, NEW s \in ServerType, NEW t \in ServerType, NEW c \in ClientType, Both(s, c), Streaming(s, c), Telling(s, c),
         s.net # <<>>, t.net = Tail(s.net), t.sent = s.sent, ReceivedSame(s, t), AddedSame(s, t), ServerSame(s, t),
         NEW d, d = ParseServerMessage(c, s.net[1])
  PROVE  Telling(t, d)
<1>a. PICK n \in Nat : \E h : ClientRun(h, n, t, c, d)
  BY ServerMessageSteps
<1>0. PICK h : ClientRun(h, n, t, c, d)
  BY <1>a
<1>1. /\ h \in [0..n -> ClientType] /\ h[n] = d
      /\ AddedSame(c, h[0]) /\ h[0].executed = c.executed /\ ClientSame(c, h[0])
      /\ \A k \in 0..n : Both(t, h[k]) /\ Steady(t, h[k])
      /\ \A k \in 1..n : \E x \in [number : Nat, command : Told] :
           /\ h[k] = ClientExecutes(h[k - 1], x)
           /\ x.number <= h[k - 1].executed + 1 /\ x.number <= t.sent /\ x.command = t.log[x.number]
  BY <1>0, Zenon DEF ClientRun
<1> DEFINE good == {k \in 0..n : Telling(t, h[k])}
<1>2. 0 \in good
  <2>1. PICK g \in ClientType : g = h[0]
    BY <1>1
  <2>2. /\ t.sent >= s.sent /\ t.configStrings = s.configStrings /\ t.state = s.state
        /\ g.executed = c.executed /\ g.strings = c.strings /\ g.buffer = c.buffer /\ g.log = c.log
    <3>1. s.sent \in Nat
      BY EndsTyped, EndNumbers
    <3> QED
      BY <1>1, <2>1, <3>1 DEF ServerSame, AddedSame, ClientSame, PiecesSame
  <2>3. \A k \in 1..Len(g.log) : Prepared(s.log, g.log[k])
    BY <2>2 DEF Telling, Covered
  <2>4. Telling(t, g)
    BY <2>2, <2>3, TellingKept
  <2> QED
    BY <2>1, <2>4
<1>3. ASSUME NEW k \in 1..n, k - 1 \in good PROVE k \in good
  <2>1. k \in 0..n /\ k - 1 \in 0..n
    OBVIOUS
  <2>2. PICK b \in ClientType, e \in ClientType : b = h[k - 1] /\ e = h[k] /\ Telling(t, b)
    <3>1. PICK b \in ClientType, e \in ClientType : b = h[k - 1] /\ e = h[k]
      BY <1>1, <2>1
    <3>2. Telling(t, b)
      BY <1>3, <3>1
    <3> QED
      BY <3>1, <3>2
  <2>3. Both(t, b) /\ Steady(t, b) /\ Steady(t, e)
    BY <1>1, <2>1, <2>2
  <2>4. PICK x \in [number : Nat, command : Told] :
          e = ClientExecutes(b, x) /\ x.number <= b.executed + 1 /\ x.number <= t.sent /\ x.command = t.log[x.number]
    BY <1>1, <2>2
  <2>5. Telling(t, e)
    BY <2>2, <2>3, <2>4, ClientExecutesTells
  <2> QED
    BY <2>1, <2>2, <2>5
<1> HIDE DEF good
<1>4. \A k \in 0..n : k \in good
  BY <1>2, <1>3, UpTo, Zenon
<1>5. n \in good
  BY <1>4
<1> QED
  BY <1>1, <1>5 DEF good

-----------------------------------------------------------------------------
(* Configstrings arrive as they are.                                       *)

LEMMA ServerReceivesTells ==
  ASSUME OneLength, NEW s \in ServerType, NEW c \in ClientType, s = server, c = client, s.state # "CS_ZOMBIE", Both(s, c),
         Streaming(s, c), Telling(s, c), ServerReceives, server'.state # "CS_ZOMBIE"
  PROVE  Telling(server', client')
<1>1. c.net \in Seq(Messages(Asked)) /\ c.net # <<>>
  BY DEF ServerReceives, ServerCanReceive, ClientType
<1>2. Tail(c.net) \in Seq(Messages(Asked)) /\ Head(c.net) = c.net[1]
  BY <1>1, TailTyped
<1>3. PICK d \in ClientType : /\ d = client' /\ d.net = Tail(c.net) /\ d.sent = c.sent
                              /\ ReceivedSame(c, d) /\ AddedSame(c, d) /\ ClientSame(c, d)
  <2>1. client' = [c EXCEPT !.net = Tail(c.net)]
    BY DEF ServerReceives
  <2>2. PICK net \in Seq(Messages(Asked)) : net = Tail(c.net)
    BY <1>2
  <2>3. client' = [c EXCEPT !.net = net]
    BY <2>1, <2>2
  <2>4. /\ client' \in ClientType /\ client'.net = net /\ client'.sent = c.sent
        /\ ReceivedSame(c, client') /\ AddedSame(c, client') /\ ClientSame(c, client')
    BY <2>3, ClientThinned
  <2> QED
    BY <2>2, <2>4, Zenon
<1>4. server' = ParseClientMessage(s, c.net[1])
  BY <1>2 DEF ServerReceives
<1>5. server' \in Tells(client')
  BY <1>1, <1>3, <1>4, ClientMessageTells
<1> QED
  BY <1>5 DEF Tells

LEMMA ClientReceivesTells ==
  ASSUME UserWaits, NEW s \in ServerType, NEW c \in ClientType, s = server, c = client, Both(s, c),
         Streaming(s, c), Telling(s, c), ClientReceives
  PROVE  Telling(server', client')
<1>1. s.net \in Seq(Messages(Told)) /\ s.net # <<>>
  BY DEF ClientReceives, ClientCanReceive, ServerType
<1>2. Tail(s.net) \in Seq(Messages(Told)) /\ Head(s.net) = s.net[1]
  BY <1>1, TailTyped
<1>3. PICK t \in ServerType : /\ t = server' /\ t.net = Tail(s.net) /\ t.sent = s.sent
                              /\ ReceivedSame(s, t) /\ AddedSame(s, t) /\ ServerSame(s, t)
  <2>1. server' = [s EXCEPT !.net = Tail(s.net)]
    BY DEF ClientReceives
  <2>2. PICK net \in Seq(Messages(Told)) : net = Tail(s.net)
    BY <1>2
  <2>3. server' = [s EXCEPT !.net = net]
    BY <2>1, <2>2
  <2> QED
    BY <2>2, <2>3, ServerThinned
<1>4. client' = ParseServerMessage(c, s.net[1])
  BY <1>2 DEF ClientReceives, Streaming, Flowing
<1> QED
  BY <1>1, <1>3, <1>4, ServerMessageTells

\* The rest of a slot and of a client may change.
LEMMA QuietTells ==
  ASSUME NEW s \in ServerType, NEW t \in ServerType, NEW c \in ClientType, NEW d \in ClientType, Telling(s, c),
         AddedSame(s, t), t.sent >= s.sent, ServerSame(s, t), ReceivedSame(c, d), AddedSame(c, d), ClientSame(c, d)
  PROVE  Telling(t, d)
<1>1. \A n \in 1..Len(d.log) : Prepared(s.log, d.log[n])
  BY DEF AddedSame, Telling, Covered
<1> QED
  BY <1>1, TellingKept DEF ServerSame, ReceivedSame, ClientSame, PiecesSame

LEMMA ServerSendsTells ==
  ASSUME NEW s \in ServerType, NEW c \in ClientType, s = server, c = client, Both(s, c), Telling(s, c), ServerSends
  PROVE  Telling(server', client')
<1>1. server' = Send(s) /\ client' = c
  BY DEF ServerSends
<1>2. PICK t \in ServerType : t = server' /\ SentOne(s, t) /\ AddedSame(s, t) /\ ServerSame(s, t)
  BY <1>1, ServerSend
<1>3. t.sent >= s.sent
  BY <1>2, EndsTyped, EndNumbers DEF SentOne, Both, Numbered, InOrder
<1>4. ReceivedSame(c, c) /\ AddedSame(c, c) /\ ClientSame(c, c)
  BY DEF ReceivedSame, AddedSame, ClientSame, PiecesSame
<1>5. Telling(t, c)
  BY <1>2, <1>3, <1>4, QuietTells
<1> QED
  BY <1>1, <1>2, <1>5

LEMMA BroadcastTells ==
  ASSUME NEW s \in ServerType, NEW c \in ClientType, s = server, c = client, Both(s, c), Telling(s, c),
         Broadcast, server'.state # "CS_ZOMBIE"
  PROVE  Telling(server', client')
<1>1. PICK command \in Told : command = <<"print">>
  BY DEF Told
<1>2. server' = AddServerCommand(s, command) /\ client' = c
  BY <1>1 DEF Broadcast
<1>3. ~IsCs(command) /\ ~IsFragment(command) /\ command[1] # "cmd" /\ command[1] # "precache"
  BY <1>1 DEF IsCs, IsFragment
<1>4. \A i \in Strings : ~Writes(command, i)
  BY <1>3 DEF Writes
<1> QED
  BY <1>2, <1>3, <1>4, OtherTells

\* SV_SetConfigString changes a string and tells the new value.
LEMMA SetConfigStringTells ==
  ASSUME OneLength, Types, NEW s \in ServerType, NEW c \in ClientType, s = server, c = client, Both(s, c),
         Streaming(s, c), Telling(s, c), SetConfigString, server'.state # "CS_ZOMBIE"
  PROVE  Telling(server', client')
<1>1. PICK u \in ServerType, i \in Strings, v \in Values :
        /\ i \in Changeable /\ v[2] \in ChangeSizes
        /\ ReceivedSame(s, u) /\ AddedSame(s, u) /\ SentSame(s, u) /\ u.state = s.state
        /\ u.configStrings[i] = v /\ \A j \in Strings : j # i => u.configStrings[j] = s.configStrings[j]
        /\ server' = AddServerCommand(u, <<"cs", <<<<i, v>>>>>>) /\ client' = c
  BY StringSet
<1>2. Short(i) /\ v[2] \in ShortSizes
  BY <1>1 DEF OneLength, ShortSizes
<1>3. Both(u, c)
  BY <1>1, EndsTyped, QuietKeepsNumbers
<1>4. u.log = s.log /\ u.sequence = s.sequence /\ u.sent = s.sent /\ u.ring = s.ring /\ u.acknowledged = s.acknowledged
  BY <1>1 DEF AddedSame, SentSame, ReceivedSame
<1>5. Held(u)
  BY <1>4 DEF Streaming, Flowing, Contents, Held, Slot
<1>6. Learnt(u, c) /\ Covered(u, c) /\ Filled(u)
  BY <1>1, <1>4 DEF Telling, Learnt, Covered, Filled
<1>7. Sized(u)
  BY <1>1, <1>2, <1>4 DEF Telling, Sized
<1>8. \A j \in Strings : j # i => Current(u, j)
  BY <1>1, <1>4 DEF Telling, Current
<1>9. Telling(server', c)
  BY <1>1, <1>2, <1>3, <1>5, <1>6, <1>7, <1>8, StringTells
<1> QED
  BY <1>1, <1>9

LEMMA ClientSendsTells ==
  ASSUME NEW s \in ServerType, NEW c \in ClientType, s = server, c = client, Telling(s, c), ClientSends
  PROVE  Telling(server', client')
<1>1. PICK d \in ClientType : /\ d = client' /\ ReceivedSame(c, d) /\ AddedSame(c, d) /\ ClientSame(c, d)
  <2>1. client' = Send(c)
    BY DEF ClientSends
  <2> QED
    BY <2>1, ClientSend
<1>2. server' = s
  BY DEF ClientSends
<1>3. AddedSame(s, s) /\ ServerSame(s, s) /\ s.sent >= s.sent
  BY EndsTyped, EndNumbers DEF AddedSame, ServerSame
<1>4. Telling(s, d)
  BY <1>1, <1>3, QuietTells
<1> QED
  BY <1>1, <1>2, <1>4

LEMMA SayTells ==
  ASSUME UserWaits, NEW s \in ServerType, NEW c \in ClientType, s = server, c = client, Both(s, c), Telling(s, c), Say
  PROVE  Telling(server', client')
<1>1. PICK command \in Asked : command = <<"say">>
  BY DEF Asked
<1>2. client' = AddReliableCommand(c, command) /\ server' = s /\ Pending(c) < MaxPending
  BY <1>1 DEF Say
<1>3. Typed(c, Asked, Told) /\ Typed(s, Told, Asked) /\ Both(c, s)
  BY EndsTyped DEF Both
<1>4. /\ c.sequence \in Nat /\ c.acknowledged \in Nat /\ c.sequence = Len(c.log) /\ s.sent \in Nat
      /\ MaxPending \in Nat /\ MaxPending <= RingSize /\ RingSize \in Nat
  BY <1>3, WithinLog, RingAssumption DEF UserWaits
<1>5. ~(Pending(c) > RingSize)
  BY <1>2, <1>4 DEF Pending
<1>6. PICK d \in ClientType : /\ d = client' /\ PutIn(c, d, command)
                              /\ ReceivedSame(c, d) /\ SentSame(c, d) /\ ClientSame(c, d)
  BY <1>2, <1>5, AddedByClient, ClientPut
<1>7. ASSUME NEW n \in 1..Len(d.log) PROVE Prepared(s.log, d.log[n])
  <2>1. d.log = Append(c.log, command) /\ c.log \in Seq(Asked)
    BY <1>6 DEF PutIn, ClientType
  <2>2. CASE n \in 1..Len(c.log)
    <3>1. d.log[n] = c.log[n]
      BY <2>1, <2>2
    <3> QED
      BY <2>2, <3>1 DEF Telling, Covered
  <2>3. CASE n = Len(c.log) + 1
    <3>1. d.log[n][1] = "say"
      BY <1>1, <2>1, <2>3
    <3> QED
      BY <3>1 DEF Prepared
  <2>4. Len(d.log) = Len(c.log) + 1
    BY <2>1
  <2> QED
    BY <1>4, <2>2, <2>3, <2>4
<1>8. AddedSame(s, s) /\ s.sent >= s.sent
  BY <1>4 DEF AddedSame
<1>9. Telling(s, d)
  BY <1>6, <1>7, <1>8, TellingKept DEF ReceivedSame, ClientSame, PiecesSame
<1> QED
  BY <1>2, <1>6, <1>9

LEMMA LoseTells ==
  ASSUME NEW s \in ServerType, NEW c \in ClientType, s = server, c = client, Telling(s, c), Lose
  PROVE  Telling(server', client')
<1>0. /\ s.net \in Seq(Messages(Told)) /\ c.net \in Seq(Messages(Asked))
      /\ AddedSame(s, s) /\ ServerSame(s, s) /\ s.sent >= s.sent /\ ReceivedSame(c, c) /\ AddedSame(c, c) /\ ClientSame(c, c)
  BY EndsTyped, EndNumbers DEF AddedSame, ServerSame, ReceivedSame, ClientSame, PiecesSame, ServerType, ClientType
<1>1. ASSUME NEW i \in DOMAIN s.net, server' = [s EXCEPT !.net = RemoveAt(s.net, i)], client' = c
      PROVE  Telling(server', client')
  <2>1. i \in 1..Len(s.net)
    BY <1>0
  <2>2. PICK g : g = [net |-> RemoveAt(s.net, i)]
    OBVIOUS
  <2>3. g.net = RemoveAt(s.net, i)
    BY <2>2
  <2>4. g.net \in Seq(Messages(Told))
    BY <1>0, <2>1, <2>3, RemovalThins
  <2>5. PICK t \in ServerType : t = server' /\ t.sent = s.sent /\ AddedSame(s, t) /\ ServerSame(s, t)
    BY <1>1, <2>3, <2>4, ServerThinned
  <2>6. t.sent >= s.sent
    BY <1>0, <2>5
  <2>7. Telling(t, c)
    BY <1>0, <2>5, <2>6, QuietTells
  <2> QED
    BY <1>1, <2>5, <2>7
<1>2. ASSUME NEW i \in DOMAIN c.net, client' = [c EXCEPT !.net = RemoveAt(c.net, i)], server' = s
      PROVE  Telling(server', client')
  <2>1. i \in 1..Len(c.net)
    BY <1>0
  <2>2. PICK g : g = [net |-> RemoveAt(c.net, i)]
    OBVIOUS
  <2>3. g.net = RemoveAt(c.net, i)
    BY <2>2
  <2>4. g.net \in Seq(Messages(Asked))
    BY <1>0, <2>1, <2>3, RemovalThins
  <2>5. PICK d \in ClientType : d = client' /\ ReceivedSame(c, d) /\ AddedSame(c, d) /\ ClientSame(c, d)
    BY <1>2, <2>3, <2>4, ClientThinned
  <2>6. Telling(s, d)
    BY <1>0, <2>5, QuietTells
  <2> QED
    BY <1>2, <2>5, <2>6
<1> QED
  BY <1>1, <1>2 DEF Lose

LEMMA StringsInit ==
  ASSUME UserWaits, Init
  PROVE  StringsInv
<1>1. PICK s \in ServerType, c \in ClientType, command \in Asked, d \in {client} :
        s = FirstServer /\ c = FirstClient /\ command = <<"configstrings", 0>> /\ d = Put(c, command)
  BY FirstTyped DEF Init
<1>2. d \in ClientType /\ PutIn(c, d, command) /\ ReceivedSame(c, d)
  BY <1>1, ClientPut
<1>3. server = s /\ client = d
  BY <1>1 DEF Init
<1>4. /\ s.sequence = 0 /\ s.sent = 0 /\ Len(s.log) = 0 /\ s.state = "CS_CONNECTING"
      /\ s.configStrings = [i \in Strings |-> <<0, InitialSizes[i + 1]>>]
      /\ c.log = <<>> /\ c.executed = 0
  BY <1>1 DEF FirstServer, FirstClient
<1>5. Learnt(s, d)
  <2>1. d.executed = 0
    BY <1>2, <1>4 DEF ReceivedSame
  <2> QED
    BY <2>1 DEF Learnt, Known
<1>6. \A i \in Strings : Current(s, i)
  BY <1>4 DEF Current, Known
<1>7. Covered(s, d)
  <2>1. Len(d.log) = 1 /\ d.log[1] = command
    <3>1. d.log = Append(c.log, command) /\ c.log \in Seq(Asked) /\ Len(c.log) = 0
      BY <1>2, <1>4 DEF PutIn, ClientType
    <3> QED
      BY <3>1
  <2>2. Prepared(s.log, <<"configstrings", 0>>)
    BY DEF Prepared
  <2>3. \A n \in 1..Len(d.log) : Prepared(s.log, d.log[n])
    BY <1>1, <2>1, <2>2
  <2> QED
    BY <1>4, <2>3 DEF Covered
<1>8. Sized(s)
  <2>1. ASSUME NEW i \in Strings
        PROVE  IF Short(i) THEN s.configStrings[i][2] \in ShortSizes ELSE s.configStrings[i][2] >= Capacity
    <3>1. InitialSizes[i + 1] \in Nat /\ Capacity \in Nat
      BY FragmentsFit, SizesAssumption
    <3>2. s.configStrings[i][2] = InitialSizes[i + 1]
      BY <1>4
    <3> QED
      BY <3>1, <3>2 DEF Short, ShortSizes
  <2> QED
    BY <1>4, <2>1 DEF Sized
<1>9. Filled(s)
  BY <1>4 DEF Filled
<1> QED
  BY <1>3, <1>5, <1>6, <1>7, <1>8, <1>9, StreamInit DEF StringsInv, Telling

LEMMA StringsStep ==
  ASSUME UserWaits, OneLength, StringsInv, [Next]_vars
  PROVE  StringsInv'
<1>1. StreamInv'
  BY StreamStep DEF StringsInv
<1>2. ASSUME Next, server'.state # "CS_ZOMBIE" PROVE Telling(server', client')
  <2>1. PICK s \in ServerType, c \in ClientType : s = server /\ c = client /\ Types
    BY DEF StringsInv, StreamInv, IInv, Types
  <2>2. s.state # "CS_ZOMBIE"
    BY <1>2, <2>1, ZombieStays
  <2>3. Streaming(s, c) /\ Telling(s, c)
    BY <2>1, <2>2 DEF StringsInv, StreamInv
  <2>4. Both(s, c)
    <3>1. Up(server, client)
      BY <2>1, <2>2, <2>3 DEF Up, Streaming, Flowing
    <3> QED
      BY <2>1, <3>1 DEF StringsInv, StreamInv, IInv, NumbersSound, Both
  <2> QED
    BY <1>2, <2>1, <2>2, <2>3, <2>4, ServerReceivesTells, ClientReceivesTells, ServerSendsTells, BroadcastTells,
       SetConfigStringTells, ClientSendsTells, SayTells, LoseTells DEF Next
<1>3. ASSUME UNCHANGED vars, server'.state # "CS_ZOMBIE" PROVE Telling(server', client')
  BY <1>3 DEF vars, StringsInv
<1>4. server'.state # "CS_ZOMBIE" => Telling(server', client')
  BY <1>2, <1>3
<1> QED
  BY <1>1, <1>4 DEF StringsInv, Telling, Learnt, Current, Covered, Sized, Filled

\* What the client has been told adds up.  Configstrings join commands that
\* are not sent yet, and go in fragments if they are long; with one length of
\* those that do not, an older value never gets into a later command.
THEOREM Tellings == ASSUME UserWaits, OneLength PROVE Spec => []StringsInv
<1>1. Init => StringsInv
  BY StringsInit
<1>2. StringsInv /\ [Next]_vars => StringsInv'
  BY StringsStep
<1> QED
  BY <1>1, <1>2, PTL DEF Spec

\* Of a string that has been told, told and executed all, both ends have the
\* same value.
LEMMA ToldAgree ==
  ASSUME NEW s \in ServerType, NEW c \in ClientType, Both(s, c), Telling(s, c), s.state = "CS_SPAWNED", c.executed = s.sequence
  PROVE  c.strings = s.configStrings
<1>1. s.sequence = Len(s.log) /\ s.sequence \in Nat /\ s.log \in Seq(Told)
  BY EndsTyped, WithinLog DEF ServerType
<1>2. ASSUME NEW i \in Strings PROVE c.strings[i] = s.configStrings[i]
  <2>1. \E p \in 1..s.sequence : Writes(s.log[p], i)
    BY <1>1 DEF Telling, Covered, Written
  <2>2. Stands(s.log, s.sequence, i, c.strings[i])
    BY <2>1 DEF Telling, Learnt, Known
  <2>3. Stands(s.log, s.sequence, i, s.configStrings[i])
    BY <1>1, <2>1 DEF Telling, Current, Known
  <2> QED
    BY <1>1, <2>2, <2>3, StandsOne
<1>3. c.strings \in [Strings -> Values] /\ s.configStrings \in [Strings -> Values]
  BY DEF ClientType, ServerType, ServerStrings
<1> QED
  BY <1>2, <1>3

LEMMA TellingIsAgreeing ==
  ASSUME StringsInv
  PROVE  StringsAgree
<1>1. NoClientError
  BY StreamIsErrorFree DEF StringsInv
<1>2. ASSUME Connected, server.state = "CS_SPAWNED", client.executed = server.sequence
      PROVE  client.strings = server.configStrings
  <2>1. server \in ServerType /\ client \in ClientType
    BY DEF StringsInv, StreamInv, IInv, Types
  <2>2. Both(server, client)
    BY <1>2 DEF StringsInv, StreamInv, IInv, NumbersSound, Both, Up, Connected
  <2>3. Telling(server, client)
    BY <1>2 DEF StringsInv, Connected
  <2> QED
    BY <1>2, <2>1, <2>2, <2>3, ToldAgree
<1> QED
  BY <1>1, <1>2 DEF StringsAgree, ConfigstringsAgree

\* A client that has entered the level and executed all has the strings of the
\* server: those of the batches, what is broadcast between them, and what came
\* in fragments; and no fragment is ever out of place.
THEOREM StringsAgreeHolds == ASSUME UserWaits, OneLength PROVE Spec => []StringsAgree
<1>1. StringsInv => StringsAgree
  BY TellingIsAgreeing
<1>2. Spec => []StringsInv
  BY Tellings
<1> QED
  BY <1>1, <1>2, PTL

=============================================================================
