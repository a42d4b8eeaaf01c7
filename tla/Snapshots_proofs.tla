--------------------------- MODULE Snapshots_proofs ---------------------------
(***************************************************************************)
(* Proofs about Snapshots for every size of the rings, every set of        *)
(* entities and whatever becomes of them, and every number of frames,      *)
(* commands and losses: what the client decodes is what the server has put *)
(* into the snapshot, and demos can be played.                             *)
(***************************************************************************)
EXTENDS SnapshotsInvariant, TLAPS, FiniteSetTheorems, WellFoundedInduction, SequenceTheorems

-----------------------------------------------------------------------------
(* Numbers.                                                                *)

\* Sets of numbers have a least one.
LEMMA LeastNumber ==
  ASSUME NEW S \in SUBSET Nat, S # {}
  PROVE  \E x \in S : \A y \in S : x <= y
<1>1. PICK x \in S : \A y \in S : ~(<<y, x>> \in OpToRel(<, Nat))
  BY NatLessThanWellFounded, WFMin, Zenon
<1>2. ASSUME NEW y \in S PROVE x <= y
  <2>1. ~(y < x)
    BY <1>1 DEF OpToRel
  <2> QED
    BY <2>1
<1> QED
  BY <1>2

\* What holds at first and is kept by every step holds to the end.
LEMMA UpTo ==
  ASSUME NEW n \in Nat, NEW good, 0 \in good, \A i \in 1..n : i - 1 \in good => i \in good
  PROVE  \A i \in 0..n : i \in good
<1> DEFINE bad == {i \in 0..n : i \notin good}
<1>1. SUFFICES ASSUME bad # {} PROVE FALSE
  OBVIOUS
<1>2. PICK b \in bad : \A i \in bad : b <= i
  <2>1. bad \in SUBSET Nat
    OBVIOUS
  <2> QED
    BY <1>1, <2>1, LeastNumber
<1>3. b \in 1..n /\ b - 1 \in 0..n /\ b - 1 \notin bad
  BY <1>2
<1> QED
  BY <1>2, <1>3

\* Bounded sets of numbers have a greatest one.
LEMMA GreatestNumber ==
  ASSUME NEW n \in Nat, NEW S \in SUBSET (0..n), S # {}
  PROVE  Max(S) \in S /\ \A y \in S : y <= Max(S)
<1> DEFINE T == {x \in Nat : n - x \in S}
<1>1. \A y \in S : y \in Nat /\ n - y \in T
  <2>1. \A y \in S : y \in Nat /\ n - y \in Nat /\ n - (n - y) = y
    OBVIOUS
  <2> QED
    BY <2>1
<1>2. T \in SUBSET Nat /\ \A x \in T : n - x \in S
  OBVIOUS
<1> HIDE DEF T
<1>3. PICK x \in T : \A y \in T : x <= y
  <2>1. T # {}
    BY <1>1
  <2> QED
    BY <1>2, <2>1, LeastNumber
<1>4. n - x \in S /\ \A y \in S : n - x >= y
  BY <1>1, <1>2, <1>3
<1>5. Max(S) \in S /\ \A y \in S : Max(S) >= y
  BY <1>4 DEF Max
<1> QED
  BY <1>1, <1>5

\* The place of a number in a ring.
LEMMA Place ==
  ASSUME NEW R \in Nat, R > 0, NEW a \in Int
  PROVE  /\ a % R \in 0..(R - 1) /\ a \div R \in Int
         /\ a = R * (a \div R) + (a % R)
  OBVIOUS

\* Going round the ring changes nothing.
LEMMA Rounds ==
  ASSUME NEW R \in Nat, R > 0, NEW q \in Int, NEW k \in 0..(R - 1)
  PROVE  (R * q + k) % R = k
<1>1. PICK a \in Int : a = R * q + k
  OBVIOUS
<1>2. PICK p \in Int, r \in 0..(R - 1) : p = a \div R /\ r = a % R /\ a = R * p + r
  BY Place
<1>3. PICK d \in Int : d = p - q
  OBVIOUS
<1>4. R * d = k - r
  <2>1. R * p = R * q + R * d
    BY <1>3
  <2> QED
    BY <1>1, <1>2, <2>1
<1>5. CASE d <= -1
  <2>1. R * d <= -R
    BY <1>5
  <2> QED
    BY <1>4, <2>1
<1>6. CASE d >= 1
  <2>1. R * d >= R
    BY <1>6
  <2> QED
    BY <1>4, <2>1
<1>7. CASE d = 0
  BY <1>1, <1>2, <1>4, <1>7
<1> QED
  BY <1>5, <1>6, <1>7

\* Numbers less than a ring apart do not share a place.
LEMMA PlacesDiffer ==
  ASSUME NEW R \in Nat, NEW a \in Nat, NEW b \in Nat, a < b, b < a + R
  PROVE  a % R # b % R
<1>1. R > 0 /\ a \in Int /\ b \in Int
  OBVIOUS
<1>2. PICK p \in Int, r \in 0..(R - 1) : a = R * p + r /\ r = a % R
  BY <1>1, Place
<1>4. PICK q \in Int, u \in 0..(R - 1) : b = R * q + u /\ u = b % R
  BY <1>1, Place
<1>3. ASSUME a % R = b % R PROVE FALSE
  <2>1. PICK d \in Int : d = q - p
    OBVIOUS
  <2>2. R * q = R * p + R * d
    BY <2>1
  <2>3. b - a = R * d
    <3>1. r = u
      BY <1>2, <1>3, <1>4, Zenon
    <3>2. PICK x \in Int, y \in Int, z \in Int : x = R * p /\ y = R * q /\ z = R * d
      BY <2>1
    <3>3. a = x + r /\ b = y + u /\ y = x + z
      BY <1>2, <1>4, <2>2, <3>2, Zenon
    <3>4. b - a = z
      BY <3>1, <3>3
    <3> QED
      BY <3>2, <3>4
  <2>4. CASE d <= 0
    <3>1. R * d <= 0
      BY <2>4
    <3> QED
      BY <2>3, <3>1
  <2>5. CASE d >= 1
    <3>1. R * d >= R
      BY <2>5
    <3> QED
      BY <2>3, <3>1
  <2> QED
    BY <2>4, <2>5
<1> QED
  BY <1>3

\* Going on from a place.
LEMMA Along ==
  ASSUME NEW R \in Nat, R > 0, NEW p \in Int, NEW k \in Int
  PROVE  ((p % R) + k) % R = (p + k) % R
<1>1. PICK q1 \in Int, r1 \in 0..(R - 1) : p = R * q1 + r1 /\ r1 = p % R
  BY Place
<1>2. PICK q2 \in Int, r2 \in 0..(R - 1) : p + k = R * q2 + r2 /\ r2 = (p + k) % R
  <2>1. p + k \in Int
    OBVIOUS
  <2> QED
    BY <2>1, Place
<1>3. (r1 + k) % R = r2
  <2>1. PICK d \in Int : d = q2 - q1
    OBVIOUS
  <2>2. R * d = R * q2 - R * q1
    BY <2>1
  <2>3. r1 + k = R * d + r2
    BY <1>1, <1>2, <2>2
  <2> QED
    BY <2>3, Rounds
<1> QED
  BY <1>1, <1>2, <1>3, Zenon

\* The distance of two places.
LEMMA Distance ==
  ASSUME NEW R \in Nat, R > 0, NEW p \in Int, NEW a \in Int, NEW k \in 0..(R - 1),
         a = p + k \/ a = p + k - R
  PROVE  ((a % R) - (p % R)) % R = k
<1>1. PICK q1 \in Int, r1 \in 0..(R - 1) : a = R * q1 + r1 /\ r1 = a % R
  BY Place
<1>2. PICK q2 \in Int, r2 \in 0..(R - 1) : p = R * q2 + r2 /\ r2 = p % R
  BY Place
<1>3. (r1 - r2) % R = k
  <2>1. PICK d \in Int : d = q2 - q1
    OBVIOUS
  <2>2. R * d = R * q2 - R * q1 /\ R * (d - 1) = R * d - R
    BY <2>1
  <2>3. r1 - r2 = R * d + k \/ r1 - r2 = R * (d - 1) + k
    BY <1>1, <1>2, <2>2
  <2>4. (R * d + k) % R = k /\ (R * (d - 1) + k) % R = k
    <3>1. d - 1 \in Int
      OBVIOUS
    <3> QED
      BY <3>1, Rounds
  <2> QED
    BY <2>3, <2>4
<1> QED
  BY <1>1, <1>2, <1>3, Zenon

-----------------------------------------------------------------------------
(* Sequences, and recursion along numbers.                                 *)

\* What is left of a sequence when the first ones are taken from it.
LEMMA Rest ==
  ASSUME NEW T, NEW q \in Seq(T), NEW count \in 0..Len(q)
  PROVE  /\ SubSeq(q, count + 1, Len(q)) \in Seq(T) /\ Len(SubSeq(q, count + 1, Len(q))) = Len(q) - count
         /\ \A k \in 1..(Len(q) - count) :
              k + count \in (count + 1)..Len(q) /\ SubSeq(q, count + 1, Len(q))[k] = q[k + count]
<1>1. Len(q) \in Nat /\ count \in Nat
  OBVIOUS
<1>2. CASE count = Len(q)
  BY <1>1, <1>2, SubSeqProperties
<1>3. CASE count < Len(q)
  <2>1. count + 1 \in 1..Len(q) /\ Len(q) \in 1..Len(q)
    BY <1>1, <1>3
  <2> QED
    BY <1>1, <1>3, <2>1, SubSeqProperties
<1> QED
  BY <1>1, <1>2, <1>3

\* Steps that stay in a set, and a run of them.
Steps(f, n, S) == n \in Nat /\ f \in [1..n -> [S -> S]]
RunOf(h, f, n, S, s0) == h \in [0..n -> S] /\ h[0] = s0 /\ \A i \in 1..n : h[i] = f[i][h[i - 1]]

\* Such steps can be taken one after another.
LEMMA Iteration ==
  ASSUME NEW n, NEW S, NEW f, Steps(f, n, S), NEW s0 \in S
  PROVE  \E h : RunOf(h, f, n, S, s0)
<1> USE DEF Steps
<1> DEFINE good == {m \in 0..n : \E h \in [0..m -> S] : h[0] = s0 /\ \A i \in 1..m : h[i] = f[i][h[i - 1]]}
<1>1. 0 \in good
  <2> DEFINE h == [i \in 0..0 |-> s0]
  <2>1. h \in [0..0 -> S] /\ h[0] = s0 /\ 0 \in 0..n /\ \A i \in 1..0 : FALSE
    OBVIOUS
  <2> HIDE DEF h
  <2> QED
    BY <2>1
<1>2. ASSUME NEW m \in 1..n, m - 1 \in good PROVE m \in good
  <2>1. PICK h \in [0..m - 1 -> S] : h[0] = s0 /\ \A i \in 1..m - 1 : h[i] = f[i][h[i - 1]]
    BY <1>2
  <2>2. m - 1 \in 0..m - 1 /\ f[m][h[m - 1]] \in S
    BY <2>1
  <2> DEFINE k == [i \in 0..m |-> IF i = m THEN f[m][h[m - 1]] ELSE h[i]]
  <2>3. k \in [0..m -> S]
    BY <2>1, <2>2
  <2>4. k[0] = s0
    BY <2>1
  <2>5. ASSUME NEW i \in 1..m PROVE k[i] = f[i][k[i - 1]]
    BY <2>1, <2>5
  <2> HIDE DEF k
  <2>6. m \in 0..n
    OBVIOUS
  <2> QED
    BY <2>3, <2>4, <2>5, <2>6
<1> HIDE DEF good
<1>3. \A i \in 0..n : i \in good
  BY <1>1, <1>2, UpTo, Zenon
<1>4. n \in good
  BY <1>3
<1> QED
  BY <1>4 DEF good, RunOf

\* A recursion whose steps stay in a set.
LEMMA Recursion ==
  ASSUME NEW n, NEW S, NEW f, Steps(f, n, S), NEW s0 \in S
  PROVE  \E h \in [0..n -> S] : h = [k \in 0..n |-> IF k = 0 THEN s0 ELSE f[k][h[k - 1]]]
<1>1. PICK h : RunOf(h, f, n, S, s0)
  BY Iteration
<1>2. h \in [0..n -> S] /\ h = [k \in 0..n |-> h[k]]
  BY <1>1 DEF RunOf
<1>3. ASSUME NEW k \in 0..n PROVE h[k] = IF k = 0 THEN s0 ELSE f[k][h[k - 1]]
  <2>1. k = 0 \/ k \in 1..n
    BY DEF Steps
  <2> QED
    BY <1>1, <2>1 DEF RunOf
<1> QED
  BY <1>2, <1>3, Zenon

-----------------------------------------------------------------------------
(* How entities are encoded.                                               *)

\* The update of an entity that is gone is no other one.
LEMMA RemovedDiffers ==
  ASSUME NEW a, NEW b
  PROVE  <<a, b>> # Removed
<1>1. Len(<<a, b>>) = 2 /\ Len(Removed) = 1
  BY DEF Removed
<1> QED
  BY <1>1

LEMMA BaselinesTyped == Baselines \in [Ents -> Nat] /\ \A e \in Ents : Baselines[e] # 0
  BY EntitiesAssumption

\* What is encoded as a difference from what the client has got is decoded.
LEMMA EntitiesDecoded ==
  ASSUME NEW from \in States, NEW to \in States
  PROVE  ParseEntities(from, EmitEntities(from, to)) = to
<1> DEFINE updates == EmitEntities(from, to)
           changed == {e \in Ents : from[e] # to[e]}
           parsed  == ParseEntities(from, updates)
<1>1. DOMAIN updates = changed /\ \A e \in changed :
        updates[e] = IF to[e] = 0 THEN Removed ELSE <<IF from[e] = 0 THEN Baselines[e] ELSE from[e], to[e]>>
  BY DEF EmitEntities
<1>2. parsed = [e \in Ents |->
        CASE e \notin DOMAIN updates                         -> from[e]
          [] e \in DOMAIN updates /\ updates[e] = Removed    -> 0
          [] e \in DOMAIN updates /\ updates[e] # Removed    ->
               IF updates[e][1] = (IF from[e] # 0 THEN from[e] ELSE Baselines[e]) THEN updates[e][2]
               ELSE Garbage]
  BY DEF ParseEntities
<1> HIDE DEF updates, parsed
<1>3. ASSUME NEW e \in Ents PROVE parsed[e] = to[e]
  <2>1. CASE e \notin changed
    BY <1>1, <1>2, <2>1 DEF States
  <2>2. CASE e \in changed /\ to[e] = 0
    BY <1>1, <1>2, <2>2
  <2>3. CASE e \in changed /\ to[e] # 0
    <3>1. updates[e] = <<IF from[e] = 0 THEN Baselines[e] ELSE from[e], to[e]>> /\ updates[e] # Removed
      BY <1>1, <2>3, RemovedDiffers, Zenon
    <3>2. updates[e][1] = (IF from[e] # 0 THEN from[e] ELSE Baselines[e]) /\ updates[e][2] = to[e]
      BY <3>1
    <3> QED
      BY <1>1, <1>2, <2>3, <3>1, <3>2
  <2> QED
    BY <2>1, <2>2, <2>3
<1>4. parsed = [e \in Ents |-> parsed[e]] /\ to = [e \in Ents |-> to[e]]
  BY <1>2 DEF States
<1> QED
  BY <1>3, <1>4, Zenon DEF parsed, updates

\* Whatever is decoded has the type of entities, garbage included.
LEMMA ParseEntitiesTyped ==
  ASSUME NEW old \in [Ents -> Int], NEW updates \in Emitted
  PROVE  ParseEntities(old, updates) \in [Ents -> Int]
<1>1. PICK from \in States, to \in States : updates = EmitEntities(from, to)
  BY DEF Emitted
<1>2. /\ DOMAIN updates \subseteq Ents
      /\ \A e \in DOMAIN updates :
           updates[e] = Removed \/ updates[e] = <<IF from[e] = 0 THEN Baselines[e] ELSE from[e], to[e]>>
  BY <1>1 DEF EmitEntities
<1>3. ASSUME NEW e \in DOMAIN updates, updates[e] # Removed PROVE updates[e][2] \in Int
  <2>1. e \in Ents /\ updates[e] = <<IF from[e] = 0 THEN Baselines[e] ELSE from[e], to[e]>>
    BY <1>2, <1>3
  <2> QED
    BY <2>1 DEF States
<1>4. Garbage \in Int
  BY DEF Garbage
<1> DEFINE value(e) ==
     CASE e \notin DOMAIN updates                         -> old[e]
       [] e \in DOMAIN updates /\ updates[e] = Removed    -> 0
       [] e \in DOMAIN updates /\ updates[e] # Removed    ->
            IF updates[e][1] = (IF old[e] # 0 THEN old[e] ELSE Baselines[e]) THEN updates[e][2]
            ELSE Garbage
<1>5. ASSUME NEW e \in Ents PROVE value(e) \in Int
  BY <1>3, <1>4
<1> QED
  BY <1>5 DEF ParseEntities

\* Nothing visible, and whatever is encoded, has its type.
LEMMA EmitTyped ==
  /\ Nothing \in States
  /\ \A from, to \in States : EmitEntities(from, to) \in Emitted
<1>1. Nothing \in States
  BY DEF Nothing, States
<1> QED
  BY <1>1 DEF Emitted

-----------------------------------------------------------------------------
(* The types of the server's steps.                                        *)

Backups == UpdateBackup \in Nat /\ UpdateBackup > 1 /\ CmdBackup \in Nat /\ CmdBackup > 3

LEMMA BackupsHold == Backups
  BY BackupAssumption DEF Backups

\* A step that leaves the snapshots alone.
SameRing(s, t) ==
  /\ t.framenum = s.framenum /\ t.next = s.next /\ t.entities = s.entities /\ t.snapShots = s.snapShots

LEMMA NoDeltaTyped ==
  ASSUME NEW s, s \in ServerType(s)
  PROVE  /\ NoDelta(s) \in ServerType(s) /\ SameRing(s, NoDelta(s))
         /\ NoDelta(s).nodelta /\ NoDelta(s).nodelta_frame = 0 /\ NoDelta(s).lastframe = -1 /\ NoDelta(s).executed
         /\ NoDelta(s).net = s.net
         /\ NoDelta(s).UcmdReceived = s.UcmdReceived /\ NoDelta(s).UcmdExecuted = s.UcmdExecuted
<1> DEFINE t == NoDelta(s)
<1>0. PICK none \in Int : none = -1
  OBVIOUS
<1>1. t = [s EXCEPT !.nodelta = TRUE, !.nodelta_frame = 0, !.lastframe = none, !.executed = TRUE]
  BY <1>0, Zenon DEF NoDelta
<1> HIDE DEF t
<1>2. t \in ServerType(s)
  BY <1>1 DEF ServerType
<1>3. SameRing(s, t) /\ t.net = s.net /\ t.UcmdReceived = s.UcmdReceived /\ t.UcmdExecuted = s.UcmdExecuted
  BY <1>1 DEF ServerType, SameRing
<1>4. t.nodelta /\ t.nodelta_frame = 0 /\ t.lastframe = -1 /\ t.executed
  BY <1>0, <1>1 DEF ServerType
<1> QED
  BY <1>2, <1>3, <1>4 DEF t

LEMMA MoveTyped ==
  ASSUME NEW z, NEW s \in ServerType(z), NEW m \in MoveType
  PROVE  LET t == ParseMoveCommand(s, m)
         IN /\ t \in ServerType(z) /\ SameRing(s, t)
            /\ t.UcmdReceived = m.head - 1 /\ t.lastframe = m.lastframe /\ t.net = s.net
            /\ t.nodelta = s.nodelta /\ t.nodelta_frame = s.nodelta_frame /\ t.executed = s.executed
            /\ t.UcmdExecuted = s.UcmdExecuted
<1> DEFINE count == Len(m.cmds)
           of(i) == {k \in 1..count : (m.head - 1 - count + k) % CmdBackup = i}
           ucmds == [i \in DOMAIN s.ucmds |-> IF of(i) = {} THEN s.ucmds[i] ELSE m.cmds[Max(of(i))]]
<1>1. count \in Nat /\ m.cmds \in [1..count -> UserCmds] /\ m.head \in Nat /\ m.head - 1 \in Nat /\ m.lastframe \in Int
  BY DEF MoveType
<1>2. ASSUME NEW i \in 0..(CmdBackup - 1), of(i) # {} PROVE m.cmds[Max(of(i))] \in UserCmds
  <2>1. of(i) \in SUBSET (0..count) /\ of(i) \subseteq 1..count
    BY <1>1
  <2> HIDE DEF of, count
  <2>2. Max(of(i)) \in of(i)
    BY <1>1, <1>2, <2>1, GreatestNumber
  <2> QED
    BY <1>1, <2>1, <2>2
<1>3. s.ucmds \in [0..(CmdBackup - 1) -> UserCmds]
  BY DEF ServerType
<1>4. ucmds \in [0..(CmdBackup - 1) -> UserCmds]
  <2> HIDE DEF of
  <2> QED
    BY <1>2, <1>3
<1>5. ParseMoveCommand(s, m) = [s EXCEPT !.UcmdReceived = m.head - 1, !.lastframe = m.lastframe, !.ucmds = ucmds]
  <2>1. s.ucmds = s.ucmds /\ s \in ServerType(z)
    OBVIOUS
  <2> QED
    BY Zenon DEF ParseMoveCommand
<1> HIDE DEF ucmds
<1> DEFINE t == [s EXCEPT !.UcmdReceived = m.head - 1, !.lastframe = m.lastframe, !.ucmds = ucmds]
<1>6. t \in ServerType(z)
  BY <1>1, <1>4 DEF ServerType
<1>7. /\ SameRing(s, t) /\ t.UcmdReceived = m.head - 1 /\ t.lastframe = m.lastframe /\ t.net = s.net
      /\ t.nodelta = s.nodelta /\ t.nodelta_frame = s.nodelta_frame /\ t.executed = s.executed
      /\ t.UcmdExecuted = s.UcmdExecuted
  BY DEF ServerType, SameRing
<1> HIDE DEF t
<1> QED
  BY <1>5, <1>6, <1>7, Zenon DEF t

LEMMA ClientMessageTyped ==
  ASSUME NEW s, s \in ServerType(s), NEW m \in ClientMessage
  PROVE  ParseClientMessage(s, m) \in ServerType(s) /\ SameRing(s, ParseClientMessage(s, m))
<1> DEFINE t == IF m.asks /\ ~s.executed THEN NoDelta(s) ELSE s
<1>1. t \in ServerType(s) /\ SameRing(s, t)
  BY NoDeltaTyped DEF SameRing
<1>2. CASE m.moves = <<>>
  BY <1>1, <1>2 DEF ParseClientMessage
<1>3. CASE m.moves # <<>>
  <2>1. m.moves[1] \in MoveType
    BY <1>3 DEF ClientMessage
  <2>2. ParseMoveCommand(t, m.moves[1]) \in ServerType(s) /\ SameRing(t, ParseMoveCommand(t, m.moves[1]))
    BY <1>1, <2>1, MoveTyped
  <2> QED
    BY <1>1, <1>3, <2>2 DEF ParseClientMessage, SameRing
<1> QED
  BY <1>2, <1>3

\* The type tells only what has been thought so far.
LEMMA ServerTypeOf ==
  ASSUME NEW s, NEW t \in ServerType(s)
  PROVE  t \in ServerType(t) /\ ServerType(t) = ServerType(s)
<1>1. t.UcmdTime = s.UcmdTime /\ t.thoughts = s.thoughts
  BY DEF ServerType
<1>2. ServerType(t) = ServerType(s)
  BY <1>1, Zenon DEF ServerType
<1> QED
  BY <1>2

LEMMA ThinksTyped ==
  ASSUME NEW s, s \in ServerType(s)
  PROVE  LET t == ExecuteClientThinks(s)
         IN /\ t \in ServerType(t) /\ SameRing(s, t) /\ t.UcmdExecuted = s.UcmdReceived
            /\ t.UcmdReceived = s.UcmdReceived /\ t.lastframe = s.lastframe /\ t.net = s.net
            /\ t.nodelta = s.nodelta /\ t.nodelta_frame = s.nodelta_frame /\ t.executed = s.executed
<1>1. PICK x, y : ExecuteClientThinks(s) = [s EXCEPT !.thoughts = x, !.UcmdTime = y, !.UcmdExecuted = s.UcmdReceived]
  BY Zenon DEF ExecuteClientThinks, Execute
<1> DEFINE t == [s EXCEPT !.thoughts = x, !.UcmdTime = y, !.UcmdExecuted = s.UcmdReceived]
<1>2. t \in ServerType(t)
  BY DEF ServerType
<1>3. /\ SameRing(s, t) /\ t.UcmdExecuted = s.UcmdReceived
      /\ t.UcmdReceived = s.UcmdReceived /\ t.lastframe = s.lastframe /\ t.net = s.net
      /\ t.nodelta = s.nodelta /\ t.nodelta_frame = s.nodelta_frame /\ t.executed = s.executed
  BY DEF ServerType, SameRing
<1> HIDE DEF t
<1> QED
  BY <1>1, <1>2, <1>3, Zenon DEF t

\* SV_ParseClientMessage, message by message.
LEMMA ClientMessagesRun ==
  ASSUME NEW s, s \in ServerType(s), NEW net \in Seq(ClientMessage), NEW count \in 0..Len(net)
  PROVE  LET parsed[k \in 0..count] ==
               IF k = 0 THEN s ELSE ParseClientMessage(parsed[k - 1], net[k])
         IN /\ parsed[0] = s /\ \A k \in 1..count : parsed[k] = ParseClientMessage(parsed[k - 1], net[k])
            /\ \A k \in 0..count : parsed[k] \in ServerType(s)
<1> DEFINE S == ServerType(s)
           parsed[k \in 0..count] == IF k = 0 THEN s ELSE ParseClientMessage(parsed[k - 1], net[k])
           f == [k \in 1..count |-> [t \in S |-> ParseClientMessage(t, net[k])]]
<1>1. count \in Nat /\ \A k \in 1..count : net[k] \in ClientMessage
  <2>1. count \in Nat /\ \A k \in 1..count : k \in 1..Len(net)
    OBVIOUS
  <2> QED
    BY <2>1, ElementOfSeq
<1>2. \A t \in S, k \in 1..count : ParseClientMessage(t, net[k]) \in S
  BY <1>1, ClientMessageTyped, ServerTypeOf, Zenon
<1>3. s \in S
  OBVIOUS
<1> HIDE DEF S
<1>4. PICK h \in [0..count -> S] :
        h = [k \in 0..count |-> IF k = 0 THEN s ELSE f[k][h[k - 1]]]
  <2>1. f \in [1..count -> [S -> S]]
    BY <1>2
  <2> HIDE DEF f
  <2>2. Steps(f, count, S)
    BY <1>1, <2>1 DEF Steps
  <2> QED
    BY <1>3, <2>2, Recursion
<1>5. \A k \in 1..count : k \in 0..count /\ k # 0 /\ k - 1 \in 0..count
  BY <1>1
<1>6. \A k \in 1..count : f[k][h[k - 1]] = ParseClientMessage(h[k - 1], net[k])
  BY <1>4, <1>5
<1>7. h = [k \in 0..count |-> IF k = 0 THEN s ELSE ParseClientMessage(h[k - 1], net[k])]
  <2>1. \A k \in 0..count : k = 0 \/ k \in 1..count
    BY <1>1
  <2> HIDE DEF f
  <2>2. \A k \in 0..count : (IF k = 0 THEN s ELSE f[k][h[k - 1]])
                             = (IF k = 0 THEN s ELSE ParseClientMessage(h[k - 1], net[k]))
    BY <1>6, <2>1
  <2> QED
    BY <1>4, <2>2, Zenon
<1>8. parsed = [k \in 0..count |-> IF k = 0 THEN s ELSE ParseClientMessage(parsed[k - 1], net[k])]
  BY <1>7, Zenon DEF parsed
<1> HIDE DEF parsed, f
<1>9. parsed[0] = s /\ \A k \in 1..count : parsed[k] = ParseClientMessage(parsed[k - 1], net[k])
  BY <1>1, <1>5, <1>8
<1>10. \A k \in 0..count : parsed[k] \in S
  <2> DEFINE good == {k \in 0..count : parsed[k] \in S}
  <2>1. 0 \in good
    BY <1>1, <1>3, <1>9
  <2>2. ASSUME NEW k \in 1..count, k - 1 \in good PROVE k \in good
    BY <1>2, <1>5, <1>9, <2>2
  <2> HIDE DEF good
  <2>3. \A k \in 0..count : k \in good
    BY <1>1, <2>1, <2>2, UpTo, Zenon
  <2> QED
    BY <2>3 DEF good
<1> QED
  BY <1>9, <1>10 DEF S, parsed

LEMMA AnswerTyped ==
  ASSUME NEW s, s \in ServerType(s)
  PROVE  LET t == AnswerNoDelta(s)
         IN /\ t \in ServerType(s) /\ SameRing(s, t) /\ t.net = s.net /\ t.lastframe = s.lastframe
            /\ t.executed = s.executed /\ t.UcmdReceived = s.UcmdReceived /\ t.UcmdExecuted = s.UcmdExecuted
            /\ \/ s.nodelta /\ s.nodelta_frame = 0 /\ t.nodelta /\ t.nodelta_frame = s.framenum
               \/ /\ s.nodelta /\ s.nodelta_frame # 0 /\ s.lastframe >= s.nodelta_frame
                  /\ ~t.nodelta /\ t.nodelta_frame = s.nodelta_frame
               \/ /\ ~s.nodelta \/ (s.nodelta_frame # 0 /\ s.lastframe < s.nodelta_frame)
                  /\ t.nodelta = s.nodelta /\ t.nodelta_frame = s.nodelta_frame
<1> DEFINE t == AnswerNoDelta(s)
<1>0. s.nodelta \in BOOLEAN /\ s.nodelta_frame \in Nat /\ s.lastframe \in Int /\ s.framenum \in Nat
  BY DEF ServerType
<1>1. CASE s.nodelta /\ s.nodelta_frame = 0
  <2>1. t = [s EXCEPT !.nodelta_frame = s.framenum]
    BY <1>1, Zenon DEF AnswerNoDelta
  <2> HIDE DEF t
  <2>2. t \in ServerType(s) /\ SameRing(s, t) /\ t.net = s.net /\ t.lastframe = s.lastframe
    BY <1>0, <2>1 DEF ServerType, SameRing
  <2>3. /\ t.executed = s.executed /\ t.UcmdReceived = s.UcmdReceived /\ t.UcmdExecuted = s.UcmdExecuted
        /\ t.nodelta = s.nodelta /\ t.nodelta_frame = s.framenum
    BY <2>1 DEF ServerType
  <2> QED
    BY <1>1, <2>2, <2>3 DEF t
<1>2. CASE s.nodelta /\ s.nodelta_frame # 0 /\ s.lastframe >= s.nodelta_frame
  <2>1. t = [s EXCEPT !.nodelta = FALSE]
    BY <1>2 DEF AnswerNoDelta
  <2> HIDE DEF t
  <2>2. t \in ServerType(s) /\ SameRing(s, t) /\ t.net = s.net /\ t.lastframe = s.lastframe
    BY <1>0, <2>1 DEF ServerType, SameRing
  <2>3. /\ t.executed = s.executed /\ t.UcmdReceived = s.UcmdReceived /\ t.UcmdExecuted = s.UcmdExecuted
        /\ t.nodelta = FALSE /\ t.nodelta_frame = s.nodelta_frame
    BY <2>1 DEF ServerType
  <2> QED
    BY <1>2, <2>2, <2>3 DEF t
<1>3. CASE ~s.nodelta \/ (s.nodelta_frame # 0 /\ s.lastframe < s.nodelta_frame)
  <2>1. t = s
    BY <1>0, <1>3 DEF AnswerNoDelta
  <2> HIDE DEF t
  <2> QED
    BY <1>3, <2>1 DEF SameRing, t
<1>4. \/ s.nodelta /\ s.nodelta_frame = 0
      \/ s.nodelta /\ s.nodelta_frame # 0 /\ s.lastframe >= s.nodelta_frame
      \/ ~s.nodelta \/ (s.nodelta_frame # 0 /\ s.lastframe < s.nodelta_frame)
  BY <1>0
<1> HIDE DEF t
<1> QED
  BY <1>1, <1>2, <1>3, <1>4, Zenon DEF t

-----------------------------------------------------------------------------
(* The ring of entities.                                                   *)

LEMMA EntitiesFit ==
  /\ Cardinality(Ents) \in Nat /\ OtherEntities \in Nat /\ FrameSize \in Nat /\ FrameSize = Cardinality(Ents) + OtherEntities
  /\ EntityRing \in Nat /\ EntityRing > 0 /\ FrameSize < EntityRing
  /\ (UpdateBackup - 1) * FrameSize + FrameSize <= EntityRing
<1>1. Cardinality(Ents) \in Nat /\ OtherEntities \in Nat /\ EntityRing \in Nat /\ EntityRing > 0
  BY EntitiesAssumption, FS_CardinalityType
<1>2. FrameSize \in Nat /\ FrameSize = Cardinality(Ents) + OtherEntities /\ EntityRing >= UpdateBackup * FrameSize
  BY <1>1, EntitiesAssumption DEF FrameSize
<1> HIDE DEF FrameSize
<1>3. UpdateBackup \in Nat /\ UpdateBackup - 2 \in Nat
  BY BackupsHold DEF Backups
<1>4. (UpdateBackup - 2) * FrameSize >= 0
  BY <1>2, <1>3
<1>5. /\ (UpdateBackup - 1) * FrameSize = UpdateBackup * FrameSize - FrameSize
      /\ (UpdateBackup - 2) * FrameSize = UpdateBackup * FrameSize - FrameSize - FrameSize
      /\ UpdateBackup * FrameSize \in Nat
  BY <1>2, <1>3
<1> QED
  BY <1>1, <1>2, <1>4, <1>5

LEMMA EntitiesHold ==
  /\ Cardinality(Ents) \in Nat /\ OtherEntities \in Nat /\ FrameSize \in Nat /\ FrameSize = Cardinality(Ents) + OtherEntities
  /\ EntityRing \in Nat /\ EntityRing > 0 /\ FrameSize < EntityRing
<1> QED
  BY EntitiesFit, Zenon

\* The visible entities are listed.
LEMMA VisibleListed ==
  ASSUME NEW world \in States
  PROVE  /\ Visible(world) \in Seq(Ents) /\ Len(Visible(world)) \in Nat /\ Len(Visible(world)) <= Cardinality(Ents)
         /\ \A k \in 1..Len(Visible(world)) : Visible(world)[k] \in Ents /\ world[Visible(world)[k]] # 0
         /\ \A e \in Ents : world[e] # 0 => \E k \in 1..Len(Visible(world)) : Visible(world)[k] = e
<1> DEFINE S == {e \in Ents : world[e] # 0}
           n == Cardinality(S)
           v == Visible(world)
<1>1. IsFiniteSet(S) /\ n \in Nat /\ n <= Cardinality(Ents)
  <2>1. IsFiniteSet(Ents)
    BY EntitiesAssumption
  <2>2. S \in SUBSET Ents
    OBVIOUS
  <2>3. IsFiniteSet(S) /\ n <= Cardinality(Ents)
    BY <2>1, <2>2, FS_Subset
  <2> QED
    BY <2>3, FS_CardinalityType
<1>2. v \in [1..n -> S] /\ IsInjective(v)
  <2>1. \E f \in [1..n -> S] : IsInjective(f)
    BY <1>1, FS_CardinalityType DEF ExistsBijection, Bijection, Injection
  <2>2. v = CHOOSE f \in [1..n -> S] : IsInjective(f)
    BY DEF Visible, SetToSeq
  <2> HIDE DEF v, n, S
  <2> QED
    BY <2>1, <2>2, Zenon
<1>3. v \in Surjection(1..n, S)
  <2>1. v \in Injection(1..n, S)
    BY <1>2 DEF Injection
  <2>2. Cardinality(1..n) = n
    BY <1>1, FS_Interval
  <2> QED
    BY <1>1, <2>1, <2>2, FS_Injection
<1>4. Len(v) = n /\ v \in Seq(Ents)
  <2>1. v \in [1..n -> Ents]
    BY <1>2
  <2> HIDE DEF v, n
  <2> QED
    BY <1>1, <2>1
<1>5. \A e \in S : \E k \in 1..n : v[k] = e
  BY <1>3 DEF Surjection
<1>6. \A k \in 1..n : v[k] \in S
  BY <1>2
<1> HIDE DEF v, n
<1> QED
  BY <1>1, <1>4, <1>5, <1>6 DEF v

\* A list of the visible entities and their states says what they are.
Listed(list) ==
  [e \in Ents |-> IF \E p \in list : p[1] = e THEN (CHOOSE p \in list : p[1] = e)[2] ELSE 0]

LEMMA ListedWorld ==
  ASSUME NEW world \in States, NEW list,
         list = {<<Visible(world)[k + 1], world[Visible(world)[k + 1]]>> : k \in 0..(Len(Visible(world)) - 1)}
  PROVE  Listed(list) = world
<1> DEFINE n == Len(Visible(world))
           v == Visible(world)
<1>1. n \in Nat
  BY VisibleListed
<1>2. \A p \in list : p[1] \in Ents /\ world[p[1]] # 0 /\ p[2] = world[p[1]]
  <2>1. \A k \in 0..(n - 1) : k + 1 \in 1..n
    BY <1>1
  <2>2. \A k \in 0..(n - 1) : v[k + 1] \in Ents /\ world[v[k + 1]] # 0
    BY <2>1, VisibleListed
  <2> HIDE DEF n, v
  <2>3. list = {<<v[k + 1], world[v[k + 1]]>> : k \in 0..(n - 1)}
    BY Zenon DEF n, v
  <2> QED
    BY <2>2, <2>3
<1>3. \A e \in Ents : world[e] # 0 => \E p \in list : p[1] = e
  <2>1. ASSUME NEW e \in Ents, world[e] # 0 PROVE \E p \in list : p[1] = e
    <3>1. PICK k \in 1..n : v[k] = e
      BY <2>1, VisibleListed
    <3>2. k - 1 \in 0..(n - 1) /\ (k - 1) + 1 = k
      BY <1>1
    <3>3. <<v[k], world[v[k]]>> \in list
      <4>1. <<v[(k - 1) + 1], world[v[(k - 1) + 1]]>> \in list
        BY <3>2, Zenon
      <4> QED
        BY <3>2, <4>1, Zenon
    <3> QED
      BY <3>1, <3>3
  <2> QED
    BY <2>1
<1>4. ASSUME NEW e \in Ents
      PROVE  (IF \E p \in list : p[1] = e THEN (CHOOSE p \in list : p[1] = e)[2] ELSE 0) = world[e]
  <2>1. CASE \E p \in list : p[1] = e
    <3>1. (CHOOSE p \in list : p[1] = e) \in list /\ (CHOOSE p \in list : p[1] = e)[1] = e
      BY <2>1, Zenon
    <3>2. PICK p : p = CHOOSE q \in list : q[1] = e
      OBVIOUS
    <3>3. p \in list /\ p[1] = e
      BY <3>1, <3>2, Zenon
    <3>4. p[2] = world[e]
      BY <1>2, <3>3, Zenon
    <3> QED
      BY <2>1, <3>2, <3>4, Zenon
  <2>2. CASE ~\E p \in list : p[1] = e
    BY <1>3, <2>2, Zenon
  <2> QED
    BY <2>1, <2>2
<1>5. world = [e \in Ents |-> world[e]]
  BY DEF States
<1> QED
  BY <1>4, <1>5, Zenon DEF Listed

\* What is in the ring is read back.
LEMMA EntitiesRead ==
  ASSUME NEW s, s \in ServerType(s), NEW pos, NEW f \in Nat, World(f) \in States, pos[f] \in Nat, InRing(s, pos, f)
  PROVE  Entities(s, f) = World(f)
<1> DEFINE snap == s.snapShots[f % UpdateBackup]
           n == Size(f)
           v == Visible(World(f))
           list == {s.entities[(snap.first + k) % EntityRing] : k \in 0..(snap.num - 1)}
<1>1. n \in Nat /\ n < EntityRing /\ n = Len(v)
  <2>1. Len(v) \in Nat /\ Len(v) <= Cardinality(Ents)
    BY VisibleListed
  <2> QED
    BY <2>1, EntitiesHold DEF Size
<1>2. snap = [first |-> pos[f] % EntityRing, num |-> n]
  BY DEF InRing
<1>3. snap.first = pos[f] % EntityRing /\ snap.num = n
  BY <1>2
<1> HIDE DEF snap
<1>4. ASSUME NEW k \in 0..(n - 1)
      PROVE  s.entities[(snap.first + k) % EntityRing] = <<v[k + 1], World(f)[v[k + 1]]>>
  <2>1. (snap.first + k) % EntityRing = (pos[f] + k) % EntityRing
    <3>1. k \in 0..(EntityRing - 1) /\ EntityRing \in Nat /\ EntityRing > 0 /\ pos[f] \in Int /\ pos[f] + k \in Int
      BY <1>1, EntitiesHold
    <3>2. k \in Int
      OBVIOUS
    <3>3. ((pos[f] % EntityRing) + k) % EntityRing = (pos[f] + k) % EntityRing
      BY <3>1, <3>2, Along, Zenon
    <3> QED
      BY <1>3, <3>3, Zenon
  <2>2. s.entities[(pos[f] + k) % EntityRing] = <<v[k + 1], World(f)[v[k + 1]]>>
    BY DEF InRing
  <2> QED
    BY <2>1, <2>2, Zenon
<1>5. list = {<<v[k + 1], World(f)[v[k + 1]]>> : k \in 0..(Len(v) - 1)}
  <2>1. 0..(snap.num - 1) = 0..(n - 1) /\ 0..(Len(v) - 1) = 0..(n - 1)
    BY <1>1, <1>3
  <2> HIDE DEF n, v
  <2> QED
    BY <1>4, <2>1
<1>6. Entities(s, f) = Listed(list)
  BY Zenon DEF Entities, snap, Listed
<1> HIDE DEF list, n
<1>7. Listed(list) = World(f)
  BY <1>5, ListedWorld, Zenon DEF v
<1> QED
  BY <1>6, <1>7, Zenon

LEMMA WorldTyped ==
  ASSUME budget \in BudgetType, NEW f \in 1..Len(budget.worlds)
  PROVE  World(f) \in States
<1>1. budget.worlds \in Seq(States)
  BY DEF BudgetType
<1> QED
  BY <1>1, ElementOfSeq DEF World

\* A step that tells the client nothing and asks it nothing.
SameTalk(s, t) ==
  /\ t.net = s.net /\ t.lastframe = s.lastframe /\ t.nodelta = s.nodelta /\ t.nodelta_frame = s.nodelta_frame
  /\ t.executed = s.executed /\ t.UcmdReceived = s.UcmdReceived /\ t.UcmdExecuted = s.UcmdExecuted

\* The number k of the visible entities, from 0 on, and its state.
Shown(world, k) == <<Visible(world)[k + 1], world[Visible(world)[k + 1]]>>

\* What BuildFrame puts at a place of the ring.
Put(s, world, i) ==
  LET list == Visible(world)
      k == (i - s.next) % EntityRing
  IN CASE k < Len(list) -> <<list[k + 1], world[list[k + 1]]>>
       [] k >= Len(list) /\ k < Len(list) + OtherEntities -> <<0, 0>>
       [] OTHER -> s.entities[i]

LEMMA PutCases ==
  ASSUME NEW s, NEW world \in States, NEW i, NEW k \in Nat, k = (i - s.next) % EntityRing
  PROVE  /\ k < Len(Visible(world)) => Put(s, world, i) = Shown(world, k)
         /\ k >= Len(Visible(world)) /\ k < Len(Visible(world)) + OtherEntities => Put(s, world, i) = <<0, 0>>
         /\ k >= Len(Visible(world)) + OtherEntities => Put(s, world, i) = s.entities[i]
<1> DEFINE n == Len(Visible(world))
<1>1. n \in Nat /\ OtherEntities \in Nat
  BY VisibleListed, EntitiesHold
<1>2. Put(s, world, i) = CASE k < n -> <<Visible(world)[k + 1], world[Visible(world)[k + 1]]>>
                           [] k >= n /\ k < n + OtherEntities -> <<0, 0>>
                           [] OTHER -> s.entities[i]
  BY Zenon DEF Put
<1> HIDE DEF n
<1>3. CASE k < n
  BY <1>1, <1>2, <1>3 DEF n, Shown
<1>4. CASE k >= n /\ k < n + OtherEntities
  BY <1>1, <1>2, <1>4 DEF n
<1>5. CASE k >= n + OtherEntities
  BY <1>1, <1>2, <1>5 DEF n
<1> QED
  BY <1>1, <1>3, <1>4, <1>5 DEF n

LEMMA BuildTyped ==
  ASSUME NEW s, s \in ServerType(s), World(s.framenum) \in States
  PROVE  LET t == BuildFrame(s)
         IN /\ t \in ServerType(s) /\ SameTalk(s, t) /\ t.framenum = s.framenum
            /\ t.next = (s.next + Size(s.framenum) + OtherEntities) % EntityRing
            /\ t.snapShots = [s.snapShots EXCEPT ![s.framenum % UpdateBackup] =
                                [first |-> s.next, num |-> Size(s.framenum)]]
            /\ \A i \in 0..(EntityRing - 1) : t.entities[i] = Put(s, World(s.framenum), i)
<1> DEFINE t == BuildFrame(s)
           world == World(s.framenum)
           n == Size(s.framenum)
           entities == [i \in 0..(EntityRing - 1) |-> Put(s, world, i)]
           next == (s.next + n + OtherEntities) % EntityRing
           snaps == [s.snapShots EXCEPT ![s.framenum % UpdateBackup] = [first |-> s.next, num |-> n]]
<1>1. n \in Nat /\ n = Len(Visible(world))
  BY VisibleListed DEF Size
<1>2. /\ s.next \in Nat /\ s.framenum \in Nat /\ s.entities \in [0..(EntityRing - 1) -> Nat \X Nat]
      /\ s.snapShots \in [0..(UpdateBackup - 1) -> [first : Nat, num : Nat]]
  BY DEF ServerType
<1>3. entities \in [0..(EntityRing - 1) -> Nat \X Nat]
  <2>1. ASSUME NEW i \in 0..(EntityRing - 1) PROVE Put(s, world, i) \in Nat \X Nat
    <3>1. PICK k \in Nat : k = (i - s.next) % EntityRing
      <4>1. i - s.next \in Int /\ EntityRing \in Nat /\ EntityRing > 0
        <5>1. PICK at \in Nat : at = s.next
          BY <1>2, Zenon
        <5>2. i - at \in Int
          BY EntitiesHold
        <5> QED
          BY <5>1, <5>2, EntitiesHold, Zenon
      <4>2. (i - s.next) % EntityRing \in 0..(EntityRing - 1)
        BY <4>1, Place
      <4> QED
        BY <4>1, <4>2
    <3>2. CASE k < n
      <4>1. k + 1 \in 1..n
        BY <1>1, <3>2
      <4>2. Visible(world)[k + 1] \in Ents /\ Ents \subseteq Nat
        BY <1>1, <4>1, VisibleListed, EntitiesAssumption
      <4>3. world[Visible(world)[k + 1]] \in Nat
        BY <4>2 DEF States
      <4>4. Put(s, world, i) = Shown(world, k)
        BY <1>1, <3>1, <3>2, PutCases
      <4> HIDE DEF world
      <4>5. PICK a \in Nat, b \in Nat : a = Visible(world)[k + 1] /\ b = world[Visible(world)[k + 1]]
        BY <4>2, <4>3
      <4> QED
        BY <4>4, <4>5 DEF Shown
    <3>3. CASE k >= n /\ k < n + OtherEntities
      <4>1. Put(s, world, i) = <<0, 0>>
        BY <1>1, <3>1, <3>3, PutCases
      <4> QED
        BY <4>1
    <3>4. CASE k >= n + OtherEntities
      <4>1. Put(s, world, i) = s.entities[i]
        <5>1. PICK w \in States : w = world
          BY Zenon
        <5>2. k >= Len(Visible(w)) + OtherEntities
          BY <1>1, <3>4, <5>1, Zenon
        <5>3. Put(s, w, i) = s.entities[i]
          BY <3>1, <5>2, PutCases
        <5> QED
          BY <5>1, <5>3, Zenon
      <4>2. s.entities[i] \in Nat \X Nat
        BY <1>2, Zenon
      <4> QED
        BY <4>1, <4>2, Zenon
    <3> QED
      BY <1>1, <3>2, <3>3, <3>4, EntitiesHold
  <2> HIDE DEF world
  <2> QED
    BY <2>1
<1>4. next \in Nat
  <2>1. s.next + n + OtherEntities \in Int /\ EntityRing \in Nat /\ EntityRing > 0
    <3>1. PICK at \in Nat, put \in Nat : at = s.next /\ put = n
      BY <1>1, <1>2, Zenon
    <3>2. at + put + OtherEntities \in Int
      BY EntitiesHold
    <3> QED
      BY <3>1, <3>2, EntitiesHold, Zenon
  <2> HIDE DEF n
  <2>2. next \in 0..(EntityRing - 1)
    BY <2>1, Place
  <2> QED
    BY <2>1, <2>2
<1>5. snaps \in [0..(UpdateBackup - 1) -> [first : Nat, num : Nat]]
  <2> HIDE DEF n
  <2> QED
    BY <1>1, <1>2
<1>6. t = [s EXCEPT !.entities = entities, !.next = next, !.snapShots = snaps]
  <2>1. DOMAIN s.entities = 0..(EntityRing - 1)
    BY <1>2
  <2>2. t = [s EXCEPT !.entities = [i \in DOMAIN s.entities |-> Put(s, world, i)],
               !.next = (s.next + Len(Visible(world)) + OtherEntities) % EntityRing,
               !.snapShots[s.framenum % UpdateBackup] = [first |-> s.next, num |-> Len(Visible(world))]]
    BY Zenon DEF BuildFrame, Put, World
  <2>3. t = [s EXCEPT !.entities = entities, !.next = next,
               !.snapShots[s.framenum % UpdateBackup] = [first |-> s.next, num |-> n]]
    BY <1>1, <2>1, <2>2, Zenon
  <2> HIDE DEF t, entities, next, n
  <2> QED
    BY <2>3
<1> HIDE DEF t, entities, next, snaps
<1>7. t \in ServerType(s) /\ SameTalk(s, t) /\ t.framenum = s.framenum
  BY <1>3, <1>4, <1>5, <1>6 DEF ServerType, SameTalk
<1>8. t.entities = entities /\ t.next = next /\ t.snapShots = snaps
  BY <1>6 DEF ServerType
<1>9. \A i \in 0..(EntityRing - 1) : t.entities[i] = Put(s, world, i)
  BY <1>8 DEF entities
<1> QED
  BY <1>7, <1>8, <1>9 DEF t, next, snaps

\* Frames follow each other in the ring: what is put there between two frames.
LEMMA FramesApart ==
  ASSUME NEW n \in Nat, NEW pos \in [1..(n + 1) -> Nat],
         \A f \in 1..n : World(f) \in States,
         \A f \in 1..n : pos[f + 1] = pos[f] + Size(f) + OtherEntities
  PROVE  \A d \in 0..n : /\ pos[n + 1] - pos[n + 1 - d] <= d * FrameSize
                         /\ pos[n + 1 - d] <= pos[n + 1]
<1> DEFINE good == {d \in 0..n : /\ pos[n + 1] - pos[n + 1 - d] <= d * FrameSize
                                 /\ pos[n + 1 - d] <= pos[n + 1]}
<1>1. 0 \in good
  <2>1. n + 1 - 0 = n + 1 /\ n + 1 \in 1..(n + 1) /\ pos[n + 1] \in Nat /\ 0 * FrameSize = 0 /\ 0 \in 0..n
    BY EntitiesHold
  <2> QED
    BY <2>1
<1>2. ASSUME NEW d \in 1..n, d - 1 \in good PROVE d \in good
  <2>1. PICK f \in 1..n : f = n + 1 - d
    OBVIOUS
  <2>2. f + 1 = n + 1 - (d - 1) /\ f \in 1..(n + 1) /\ f + 1 \in 1..(n + 1) /\ n + 1 \in 1..(n + 1)
    BY <2>1
  <2>3. pos[f] \in Nat /\ pos[f + 1] \in Nat /\ pos[n + 1] \in Nat /\ pos[f + 1] = pos[f] + Size(f) + OtherEntities
    BY <2>2
  <2>4. Size(f) \in Nat /\ Size(f) + OtherEntities <= FrameSize
    <3>1. World(f) \in States
      OBVIOUS
    <3>2. Size(f) \in Nat /\ Size(f) <= Cardinality(Ents)
      BY <3>1, VisibleListed DEF Size
    <3> QED
      BY <3>2, EntitiesHold
  <2>5. (d - 1) * FrameSize + FrameSize = d * FrameSize /\ d * FrameSize \in Nat /\ (d - 1) * FrameSize \in Int
    <3>1. FrameSize \in Nat
      BY EntitiesHold
    <3> QED
      BY <3>1
  <2>6. pos[n + 1] - pos[f + 1] <= (d - 1) * FrameSize /\ pos[f + 1] <= pos[n + 1]
    BY <1>2, <2>2
  <2> HIDE DEF good
  <2>7. pos[n + 1] - pos[f] <= d * FrameSize /\ pos[f] <= pos[n + 1]
    <3>1. FrameSize \in Nat /\ OtherEntities \in Nat
      BY EntitiesHold
    <3>2. PICK x \in Int, y \in Int : x = (d - 1) * FrameSize /\ y = d * FrameSize
      BY <2>5
    <3>3. x + FrameSize = y
      BY <2>5, <3>2, Zenon
    <3>4. pos[n + 1] - pos[f] <= y /\ pos[f] <= pos[n + 1]
      <4>1. PICK u \in Nat, v \in Nat, w \in Nat, z \in Nat :
              u = pos[f] /\ v = pos[f + 1] /\ w = pos[n + 1] /\ z = Size(f)
        BY <2>3, <2>4
      <4>2. v = u + z + OtherEntities /\ z + OtherEntities <= FrameSize
        BY <2>3, <2>4, <4>1, Zenon
      <4>3. w - v <= x /\ v <= w
        BY <2>6, <3>2, <4>1, Zenon
      <4>4. w - u <= y /\ u <= w
        BY <3>1, <3>3, <4>2, <4>3
      <4> QED
        BY <4>1, <4>4, Zenon
    <3> QED
      BY <3>2, <3>4
  <2> QED
    BY <2>1, <2>7 DEF good
<1> HIDE DEF good
<1>3. \A d \in 0..n : d \in good
  BY <1>1, <1>2, UpTo, Zenon
<1> QED
  BY <1>3 DEF good

\* A frame of the ring that the server still sends deltas from is not
\* overwritten by the next one.
LEMMA PlaceKept ==
  ASSUME NEW start \in Nat, NEW from \in Nat, NEW size \in Nat, NEW put \in Nat, NEW k \in 0..(size - 1),
         from + size <= start, start - from <= (UpdateBackup - 1) * FrameSize, put <= FrameSize
  PROVE  /\ (from + k) % EntityRing \in 0..(EntityRing - 1)
         /\ (((from + k) % EntityRing) - (start % EntityRing)) % EntityRing \in Nat
         /\ (((from + k) % EntityRing) - (start % EntityRing)) % EntityRing >= put
<1>1. PICK most \in Int : most = (UpdateBackup - 1) * FrameSize
  <2>1. FrameSize \in Int /\ UpdateBackup - 1 \in Int
    BY EntitiesHold, BackupsHold DEF Backups
  <2> QED
    BY <2>1
<1>2. start - from <= most /\ most + FrameSize <= EntityRing /\ EntityRing \in Nat /\ EntityRing > 0 /\ FrameSize \in Nat
  BY <1>1, EntitiesFit, Zenon
<1>3. PICK a \in Int, d \in Int : a = from + k /\ d = a - start + EntityRing
  BY <1>2
<1>4. d \in 0..(EntityRing - 1) /\ d >= put /\ a = start + d - EntityRing
  BY <1>2, <1>3
<1>5. ((a % EntityRing) - (start % EntityRing)) % EntityRing = d
  <2>1. start \in Int /\ a = start + d - EntityRing
    BY <1>4
  <2> QED
    BY <1>2, <1>4, <2>1, Distance, Zenon
<1>6. a % EntityRing \in 0..(EntityRing - 1)
  BY <1>2, Place
<1> QED
  BY <1>3, <1>4, <1>5, <1>6

\* SNAP_BuildClientFrameSnap: the next frame goes to the ring, and the last ones
\* stay there.
LEMMA RingBuilt ==
  ASSUME budget \in BudgetType, NEW s, s \in ServerType(s), s.framenum + 1 <= Len(budget.worlds), RingHolds(s),
         NEW u, u = [s EXCEPT !.framenum = @ + 1]
  PROVE  RingHolds(BuildFrame(u))
<1> DEFINE F == s.framenum + 1
           t == BuildFrame(u)
           n == Size(F)
<1>1. s.framenum \in Nat /\ F \in Nat /\ F \in 1..Len(budget.worlds) /\ \A f \in 1..F : f \in 1..Len(budget.worlds)
  <2>1. s.framenum \in Nat
    BY DEF ServerType
  <2>2. Len(budget.worlds) \in Nat
    BY DEF BudgetType
  <2> QED
    BY <2>1, <2>2
<1>2. \A f \in 1..F : World(f) \in States /\ Size(f) \in Nat /\ Size(f) <= Cardinality(Ents)
                       /\ Size(f) = Len(Visible(World(f)))
  <2>1. ASSUME NEW f \in 1..F PROVE World(f) \in States
    BY <1>1, WorldTyped
  <2> QED
    BY <2>1, VisibleListed DEF Size
<1>3. /\ u \in ServerType(u) /\ u.framenum = F /\ u.next = s.next /\ u.entities = s.entities
      /\ u.snapShots = s.snapShots /\ World(u.framenum) \in States
  <2>1. u \in ServerType(u)
    <3>1. PICK next \in Nat : next = s.framenum + 1
      BY <1>1
    <3>2. u = [s EXCEPT !.framenum = next]
      BY <3>1
    <3> QED
      BY <3>2 DEF ServerType
  <2>3. u.framenum = F /\ u.next = s.next /\ u.entities = s.entities /\ u.snapShots = s.snapShots
    BY DEF ServerType
  <2>2. F \in 1..F
    BY <1>1
  <2> QED
    BY <1>2, <2>1, <2>2, <2>3
<1>4. PICK pos : /\ Placed(s, pos)
                 /\ \A f \in 1..s.framenum : f > s.framenum - UpdateBackup => InRing(s, pos, f)
  BY DEF RingHolds
<1>5. /\ pos \in [1..F -> Nat] /\ s.next = pos[F] % EntityRing /\ F \in 1..F /\ pos[F] \in Nat
      /\ \A f \in 1..s.framenum : pos[f + 1] = pos[f] + Size(f) + OtherEntities
  BY <1>1, <1>4 DEF Placed
<1>6. /\ t.framenum = F /\ t.next = (u.next + n + OtherEntities) % EntityRing
      /\ t.snapShots = [u.snapShots EXCEPT ![F % UpdateBackup] = [first |-> u.next, num |-> n]]
      /\ \A i \in 0..(EntityRing - 1) : t.entities[i] = Put(u, World(F), i)
  <2> HIDE DEF F, n
  <2>1. /\ t.framenum = u.framenum /\ t.next = (u.next + Size(u.framenum) + OtherEntities) % EntityRing
        /\ t.snapShots = [u.snapShots EXCEPT ![u.framenum % UpdateBackup] = [first |-> u.next, num |-> Size(u.framenum)]]
        /\ \A i \in 0..(EntityRing - 1) : t.entities[i] = Put(u, World(u.framenum), i)
    BY <1>3, BuildTyped
  <2> HIDE DEF t
  <2> QED
    BY <1>3, <2>1, Zenon DEF n
<1> HIDE DEF F, t, n
<1>7. n \in Nat /\ n + OtherEntities \in Nat /\ n + OtherEntities <= FrameSize /\ OtherEntities \in Nat
      /\ n = Len(Visible(World(F))) /\ n <= Cardinality(Ents)
  BY <1>2, <1>5, EntitiesHold DEF n
<1> DEFINE new == [f \in 1..(F + 1) |-> IF f = F + 1 THEN pos[F] + n + OtherEntities ELSE pos[f]]
<1>8. /\ new \in [1..(F + 1) -> Nat] /\ new[F + 1] = pos[F] + n + OtherEntities
      /\ \A f \in 1..F : new[f] = pos[f]
  <2>1. PICK place \in Nat : place = pos[F] + n + OtherEntities
    <3>1. PICK at \in Nat, put \in Nat, others \in Nat : at = pos[F] /\ put = n /\ others = OtherEntities
      BY <1>5, <1>7, Zenon
    <3> QED
      BY <3>1
  <2>2. new = [f \in 1..(F + 1) |-> IF f = F + 1 THEN place ELSE pos[f]]
    BY <2>1, Zenon
  <2>3. F \in Nat /\ F + 1 \in 1..(F + 1) /\ \A f \in 1..F : f \in 1..(F + 1) /\ f # F + 1
    BY <1>5
  <2>4. \A f \in 1..(F + 1) : f = F + 1 \/ f \in 1..F
    BY <2>3
  <2> HIDE DEF new
  <2>5. new \in [1..(F + 1) -> Nat]
    BY <1>5, <2>2, <2>4
  <2> QED
    BY <2>1, <2>2, <2>3, <2>5, Zenon
<1> HIDE DEF new
<1>9. Placed(t, new)
  <2>1. t.next = new[F + 1] % EntityRing
    <3>1. PICK k \in Int, p \in Int : k = n + OtherEntities /\ p = pos[F]
      BY <1>5, <1>7
    <3>2. ((p % EntityRing) + k) % EntityRing = (p + k) % EntityRing /\ EntityRing \in Nat /\ EntityRing > 0
      BY EntitiesHold, Along
    <3>3. p % EntityRing \in Int
      BY <3>2, Place
    <3>4. u.next = p % EntityRing
      BY <1>3, <1>5, <3>1, Zenon
    <3>5. u.next + n + OtherEntities = u.next + k /\ pos[F] + n + OtherEntities = p + k
      <4>1. PICK at \in Int, put \in Nat, others \in Nat : at = u.next /\ put = n /\ others = OtherEntities
        BY <1>7, <3>3, <3>4, Zenon
      <4>2. k = put + others
        BY <3>1, <4>1, Zenon
      <4>3. at + put + others = at + k /\ p + put + others = p + k
        BY <4>2
      <4> QED
        BY <3>1, <4>1, <4>3, Zenon
    <3> QED
      BY <1>6, <1>8, <3>2, <3>4, <3>5, Zenon
  <2>2. ASSUME NEW f \in 1..F PROVE new[f + 1] = new[f] + Size(f) + OtherEntities
    <3>1. CASE f = F
      BY <1>8, <3>1 DEF n
    <3>2. CASE f # F
      <4>1. f \in 1..s.framenum /\ f + 1 \in 1..F
        BY <1>1, <3>2 DEF F
      <4> QED
        BY <1>5, <1>8, <4>1
    <3> QED
      BY <3>1, <3>2
  <2> QED
    BY <1>6, <1>8, <2>1, <2>2, Zenon DEF Placed
<1>10. ASSUME NEW f \in 1..F, f > F - UpdateBackup PROVE InRing(t, new, f)
  <2>1. UpdateBackup \in Nat /\ UpdateBackup > 1 /\ f \in Nat /\ F % UpdateBackup \in 0..(UpdateBackup - 1)
    <3>1. UpdateBackup \in Nat /\ UpdateBackup > 0 /\ F \in Int
      BY <1>1, BackupsHold DEF Backups
    <3> QED
      BY <3>1, BackupsHold, Place DEF Backups
  <2>2. u.snapShots \in [0..(UpdateBackup - 1) -> [first : Nat, num : Nat]]
    BY <1>3 DEF ServerType
  <2>3. CASE f = F
    <3>1. t.snapShots[f % UpdateBackup] = [first |-> pos[f] % EntityRing, num |-> Size(f)]
      BY <1>3, <1>5, <1>6, <2>1, <2>2, <2>3 DEF n
    <3>2. ASSUME NEW k \in 0..(n - 1)
          PROVE  t.entities[(pos[F] + k) % EntityRing] = Shown(World(F), k)
      <4>1. PICK a \in Int, p \in Int : a = pos[F] + k /\ p = pos[F]
        BY <1>5
      <4>2. k \in 0..(EntityRing - 1) /\ k \in Nat /\ k < n /\ EntityRing \in Nat /\ EntityRing > 0
        <5>1. PICK put \in Nat, all \in Nat, others \in Nat :
                put = n /\ all = Cardinality(Ents) /\ others = OtherEntities
          BY <1>7, EntitiesHold, Zenon
        <5>2. FrameSize = all + others /\ FrameSize < EntityRing /\ EntityRing \in Nat /\ put <= all
          BY <1>7, <5>1, EntitiesHold, Zenon
        <5>3. k \in 0..(put - 1)
          BY <5>1, Zenon
        <5>4. k \in 0..(EntityRing - 1) /\ k \in Nat /\ k < put /\ EntityRing > 0
          BY <5>2, <5>3
        <5> QED
          BY <5>1, <5>2, <5>4, Zenon
      <4>3. ((a % EntityRing) - (p % EntityRing)) % EntityRing = k
        BY <4>1, <4>2, Distance
      <4>4. a % EntityRing \in 0..(EntityRing - 1)
        BY <4>2, Place
      <4>5. k = ((a % EntityRing) - u.next) % EntityRing
        BY <1>3, <1>5, <4>1, <4>3, Zenon
      <4>6. Put(u, World(F), a % EntityRing) = Shown(World(F), k)
        <5>1. World(F) \in States /\ k < Len(Visible(World(F)))
          BY <1>2, <1>5, <1>7, <4>2, Zenon
        <5> QED
          BY <4>2, <4>5, <5>1, PutCases, Zenon
      <4> QED
        BY <1>6, <4>1, <4>4, <4>6, Zenon
    <3> QED
      BY <1>8, <2>3, <3>1, <3>2, Zenon DEF InRing, Shown, n
  <2>4. CASE f # F
    <3>1. f \in 1..s.framenum /\ f > s.framenum - UpdateBackup /\ f < F /\ F < f + UpdateBackup
      <4>1. UpdateBackup \in Nat /\ s.framenum \in Nat /\ F = s.framenum + 1
        BY <1>1, <2>1 DEF F
      <4> QED
        BY <1>10, <2>4, <4>1
    <3>2. InRing(s, pos, f)
      BY <1>4, <3>1
    <3>3. t.snapShots[f % UpdateBackup] = s.snapShots[f % UpdateBackup]
      <4>1. f % UpdateBackup # F % UpdateBackup
        BY <1>1, <2>1, <3>1, PlacesDiffer
      <4>2. f % UpdateBackup \in 0..(UpdateBackup - 1)
        BY <2>1, Place
      <4> QED
        BY <1>3, <1>6, <2>2, <4>1, <4>2
    <3>4. pos[f] \in Nat /\ pos[f] + Size(f) <= pos[F] /\ pos[F] - pos[f] <= (UpdateBackup - 1) * FrameSize
      <4>1. /\ pos \in [1..(s.framenum + 1) -> Nat] /\ F = s.framenum + 1
            /\ \A g \in 1..s.framenum : World(g) \in States
        BY <1>1, <1>2, <1>5 DEF F
      <4>2. \A d \in 0..s.framenum :
              /\ pos[s.framenum + 1] - pos[s.framenum + 1 - d] <= d * FrameSize
              /\ pos[s.framenum + 1 - d] <= pos[s.framenum + 1]
        BY <1>1, <1>5, <4>1, FramesApart, Zenon
      <4>a. s.framenum \in Nat /\ f \in 1..s.framenum /\ F = s.framenum + 1
        BY <1>1, <3>1, <4>1
      <4>3. PICK d \in 1..s.framenum : d = F - f
        <5>1. F - f \in 1..s.framenum
          <6>1. PICK g \in Nat, last \in Nat : g = f /\ last = s.framenum
            BY <4>a
          <6>2. g >= 1 /\ g <= last /\ F = last + 1
            BY <4>a, <6>1
          <6> QED
            BY <6>1, <6>2
        <5> QED
          BY <5>1
      <4>4. /\ d - 1 \in 0..s.framenum /\ d \in 0..s.framenum
            /\ s.framenum + 1 - d = f /\ s.framenum + 1 - (d - 1) = f + 1
        BY <4>a, <4>3
      <4>5. pos[F] - pos[f] <= d * FrameSize /\ pos[f + 1] <= pos[F]
        BY <4>1, <4>2, <4>4, Zenon
      <4>6. d * FrameSize <= (UpdateBackup - 1) * FrameSize
        <5>1. UpdateBackup - 1 - d \in Nat /\ FrameSize \in Nat
          <6>1. PICK g \in Nat, G \in Nat : g = f /\ G = F
            BY <1>1, <2>1
          <6>2. UpdateBackup \in Nat /\ G < g + UpdateBackup /\ d = G - g
            BY <2>1, <3>1, <4>3, <6>1, Zenon
          <6>3. UpdateBackup - 1 - d \in Nat
            BY <6>2
          <6> QED
            BY <6>3, EntitiesHold
        <5>2. (UpdateBackup - 1 - d) * FrameSize >= 0
          BY <5>1
        <5>3. (UpdateBackup - 1 - d) * FrameSize = (UpdateBackup - 1) * FrameSize - d * FrameSize
          BY <2>1, <5>1
        <5>4. (UpdateBackup - 1) * FrameSize \in Int /\ d * FrameSize \in Int
          BY <2>1, <5>1
        <5> QED
          BY <5>2, <5>3, <5>4
      <4>7. pos[f] \in Nat /\ pos[F] \in Nat /\ pos[f + 1] = pos[f] + Size(f) + OtherEntities /\ Size(f) \in Nat
        BY <1>2, <1>5, <3>1
      <4>8. PICK x \in Int, y \in Int : x = d * FrameSize /\ y = (UpdateBackup - 1) * FrameSize
        <5>1. FrameSize \in Int /\ UpdateBackup - 1 \in Int /\ d \in Int
          BY <2>1, EntitiesHold
        <5> QED
          BY <5>1
      <4>9. pos[F] - pos[f] <= y
        <5>1. pos[F] - pos[f] <= x /\ x <= y
          BY <4>5, <4>6, <4>8, Zenon
        <5>2. pos[F] - pos[f] \in Int
          BY <4>7
        <5> QED
          BY <5>1, <5>2
      <4>10. pos[f] + Size(f) <= pos[F]
        <5>1. PICK from \in Nat, to \in Nat, size \in Nat : from = pos[f] /\ to = pos[F] /\ size = Size(f)
          BY <4>7, Zenon
        <5>2. OtherEntities \in Nat
          BY <1>7, Zenon
        <5>3. PICK end \in Nat : end = from + size + OtherEntities
          BY <5>2
        <5>4. end <= to
          BY <4>5, <4>7, <5>1, <5>3, Zenon
        <5>5. from + size <= to
          BY <5>2, <5>3, <5>4
        <5> QED
          BY <5>1, <5>5, Zenon
      <4> QED
        BY <4>7, <4>8, <4>9, <4>10
    <3>5. ASSUME NEW k \in 0..(Size(f) - 1)
          PROVE  t.entities[(pos[f] + k) % EntityRing] = s.entities[(pos[f] + k) % EntityRing]
      <4>1. PICK i \in 0..(EntityRing - 1), d \in Nat :
              i = (pos[f] + k) % EntityRing /\ d = (i - (pos[F] % EntityRing)) % EntityRing /\ d >= n + OtherEntities
        <5>1. Size(f) \in Nat
          BY <1>2
        <5>2. PICK start \in Nat, from \in Nat, size \in Nat, put \in Nat :
                start = pos[F] /\ from = pos[f] /\ size = Size(f) /\ put = n + OtherEntities
          BY <1>5, <1>7, <3>4, <5>1
        <5>3. k \in 0..(size - 1) /\ from + size <= start /\ start - from <= (UpdateBackup - 1) * FrameSize
              /\ put <= FrameSize
          BY <1>7, <3>4, <5>2, Zenon
        <5>4. /\ (from + k) % EntityRing \in 0..(EntityRing - 1)
              /\ (((from + k) % EntityRing) - (start % EntityRing)) % EntityRing \in Nat
              /\ (((from + k) % EntityRing) - (start % EntityRing)) % EntityRing >= put
          BY <5>3, PlaceKept
        <5> QED
          BY <5>2, <5>4, Zenon
      <4>2. d = (i - u.next) % EntityRing /\ d >= Len(Visible(World(F))) + OtherEntities /\ World(F) \in States
        BY <1>2, <1>3, <1>5, <1>7, <4>1, Zenon
      <4>3. Put(u, World(F), i) = u.entities[i]
        BY <4>2, PutCases, Zenon
      <4> QED
        BY <1>3, <1>6, <4>1, <4>3, Zenon
    <3>6. f \in 1..F /\ new[f] = pos[f]
      BY <1>8
    <3> QED
      BY <3>2, <3>3, <3>5, <3>6, Zenon DEF InRing
  <2> QED
    BY <2>3, <2>4
<1> QED
  BY <1>6, <1>9, <1>10, Zenon DEF RingHolds, t

-----------------------------------------------------------------------------
(* What the server sends.                                                  *)

LEMMA EntitiesTyped ==
  ASSUME NEW s, s \in ServerType(s), NEW f \in Int
  PROVE  Entities(s, f) \in States
<1> DEFINE snap == s.snapShots[f % UpdateBackup]
           list == {s.entities[(snap.first + k) % EntityRing] : k \in 0..(snap.num - 1)}
<1>1. f % UpdateBackup \in 0..(UpdateBackup - 1)
  <2>1. UpdateBackup \in Nat /\ UpdateBackup > 0
    BY BackupsHold DEF Backups
  <2> QED
    BY <2>1, Place
<1>2. snap \in [first : Nat, num : Nat] /\ s.entities \in [0..(EntityRing - 1) -> Nat \X Nat]
  BY <1>1 DEF ServerType
<1>3. snap.first \in Nat /\ snap.num \in Nat
  BY <1>2
<1> HIDE DEF snap
<1>4. ASSUME NEW k \in 0..(snap.num - 1) PROVE s.entities[(snap.first + k) % EntityRing] \in Nat \X Nat
  <2>1. snap.first + k \in Int /\ EntityRing \in Nat /\ EntityRing > 0
    BY <1>3, EntitiesHold
  <2>2. (snap.first + k) % EntityRing \in 0..(EntityRing - 1)
    BY <2>1, Place
  <2> QED
    BY <1>2, <2>2, Zenon
<1>5. \A p \in list : p \in Nat \X Nat
  BY <1>4, Zenon
<1>6. Entities(s, f) = Listed(list)
  BY Zenon DEF Entities, snap, Listed
<1> HIDE DEF list
<1>7. ASSUME NEW e \in Ents
      PROVE  (IF \E p \in list : p[1] = e THEN (CHOOSE p \in list : p[1] = e)[2] ELSE 0) \in Nat
  <2>1. CASE \E p \in list : p[1] = e
    <3>1. PICK p : p = CHOOSE q \in list : q[1] = e
      OBVIOUS
    <3>2. p \in list
      BY <2>1, <3>1, Zenon
    <3>3. p \in Nat \X Nat
      BY <1>5, <3>2, Zenon
    <3>4. p[2] \in Nat
      BY <3>3
    <3> QED
      BY <2>1, <3>1, <3>4, Zenon
  <2>2. CASE ~\E p \in list : p[1] = e
    BY <2>2
  <2> QED
    BY <2>1, <2>2
<1>8. Listed(list) \in States
  BY <1>7 DEF Listed, States
<1> QED
  BY <1>6, <1>8, Zenon

LEMMA PendingTyped ==
  ASSUME NEW s, s \in ServerType(s)
  PROVE  PendingCommands(s) \in SUBSET [number : Nat, diff : Int]
<1>1. s.framenum \in Nat /\ s.gameCommands \in Seq(Nat)
  BY DEF ServerType
<1>2. \A n \in 1..Len(s.gameCommands) : n \in Nat /\ s.framenum - s.gameCommands[n] \in Int
  BY <1>1
<1> QED
  BY <1>2 DEF PendingCommands

\* SNAP_WriteFrameSnapToClient.
LEMMA WriteTyped ==
  ASSUME NEW s, s \in ServerType(s), World(s.framenum) \in States
  PROVE  \E m \in ServerMessage, a \in ServerType(s) :
           LET t == WriteFrame(s)
           IN /\ a = AnswerNoDelta(s)
              /\ t \in ServerType(s) /\ SameRing(s, t) /\ t.net = Append(s.net, m)
              /\ t.lastframe = s.lastframe /\ t.executed = s.executed
              /\ t.UcmdReceived = s.UcmdReceived /\ t.UcmdExecuted = s.UcmdExecuted
              /\ t.nodelta = a.nodelta /\ t.nodelta_frame = a.nodelta_frame
              /\ m.snap.serverFrame = s.framenum /\ m.snap.deltaFrameNum = s.lastframe
              /\ m.snap.delta = ~IsFull(a) /\ m.snap.truth = World(s.framenum)
              /\ m.snap.updates = EmitEntities(IF IsFull(a) THEN Nothing ELSE Entities(a, s.lastframe),
                                               Entities(a, s.framenum))
<1> DEFINE a == AnswerNoDelta(s)
           from == IF IsFull(a) THEN Nothing ELSE Entities(a, a.lastframe)
           updates == EmitEntities(from, Entities(a, a.framenum))
           snap == [serverFrame |-> a.framenum, deltaFrameNum |-> a.lastframe, delta |-> ~IsFull(a),
                    commands |-> PendingCommands(a), truth |-> World(a.framenum), updates |-> updates]
           m == [executed |-> a.executed, ucmdAck |-> a.UcmdReceived, snap |-> snap]
           t == WriteFrame(s)
<1>1. /\ a \in ServerType(s) /\ SameRing(s, a) /\ a.net = s.net /\ a.lastframe = s.lastframe
      /\ a.executed = s.executed /\ a.UcmdReceived = s.UcmdReceived /\ a.UcmdExecuted = s.UcmdExecuted
  BY AnswerTyped
<1>2. t = [a EXCEPT !.lastSentFrameNum = a.framenum, !.net = Append(@, m)]
  BY Zenon DEF WriteFrame, World
<1> HIDE DEF a, t
<1>3. /\ a \in ServerType(a) /\ a.framenum = s.framenum /\ a.framenum \in Nat /\ a.lastframe \in Int
      /\ a.executed \in BOOLEAN /\ a.UcmdReceived \in Nat /\ a.net \in Seq(ServerMessage)
  <2>1. a \in ServerType(a) /\ a.framenum = s.framenum
    BY <1>1, ServerTypeOf DEF SameRing
  <2> QED
    BY <2>1 DEF ServerType
<1>4. updates \in Emitted
  <2>1. Entities(a, a.framenum) \in States /\ Entities(a, a.lastframe) \in States
    <3>1. a.framenum \in Int /\ a.lastframe \in Int
      BY <1>3
    <3> QED
      BY <1>3, <3>1, EntitiesTyped
  <2>2. from \in States
    BY <2>1, EmitTyped
  <2> HIDE DEF from
  <2> QED
    BY <2>1, <2>2, EmitTyped
<1>5. PendingCommands(a) \in SUBSET [number : Nat, diff : Int]
  BY <1>3, PendingTyped
<1>6. snap \in ServerSnap
  <2>1. World(a.framenum) \in States
    BY <1>3
  <2>2. PICK delta \in BOOLEAN : delta = ~IsFull(a)
    OBVIOUS
  <2> HIDE DEF updates
  <2>3. snap = [serverFrame |-> a.framenum, deltaFrameNum |-> a.lastframe, delta |-> delta,
                commands |-> PendingCommands(a), truth |-> World(a.framenum), updates |-> updates]
    BY <2>2, Zenon
  <2> QED
    BY <1>3, <1>4, <1>5, <2>1, <2>3 DEF ServerSnap
<1>7. m \in ServerMessage /\ m.snap = snap
  <2> HIDE DEF snap
  <2> QED
    BY <1>3, <1>6 DEF ServerMessage
<1>8. /\ snap.serverFrame = a.framenum /\ snap.deltaFrameNum = a.lastframe /\ snap.delta = ~IsFull(a)
      /\ snap.truth = World(a.framenum) /\ snap.updates = updates
  <2> HIDE DEF updates
  <2> QED
    OBVIOUS
<1>9. updates = EmitEntities(IF IsFull(a) THEN Nothing ELSE Entities(a, s.lastframe), Entities(a, s.framenum))
  BY <1>1, <1>3, Zenon
<1> HIDE DEF m, snap, updates
<1>10. /\ t \in ServerType(s) /\ t.net = Append(a.net, m) /\ t.lastframe = a.lastframe /\ t.executed = a.executed
       /\ t.UcmdReceived = a.UcmdReceived /\ t.UcmdExecuted = a.UcmdExecuted
       /\ t.nodelta = a.nodelta /\ t.nodelta_frame = a.nodelta_frame
       /\ SameRing(a, t)
  <2>1. Append(a.net, m) \in Seq(ServerMessage)
    BY <1>3, <1>7
  <2>2. t \in ServerType(s)
    BY <1>1, <1>2, <1>3, <2>1 DEF ServerType
  <2>3. /\ t.net = Append(a.net, m) /\ t.lastframe = a.lastframe /\ t.executed = a.executed
        /\ t.UcmdReceived = a.UcmdReceived /\ t.UcmdExecuted = a.UcmdExecuted
    BY <1>1, <1>2 DEF ServerType
  <2>4. t.nodelta = a.nodelta /\ t.nodelta_frame = a.nodelta_frame
    BY <1>1, <1>2 DEF ServerType
  <2>5. SameRing(a, t)
    BY <1>1, <1>2 DEF ServerType, SameRing
  <2> QED
    BY <2>2, <2>3, <2>4, <2>5
<1>11. SameRing(s, t)
  BY <1>1, <1>10 DEF SameRing
<1>12. m.snap.delta = ~IsFull(a)
  BY <1>7, <1>8, Zenon
<1>13. /\ m.snap.serverFrame = s.framenum /\ m.snap.deltaFrameNum = s.lastframe /\ m.snap.truth = World(s.framenum)
       /\ m.snap.updates = EmitEntities(IF IsFull(a) THEN Nothing ELSE Entities(a, s.lastframe),
                                               Entities(a, s.framenum))
  BY <1>1, <1>3, <1>7, <1>8, <1>9, Zenon
<1>14. a = AnswerNoDelta(s) /\ t = WriteFrame(s)
  BY Zenon DEF a, t
<1> QED
  BY <1>1, <1>7, <1>10, <1>11, <1>12, <1>13, <1>14, Zenon

\* SV_AddGameCommand.
LEMMA GameCommandTyped ==
  ASSUME NEW s, s \in ServerType(s)
  PROVE  AddGameCommand(s) \in ServerType(s) /\ SameRing(s, AddGameCommand(s)) /\ SameTalk(s, AddGameCommand(s))
<1> DEFINE number == IF s.lastSentFrameNum # 0 THEN s.lastSentFrameNum + 1 ELSE s.framenum
           t == AddGameCommand(s)
<1>1. number \in Nat /\ s.gameCommands \in Seq(Nat)
  BY DEF ServerType
<1>2. t = [s EXCEPT !.gameCommands = Append(@, number)]
  BY Zenon DEF AddGameCommand
<1> HIDE DEF number, t
<1>3. Append(s.gameCommands, number) \in Seq(Nat)
  BY <1>1
<1>4. t \in ServerType(s) /\ SameRing(s, t) /\ SameTalk(s, t)
  BY <1>2, <1>3 DEF ServerType, SameRing, SameTalk
<1> QED
  BY <1>4 DEF t

-----------------------------------------------------------------------------
(* The types of the client's steps.                                        *)

Snaps == [0..(UpdateBackup - 1) -> ClientSnap]

LEMMA PlaceTyped ==
  ASSUME NEW f \in Int
  PROVE  f % UpdateBackup \in 0..(UpdateBackup - 1)
<1>1. UpdateBackup \in Nat /\ UpdateBackup > 0
  BY BackupsHold DEF Backups
<1> QED
  BY <1>1, Place

\* What SNAP_ParseFrame leaves of a slot at first.
Cleared(snap) ==
  [serverFrame |-> snap.serverFrame, valid |-> FALSE, entities |-> Nothing, truth |-> snap.truth, commands |-> {}]

LEMMA ClearedTyped ==
  ASSUME NEW snap \in ServerSnap
  PROVE  /\ Cleared(snap) \in ClientSnap /\ Cleared(snap).entities = Nothing
         /\ Cleared(snap).serverFrame = snap.serverFrame /\ Cleared(snap).truth = snap.truth
<1>1. Nothing \in [Ents -> Int]
  BY EmitTyped DEF States
<1>2. snap.serverFrame \in Nat /\ snap.truth \in States
  BY DEF ServerSnap
<1> QED
  BY <1>1, <1>2 DEF Cleared, ClientSnap

LEMMA SlotUsed ==
  ASSUME NEW f \in ClientSnap, NEW valid \in BOOLEAN
  PROVE  LET v == [f EXCEPT !.valid = valid]
         IN /\ v \in ClientSnap /\ v.serverFrame = f.serverFrame /\ v.valid = valid /\ v.entities = f.entities
            /\ v.truth = f.truth
  BY DEF ClientSnap

\* What is read from a snapshot into a slot, when the others are these.
ReadSlot(snaps, snap, valid, slot) ==
  LET hs == [snaps EXCEPT ![snap.serverFrame % UpdateBackup] = Cleared(snap)]
      d  == snap.deltaFrameNum
  IN /\ valid <=> (~snap.delta \/ (d > 0 /\ hs[d % UpdateBackup].valid /\ hs[d % UpdateBackup].serverFrame = d))
     /\ slot.serverFrame = snap.serverFrame /\ slot.valid = valid /\ slot.truth = snap.truth
     /\ slot.entities =
          ParseEntities(IF snap.delta /\ d > 0 THEN hs[d % UpdateBackup].entities ELSE Nothing, snap.updates)

\* SNAP_ParseFrame.
LEMMA FrameTyped ==
  ASSUME NEW c \in ClientType, NEW snap \in ServerSnap
  PROVE  \E valid \in BOOLEAN, slot \in ClientSnap :
           /\ ReadSlot(c.snapShots, snap, valid, slot)
           /\ ParseFrame(c, snap) =
                [c EXCEPT !.snapShots = [c.snapShots EXCEPT ![snap.serverFrame % UpdateBackup] = slot],
                          !.receivedSnapNum = IF valid THEN snap.serverFrame ELSE c.receivedSnapNum]
<1> DEFINE i  == snap.serverFrame % UpdateBackup
           hs == [c.snapShots EXCEPT ![i] = Cleared(snap)]
           d  == snap.deltaFrameNum
           h  == Header(c, snap)
<1>1. /\ snap.serverFrame \in Nat /\ d \in Int /\ snap.delta \in BOOLEAN /\ snap.updates \in Emitted
      /\ snap.commands \in SUBSET [number : Nat, diff : Int] /\ i \in 0..(UpdateBackup - 1)
      /\ d % UpdateBackup \in 0..(UpdateBackup - 1)
  <2>1. /\ snap.serverFrame \in Nat /\ d \in Int /\ snap.delta \in BOOLEAN /\ snap.updates \in Emitted
        /\ snap.commands \in SUBSET [number : Nat, diff : Int]
    BY DEF ServerSnap
  <2>2. snap.serverFrame \in Int
    BY <2>1
  <2> QED
    BY <2>1, <2>2, PlaceTyped
<1>2. c.snapShots \in Snaps /\ hs \in Snaps /\ c.receivedSnapNum \in Nat
  <2>1. c.snapShots \in Snaps /\ c.receivedSnapNum \in Nat
    BY DEF ClientType, Snaps
  <2>2. Cleared(snap) \in ClientSnap
    BY ClearedTyped
  <2> HIDE DEF i
  <2> QED
    BY <1>1, <2>1, <2>2 DEF Snaps
<1>3. h = [c EXCEPT !.snapShots = hs]
  <2>1. h = [c EXCEPT !.snapShots[i] = Cleared(snap)]
    BY Zenon DEF Header, Cleared
  <2> HIDE DEF h, i
  <2> QED
    BY <2>1
<1> HIDE DEF h, hs, i
<1>4. h \in ClientType /\ h.snapShots = hs
  BY <1>2, <1>3 DEF ClientType, Snaps
<1> DEFINE usable == ~snap.delta \/ (d > 0 /\ hs[d % UpdateBackup].valid /\ hs[d % UpdateBackup].serverFrame = d)
           valid == IsUsable(h, snap)
<1>5. valid \in BOOLEAN /\ (valid <=> usable)
  BY <1>4 DEF IsUsable, Slot
<1> HIDE DEF usable, valid
<1> DEFINE v  == [h EXCEPT !.snapShots[snap.serverFrame % UpdateBackup].valid = valid]
           empty == [Cleared(snap) EXCEPT !.valid = valid]
           vs == [c.snapShots EXCEPT ![i] = empty]
<1>8. Nothing \in [Ents -> Int] /\ {} \in SUBSET Nat
  BY EmitTyped DEF States
<1>20. /\ empty \in ClientSnap /\ empty.serverFrame = snap.serverFrame /\ empty.valid = valid
       /\ empty.entities = Nothing /\ empty.truth = snap.truth
  BY <1>5, ClearedTyped, SlotUsed
<1>7. v = [c EXCEPT !.snapShots = vs]
  <2>1. [hs EXCEPT ![i].valid = valid] = vs
    <3>1. [hs EXCEPT ![i].valid = valid] = [hs EXCEPT ![i] = [hs[i] EXCEPT !.valid = valid]]
      OBVIOUS
    <3>2. hs[i] = Cleared(snap)
      BY <1>1, <1>2 DEF hs, Snaps
    <3>3. [hs[i] EXCEPT !.valid = valid] = empty
      BY <3>2, Zenon
    <3> HIDE DEF empty
    <3>4. [hs EXCEPT ![i] = empty] = vs
      BY <1>2 DEF hs, Snaps
    <3> QED
      BY <3>1, <3>3, <3>4, Zenon
  <2>2. v = [h EXCEPT !.snapShots = [h.snapShots EXCEPT ![i].valid = valid]]
    BY DEF i
  <2>3. v = [h EXCEPT !.snapShots = vs]
    BY <1>4, <2>1, <2>2, Zenon
  <2>4. [h EXCEPT !.snapShots = vs] = [c EXCEPT !.snapShots = vs]
    <3> HIDE DEF vs
    <3> QED
      BY <1>3 DEF ClientType
  <2> QED
    BY <2>3, <2>4, Zenon
<1> HIDE DEF empty
<1>9. vs \in Snaps /\ v \in ClientType /\ v.snapShots = vs
  <2>1. vs \in Snaps
    BY <1>1, <1>2, <1>20 DEF Snaps
  <2> HIDE DEF v, vs
  <2> QED
    BY <1>7, <2>1 DEF ClientType, Snaps
<1> DEFINE old == IF snap.delta /\ d > 0 THEN Slot(v, d).entities ELSE Nothing
           takes == {g \in snap.commands :
                       valid /\ (c.receivedSnapNum <= 0 \/ Takes(Slot(v, c.receivedSnapNum), snap, g.diff))}
           entities == ParseEntities(old, snap.updates)
           commands == {g.number : g \in takes}
<1>10. old = IF snap.delta /\ d > 0 THEN hs[d % UpdateBackup].entities ELSE Nothing
  <2>1. vs[d % UpdateBackup].entities = hs[d % UpdateBackup].entities
    <3>1. CASE d % UpdateBackup = i
      <4>1. vs[d % UpdateBackup] = empty /\ hs[d % UpdateBackup] = Cleared(snap)
        BY <1>1, <1>2, <3>1 DEF hs, Snaps
      <4> QED
        BY <1>20, <4>1, ClearedTyped, Zenon
    <3>2. CASE d % UpdateBackup # i
      <4>1. vs[d % UpdateBackup] = hs[d % UpdateBackup]
        BY <1>1, <1>2, <3>2 DEF hs, Snaps
      <4> QED
        BY <4>1, Zenon
    <3> QED
      BY <3>1, <3>2
  <2> HIDE DEF v, vs
  <2> QED
    BY <1>9, <2>1, Zenon DEF Slot
<1>11. old \in [Ents -> Int] /\ entities \in [Ents -> Int]
  <2>1. hs[d % UpdateBackup].entities \in [Ents -> Int]
    <3>1. hs[d % UpdateBackup] \in ClientSnap
      BY <1>1, <1>2 DEF Snaps
    <3> QED
      BY <3>1 DEF ClientSnap
  <2>2. old \in [Ents -> Int]
    BY <1>8, <1>10, <2>1, Zenon
  <2> HIDE DEF old
  <2> QED
    BY <1>1, <2>2, ParseEntitiesTyped
<1>12. commands \in SUBSET Nat
  BY <1>1
<1> HIDE DEF old, takes, entities, commands
<1>13. ParseFrame(c, snap) =
         [v EXCEPT !.snapShots[snap.serverFrame % UpdateBackup].entities = entities,
                   !.snapShots[snap.serverFrame % UpdateBackup].commands = commands,
                   !.receivedSnapNum = IF valid THEN snap.serverFrame ELSE @]
  BY Zenon DEF ParseFrame, h, v, valid, old, takes, entities, commands
<1> HIDE DEF v
<1> DEFINE slot == [[empty EXCEPT !.entities = entities] EXCEPT !.commands = commands]
           fs == [c.snapShots EXCEPT ![i] = slot]
<1>21. /\ slot \in ClientSnap /\ slot.serverFrame = snap.serverFrame /\ slot.valid = valid
       /\ slot.truth = snap.truth /\ slot.entities = entities
  <2>1. PICK e \in [Ents -> Int], n \in SUBSET Nat : e = entities /\ n = commands
    BY <1>11, <1>12
  <2>2. slot = [[empty EXCEPT !.entities = e] EXCEPT !.commands = n]
    BY <2>1, Zenon
  <2> HIDE DEF slot
  <2>3. /\ slot \in ClientSnap /\ slot.serverFrame = empty.serverFrame /\ slot.valid = empty.valid
        /\ slot.truth = empty.truth /\ slot.entities = e
    <3>1. PICK f \in ClientSnap : f = empty
      BY <1>20
    <3>2. PICK f2 : f2 = [f EXCEPT !.entities = e]
      OBVIOUS
    <3>3. /\ f2 \in ClientSnap /\ f2.serverFrame = f.serverFrame /\ f2.valid = f.valid
          /\ f2.truth = f.truth /\ f2.entities = e
      BY <3>2 DEF ClientSnap
    <3>4. slot = [f2 EXCEPT !.commands = n]
      BY <2>2, <3>1, <3>2, Zenon
    <3>5. /\ slot \in ClientSnap /\ slot.serverFrame = f2.serverFrame /\ slot.valid = f2.valid
          /\ slot.truth = f2.truth /\ slot.entities = f2.entities
      BY <3>3, <3>4 DEF ClientSnap
    <3> QED
      BY <3>1, <3>3, <3>5, Zenon
  <2> QED
    BY <1>20, <2>1, <2>3, Zenon
<1>14. [[vs EXCEPT ![i].entities = entities] EXCEPT ![i].commands = commands] = fs
  <2>1. vs[i] = empty
    BY <1>1, <1>2 DEF Snaps
  <2> DEFINE es == [vs EXCEPT ![i].entities = entities]
  <2>3. es[i] = [vs[i] EXCEPT !.entities = entities] /\ es = [vs EXCEPT ![i] = es[i]]
    <3> HIDE DEF vs
    <3> QED
      BY <1>1, <1>9 DEF Snaps
  <2>4. [es EXCEPT ![i].commands = commands] = [vs EXCEPT ![i] = [es[i] EXCEPT !.commands = commands]]
    <3> HIDE DEF vs
    <3> QED
      BY <1>1, <1>9, <2>3 DEF Snaps
  <2>5. [es EXCEPT ![i].commands = commands] = [vs EXCEPT ![i] = slot]
    BY <2>1, <2>3, <2>4, Zenon
  <2> HIDE DEF slot
  <2>6. [vs EXCEPT ![i] = slot] = fs
    BY <1>1, <1>2 DEF Snaps
  <2> QED
    BY <2>5, <2>6, Zenon
<1> HIDE DEF slot
<1>15. ParseFrame(c, snap) =
         [v EXCEPT !.snapShots = [[v.snapShots EXCEPT ![i].entities = entities] EXCEPT ![i].commands = commands],
                   !.receivedSnapNum = IF valid THEN snap.serverFrame ELSE @]
  BY <1>9, <1>13 DEF i, ClientType
<1>16. ParseFrame(c, snap) =
         [v EXCEPT !.snapShots = fs, !.receivedSnapNum = IF valid THEN snap.serverFrame ELSE @]
  BY <1>9, <1>14, <1>15, Zenon
<1>17. ParseFrame(c, snap) =
         [c EXCEPT !.snapShots = fs, !.receivedSnapNum = IF valid THEN snap.serverFrame ELSE c.receivedSnapNum]
  <2> HIDE DEF fs, vs
  <2> QED
    BY <1>7, <1>16 DEF ClientType
<1>18. slot.entities = ParseEntities(IF snap.delta /\ d > 0 THEN hs[d % UpdateBackup].entities ELSE Nothing, snap.updates)
  BY <1>10, <1>21, Zenon DEF entities
<1>19. valid <=> (~snap.delta \/ (d > 0 /\ hs[d % UpdateBackup].valid /\ hs[d % UpdateBackup].serverFrame = d))
  BY <1>5, Zenon DEF usable
<1> USE <1>5, <1>21
<1> WITNESS valid \in BOOLEAN, slot \in ClientSnap
<1> QED
  BY <1>17, <1>18, <1>19, <1>21, Zenon DEF hs, i, ReadSlot

\* A step that leaves alone what the client fires and sends.
SameMoves(c, t) ==
  /\ t.pendingSnapNum = c.pendingSnapNum /\ t.currentSnapNum = c.currentSnapNum
  /\ t.cmdNum = c.cmdNum /\ t.ucmdHead = c.ucmdHead /\ t.net = c.net

Entry(snap) == [frame |-> snap.serverFrame, delta |-> snap.delta, from |-> snap.deltaFrameNum]

Records(c, snap, received) ==
  c.recorder = "recording" \/ (c.recorder = "waiting" /\ ~snap.delta /\ received = snap.serverFrame)

LEMMA RecordTyped ==
  ASSUME NEW c \in ClientType, NEW snap \in ServerSnap
  PROVE  LET t == Record(c, snap)
         IN /\ t \in ClientType /\ SameMoves(c, t) /\ t.asks = c.asks
            /\ t.snapShots = c.snapShots /\ t.receivedSnapNum = c.receivedSnapNum
            /\ \/ /\ Records(c, snap, c.receivedSnapNum)
                  /\ t.recorder = "recording" /\ t.recorded = Append(c.recorded, Entry(snap))
               \/ /\ ~Records(c, snap, c.receivedSnapNum)
                  /\ t.recorder = c.recorder /\ t.recorded = c.recorded
<1> DEFINE records == Records(c, snap, c.receivedSnapNum)
           t == Record(c, snap)
<1>1. CASE records
  <2>1. t = [c EXCEPT !.recorder = "recording", !.recorded = Append(@, Entry(snap))]
    BY <1>1, Zenon DEF Record, Records, Entry
  <2>2. Append(c.recorded, Entry(snap)) \in Seq([frame : Nat, delta : BOOLEAN, from : Int])
    <3>1. Entry(snap) \in [frame : Nat, delta : BOOLEAN, from : Int]
      BY DEF Entry, ServerSnap
    <3>2. c.recorded \in Seq([frame : Nat, delta : BOOLEAN, from : Int])
      BY DEF ClientType
    <3> QED
      BY <3>1, <3>2
  <2> HIDE DEF t, records
  <2>3. t \in ClientType
    BY <2>1, <2>2 DEF ClientType
  <2>4. SameMoves(c, t) /\ t.asks = c.asks /\ t.snapShots = c.snapShots /\ t.receivedSnapNum = c.receivedSnapNum
    BY <2>1 DEF ClientType, SameMoves
  <2>5. t.recorder = "recording" /\ t.recorded = Append(c.recorded, Entry(snap))
    BY <2>1 DEF ClientType
  <2> QED
    BY <1>1, <2>3, <2>4, <2>5 DEF records, t
<1>2. CASE ~records
  <2>1. t = c
    BY <1>2, Zenon DEF Record, Records
  <2> HIDE DEF t, records
  <2> QED
    BY <1>2, <2>1 DEF records, t, SameMoves
<1> QED
  BY <1>1, <1>2

\* What CL_ParseServerMessage does with a snapshot.
Read(c, snap, t, valid, slot) ==
  /\ ReadSlot(c.snapShots, snap, valid, slot)
  /\ t.snapShots = [c.snapShots EXCEPT ![snap.serverFrame % UpdateBackup] = slot]
  /\ t.receivedSnapNum = IF valid THEN snap.serverFrame ELSE c.receivedSnapNum

LEMMA ServerMessageTyped ==
  ASSUME NEW c \in ClientType, NEW m \in ServerMessage
  PROVE  LET t == ParseServerMessage(c, m)
             records == Records(c, m.snap, t.receivedSnapNum)
         IN /\ t \in ClientType /\ SameMoves(c, t) /\ (t.asks => c.asks)
            /\ \E valid \in BOOLEAN, slot \in ClientSnap : Read(c, m.snap, t, valid, slot)
            /\ \/ records /\ t.recorder = "recording" /\ t.recorded = Append(c.recorded, Entry(m.snap))
               \/ ~records /\ t.recorder = c.recorder /\ t.recorded = c.recorded
<1> DEFINE late == c.late \/ (c.receivedSnapNum > 0 /\ m.snap.serverFrame >= Oldest(c) + UpdateBackup)
           asks == c.asks /\ ~m.executed
           c0 == [c EXCEPT !.ucmdAcknowledged = m.ucmdAck, !.asks = asks, !.late = late]
           snap == m.snap
           p == ParseFrame(c0, snap)
           taken == AppendSome(p.taken, Slot(p, snap.serverFrame).commands)
           q == [p EXCEPT !.taken = taken]
           t == ParseServerMessage(c, m)
<1>1. snap \in ServerSnap /\ m.ucmdAck \in Nat /\ late \in BOOLEAN /\ asks \in BOOLEAN
  BY DEF ServerMessage, ClientType
<1>2. t = Record(q, snap)
  BY Zenon DEF ParseServerMessage
<1> HIDE DEF late
<1>3. asks => c.asks
  OBVIOUS
<1> HIDE DEF asks, snap
<1>4. c0 \in ClientType
  BY <1>1 DEF ClientType
<1>5. SameMoves(c, c0) /\ c0.asks = asks /\ c0.snapShots = c.snapShots /\ c0.receivedSnapNum = c.receivedSnapNum
  BY <1>1 DEF ClientType, SameMoves
<1>6. c0.recorder = c.recorder /\ c0.recorded = c.recorded
  BY <1>1 DEF ClientType
<1> HIDE DEF c0, t
<1>7. PICK valid \in BOOLEAN, slot \in ClientSnap :
           /\ ReadSlot(c0.snapShots, snap, valid, slot)
           /\ p = [c0 EXCEPT !.snapShots = [c0.snapShots EXCEPT ![snap.serverFrame % UpdateBackup] = slot],
                             !.receivedSnapNum = IF valid THEN snap.serverFrame ELSE c0.receivedSnapNum]
  BY <1>1, <1>4, FrameTyped, Zenon
<1> DEFINE i == snap.serverFrame % UpdateBackup
           fs == [c0.snapShots EXCEPT ![i] = slot]
           received == IF valid THEN snap.serverFrame ELSE c0.receivedSnapNum
<1>8. p = [c0 EXCEPT !.snapShots = fs, !.receivedSnapNum = received]
  BY <1>7, Zenon
<1>9. fs \in Snaps /\ received \in Nat /\ i \in 0..(UpdateBackup - 1)
  <2>1. snap.serverFrame \in Nat /\ c0.receivedSnapNum \in Nat /\ c0.snapShots \in Snaps
    BY <1>1, <1>4 DEF ServerSnap, ClientType, Snaps
  <2>2. snap.serverFrame \in Int
    BY <2>1
  <2>3. i \in 0..(UpdateBackup - 1)
    BY <2>2, PlaceTyped
  <2> HIDE DEF i
  <2> QED
    BY <2>1, <2>3 DEF Snaps
<1> HIDE DEF p, fs, received, i
<1>10. p \in ClientType
  BY <1>4, <1>8, <1>9 DEF ClientType, Snaps
<1>11. SameMoves(c0, p) /\ p.asks = c0.asks /\ p.snapShots = fs /\ p.receivedSnapNum = received
  BY <1>4, <1>8 DEF ClientType, SameMoves
<1>12. p.recorder = c0.recorder /\ p.recorded = c0.recorded
  BY <1>4, <1>8 DEF ClientType
<1>13. taken \in Seq(SUBSET Nat)
  <2>1. p.taken \in Seq(SUBSET Nat) /\ p.snapShots \in Snaps
    BY <1>10 DEF ClientType, Snaps
  <2>2. Slot(p, snap.serverFrame).commands \in SUBSET Nat
    <3>1. p.snapShots[i] \in ClientSnap
      BY <1>9, <2>1 DEF Snaps
    <3>2. p.snapShots[i].commands \in SUBSET Nat
      BY <3>1 DEF ClientSnap
    <3> QED
      BY <3>2, Zenon DEF Slot, i
  <2>3. PICK taken0, batch : taken0 = p.taken /\ batch = Slot(p, snap.serverFrame).commands
    OBVIOUS
  <2>4. AppendSome(taken0, batch) \in Seq(SUBSET Nat)
    BY <2>1, <2>2, <2>3 DEF AppendSome
  <2> QED
    BY <2>3, <2>4, Zenon
<1> HIDE DEF taken
<1>14. q \in ClientType
  BY <1>10, <1>13 DEF ClientType
<1>15. /\ SameMoves(p, q) /\ q.asks = p.asks /\ q.snapShots = p.snapShots /\ q.receivedSnapNum = p.receivedSnapNum
       /\ q.recorder = p.recorder /\ q.recorded = p.recorded
  BY <1>10 DEF ClientType, SameMoves
<1> HIDE DEF q
<1>16. /\ t \in ClientType /\ SameMoves(q, t) /\ t.asks = q.asks
       /\ t.snapShots = q.snapShots /\ t.receivedSnapNum = q.receivedSnapNum
       /\ \/ /\ Records(q, snap, q.receivedSnapNum)
             /\ t.recorder = "recording" /\ t.recorded = Append(q.recorded, Entry(snap))
          \/ /\ ~Records(q, snap, q.receivedSnapNum)
             /\ t.recorder = q.recorder /\ t.recorded = q.recorded
  BY <1>1, <1>2, <1>14, RecordTyped
<1>17. SameMoves(c, t)
  BY <1>5, <1>11, <1>15, <1>16 DEF SameMoves
<1>18. t.asks => c.asks
  BY <1>3, <1>5, <1>11, <1>15, <1>16
<1>19. \E v \in BOOLEAN, f \in ClientSnap : Read(c, snap, t, v, f)
  <2>1. t.snapShots = [c.snapShots EXCEPT ![i] = slot] /\ t.receivedSnapNum = IF valid THEN snap.serverFrame ELSE c.receivedSnapNum
    BY <1>5, <1>11, <1>15, <1>16, Zenon DEF fs, received
  <2>2. Read(c, snap, t, valid, slot)
    BY <1>5, <1>7, <2>1, Zenon DEF Read, i
  <2> QED
    BY <2>2, Zenon
<1>20. \/ /\ Records(c, snap, t.receivedSnapNum)
           /\ t.recorder = "recording" /\ t.recorded = Append(c.recorded, Entry(snap))
       \/ /\ ~Records(c, snap, t.receivedSnapNum)
          /\ t.recorder = c.recorder /\ t.recorded = c.recorded
  <2>1. q.recorder = c.recorder /\ q.recorded = c.recorded /\ q.receivedSnapNum = t.receivedSnapNum
    BY <1>6, <1>12, <1>15, <1>16, Zenon
  <2>2. Records(q, snap, q.receivedSnapNum) <=> Records(c, snap, t.receivedSnapNum)
    BY <2>1, Zenon DEF Records
  <2> QED
    BY <1>16, <2>1, <2>2, Zenon
<1> QED
  BY <1>16, <1>17, <1>18, <1>19, <1>20, Zenon DEF t, snap

\* CL_ParseServerMessage, message by message.
LEMMA ServerMessagesRun ==
  ASSUME NEW c \in ClientType, NEW net \in Seq(ServerMessage), NEW count \in 0..Len(net)
  PROVE  LET parsed[k \in 0..count] ==
               IF k = 0 THEN c ELSE ParseServerMessage(parsed[k - 1], net[k])
         IN /\ parsed[0] = c /\ \A k \in 1..count : parsed[k] = ParseServerMessage(parsed[k - 1], net[k])
            /\ \A k \in 0..count : parsed[k] \in ClientType
<1> DEFINE S == ClientType
           parsed[k \in 0..count] == IF k = 0 THEN c ELSE ParseServerMessage(parsed[k - 1], net[k])
           f == [k \in 1..count |-> [t \in S |-> ParseServerMessage(t, net[k])]]
<1>1. count \in Nat /\ \A k \in 1..count : net[k] \in ServerMessage
  <2>1. count \in Nat /\ \A k \in 1..count : k \in 1..Len(net)
    OBVIOUS
  <2> QED
    BY <2>1, ElementOfSeq
<1>2. \A t \in S, k \in 1..count : ParseServerMessage(t, net[k]) \in S
  BY <1>1, ServerMessageTyped, Zenon
<1>3. c \in S
  OBVIOUS
<1> HIDE DEF S
<1>4. PICK h \in [0..count -> S] :
        h = [k \in 0..count |-> IF k = 0 THEN c ELSE f[k][h[k - 1]]]
  <2>1. f \in [1..count -> [S -> S]]
    BY <1>2
  <2> HIDE DEF f
  <2>2. Steps(f, count, S)
    BY <1>1, <2>1 DEF Steps
  <2> QED
    BY <1>3, <2>2, Recursion
<1>5. \A k \in 1..count : k \in 0..count /\ k # 0 /\ k - 1 \in 0..count
  BY <1>1
<1>6. \A k \in 1..count : f[k][h[k - 1]] = ParseServerMessage(h[k - 1], net[k])
  BY <1>4, <1>5
<1>7. h = [k \in 0..count |-> IF k = 0 THEN c ELSE ParseServerMessage(h[k - 1], net[k])]
  <2>1. \A k \in 0..count : k = 0 \/ k \in 1..count
    BY <1>1
  <2> HIDE DEF f
  <2>2. \A k \in 0..count : (IF k = 0 THEN c ELSE f[k][h[k - 1]])
                             = (IF k = 0 THEN c ELSE ParseServerMessage(h[k - 1], net[k]))
    BY <1>6, <2>1
  <2> QED
    BY <1>4, <2>2, Zenon
<1>8. parsed = [k \in 0..count |-> IF k = 0 THEN c ELSE ParseServerMessage(parsed[k - 1], net[k])]
  BY <1>7, Zenon DEF parsed
<1> HIDE DEF parsed, f
<1>9. parsed[0] = c /\ \A k \in 1..count : parsed[k] = ParseServerMessage(parsed[k - 1], net[k])
  BY <1>1, <1>5, <1>8
<1>10. \A k \in 0..count : parsed[k] \in S
  <2> DEFINE good == {k \in 0..count : parsed[k] \in S}
  <2>1. 0 \in good
    BY <1>1, <1>3, <1>9
  <2>2. ASSUME NEW k \in 1..count, k - 1 \in good PROVE k \in good
    BY <1>2, <1>5, <1>9, <2>2
  <2> HIDE DEF good
  <2>3. \A k \in 0..count : k \in good
    BY <1>1, <2>1, <2>2, UpTo, Zenon
  <2> QED
    BY <2>3 DEF good
<1> QED
  BY <1>9, <1>10 DEF S, parsed

\* A step that reads nothing and asks nothing.
SameSnaps(c, t) ==
  /\ t.snapShots = c.snapShots /\ t.receivedSnapNum = c.receivedSnapNum
  /\ t.recorder = c.recorder /\ t.asks = c.asks /\ t.recorded = c.recorded
SameFired(c, t) == t.pendingSnapNum = c.pendingSnapNum /\ t.currentSnapNum = c.currentSnapNum
SameSent(c, t)  == t.cmdNum = c.cmdNum /\ t.ucmdHead = c.ucmdHead /\ t.net = c.net

LEMMA SlotTyped ==
  ASSUME NEW c \in ClientType, NEW f \in Int
  PROVE  /\ Slot(c, f) \in ClientSnap /\ Slot(c, f).serverFrame \in Nat /\ Slot(c, f).valid \in BOOLEAN
         /\ Slot(c, f).commands \in SUBSET Nat
<1>1. c.snapShots \in Snaps /\ f % UpdateBackup \in 0..(UpdateBackup - 1)
  BY PlaceTyped DEF ClientType, Snaps
<1>2. Slot(c, f) \in ClientSnap
  BY <1>1 DEF Slot, Snaps
<1> QED
  BY <1>2 DEF ClientSnap

\* CL_UpdateSnapshot.
LEMMA UpdateTyped ==
  ASSUME NEW c \in ClientType
  PROVE  LET t == UpdateSnapshot(c)
         IN /\ t \in ClientType /\ SameSnaps(c, t) /\ SameSent(c, t) /\ t.currentSnapNum = c.currentSnapNum
            /\ \/ t.pendingSnapNum = c.pendingSnapNum
               \/ \E f \in Int : /\ t.pendingSnapNum = Slot(c, f).serverFrame
                                 /\ Slot(c, f).serverFrame > c.currentSnapNum
<1> DEFINE newer == Newer(c, c.currentSnapNum + 1)
           t == UpdateSnapshot(c)
<1>1. CASE c.pendingSnapNum # 0 \/ newer = {}
  <2>1. t = c
    BY <1>1, Zenon DEF UpdateSnapshot
  <2> HIDE DEF t
  <2> QED
    BY <2>1 DEF SameSnaps, SameSent, t
<1>2. CASE ~(c.pendingSnapNum # 0 \/ newer = {})
  <2>1. c.currentSnapNum \in Nat /\ c.receivedSnapNum \in Nat
    BY DEF ClientType
  <2>2. newer \in SUBSET (0..c.receivedSnapNum) /\ \A i \in newer : Slot(c, i).serverFrame > c.currentSnapNum
    BY <2>1 DEF Newer
  <2>3. t = [c EXCEPT !.pendingSnapNum = Slot(c, Max(newer)).serverFrame]
    BY <1>2, Zenon DEF UpdateSnapshot
  <2> HIDE DEF t, newer
  <2>4. PICK f \in Int : f = Max(newer) /\ f \in newer
    <3>1. newer # {} /\ newer \in SUBSET (0..c.receivedSnapNum)
      BY <1>2, <2>2
    <3>2. Max(newer) \in newer
      BY <2>1, <3>1, GreatestNumber, Zenon
    <3>3. Max(newer) \in Int
      <4>1. PICK x : x = Max(newer)
        OBVIOUS
      <4>2. x \in 0..c.receivedSnapNum
        BY <3>1, <3>2, <4>1, Zenon
      <4> QED
        BY <4>1, <4>2
    <3> QED
      BY <3>2, <3>3
  <2>5. PICK frame \in Nat : frame = Slot(c, f).serverFrame /\ frame > c.currentSnapNum
    BY <2>2, <2>4, SlotTyped
  <2>6. t = [c EXCEPT !.pendingSnapNum = frame]
    BY <2>3, <2>4, <2>5, Zenon
  <2>7. t \in ClientType
    BY <2>6 DEF ClientType
  <2>8. SameSnaps(c, t) /\ SameSent(c, t) /\ t.currentSnapNum = c.currentSnapNum /\ t.pendingSnapNum = frame
    BY <2>6 DEF ClientType, SameSnaps, SameSent
  <2> QED
    BY <2>5, <2>7, <2>8, Zenon DEF t
<1> QED
  BY <1>1, <1>2, Zenon

\* CL_AdjustServerTime.
LEMMA FireTyped ==
  ASSUME NEW c \in ClientType
  PROVE  LET t == Fire(c)
         IN /\ t \in ClientType /\ SameSnaps(c, t) /\ SameSent(c, t)
            /\ \/ SameFired(c, t)
               \/ c.pendingSnapNum # 0 /\ t.currentSnapNum = c.pendingSnapNum /\ t.pendingSnapNum = 0
<1> DEFINE snap == Slot(c, c.pendingSnapNum)
           t == Fire(c)
<1>1. CASE c.pendingSnapNum = 0 \/ ~snap.valid
  <2>1. t = c
    BY <1>1, Zenon DEF Fire
  <2> HIDE DEF t
  <2> QED
    BY <2>1 DEF SameSnaps, SameSent, SameFired, t
<1>2. CASE ~(c.pendingSnapNum = 0 \/ ~snap.valid)
  <2> DEFINE executed == AppendSome(c.executed, snap.commands)
  <2>1. c.pendingSnapNum \in Nat /\ c.pendingSnapNum \in Int /\ c.executed \in Seq(SUBSET Nat)
    BY DEF ClientType
  <2>2. t = [c EXCEPT !.currentSnapNum = c.pendingSnapNum, !.pendingSnapNum = 0, !.executed = executed]
    BY <1>2, Zenon DEF Fire
  <2>3. snap.commands \in SUBSET Nat
    BY <2>1, SlotTyped
  <2> HIDE DEF t, snap
  <2>4. executed \in Seq(SUBSET Nat)
    BY <2>1, <2>3 DEF AppendSome
  <2> HIDE DEF executed
  <2>5. t \in ClientType
    BY <2>1, <2>2, <2>4 DEF ClientType
  <2>6. SameSnaps(c, t) /\ SameSent(c, t) /\ t.currentSnapNum = c.pendingSnapNum /\ t.pendingSnapNum = 0
    BY <2>2 DEF ClientType, SameSnaps, SameSent
  <2> QED
    BY <1>2, <2>5, <2>6, Zenon DEF t
<1> QED
  BY <1>1, <1>2, Zenon

\* CL_WriteUcmdsToMessage begins with a user command that is not later than the
\* last one, and not before number 0.
LEMMA FirstTyped ==
  ASSUME NEW c \in ClientType
  PROVE  UcmdFirst(c) \in Nat /\ UcmdFirst(c) <= c.cmdNum + 1
<1>1. PICK head \in Nat, next \in Nat : head = c.cmdNum + 1 /\ next = c.ucmdAcknowledged + 1
  <2>1. c.cmdNum \in Nat /\ c.ucmdAcknowledged \in Nat
    BY DEF ClientType
  <2> QED
    BY <2>1
<1>2. Min({next, head}) \in Nat /\ Min({next, head}) <= head
  <2>1. \E x \in {next, head} : \A y \in {next, head} : x <= y
    OBVIOUS
  <2>2. /\ Min({next, head}) \in {next, head}
        /\ \A y \in {next, head} : Min({next, head}) <= y
    BY <2>1 DEF Min
  <2> QED
    BY <2>2
<1>3. PICK first \in Nat : first = Min({next, head}) /\ first <= head
  BY <1>2
<1>4. UcmdFirst(c) = IF head - first > CmdBackup - 1 THEN head - 3 ELSE first
  BY <1>1, <1>3, Zenon DEF UcmdFirst
<1>5. CmdBackup \in Nat /\ CmdBackup > 3
  BY BackupsHold DEF Backups
<1>6. UcmdFirst(c) \in Nat /\ UcmdFirst(c) <= head
  BY <1>3, <1>4, <1>5
<1> QED
  BY <1>1, <1>6

\* CL_SendMessagesToServer.
LEMMA SendTyped ==
  ASSUME NEW c \in ClientType
  PROVE  \E m \in ClientMessage :
           LET t == Send(c)
           IN /\ t \in ClientType /\ SameSnaps(c, t) /\ SameFired(c, t)
              /\ t.cmdNum = c.cmdNum /\ t.ucmdHead = c.ucmdHead /\ t.net = Append(c.net, m)
              /\ m.asks = c.asks
              /\ m.moves # <<>> => /\ c.currentSnapNum # 0 /\ m.moves[1].head = c.cmdNum + 1
                                   /\ m.moves[1].lastframe =
                                        IF c.receivedSnapNum <= 0 THEN -1 ELSE Slot(c, c.receivedSnapNum).serverFrame
<1> DEFINE move == Move(c)
           m == [asks |-> c.asks, moves |-> IF IsActive(c) THEN <<Move(c)>> ELSE <<>>]
           first == UcmdFirst(c)
           cmds == [k \in 1..(c.cmdNum + 1 - first) |-> c.cmds[(first + k - 1) % CmdBackup]]
           lastframe == IF c.receivedSnapNum <= 0 THEN -1 ELSE Slot(c, c.receivedSnapNum).serverFrame
           t == Send(c)
<1>1. /\ c.cmdNum \in Nat /\ c.receivedSnapNum \in Nat /\ c.cmds \in [0..(CmdBackup - 1) -> UserCmds]
      /\ c.asks \in BOOLEAN /\ c.net \in Seq(ClientMessage) /\ c.skips \in BOOLEAN /\ c.ucmdSent \in Nat
  BY DEF ClientType
<1>2. cmds \in Seq(UserCmds)
  <2>1. PICK n \in Nat : n = c.cmdNum + 1 - first
    BY <1>1, FirstTyped
  <2>2. ASSUME NEW k \in 1..n PROVE c.cmds[(first + k - 1) % CmdBackup] \in UserCmds
    <3>1. first + k - 1 \in Int /\ CmdBackup \in Nat /\ CmdBackup > 0
      BY FirstTyped, BackupsHold DEF Backups
    <3>2. (first + k - 1) % CmdBackup \in 0..(CmdBackup - 1)
      BY <3>1, Place
    <3> QED
      BY <1>1, <3>2
  <2>3. cmds = [k \in 1..n |-> c.cmds[(first + k - 1) % CmdBackup]]
    BY <2>1, Zenon
  <2> HIDE DEF cmds, first
  <2> QED
    BY <2>2, <2>3
<1>3. lastframe \in Int
  <2>1. Slot(c, c.receivedSnapNum).serverFrame \in Nat
    <3>1. c.receivedSnapNum \in Int
      BY <1>1
    <3> QED
      BY <3>1, SlotTyped
  <2> QED
    BY <1>1, <2>1
<1>4. move = [lastframe |-> lastframe, head |-> c.cmdNum + 1, cmds |-> cmds]
  BY Zenon DEF Move
<1> HIDE DEF lastframe, cmds
<1>5. move \in MoveType /\ move.lastframe = lastframe /\ move.head = c.cmdNum + 1
  <2>1. c.cmdNum + 1 \in Nat \ {0}
    BY <1>1
  <2> HIDE DEF move
  <2> QED
    BY <1>2, <1>3, <1>4, <2>1 DEF MoveType
<1> HIDE DEF move
<1>6. IsActive(c) <=> c.currentSnapNum # 0
  BY DEF IsActive
<1>7. m \in ClientMessage /\ m.asks = c.asks
  <2>1. m = [asks |-> c.asks, moves |-> IF IsActive(c) THEN <<move>> ELSE <<>>]
    BY Zenon DEF move
  <2> HIDE DEF m
  <2>2. (IF IsActive(c) THEN <<move>> ELSE <<>>) \in Seq(MoveType)
    BY <1>5
  <2> QED
    BY <1>1, <2>1, <2>2 DEF ClientMessage
<1>8. m.moves # <<>> => /\ c.currentSnapNum # 0 /\ m.moves[1].head = c.cmdNum + 1
                        /\ m.moves[1].lastframe = lastframe
  <2>1. CASE IsActive(c)
    <3>1. m.moves = <<move>>
      BY <2>1 DEF move
    <3> HIDE DEF m
    <3>2. m.moves[1] = move
      BY <3>1
    <3> QED
      BY <1>5, <1>6, <2>1, <3>2, Zenon
  <2>2. CASE ~IsActive(c)
    BY <2>2
  <2> QED
    BY <2>1, <2>2
<1> DEFINE skips == c.skips \/ (IsActive(c) /\ c.cmdNum - c.ucmdAcknowledged > CmdBackup - 1)
           sent == IF IsActive(c) THEN c.cmdNum + 1 ELSE c.ucmdSent
<1>9. t = [c EXCEPT !.net = Append(c.net, m), !.skips = skips, !.ucmdSent = sent]
  <2>1. t = [c EXCEPT !.net = Append(@, m), !.skips = @ \/ (IsActive(c) /\ c.cmdNum - c.ucmdAcknowledged > CmdBackup - 1),
                      !.ucmdSent = IF IsActive(c) THEN c.cmdNum + 1 ELSE @]
    BY Zenon DEF Send
  <2> QED
    BY <2>1, Zenon
<1>10. skips \in BOOLEAN /\ sent \in Nat /\ Append(c.net, m) \in Seq(ClientMessage)
  <2> HIDE DEF m
  <2> QED
    BY <1>1, <1>7
<1> HIDE DEF m, t, skips, sent
<1>11. t \in ClientType
  BY <1>9, <1>10 DEF ClientType
<1>12. SameSnaps(c, t) /\ SameFired(c, t) /\ t.cmdNum = c.cmdNum /\ t.ucmdHead = c.ucmdHead /\ t.net = Append(c.net, m)
  BY <1>9 DEF ClientType, SameSnaps, SameFired
<1> QED
  BY <1>7, <1>8, <1>11, <1>12, Zenon DEF t, lastframe

\* CL_CreateNewUserCommand.
WithCommand(c, cmds, time, times, num, head) ==
  [c EXCEPT !.cmds = cmds, !.time = time, !.times = times, !.cmdNum = num, !.ucmdHead = head]

CmdRing  == [0..(CmdBackup - 1) -> UserCmds]
CmdTimes == Seq(Nat)

LEMMA UserCommandFields ==
  ASSUME NEW c \in ClientType, NEW cmds \in CmdRing, NEW time \in Nat, NEW times \in CmdTimes,
         NEW num \in Nat, NEW head \in Nat, NEW t, t = WithCommand(c, cmds, time, times, num, head)
  PROVE  /\ t \in ClientType /\ SameSnaps(c, t) /\ SameFired(c, t) /\ t.net = c.net
         /\ t.cmdNum = num /\ t.ucmdHead = head
<1> USE DEF WithCommand
<1>1. t \in ClientType
  BY DEF ClientType, CmdRing, CmdTimes
<1>2. SameSnaps(c, t) /\ SameFired(c, t) /\ t.net = c.net
  BY DEF ClientType, SameSnaps, SameFired
<1>3. t.cmdNum = num /\ t.ucmdHead = head
  BY DEF ClientType
<1> QED
  BY <1>1, <1>2, <1>3

NewCommand(c, step) ==
  [c EXCEPT !.cmds[c.ucmdHead % CmdBackup] = [number |-> c.ucmdHead, time |-> c.time + step],
            !.time = @ + step, !.times = Append(@, c.time + step),
            !.cmdNum = c.ucmdHead, !.ucmdHead = @ + 1]

LEMMA UserCommandTyped ==
  ASSUME NEW c \in ClientType, NEW step \in Nat
  PROVE  LET t == NewCommand(c, step)
         IN /\ t \in ClientType /\ SameSnaps(c, t) /\ SameFired(c, t) /\ t.net = c.net
            /\ t.cmdNum = c.ucmdHead /\ t.ucmdHead = c.ucmdHead + 1
<1>1. /\ c.ucmdHead \in Nat /\ c.time \in Nat /\ c.times \in Seq(Nat)
      /\ c.cmds \in [0..(CmdBackup - 1) -> UserCmds]
  BY DEF ClientType
<1> DEFINE cmd == [number |-> c.ucmdHead, time |-> c.time + step]
           cmds == [c.cmds EXCEPT ![c.ucmdHead % CmdBackup] = cmd]
           times == Append(c.times, c.time + step)
           t == NewCommand(c, step)
<1>2. cmd \in UserCmds
  BY <1>1 DEF UserCmds
<1> HIDE DEF cmd
<1>a. PICK time \in Nat, head \in Nat : time = c.time + step /\ head = c.ucmdHead + 1
  BY <1>1
<1>3. cmds \in [0..(CmdBackup - 1) -> UserCmds] /\ times \in Seq(Nat)
  <2>1. cmds \in [0..(CmdBackup - 1) -> UserCmds]
    BY <1>1, <1>2
  <2>2. times \in Seq(Nat)
    BY <1>1
  <2> QED
    BY <2>1, <2>2
<1>4. t = [c EXCEPT !.cmds = cmds, !.time = time, !.times = times, !.cmdNum = c.ucmdHead, !.ucmdHead = head]
  <2>1. t = [c EXCEPT !.cmds = cmds, !.time = c.time + step, !.times = times, !.cmdNum = c.ucmdHead,
                      !.ucmdHead = c.ucmdHead + 1]
    BY DEF cmd, NewCommand
  <2> HIDE DEF t, cmds, times
  <2> QED
    BY <1>a, <2>1, Zenon
<1> HIDE DEF cmds, times, t
<1>5. /\ t \in ClientType /\ SameSnaps(c, t) /\ SameFired(c, t) /\ t.net = c.net
      /\ t.cmdNum = c.ucmdHead /\ t.ucmdHead = head
  <2>1. t = WithCommand(c, cmds, time, times, c.ucmdHead, head)
    BY <1>4, Zenon DEF WithCommand
  <2>2. c.ucmdHead \in Nat /\ cmds \in [0..(CmdBackup - 1) -> UserCmds] /\ times \in Seq(Nat)
    BY <1>1, <1>3
  <2>3. PICK newCmds \in CmdRing : newCmds = cmds
    BY <2>2 DEF CmdRing
  <2>4. PICK newTimes \in CmdTimes : newTimes = times
    BY <2>2 DEF CmdTimes
  <2>5. PICK num \in Nat : num = c.ucmdHead
    BY <2>2
  <2>6. PICK new : new = t
    OBVIOUS
  <2>7. new = WithCommand(c, newCmds, time, newTimes, num, head)
    BY <2>1, <2>3, <2>4, <2>5, <2>6, Zenon
  <2>8. new \in ClientType /\ SameSnaps(c, new) /\ SameFired(c, new) /\ new.net = c.net /\ new.cmdNum = num /\ new.ucmdHead = head
    BY <2>7, UserCommandFields
  <2> QED
    BY <2>5, <2>6, <2>8, Zenon
<1> QED
  BY <1>a, <1>5, Zenon DEF t

\* CL_Record_f.
LEMMA StartTyped ==
  ASSUME NEW c \in ClientType, NEW t, t = [c EXCEPT !.recorder = "waiting", !.asks = TRUE]
  PROVE  /\ t \in ClientType /\ SameFired(c, t) /\ SameSent(c, t) /\ t.recorder = "waiting" /\ t.asks
         /\ t.snapShots = c.snapShots /\ t.receivedSnapNum = c.receivedSnapNum /\ t.recorded = c.recorded
<1>1. t \in ClientType
  BY DEF ClientType
<1>2. SameFired(c, t) /\ SameSent(c, t) /\ t.recorder = "waiting"
  BY DEF ClientType, SameFired, SameSent
<1>3. t.snapShots = c.snapShots /\ t.receivedSnapNum = c.receivedSnapNum /\ t.recorded = c.recorded /\ t.asks = TRUE
  BY DEF ClientType
<1> QED
  BY <1>1, <1>2, <1>3

\* Messages that are read, sent or lost.
ClientNets == Seq(ClientMessage)
ServerNets == Seq(ServerMessage)

WithNet(end, net) == [end EXCEPT !.net = net]

LEMMA ClientNetTyped ==
  ASSUME NEW c \in ClientType, NEW net \in ClientNets, NEW t, t = WithNet(c, net)
  PROVE  /\ t \in ClientType /\ SameSnaps(c, t) /\ SameFired(c, t) /\ t.cmdNum = c.cmdNum
         /\ t.ucmdHead = c.ucmdHead /\ t.net = net
<1>1. t \in ClientType
  BY DEF ClientType, ClientNets, WithNet
<1>2. SameSnaps(c, t) /\ SameFired(c, t)
  BY DEF ClientType, ClientNets, WithNet, SameSnaps, SameFired
<1>3. t.cmdNum = c.cmdNum /\ t.ucmdHead = c.ucmdHead /\ t.net = net
  BY DEF ClientType, ClientNets, WithNet
<1> QED
  BY <1>1, <1>2, <1>3

LEMMA ServerNetTyped ==
  ASSUME NEW s, s \in ServerType(s), NEW net \in ServerNets, NEW t, t = WithNet(s, net)
  PROVE  /\ t \in ServerType(t) /\ SameRing(s, t) /\ t.net = net /\ t.lastframe = s.lastframe
         /\ t.nodelta = s.nodelta /\ t.nodelta_frame = s.nodelta_frame /\ t.executed = s.executed
         /\ t.UcmdReceived = s.UcmdReceived /\ t.UcmdExecuted = s.UcmdExecuted
<1>1. t \in ServerType(t)
  BY DEF ServerType, ServerNets, WithNet
<1>2. SameRing(s, t) /\ t.net = net /\ t.lastframe = s.lastframe
  BY DEF ServerType, ServerNets, WithNet, SameRing
<1>3. /\ t.nodelta = s.nodelta /\ t.nodelta_frame = s.nodelta_frame /\ t.executed = s.executed
      /\ t.UcmdReceived = s.UcmdReceived /\ t.UcmdExecuted = s.UcmdExecuted
  BY DEF ServerType, ServerNets, WithNet
<1> QED
  BY <1>1, <1>2, <1>3

-----------------------------------------------------------------------------
(* What the ends agree on, while the server reads.                         *)

\* A message that is not read, or has been lost, asks for nothing.
LEMMA MessageSkipped ==
  ASSUME NEW s, NEW c, NEW i \in Nat, NEW j \in Nat, NEW k \in Nat, NEW l \in Nat, i <= k, j <= l,
         Agreed(s, c, i, j), Len(c.net) \in Nat, Len(s.net) \in Nat
  PROVE  Agreed(s, c, k, l)
<1>1. /\ \A n \in (k + 1)..Len(c.net) : n \in (i + 1)..Len(c.net)
      /\ \A n \in (l + 1)..Len(s.net) : n \in (j + 1)..Len(s.net)
  OBVIOUS
<1>2. \A n \in Moves(c, k) : n \in Moves(c, i)
  BY <1>1 DEF Moves
<1>3. SnapsHold(s, c, l)
  BY <1>1 DEF Agreed, SnapsHold
<1>4. MovesHold(s, c, k)
  BY <1>2 DEF Agreed, MovesHold
<1>5. Asked(s, c, k)
  BY <1>1 DEF Agreed, Demo, Asked
<1>6. Demo(s, c, k, l)
  <2>1. Demo(s, c, i, j)
    BY DEF Agreed
  <2> QED
    BY <1>1, <1>2, <1>5, <2>1 DEF Demo
<1> QED
  BY <1>3, <1>4, <1>6 DEF Agreed

\* The ends agree on no more of the server than this.
LEMMA ServerSame ==
  ASSUME NEW s, NEW t, SameTalk(s, t), s.framenum \in Nat, t.framenum \in Nat, s.framenum <= t.framenum,
         NEW c, c.receivedSnapNum \in Nat, NEW i \in Nat, NEW j \in Nat,
         Agreed(s, c, i, j), s.nodelta_frame \in Nat, Len(s.net) \in Nat,
         \A k \in 1..Len(s.net) : s.net[k].snap.serverFrame \in Nat
  PROVE  Agreed(t, c, i, j)
<1>1. SnapsHold(t, c, j)
  <2>1. ASSUME NEW k \in (j + 1)..Len(s.net) PROVE SnapHolds(t, c, s.net[k].snap)
    <3>1. SnapHolds(s, c, s.net[k].snap) /\ s.net[k].snap.serverFrame \in Nat
      BY DEF Agreed, SnapsHold
    <3>2. s.net[k].snap.serverFrame <= s.framenum
      BY <3>1 DEF SnapHolds
    <3>3. s.net[k].snap.serverFrame <= t.framenum
      BY <3>1, <3>2
    <3> QED
      BY <3>1, <3>3, Zenon DEF SnapHolds
  <2>2. SnapsHold(s, c, j) /\ t.net = s.net
    BY DEF Agreed, SameTalk
  <2> QED
    BY <2>1, <2>2, Zenon DEF SnapsHold
<1>2. MovesHold(t, c, i)
  <2>1. MovesHold(s, c, i)
    BY DEF Agreed
  <2> QED
    BY <2>1, Zenon DEF MovesHold, MoveHolds, SameTalk
<1>3. Asked(t, c, i)
  <2>1. Asked(s, c, i)
    BY DEF Agreed, Demo
  <2> QED
    BY <2>1, Zenon DEF Asked, SameTalk
<1>4. Demo(t, c, i, j)
  <2>1. Demo(s, c, i, j)
    BY DEF Agreed
  <2>2. t.nodelta_frame <= t.framenum
    BY <2>1 DEF Demo, SameTalk
  <2> QED
    BY <1>3, <2>1, <2>2, Zenon DEF Demo, Covered, SameTalk
<1>5. c.receivedSnapNum <= t.framenum
  BY DEF Agreed
<1> QED
  BY <1>1, <1>2, <1>4, <1>5, Zenon DEF Agreed

LEMMA NetsTyped ==
  /\ \A c \in ClientType : c.net \in Seq(ClientMessage) /\ Len(c.net) \in Nat
  /\ \A s : s \in ServerType(s) => s.net \in Seq(ServerMessage) /\ Len(s.net) \in Nat
<1>1. ASSUME NEW c \in ClientType PROVE c.net \in Seq(ClientMessage) /\ Len(c.net) \in Nat
  BY DEF ClientType
<1>2. ASSUME NEW s, s \in ServerType(s) PROVE s.net \in Seq(ServerMessage) /\ Len(s.net) \in Nat
  <2>1. s.net \in Seq(ServerMessage)
    BY <1>2 DEF ServerType
  <2> QED
    BY <2>1
<1> QED
  BY <1>1, <1>2

LEMMA MovesTyped ==
  ASSUME NEW c \in ClientType, NEW i \in Nat, NEW k \in Moves(c, i)
  PROVE  /\ k \in 1..Len(c.net) /\ k > i /\ c.net[k] \in ClientMessage /\ c.net[k].moves # <<>>
         /\ MoveOf(c, k) \in MoveType /\ MoveOf(c, k).lastframe \in Int /\ MoveOf(c, k).head \in Nat
<1>1. c.net \in Seq(ClientMessage)
  BY DEF ClientType
<1>2. k \in (i + 1)..Len(c.net) /\ c.net[k].moves # <<>>
  BY DEF Moves
<1>3. k \in 1..Len(c.net) /\ k > i
  BY <1>1, <1>2
<1>4. c.net[k] \in ClientMessage
  BY <1>1, <1>3
<1>5. c.net[k].moves \in Seq(MoveType)
  BY <1>4 DEF ClientMessage
<1>6. c.net[k].moves[1] \in MoveType
  BY <1>2, <1>5
<1>7. MoveOf(c, k) \in MoveType
  BY <1>6 DEF MoveOf
<1>8. MoveOf(c, k).lastframe \in Int /\ MoveOf(c, k).head \in Nat
  BY <1>7 DEF MoveType
<1> QED
  BY <1>2, <1>3, <1>4, <1>7, <1>8

\* HandleClientCommand_NoDelta: the client records, and no demo has begun.
LEMMA NoDeltaAgreed ==
  ASSUME NEW s, s \in ServerType(s), NEW c \in ClientType, NEW i \in Nat, NEW j \in Nat,
         Agreed(s, c, i, j), c.recorder # "off"
  PROVE  Agreed(NoDelta(s), c, i, j)
<1> DEFINE t == NoDelta(s)
<1>1. /\ t.framenum = s.framenum /\ t.nodelta /\ t.nodelta_frame = 0 /\ t.lastframe = -1 /\ t.executed
      /\ t.net = s.net /\ t.UcmdReceived = s.UcmdReceived /\ t.UcmdExecuted = s.UcmdExecuted
  BY NoDeltaTyped DEF SameRing
<1>2. PICK none \in Int : none = -1
  OBVIOUS
<1>3. s.framenum \in Nat /\ s.lastframe \in Int
  BY DEF ServerType
<1> HIDE DEF t
<1>4. SnapsHold(t, c, j)
  <2>1. SnapsHold(s, c, j)
    BY DEF Agreed
  <2>2. ASSUME NEW k \in (j + 1)..Len(s.net) PROVE SnapHolds(t, c, s.net[k].snap)
    BY <1>1, <2>1, Zenon DEF SnapsHold, SnapHolds
  <2> QED
    BY <1>1, <2>1, <2>2, Zenon DEF SnapsHold
<1>5. MovesHold(t, c, i)
  <2>1. MovesHold(s, c, i)
    BY DEF Agreed
  <2>2. ASSUME NEW k \in Moves(c, i) PROVE MoveHolds(t, c, MoveOf(c, k))
    <3>1. MoveHolds(s, c, MoveOf(c, k)) /\ s.lastframe >= -1
      BY <2>1 DEF MovesHold
    <3>2. MoveOf(c, k).lastframe \in Int
      BY MovesTyped
    <3>3. t.lastframe <= MoveOf(c, k).lastframe
      BY <1>1, <1>3, <3>1, <3>2 DEF MoveHolds
    <3> QED
      BY <1>1, <3>1, <3>3, Zenon DEF MoveHolds
  <2>3. t.lastframe >= -1 /\ Kept(c, t.lastframe)
    BY <1>1 DEF Kept
  <2> QED
    BY <1>1, <2>1, <2>2, <2>3, Zenon DEF MovesHold
<1>6. Demo(t, c, i, j)
  <2>1. Asked(t, c, i)
    BY <1>1 DEF Asked
  <2>2. Demo(s, c, i, j)
    BY DEF Agreed
  <2> QED
    BY <1>1, <1>3, <2>1, <2>2 DEF Demo, Covered
<1>7. Agreed(t, c, i, j)
  BY <1>1, <1>4, <1>5, <1>6, Zenon DEF Agreed
<1> QED
  BY <1>7 DEF t

\* SV_ParseMoveCommand: what the client has told with a move takes the place of
\* what it has told before.
LEMMA MoveAgreed ==
  ASSUME NEW s, s \in ServerType(s), NEW c \in ClientType, NEW i \in Nat, NEW j \in Nat,
         Agreed(s, c, i, j), NEW k \in Moves(c, i), k = i + 1
  PROVE  Agreed(ParseMoveCommand(s, MoveOf(c, k)), c, k, j)
<1> DEFINE m == MoveOf(c, k)
           t == ParseMoveCommand(s, m)
<1>1. m \in MoveType /\ m.lastframe \in Int /\ m.head \in Nat
  BY MovesTyped
<1>2. /\ t.framenum = s.framenum /\ t.UcmdReceived = m.head - 1 /\ t.lastframe = m.lastframe /\ t.net = s.net
      /\ t.nodelta = s.nodelta /\ t.nodelta_frame = s.nodelta_frame /\ t.executed = s.executed
      /\ t.UcmdExecuted = s.UcmdExecuted
  <2>1. m \in MoveType /\ s \in ServerType(s)
    BY <1>1
  <2> HIDE DEF m
  <2> QED
    BY <2>1, MoveTyped DEF SameRing
<1>3. MovesHold(s, c, i) /\ MoveHolds(s, c, m)
  BY DEF Agreed, MovesHold
<1>4. /\ s.lastframe \in Int /\ s.UcmdReceived \in Nat /\ s.UcmdExecuted \in Nat /\ c.cmdNum \in Nat
      /\ c.receivedSnapNum \in Nat /\ s.framenum \in Nat /\ s.nodelta_frame \in Nat
  BY DEF ServerType, ClientType
<1>5. Agreed(s, c, k, j)
  <2>1. Len(c.net) \in Nat /\ Len(s.net) \in Nat /\ k \in Nat /\ i <= k
    BY NetsTyped
  <2> QED
    BY <2>1, MessageSkipped
<1> HIDE DEF t, m
<1>6. SnapsHold(t, c, j)
  <2>1. SnapsHold(s, c, j)
    BY DEF Agreed
  <2>2. ASSUME NEW n \in (j + 1)..Len(s.net) PROVE SnapHolds(t, c, s.net[n].snap)
    BY <1>2, <2>1, Zenon DEF SnapsHold, SnapHolds
  <2> QED
    BY <1>2, <2>1, <2>2, Zenon DEF SnapsHold
<1>7. MovesHold(t, c, k)
  <2>1. ASSUME NEW n \in Moves(c, k)
        PROVE  /\ MoveOf(c, n).lastframe \in Int /\ MoveOf(c, n).head \in Nat
               /\ MoveHolds(s, c, MoveOf(c, n)) /\ m.lastframe <= MoveOf(c, n).lastframe /\ m.head <= MoveOf(c, n).head
    <3>1. MoveOf(c, n).lastframe \in Int /\ MoveOf(c, n).head \in Nat /\ n \in Nat /\ n > k
      BY MovesTyped
    <3>2. MoveHolds(s, c, MoveOf(c, n))
      BY <1>5 DEF Agreed, MovesHold
    <3>3. n \in Moves(c, i) /\ k <= n
      BY <3>1 DEF Moves
    <3> QED
      BY <1>3, <3>1, <3>2, <3>3 DEF MovesHold, m
  <2>2. ASSUME NEW n \in Moves(c, k) PROVE MoveHolds(t, c, MoveOf(c, n))
    <3>1. t.lastframe <= MoveOf(c, n).lastframe
      BY <1>2, <2>1
    <3>2. t.UcmdReceived < MoveOf(c, n).head
      BY <1>1, <1>2, <2>1
    <3> QED
      BY <2>1, <3>1, <3>2 DEF MoveHolds
  <2>3. t.lastframe >= -1 /\ Kept(c, t.lastframe)
    BY <1>1, <1>2, <1>3, <1>4 DEF MovesHold, MoveHolds
  <2>4. t.lastframe <= c.receivedSnapNum \/ t.lastframe = -1
    BY <1>1, <1>2, <1>4, <2>3 DEF Kept
  <2>5. t.UcmdExecuted <= t.UcmdReceived /\ t.UcmdReceived <= c.cmdNum /\ c.cmdNum <= c.ucmdHead
    BY <1>1, <1>2, <1>3, <1>4 DEF MovesHold, MoveHolds
  <2>6. MovesHold(s, c, k)
    BY <1>5 DEF Agreed
  <2> QED
    BY <2>2, <2>3, <2>4, <2>5, <2>6 DEF MovesHold
<1>8. Demo(t, c, k, j)
  <2>1. Demo(s, c, k, j)
    BY <1>5 DEF Agreed
  <2>2. Asked(t, c, k)
    <3>1. s.lastframe <= m.lastframe
      BY <1>3 DEF MoveHolds
    <3> QED
      BY <1>1, <1>2, <1>4, <2>1, <3>1 DEF Demo, Asked
  <2>3. Covered(t, c, t.lastframe)
    <3>1. Covered(s, c, m.lastframe)
      BY DEF Agreed, Demo, m
    <3> QED
      BY <1>2, <3>1, Zenon DEF Covered
  <2> QED
    BY <1>2, <2>1, <2>2, <2>3, Zenon DEF Demo, Covered
<1>9. Agreed(t, c, k, j)
  BY <1>2, <1>5, <1>6, <1>7, <1>8, Zenon DEF Agreed
<1> QED
  BY <1>9 DEF t, m

\* SV_ParseClientMessage.
LEMMA ClientMessageAgreed ==
  ASSUME NEW s, s \in ServerType(s), NEW c \in ClientType, NEW i \in Nat, NEW j \in Nat,
         Agreed(s, c, i, j), NEW k \in 1..Len(c.net), k = i + 1
  PROVE  Agreed(ParseClientMessage(s, c.net[k]), c, k, j)
<1> DEFINE m == c.net[k]
           u == IF m.asks /\ ~s.executed THEN NoDelta(s) ELSE s
<1>1. u \in ServerType(u) /\ Agreed(u, c, i, j)
  <2>1. CASE m.asks /\ ~s.executed
    <3>1. k \in (i + 1)..Len(c.net)
      OBVIOUS
    <3>2. c.recorder # "off"
      BY <2>1, <3>1 DEF Agreed, Demo, Asked
    <3>3. NoDelta(s) \in ServerType(s)
      BY NoDeltaTyped
    <3>4. NoDelta(s) \in ServerType(NoDelta(s))
      BY <3>3, ServerTypeOf
    <3>5. Agreed(NoDelta(s), c, i, j)
      BY <3>2, NoDeltaAgreed
    <3> QED
      BY <2>1, <3>4, <3>5, Zenon
  <2>2. CASE ~(m.asks /\ ~s.executed)
    BY <2>2
  <2> QED
    BY <2>1, <2>2
<1>2. ParseClientMessage(s, m) = IF m.moves = <<>> THEN u ELSE ParseMoveCommand(u, m.moves[1])
  BY Zenon DEF ParseClientMessage
<1> HIDE DEF u
<1>3. CASE m.moves = <<>>
  <2>1. Len(c.net) \in Nat /\ Len(u.net) \in Nat /\ k \in Nat /\ i <= k
    BY <1>1, NetsTyped
  <2>2. Agreed(u, c, k, j)
    BY <1>1, <2>1, MessageSkipped
  <2> QED
    BY <1>2, <1>3, <2>2, Zenon
<1>4. CASE m.moves # <<>>
  <2>1. k \in Moves(c, i)
    BY <1>4 DEF Moves
  <2>2. Agreed(ParseMoveCommand(u, MoveOf(c, k)), c, k, j)
    BY <1>1, <2>1, MoveAgreed
  <2> QED
    BY <1>2, <1>4, <2>2, Zenon DEF MoveOf
<1> QED
  BY <1>3, <1>4

\* SV_ExecuteClientThinks.
LEMMA ThinksAgreed ==
  ASSUME NEW s, s \in ServerType(s), NEW c, NEW i \in Nat, NEW j \in Nat, Agreed(s, c, i, j)
  PROVE  Agreed(ExecuteClientThinks(s), c, i, j)
<1> DEFINE t == ExecuteClientThinks(s)
<1>1. /\ t.framenum = s.framenum /\ t.UcmdExecuted = s.UcmdReceived
      /\ t.UcmdReceived = s.UcmdReceived /\ t.lastframe = s.lastframe /\ t.net = s.net
      /\ t.nodelta = s.nodelta /\ t.nodelta_frame = s.nodelta_frame /\ t.executed = s.executed
  BY ThinksTyped DEF SameRing
<1>2. s.UcmdReceived \in Nat
  BY DEF ServerType
<1> HIDE DEF t
<1>3. SnapsHold(t, c, j)
  <2>1. SnapsHold(s, c, j)
    BY DEF Agreed
  <2>2. ASSUME NEW n \in (j + 1)..Len(s.net) PROVE SnapHolds(t, c, s.net[n].snap)
    BY <1>1, <2>1, Zenon DEF SnapsHold, SnapHolds
  <2> QED
    BY <1>1, <2>1, <2>2, Zenon DEF SnapsHold
<1>4. MovesHold(t, c, i)
  <2>1. MovesHold(s, c, i)
    BY DEF Agreed
  <2>2. t.UcmdExecuted <= t.UcmdReceived
    BY <1>1, <1>2
  <2> QED
    BY <1>1, <2>1, <2>2, Zenon DEF MovesHold, MoveHolds
<1>5. Demo(t, c, i, j)
  <2>1. Demo(s, c, i, j)
    BY DEF Agreed
  <2>2. Asked(t, c, i)
    BY <1>1, <2>1, Zenon DEF Demo, Asked
  <2> QED
    BY <1>1, <2>1, <2>2, Zenon DEF Demo, Covered
<1>6. Agreed(t, c, i, j)
  BY <1>1, <1>3, <1>4, <1>5, Zenon DEF Agreed
<1> QED
  BY <1>6 DEF t

\* The messages that have been read are gone.
WithoutFirst(end, n) == [end EXCEPT !.net = SubSeq(@, n + 1, Len(@))]

LEMMA MessagesGone ==
  ASSUME NEW s, NEW c \in ClientType, NEW i \in 0..Len(c.net), NEW j \in Nat, Agreed(s, c, i, j),
         NEW d, d = WithoutFirst(c, i)
  PROVE  d \in ClientType /\ Agreed(s, d, 0, j)
<1> DEFINE net == SubSeq(c.net, i + 1, Len(c.net))
<1>1. c.net \in Seq(ClientMessage) /\ Len(c.net) \in Nat
  BY NetsTyped
<1>2. /\ net \in Seq(ClientMessage) /\ Len(net) = Len(c.net) - i
      /\ \A k \in 1..(Len(c.net) - i) : k + i \in (i + 1)..Len(c.net) /\ net[k] = c.net[k + i]
  BY <1>1, Rest
<1>3. d = [c EXCEPT !.net = net]
  BY Zenon DEF WithoutFirst
<1> HIDE DEF net
<1>4. /\ d \in ClientType /\ SameSnaps(c, d) /\ SameFired(c, d) /\ d.cmdNum = c.cmdNum
      /\ d.ucmdHead = c.ucmdHead /\ d.net = net
  <2>1. PICK q \in ClientNets : q = net
    BY <1>2 DEF ClientNets
  <2>2. d = WithNet(c, q)
    BY <1>3, <2>1, Zenon DEF WithNet
  <2>3. /\ d \in ClientType /\ SameSnaps(c, d) /\ SameFired(c, d) /\ d.cmdNum = c.cmdNum
        /\ d.ucmdHead = c.ucmdHead /\ d.net = q
    BY <2>2, ClientNetTyped
  <2> QED
    BY <2>1, <2>3, Zenon
<1>5. ASSUME NEW k \in 1..Len(d.net) PROVE k \in Nat /\ k + i \in (i + 1)..Len(c.net) /\ d.net[k] = c.net[k + i]
  <2>1. k \in 1..(Len(c.net) - i) /\ d.net[k] = net[k]
    BY <1>2, <1>4, Zenon
  <2> QED
    BY <1>1, <1>2, <2>1
<1>6. ASSUME NEW k \in Moves(d, 0) PROVE k \in Nat /\ k + i \in Moves(c, i) /\ MoveOf(d, k) = MoveOf(c, k + i)
  <2>1. k \in 1..Len(d.net) /\ d.net[k].moves # <<>>
    BY DEF Moves
  <2>2. k \in Nat /\ k + i \in (i + 1)..Len(c.net) /\ d.net[k] = c.net[k + i]
    BY <1>5, <2>1
  <2> QED
    BY <2>1, <2>2 DEF Moves, MoveOf
<1>7. \A f : Kept(d, f) <=> Kept(c, f)
  BY <1>4, Zenon DEF Kept, Slot, SameSnaps
<1>8. \A f : Recorded(d, f) <=> Recorded(c, f)
  BY <1>4, Zenon DEF Recorded, SameSnaps
<1>9. SnapsHold(s, d, j)
  <2>1. ASSUME NEW k \in (j + 1)..Len(s.net) PROVE SnapHolds(s, d, s.net[k].snap)
    <3>1. SnapHolds(s, c, s.net[k].snap) /\ d.receivedSnapNum = c.receivedSnapNum
      BY <1>4 DEF Agreed, SnapsHold, SameSnaps
    <3> QED
      BY <1>7, <3>1, Zenon DEF SnapHolds
  <2> QED
    BY <2>1, Zenon DEF Agreed, SnapsHold
<1>10. MovesHold(s, d, 0)
  <2>1. MovesHold(s, c, i)
    BY DEF Agreed
  <2>2. ASSUME NEW k \in Moves(d, 0) PROVE MoveHolds(s, d, MoveOf(d, k))
    <3>1. MoveHolds(s, c, MoveOf(d, k))
      BY <1>6, <2>1, Zenon DEF MovesHold
    <3> QED
      BY <1>4, <1>7, <3>1, Zenon DEF MoveHolds
  <2>3. ASSUME NEW k \in Moves(d, 0), NEW l \in Moves(d, 0), k <= l
        PROVE  MoveOf(d, k).lastframe <= MoveOf(d, l).lastframe /\ MoveOf(d, k).head <= MoveOf(d, l).head
    <3>1. k + i <= l + i
      <4>1. k \in Nat /\ l \in Nat
        BY <1>6
      <4> QED
        BY <2>3, <4>1
    <3> QED
      BY <1>6, <2>1, <3>1, Zenon DEF MovesHold
  <2> QED
    BY <1>4, <1>7, <2>1, <2>2, <2>3, Zenon DEF MovesHold, SameSnaps
<1>11. Demo(s, d, 0, j)
  <2>1. Demo(s, c, i, j)
    BY DEF Agreed
  <2>2. Asked(s, d, 0)
    <3>1. Asked(s, c, i)
      BY <2>1 DEF Demo
    <3>2. (\E k \in 1..Len(d.net) : d.net[k].asks) => \E k \in (i + 1)..Len(c.net) : c.net[k].asks
      BY <1>5, Zenon
    <3>3. d.asks = c.asks /\ d.recorder = c.recorder /\ 0 + 1 = 1
      BY <1>4 DEF SameSnaps
    <3> QED
      BY <3>1, <3>2, <3>3, Zenon DEF Asked
  <2>3. ASSUME NEW k \in Moves(d, 0) PROVE Covered(s, d, MoveOf(d, k).lastframe)
    BY <1>6, <1>8, <2>1, Zenon DEF Demo, Covered
  <2>4. d.receivedSnapNum = c.receivedSnapNum /\ d.recorder = c.recorder /\ d.recorded = c.recorded
    BY <1>4 DEF SameSnaps
  <2> QED
    BY <1>8, <2>1, <2>2, <2>3, <2>4, Zenon DEF Demo, Covered
<1>12. SlotsHold(d)
  BY <1>4, Zenon DEF Agreed, SlotsHold, SameSnaps
<1>13. FiresInOrder(d)
  BY <1>4, Zenon DEF Agreed, FiresInOrder, SameSnaps, SameFired
<1>14. d.receivedSnapNum <= s.framenum /\ Kept(d, d.receivedSnapNum)
  BY <1>4, <1>7, Zenon DEF Agreed, SameSnaps
<1> QED
  BY <1>4, <1>9, <1>10, <1>11, <1>12, <1>13, <1>14, Zenon DEF Agreed

LEMMA SnapsGone ==
  ASSUME NEW s, s \in ServerType(s), NEW c, NEW i \in Nat, NEW j \in 0..Len(s.net), Agreed(s, c, i, j),
         NEW t, t = WithoutFirst(s, j)
  PROVE  t \in ServerType(t) /\ SameRing(s, t) /\ Agreed(t, c, i, 0)
<1> DEFINE net == SubSeq(s.net, j + 1, Len(s.net))
<1>1. s.net \in Seq(ServerMessage) /\ Len(s.net) \in Nat
  BY NetsTyped
<1>2. /\ net \in Seq(ServerMessage) /\ Len(net) = Len(s.net) - j
      /\ \A k \in 1..(Len(s.net) - j) : k + j \in (j + 1)..Len(s.net) /\ net[k] = s.net[k + j]
  BY <1>1, Rest
<1>3. t = [s EXCEPT !.net = net]
  BY Zenon DEF WithoutFirst
<1> HIDE DEF net
<1>4. /\ t \in ServerType(t) /\ SameRing(s, t) /\ t.net = net /\ t.lastframe = s.lastframe
      /\ t.nodelta = s.nodelta /\ t.nodelta_frame = s.nodelta_frame /\ t.executed = s.executed
      /\ t.UcmdReceived = s.UcmdReceived /\ t.UcmdExecuted = s.UcmdExecuted
  <2>1. PICK q \in ServerNets : q = net
    BY <1>2 DEF ServerNets
  <2>2. t = WithNet(s, q)
    BY <1>3, <2>1, Zenon DEF WithNet
  <2>3. /\ t \in ServerType(t) /\ SameRing(s, t) /\ t.net = q /\ t.lastframe = s.lastframe
        /\ t.nodelta = s.nodelta /\ t.nodelta_frame = s.nodelta_frame /\ t.executed = s.executed
        /\ t.UcmdReceived = s.UcmdReceived /\ t.UcmdExecuted = s.UcmdExecuted
    BY <2>2, ServerNetTyped
  <2> QED
    BY <2>1, <2>3, Zenon
<1>5. t.framenum = s.framenum
  BY <1>4 DEF SameRing
<1>6. ASSUME NEW k \in 1..Len(t.net) PROVE k \in Nat /\ k + j \in (j + 1)..Len(s.net) /\ t.net[k] = s.net[k + j]
  <2>1. k \in 1..(Len(s.net) - j) /\ t.net[k] = net[k]
    BY <1>2, <1>4, Zenon
  <2> QED
    BY <1>1, <1>2, <2>1
<1>7. SnapsHold(t, c, 0)
  <2>1. SnapsHold(s, c, j)
    BY DEF Agreed
  <2>2. ASSUME NEW k \in 1..Len(t.net) PROVE SnapHolds(t, c, t.net[k].snap)
    <3>1. SnapHolds(s, c, t.net[k].snap)
      BY <1>6, <2>1, Zenon DEF SnapsHold
    <3> QED
      BY <1>5, <3>1, Zenon DEF SnapHolds
  <2>3. ASSUME NEW k \in 1..Len(t.net), NEW l \in 1..Len(t.net), k < l
        PROVE  t.net[k].snap.serverFrame < t.net[l].snap.serverFrame
    <3>1. k + j < l + j
      <4>1. k \in Nat /\ l \in Nat
        BY <1>6
      <4> QED
        BY <2>3, <4>1
    <3> QED
      BY <1>6, <2>1, <3>1, Zenon DEF SnapsHold
  <2>4. 0 + 1 = 1
    OBVIOUS
  <2> QED
    BY <2>2, <2>3, <2>4, Zenon DEF SnapsHold
<1>8. MovesHold(t, c, i)
  <2>1. MovesHold(s, c, i)
    BY DEF Agreed
  <2> QED
    BY <1>4, <2>1, Zenon DEF MovesHold, MoveHolds
<1>9. Demo(t, c, i, 0)
  <2>1. Demo(s, c, i, j)
    BY DEF Agreed
  <2>2. Asked(t, c, i)
    BY <1>4, <2>1, Zenon DEF Demo, Asked
  <2>3. ASSUME NEW k \in 1..Len(t.net), t.nodelta_frame # 0, t.net[k].snap.serverFrame >= t.nodelta_frame, t.net[k].snap.delta
        PROVE  t.net[k].snap.deltaFrameNum >= t.nodelta_frame /\ Recorded(c, t.net[k].snap.deltaFrameNum)
    BY <1>4, <1>6, <2>1, <2>3, Zenon DEF Demo
  <2>4. 0 + 1 = 1
    OBVIOUS
  <2> QED
    BY <1>4, <1>5, <2>1, <2>2, <2>3, <2>4, Zenon DEF Demo, Covered
<1> QED
  BY <1>4, <1>5, <1>7, <1>8, <1>9, Zenon DEF Agreed

-----------------------------------------------------------------------------
(* What the ends agree on, while the server writes.                        *)

LEMMA RingSame ==
  ASSUME NEW s, NEW t, SameRing(s, t), RingHolds(s)
  PROVE  RingHolds(t)
<1>1. PICK pos : /\ Placed(s, pos)
                 /\ \A f \in 1..s.framenum : f > s.framenum - UpdateBackup => InRing(s, pos, f)
  BY DEF RingHolds
<1>2. Placed(t, pos)
  BY <1>1, Zenon DEF Placed, SameRing
<1>3. \A f : InRing(s, pos, f) => InRing(t, pos, f)
  BY Zenon DEF InRing, SameRing
<1>4. t.framenum = s.framenum
  BY DEF SameRing
<1> QED
  BY <1>1, <1>2, <1>3, <1>4, Zenon DEF RingHolds

\* Nobody has heard of the frame that has just begun.
Fresh(s, c) ==
  /\ c.receivedSnapNum < s.framenum /\ s.nodelta_frame < s.framenum
  /\ \A k \in 1..Len(s.net) : s.net[k].snap.serverFrame < s.framenum

Entries == [frame : Nat, delta : BOOLEAN, from : Int]

LEMMA RecordedTyped ==
  ASSUME NEW c \in ClientType
  PROVE  Len(c.recorded) \in Nat /\ DOMAIN c.recorded = 1..Len(c.recorded) /\ \A n \in DOMAIN c.recorded : c.recorded[n].frame \in Nat
<1>1. PICK recorded \in Seq(Entries) : recorded = c.recorded
  BY DEF ClientType, Entries
<1>2. ASSUME NEW n \in DOMAIN recorded PROVE recorded[n].frame \in Nat
  <2>1. n \in 1..Len(recorded)
    OBVIOUS
  <2>2. recorded[n] \in Entries
    BY <2>1
  <2> QED
    BY <2>2 DEF Entries
<1>3. Len(recorded) \in Nat /\ DOMAIN recorded = 1..Len(recorded)
  OBVIOUS
<1> QED
  BY <1>1, <1>2, <1>3, Zenon

LEMMA SnapFrames ==
  ASSUME NEW s, s \in ServerType(s), NEW k \in 1..Len(s.net)
  PROVE  s.net[k].snap \in ServerSnap /\ s.net[k].snap.serverFrame \in Nat
<1>1. s.net[k] \in ServerMessage
  BY NetsTyped
<1>2. s.net[k].snap \in ServerSnap
  BY <1>1 DEF ServerMessage
<1> QED
  BY <1>2 DEF ServerSnap

\* SV_Frame and SNAP_BuildClientFrameSnap.
LEMMA FrameBegun ==
  ASSUME budget \in BudgetType, NEW s, s \in ServerType(s), s.framenum + 1 <= Len(budget.worlds), RingHolds(s),
         NEW c \in ClientType, NEW i \in Nat, Agreed(s, c, i, 0),
         NEW u, u = [s EXCEPT !.framenum = @ + 1]
  PROVE  LET t == BuildFrame(u)
         IN /\ t \in ServerType(t) /\ RingHolds(t) /\ t.framenum = s.framenum + 1
            /\ World(t.framenum) \in States /\ Agreed(t, c, i, 0) /\ Fresh(t, c)
<1> DEFINE t == BuildFrame(u)
<1>1. PICK n \in Nat : n = s.framenum + 1
  BY DEF ServerType
<1>2. s.framenum \in Nat /\ s.nodelta_frame \in Nat /\ c.receivedSnapNum \in Nat
  BY DEF ServerType, ClientType
<1>3. u = [s EXCEPT !.framenum = n]
  BY <1>1
<1>4. u \in ServerType(u) /\ u.framenum = n /\ SameTalk(s, u)
  <2>1. u \in ServerType(u)
    BY <1>3 DEF ServerType
  <2>2. u.framenum = n /\ SameTalk(s, u)
    BY <1>3 DEF ServerType, SameTalk
  <2> QED
    BY <2>1, <2>2
<1>5. World(n) \in States
  <2>1. n \in 1..Len(budget.worlds)
    BY <1>1, <1>2 DEF BudgetType
  <2> QED
    BY <2>1, WorldTyped
<1>6. RingHolds(t)
  BY RingBuilt
<1>7. t \in ServerType(u) /\ SameTalk(u, t) /\ t.framenum = n
  <2>1. World(u.framenum) \in States
    BY <1>4, <1>5
  <2>2. BuildFrame(u) \in ServerType(u) /\ SameTalk(u, BuildFrame(u)) /\ BuildFrame(u).framenum = u.framenum
    BY <1>4, <2>1, BuildTyped
  <2> QED
    BY <1>4, <2>2, Zenon DEF t
<1>8. PICK v : v = t
  OBVIOUS
<1>9. v \in ServerType(v) /\ SameTalk(s, v) /\ v.framenum = n
  <2>1. v \in ServerType(v)
    BY <1>7, <1>8, ServerTypeOf, Zenon
  <2>2. SameTalk(s, v)
    BY <1>4, <1>7, <1>8, Zenon DEF SameTalk
  <2> QED
    BY <1>7, <1>8, <2>1, <2>2, Zenon
<1> HIDE DEF t
<1>10. \A k \in 1..Len(s.net) : s.net[k].snap.serverFrame \in Nat
  BY SnapFrames
<1>11. Agreed(v, c, i, 0)
  <2>1. Len(s.net) \in Nat
    BY NetsTyped
  <2>2. s.framenum <= v.framenum /\ v.framenum \in Nat
    BY <1>1, <1>2, <1>9
  <2> HIDE DEF Agreed
  <2> QED
    BY <1>2, <1>9, <1>10, <2>1, <2>2, ServerSame
<1>12. Fresh(v, c)
  <2>1. c.receivedSnapNum <= s.framenum /\ s.nodelta_frame <= s.framenum
    BY DEF Agreed, Demo
  <2>2. ASSUME NEW k \in 1..Len(v.net) PROVE v.net[k].snap.serverFrame < v.framenum
    <3>1. v.net = s.net /\ k \in 1..Len(s.net)
      BY <1>9 DEF SameTalk
    <3>2. SnapHolds(s, c, s.net[k].snap)
      BY <3>1 DEF Agreed, SnapsHold
    <3>3. s.net[k].snap.serverFrame <= s.framenum /\ s.net[k].snap.serverFrame \in Nat
      BY <1>10, <3>1, <3>2 DEF SnapHolds
    <3> QED
      BY <1>1, <1>2, <1>9, <3>1, <3>3
  <2>3. v.nodelta_frame = s.nodelta_frame
    BY <1>9 DEF SameTalk
  <2> QED
    BY <1>1, <1>2, <1>9, <2>1, <2>2, <2>3 DEF Fresh
<1>13. World(v.framenum) \in States /\ v.framenum = s.framenum + 1
  BY <1>1, <1>5, <1>9, Zenon
<1> QED
  BY <1>6, <1>8, <1>9, <1>11, <1>12, <1>13, Zenon DEF t

\* The first frame without a delta is one that nobody has heard of.
LEMMA AnswerAgreed ==
  ASSUME NEW s, s \in ServerType(s), NEW c \in ClientType, NEW i \in Nat, Agreed(s, c, i, 0), Fresh(s, c)
  PROVE  Agreed(AnswerNoDelta(s), c, i, 0)
<1>1. PICK t \in ServerType(s) : t = AnswerNoDelta(s)
  BY AnswerTyped
<1>2. /\ SameRing(s, t) /\ t.net = s.net /\ t.lastframe = s.lastframe
      /\ t.executed = s.executed /\ t.UcmdReceived = s.UcmdReceived /\ t.UcmdExecuted = s.UcmdExecuted
  BY <1>1, AnswerTyped
<1>3. \/ s.nodelta /\ s.nodelta_frame = 0 /\ t.nodelta /\ t.nodelta_frame = s.framenum
      \/ /\ s.nodelta /\ s.nodelta_frame # 0 /\ s.lastframe >= s.nodelta_frame
         /\ ~t.nodelta /\ t.nodelta_frame = s.nodelta_frame
      \/ /\ ~s.nodelta \/ (s.nodelta_frame # 0 /\ s.lastframe < s.nodelta_frame)
         /\ t.nodelta = s.nodelta /\ t.nodelta_frame = s.nodelta_frame
  BY <1>1, AnswerTyped
<1>4. t.framenum = s.framenum
  BY <1>2 DEF SameRing
<1>5. s.framenum \in Nat /\ s.nodelta_frame \in Nat /\ c.receivedSnapNum \in Nat /\ s.lastframe \in Int /\ t.nodelta \in BOOLEAN
  BY DEF ServerType, ClientType
<1>6. Len(s.net) \in Nat /\ \A k \in 1..Len(s.net) : s.net[k].snap.serverFrame \in Nat
  BY NetsTyped, SnapFrames
<1>7. Demo(s, c, i, 0)
  BY DEF Agreed
<1>8. MovesHold(t, c, i)
  <2>1. MovesHold(s, c, i)
    BY DEF Agreed
  <2> QED
    BY <1>2, <2>1, Zenon DEF MovesHold, MoveHolds
<1>9. SnapsHold(t, c, 0)
  <2>1. SnapsHold(s, c, 0)
    BY DEF Agreed
  <2>2. ASSUME NEW k \in (0 + 1)..Len(s.net) PROVE SnapHolds(t, c, s.net[k].snap)
    BY <1>4, <2>1, Zenon DEF SnapsHold, SnapHolds
  <2> QED
    BY <1>2, <2>1, <2>2, Zenon DEF SnapsHold
<1>10. Asked(t, c, i)
  <2>1. Asked(s, c, i)
    BY <1>7 DEF Demo
  <2> QED
    BY <1>2, <1>3, <1>5, <2>1 DEF Asked
<1>11. CASE t.nodelta_frame = s.nodelta_frame
  <2>1. Demo(t, c, i, 0)
    BY <1>2, <1>4, <1>7, <1>10, <1>11, Zenon DEF Demo, Covered
  <2> QED
    BY <1>1, <1>4, <1>8, <1>9, <2>1, Zenon DEF Agreed
<1>12. CASE t.nodelta_frame = s.framenum
  <2>1. \A f \in Int : f <= c.receivedSnapNum \/ f <= 0 => Covered(t, c, f)
    BY <1>5, <1>12 DEF Covered, Fresh
  <2>2. Covered(t, c, c.receivedSnapNum)
    BY <1>5, <2>1
  <2>3. Covered(t, c, t.lastframe)
    <3>1. s.lastframe <= c.receivedSnapNum \/ s.lastframe = -1
      BY DEF Agreed, MovesHold
    <3>2. s.lastframe <= c.receivedSnapNum \/ s.lastframe <= 0
      BY <3>1
    <3> QED
      BY <1>2, <1>5, <2>1, <3>2
  <2>4. ASSUME NEW k \in Moves(c, i) PROVE Covered(t, c, MoveOf(c, k).lastframe)
    <3>1. MoveOf(c, k).lastframe \in Int
      BY MovesTyped
    <3>2. Kept(c, MoveOf(c, k).lastframe)
      BY DEF Agreed, MovesHold, MoveHolds
    <3>3. MoveOf(c, k).lastframe <= c.receivedSnapNum \/ MoveOf(c, k).lastframe <= 0
      BY <3>1, <3>2 DEF Kept
    <3> QED
      BY <2>1, <3>1, <3>3
  <2>5. ASSUME NEW k \in (0 + 1)..Len(t.net) PROVE ~(t.net[k].snap.serverFrame >= t.nodelta_frame)
    BY <1>2, <1>5, <1>6, <1>12 DEF Fresh
  <2>6. ASSUME NEW n \in DOMAIN c.recorded PROVE ~(c.recorded[n].frame >= t.nodelta_frame)
    <3>1. c.recorded[n].frame <= c.receivedSnapNum
      BY <1>7 DEF Demo
    <3>2. c.recorded[n].frame \in Nat
      BY RecordedTyped
    <3> QED
      BY <1>5, <1>12, <3>1, <3>2 DEF Fresh
  <2>7. t.nodelta_frame <= t.framenum
    BY <1>4, <1>5, <1>12
  <2>8. Demo(t, c, i, 0)
    BY <1>7, <1>10, <2>2, <2>3, <2>4, <2>5, <2>6, <2>7, Zenon DEF Demo
  <2> QED
    BY <1>1, <1>4, <1>8, <1>9, <2>8, Zenon DEF Agreed
<1> QED
  BY <1>3, <1>11, <1>12

\* SNAP_WriteFrameSnapToClient: the snapshot that is written can be decoded.
LEMMA SnapWritten ==
  ASSUME budget \in BudgetType, NEW s, s \in ServerType(s), s.framenum \in 1..Len(budget.worlds), RingHolds(s),
         NEW c \in ClientType, NEW i \in Nat, Agreed(s, c, i, 0), c.receivedSnapNum < s.framenum,
         NEW snap, snap.serverFrame = s.framenum, snap.deltaFrameNum = s.lastframe,
         snap.delta = ~IsFull(s), snap.truth = World(s.framenum),
         snap.updates = EmitEntities(IF IsFull(s) THEN Nothing ELSE Entities(s, s.lastframe), Entities(s, s.framenum))
  PROVE  /\ SnapHolds(s, c, snap)
         /\ s.nodelta_frame # 0 /\ snap.serverFrame >= s.nodelta_frame /\ snap.delta
            => snap.deltaFrameNum >= s.nodelta_frame /\ Recorded(c, snap.deltaFrameNum)
<1>1. /\ s.framenum \in Nat /\ s.lastframe \in Int /\ s.nodelta \in BOOLEAN /\ s.nodelta_frame \in Nat
      /\ c.receivedSnapNum \in Nat /\ UpdateBackup \in Nat /\ UpdateBackup > 1
  BY BackupsHold DEF ServerType, ClientType, Backups
<1>2. ASSUME NEW f \in 1..s.framenum, f > s.framenum - UpdateBackup
      PROVE  Entities(s, f) = World(f)
  <2>1. PICK pos : Placed(s, pos) /\ InRing(s, pos, f)
    BY <1>2 DEF RingHolds
  <2>2. pos[f] \in Nat
    <3>1. pos \in [1..(s.framenum + 1) -> Nat] /\ f \in 1..(s.framenum + 1)
      BY <1>1, <2>1 DEF Placed
    <3> QED
      BY <3>1
  <2>3. f \in 1..Len(budget.worlds) /\ f \in Nat
    <3>1. Len(budget.worlds) \in Nat
      BY DEF BudgetType
    <3> QED
      BY <1>1, <3>1
  <2>4. World(f) \in States
    BY <2>3, WorldTyped
  <2> QED
    BY <2>1, <2>2, <2>3, <2>4, EntitiesRead
<1>3. Entities(s, s.framenum) = World(s.framenum)
  <2>1. s.framenum \in 1..s.framenum /\ s.framenum > s.framenum - UpdateBackup
    BY <1>1
  <2> QED
    BY <1>2, <2>1
<1>4. MovesHold(s, c, i) /\ Demo(s, c, i, 0)
  BY DEF Agreed
<1>5. CASE IsFull(s)
  <2>1. ~snap.delta
    BY <1>5
  <2>2. snap.updates = EmitEntities(Nothing, World(s.framenum))
    BY <1>3, <1>5, Zenon
  <2>3. snap.serverFrame <= s.framenum
    BY <1>1
  <2> QED
    BY <2>1, <2>2, <2>3, Zenon DEF SnapHolds
<1>6. CASE ~IsFull(s)
  <2>1. /\ s.lastframe > 0 /\ s.lastframe <= s.framenum /\ ~s.nodelta
        /\ s.framenum < s.lastframe + UpdateBackup - 1
    BY <1>1, <1>6 DEF IsFull
  <2>2. snap.delta
    BY <1>6
  <2>3. s.lastframe <= c.receivedSnapNum
    BY <1>1, <1>4, <2>1 DEF MovesHold
  <2>4. Entities(s, s.lastframe) = World(s.lastframe)
    <3>1. s.lastframe \in 1..s.framenum /\ s.lastframe > s.framenum - UpdateBackup
      BY <1>1, <2>1
    <3> QED
      BY <1>2, <3>1
  <2>5. snap.updates = EmitEntities(World(snap.deltaFrameNum), World(snap.serverFrame))
    BY <1>3, <1>6, <2>4, Zenon
  <2>6. /\ snap.deltaFrameNum > 0 /\ snap.deltaFrameNum < snap.serverFrame
        /\ snap.serverFrame < snap.deltaFrameNum + UpdateBackup /\ snap.serverFrame <= s.framenum
    BY <1>1, <2>1, <2>3
  <2>7. Kept(c, snap.deltaFrameNum)
    BY <1>4 DEF MovesHold
  <2>8. SnapHolds(s, c, snap)
    BY <2>2, <2>5, <2>6, <2>7, Zenon DEF SnapHolds
  <2>9. ASSUME s.nodelta_frame # 0 PROVE s.lastframe >= s.nodelta_frame /\ Recorded(c, s.lastframe)
    <3>1. s.lastframe >= s.nodelta_frame
      BY <1>4, <2>1, <2>9 DEF Demo, Asked
    <3>2. Covered(s, c, s.lastframe)
      BY <1>4 DEF Demo
    <3> QED
      BY <2>9, <3>1, <3>2 DEF Covered
  <2> QED
    BY <2>8, <2>9, Zenon
<1> QED
  BY <1>5, <1>6

\* A message that is sent.
LEMMA MessageWritten ==
  ASSUME NEW s, s \in ServerType(s), NEW c \in ClientType, NEW i \in Nat, Agreed(s, c, i, 0),
         \A k \in 1..Len(s.net) : s.net[k].snap.serverFrame < s.framenum,
         NEW m \in ServerMessage, m.snap.serverFrame = s.framenum, SnapHolds(s, c, m.snap),
         s.nodelta_frame # 0 /\ m.snap.serverFrame >= s.nodelta_frame /\ m.snap.delta
           => m.snap.deltaFrameNum >= s.nodelta_frame /\ Recorded(c, m.snap.deltaFrameNum),
         NEW t, t.framenum = s.framenum, t.net = Append(s.net, m), t.lastframe = s.lastframe, t.nodelta = s.nodelta,
         t.nodelta_frame = s.nodelta_frame, t.executed = s.executed,
         t.UcmdReceived = s.UcmdReceived, t.UcmdExecuted = s.UcmdExecuted
  PROVE  Agreed(t, c, i, 0)
<1>1. PICK q \in Seq(ServerMessage) : q = s.net
  BY NetsTyped
<1>2. /\ Len(t.net) = Len(q) + 1 /\ Len(q) \in Nat
      /\ \A k \in 1..Len(q) : t.net[k] = q[k]
      /\ t.net[Len(q) + 1] = m
  <2>1. t.net = Append(q, m)
    BY <1>1, Zenon
  <2> QED
    BY <2>1
<1>3. PICK last \in Nat : last = Len(q) + 1
  BY <1>2
<1>4. \A k \in 1..Len(t.net) : (k \in 1..Len(s.net) /\ t.net[k] = s.net[k]) \/ (k = last /\ t.net[k] = m)
  BY <1>1, <1>2, <1>3
<1>5. Demo(s, c, i, 0) /\ SnapsHold(s, c, 0) /\ MovesHold(s, c, i)
  BY DEF Agreed
<1>6. 0 + 1 = 1
  OBVIOUS
<1>7. SnapsHold(t, c, 0)
  <2>1. ASSUME NEW k \in 1..Len(t.net) PROVE SnapHolds(t, c, t.net[k].snap)
    <3>1. SnapHolds(s, c, t.net[k].snap)
      BY <1>4, <1>5, <1>6, Zenon DEF SnapsHold
    <3> QED
      BY <3>1, Zenon DEF SnapHolds
  <2>2. ASSUME NEW k \in 1..Len(t.net), NEW l \in 1..Len(t.net), k < l
        PROVE  t.net[k].snap.serverFrame < t.net[l].snap.serverFrame
    <3>1. k \in 1..Len(s.net) /\ t.net[k] = s.net[k]
      BY <1>1, <1>2, <2>2
    <3>2. CASE l \in 1..Len(s.net) /\ t.net[l] = s.net[l]
      BY <1>5, <1>6, <2>2, <3>1, <3>2, Zenon DEF SnapsHold
    <3>3. CASE t.net[l] = m
      BY <3>1, <3>3, Zenon
    <3> QED
      BY <1>4, <3>2, <3>3
  <2> QED
    BY <1>6, <2>1, <2>2, Zenon DEF SnapsHold
<1>8. MovesHold(t, c, i)
  BY <1>5, Zenon DEF MovesHold, MoveHolds
<1>9. Demo(t, c, i, 0)
  <2>1. Asked(t, c, i)
    BY <1>5, Zenon DEF Demo, Asked
  <2>2. ASSUME NEW k \in 1..Len(t.net), t.nodelta_frame # 0, t.net[k].snap.serverFrame >= t.nodelta_frame, t.net[k].snap.delta
        PROVE  t.net[k].snap.deltaFrameNum >= t.nodelta_frame /\ Recorded(c, t.net[k].snap.deltaFrameNum)
    <3>1. CASE k \in 1..Len(s.net) /\ t.net[k] = s.net[k]
      BY <1>5, <1>6, <2>2, <3>1, Zenon DEF Demo
    <3>2. CASE t.net[k] = m
      BY <2>2, <3>2, Zenon
    <3> QED
      BY <1>4, <3>1, <3>2
  <2> QED
    BY <1>5, <1>6, <2>1, <2>2, Zenon DEF Demo, Covered
<1> QED
  BY <1>7, <1>8, <1>9, Zenon DEF Agreed

LEMMA FrameWritten ==
  ASSUME budget \in BudgetType, NEW s, s \in ServerType(s), s.framenum \in 1..Len(budget.worlds), RingHolds(s),
         World(s.framenum) \in States, NEW c \in ClientType, NEW i \in Nat, Agreed(s, c, i, 0), Fresh(s, c)
  PROVE  LET t == WriteFrame(s)
         IN t \in ServerType(t) /\ t.framenum = s.framenum /\ RingHolds(t) /\ Agreed(t, c, i, 0)
<1>1. PICK t : t = WriteFrame(s)
  OBVIOUS
<1>2. PICK m \in ServerMessage, a \in ServerType(s) :
        /\ a = AnswerNoDelta(s)
        /\ t \in ServerType(s) /\ SameRing(s, t) /\ t.net = Append(s.net, m)
        /\ t.lastframe = s.lastframe /\ t.executed = s.executed
        /\ t.UcmdReceived = s.UcmdReceived /\ t.UcmdExecuted = s.UcmdExecuted
        /\ t.nodelta = a.nodelta /\ t.nodelta_frame = a.nodelta_frame
        /\ m.snap.serverFrame = s.framenum /\ m.snap.deltaFrameNum = s.lastframe
        /\ m.snap.delta = ~IsFull(a) /\ m.snap.truth = World(s.framenum)
        /\ m.snap.updates = EmitEntities(IF IsFull(a) THEN Nothing ELSE Entities(a, s.lastframe),
                                         Entities(a, s.framenum))
  BY <1>1, WriteTyped, Zenon
<1>3. /\ SameRing(s, a) /\ a.net = s.net /\ a.lastframe = s.lastframe
      /\ a.executed = s.executed /\ a.UcmdReceived = s.UcmdReceived /\ a.UcmdExecuted = s.UcmdExecuted
      /\ a.nodelta_frame = s.nodelta_frame \/ a.nodelta_frame = s.framenum
  BY <1>2, AnswerTyped
<1>4. a \in ServerType(a) /\ t \in ServerType(t)
  BY <1>2, ServerTypeOf
<1>5. a.framenum = s.framenum /\ t.framenum = s.framenum
  BY <1>2, <1>3 DEF SameRing
<1>6. Agreed(a, c, i, 0)
  BY <1>2, AnswerAgreed, Zenon
<1>7. RingHolds(a) /\ RingHolds(t)
  BY <1>2, <1>3, RingSame
<1>8. SnapHolds(a, c, m.snap) /\ (a.nodelta_frame # 0 /\ m.snap.serverFrame >= a.nodelta_frame /\ m.snap.delta
            => m.snap.deltaFrameNum >= a.nodelta_frame /\ Recorded(c, m.snap.deltaFrameNum))
  <2>1. PICK snap : snap = m.snap
    OBVIOUS
  <2>2. /\ snap.serverFrame = a.framenum /\ snap.deltaFrameNum = a.lastframe
        /\ snap.delta = ~IsFull(a) /\ snap.truth = World(a.framenum)
        /\ snap.updates = EmitEntities(IF IsFull(a) THEN Nothing ELSE Entities(a, a.lastframe), Entities(a, a.framenum))
    BY <1>2, <1>3, <1>5, <2>1, Zenon
  <2>3. a.framenum \in 1..Len(budget.worlds) /\ c.receivedSnapNum < a.framenum
    BY <1>5 DEF Fresh
  <2>4. /\ SnapHolds(a, c, snap)
        /\ a.nodelta_frame # 0 /\ snap.serverFrame >= a.nodelta_frame /\ snap.delta
            => snap.deltaFrameNum >= a.nodelta_frame /\ Recorded(c, snap.deltaFrameNum)
    BY <1>4, <1>6, <1>7, <2>2, <2>3, SnapWritten
  <2> QED
    BY <2>1, <2>4, Zenon
<1>9. Agreed(t, c, i, 0)
  <2>1. \A k \in 1..Len(a.net) : a.net[k].snap.serverFrame < a.framenum
    BY <1>3, <1>5, Zenon DEF Fresh
  <2>2. /\ t.framenum = a.framenum /\ t.net = Append(a.net, m) /\ t.lastframe = a.lastframe
        /\ t.executed = a.executed /\ t.UcmdReceived = a.UcmdReceived /\ t.UcmdExecuted = a.UcmdExecuted
        /\ m.snap.serverFrame = a.framenum
    BY <1>2, <1>3, <1>5, Zenon
  <2> QED
    BY <1>2, <1>4, <1>6, <1>8, <2>1, <2>2, MessageWritten
<1> QED
  BY <1>1, <1>4, <1>5, <1>7, <1>9, Zenon

-----------------------------------------------------------------------------
(* What the ends agree on, while the client reads.                         *)

\* SNAP_ParseFrame: the snapshot that a delta is from is still there, and the
\* client sees what the server has put into this one.
LEMMA SnapRead ==
  ASSUME NEW s, NEW c \in ClientType, SlotsHold(c), NEW snap \in ServerSnap, SnapHolds(s, c, snap),
         World(snap.serverFrame) \in States, snap.delta => World(snap.deltaFrameNum) \in States,
         NEW valid \in BOOLEAN, NEW slot \in ClientSnap, ReadSlot(c.snapShots, snap, valid, slot)
  PROVE  /\ valid /\ slot.serverFrame = snap.serverFrame /\ slot.valid
         /\ slot.truth = World(snap.serverFrame) /\ slot.entities = slot.truth
<1> DEFINE hs == [c.snapShots EXCEPT ![snap.serverFrame % UpdateBackup] = Cleared(snap)]
<1>1. PICK f \in Nat, d \in Int : f = snap.serverFrame /\ d = snap.deltaFrameNum
  BY DEF ServerSnap
<1>2. UpdateBackup \in Nat /\ UpdateBackup > 1 /\ c.receivedSnapNum \in Nat /\ c.snapShots \in Snaps
  BY BackupsHold DEF Backups, ClientType, Snaps
<1>3. /\ valid <=> (~snap.delta \/ (d > 0 /\ hs[d % UpdateBackup].valid /\ hs[d % UpdateBackup].serverFrame = d))
      /\ slot.serverFrame = f /\ slot.valid = valid /\ slot.truth = snap.truth
      /\ slot.entities = ParseEntities(IF snap.delta /\ d > 0 THEN hs[d % UpdateBackup].entities ELSE Nothing, snap.updates)
  <2>1. /\ valid <=> (~snap.delta \/ (snap.deltaFrameNum > 0 /\ hs[snap.deltaFrameNum % UpdateBackup].valid
                                                         /\ hs[snap.deltaFrameNum % UpdateBackup].serverFrame = snap.deltaFrameNum))
        /\ slot.serverFrame = snap.serverFrame /\ slot.valid = valid /\ slot.truth = snap.truth
        /\ slot.entities = ParseEntities(IF snap.delta /\ snap.deltaFrameNum > 0
                                         THEN hs[snap.deltaFrameNum % UpdateBackup].entities ELSE Nothing, snap.updates)
    BY DEF ReadSlot
  <2> HIDE DEF hs
  <2> QED
    BY <1>1, <2>1, Zenon
<1>4. snap.truth = World(f)
  BY <1>1 DEF SnapHolds
<1>5. CASE ~snap.delta
  <2>1. snap.updates = EmitEntities(Nothing, World(f))
    BY <1>1, <1>5 DEF SnapHolds
  <2>2. slot.entities = ParseEntities(Nothing, EmitEntities(Nothing, World(f)))
    BY <1>3, <1>5, <2>1, Zenon
  <2>3. slot.entities = World(f)
    BY <1>1, <2>2, EmitTyped, EntitiesDecoded, Zenon
  <2> QED
    BY <1>1, <1>3, <1>4, <1>5, <2>3, Zenon
<1>6. CASE snap.delta
  <2>1. /\ d > 0 /\ d < f /\ f < d + UpdateBackup /\ Kept(c, d) /\ c.receivedSnapNum < f
        /\ snap.updates = EmitEntities(World(d), World(f))
    BY <1>1, <1>6 DEF SnapHolds
  <2>2. Slot(c, d).serverFrame = d
    BY <1>1, <1>2, <2>1 DEF Kept
  <2>3. d % UpdateBackup # f % UpdateBackup
    <3>1. d \in Nat
      BY <1>1, <2>1
    <3> QED
      BY <1>1, <1>2, <2>1, <3>1, PlacesDiffer
  <2>4. d % UpdateBackup \in 0..(UpdateBackup - 1)
    BY <1>1, PlaceTyped
  <2>5. hs[d % UpdateBackup] = Slot(c, d)
    BY <1>1, <1>2, <2>3, <2>4 DEF Slot, Snaps
  <2>6. Slot(c, d).valid /\ Slot(c, d).entities = World(d)
    <3>1. Slot(c, d).serverFrame > 0
      BY <2>1, <2>2
    <3> QED
      BY <2>2, <2>4, <3>1, Zenon DEF SlotsHold, Slot
  <2> HIDE DEF hs
  <2>7. slot.entities = ParseEntities(World(d), EmitEntities(World(d), World(f)))
    BY <1>3, <1>6, <2>1, <2>5, <2>6, Zenon
  <2>8. slot.entities = World(f)
    BY <1>1, <1>6, <2>7, EntitiesDecoded, Zenon
  <2>9. valid
    BY <1>3, <2>1, <2>2, <2>5, <2>6, Zenon
  <2> QED
    BY <1>1, <1>3, <1>4, <2>8, <2>9, Zenon
<1> QED
  BY <1>5, <1>6

\* What is kept, and what has been recorded, is not lost by reading on.
LEMMA SnapPut ==
  ASSUME NEW s, NEW c \in ClientType, SlotsHold(c), NEW snap \in ServerSnap, c.receivedSnapNum < snap.serverFrame,
         World(snap.serverFrame) \in States, snap.serverFrame > 0,
         NEW slot \in ClientSnap, slot.serverFrame = snap.serverFrame, slot.valid,
         slot.truth = World(snap.serverFrame), slot.entities = slot.truth,
         NEW t \in ClientType, t.snapShots = [c.snapShots EXCEPT ![snap.serverFrame % UpdateBackup] = slot],
         t.receivedSnapNum = snap.serverFrame
  PROVE  /\ SlotsHold(t) /\ Kept(t, t.receivedSnapNum)
         /\ \A f \in Int : Kept(c, f) => Kept(t, f)
<1>1. PICK new \in Nat : new = snap.serverFrame
  BY DEF ServerSnap
<1>2. UpdateBackup \in Nat /\ UpdateBackup > 1 /\ c.receivedSnapNum \in Nat /\ c.snapShots \in Snaps
  BY BackupsHold DEF Backups, ClientType, Snaps
<1>3. PICK p \in 0..(UpdateBackup - 1) : p = new % UpdateBackup
  BY <1>1, PlaceTyped
<1>4. t.snapShots = [c.snapShots EXCEPT ![p] = slot] /\ t.receivedSnapNum = new
  BY <1>1, <1>3
<1>5. t.snapShots[p] = slot /\ \A i \in 0..(UpdateBackup - 1) : i # p => t.snapShots[i] = c.snapShots[i]
  BY <1>2, <1>4 DEF Snaps
<1>6. SlotsHold(t)
  <2>1. ASSUME NEW i \in 0..(UpdateBackup - 1), i # p
        PROVE  LET old == t.snapShots[i]
               IN /\ old.serverFrame <= t.receivedSnapNum
                  /\ old.serverFrame = 0 => ~old.valid
                  /\ old.serverFrame > 0 => /\ old.serverFrame % UpdateBackup = i /\ old.valid
                                             /\ old.truth = World(old.serverFrame) /\ old.entities = old.truth
    <3>1. t.snapShots[i] = c.snapShots[i]
      BY <1>5, <2>1
    <3>2. c.snapShots[i].serverFrame <= c.receivedSnapNum
      BY DEF SlotsHold
    <3>3. c.snapShots[i].serverFrame \in Nat
      BY <1>2 DEF Snaps, ClientSnap
    <3>4. c.snapShots[i].serverFrame <= new
      BY <1>1, <1>2, <3>2, <3>3
    <3> QED
      BY <1>4, <3>1, <3>4, Zenon DEF SlotsHold
  <2>2. LET old == t.snapShots[p]
        IN /\ old.serverFrame <= t.receivedSnapNum
           /\ old.serverFrame = 0 => ~old.valid
           /\ old.serverFrame > 0 => /\ old.serverFrame % UpdateBackup = p /\ old.valid
                                      /\ old.truth = World(old.serverFrame) /\ old.entities = old.truth
    <3>1. new <= new /\ new # 0
      BY <1>1
    <3>2. t.snapShots[p] = slot
      BY <1>1, <1>3, <1>5, Zenon
    <3>3. /\ slot.serverFrame = new /\ t.receivedSnapNum = new /\ new % UpdateBackup = p
          /\ slot.valid /\ slot.truth = World(new) /\ slot.entities = slot.truth
      BY <1>1, <1>3, <1>4, Zenon
    <3> QED
      BY <3>1, <3>2, <3>3, Zenon
  <2> QED
    BY <2>1, <2>2, Zenon DEF SlotsHold
<1>7. Kept(t, t.receivedSnapNum)
  <2>1. Slot(t, new) = slot
    BY <1>3, <1>5, Zenon DEF Slot
  <2> QED
    BY <1>1, <1>4, <2>1 DEF Kept
<1>8. ASSUME NEW f \in Int, Kept(c, f) PROVE Kept(t, f)
  <2>1. ASSUME f > 0 PROVE f <= c.receivedSnapNum /\ f < new
    BY <1>1, <1>2, <1>8, <2>1 DEF Kept
  <2>2. ASSUME f > 0, new < f + UpdateBackup PROVE Slot(t, f).serverFrame = f
    <3>1. Slot(c, f).serverFrame = f
      BY <1>1, <1>2, <1>8, <2>1, <2>2 DEF Kept
    <3>2. f % UpdateBackup # p
      BY <1>1, <1>2, <1>3, <2>1, <2>2, PlacesDiffer
    <3>3. f % UpdateBackup \in 0..(UpdateBackup - 1)
      BY PlaceTyped
    <3> QED
      BY <1>5, <3>1, <3>2, <3>3 DEF Slot
  <2> QED
    BY <1>1, <1>2, <1>4, <2>1, <2>2 DEF Kept
<1> QED
  BY <1>6, <1>7, <1>8

\* CL_ParseServerMessage.
LEMMA ServerMessageAgreed ==
  ASSUME budget \in BudgetType, NEW s, s \in ServerType(s), s.framenum <= Len(budget.worlds),
         NEW c \in ClientType, NEW i \in Nat, NEW j \in Nat, Agreed(s, c, i, j), NEW k \in 1..Len(s.net), k = j + 1
  PROVE  LET t == ParseServerMessage(c, s.net[k])
         IN t \in ClientType /\ Agreed(s, t, i, k)
<1>1. PICK m \in ServerMessage : m = s.net[k]
  BY NetsTyped
<1>2. PICK snap \in ServerSnap : snap = m.snap
  BY DEF ServerMessage
<1>3. PICK t \in ClientType : t = ParseServerMessage(c, m)
  BY ServerMessageTyped
<1>4. SameMoves(c, t) /\ (t.asks => c.asks) /\ t.net = c.net
  BY <1>3, ServerMessageTyped DEF SameMoves
<1>5. PICK valid \in BOOLEAN, slot \in ClientSnap : Read(c, snap, t, valid, slot)
  <2>1. \E valid \in BOOLEAN, slot \in ClientSnap : Read(c, m.snap, ParseServerMessage(c, m), valid, slot)
    BY ServerMessageTyped
  <2> QED
    BY <1>2, <1>3, <2>1, Zenon
<1>6. \/ Records(c, snap, t.receivedSnapNum) /\ t.recorder = "recording" /\ t.recorded = Append(c.recorded, Entry(snap))
      \/ ~Records(c, snap, t.receivedSnapNum) /\ t.recorder = c.recorder /\ t.recorded = c.recorded
  <2>1. LET p == ParseServerMessage(c, m)
        IN \/ Records(c, m.snap, p.receivedSnapNum) /\ p.recorder = "recording" /\ p.recorded = Append(c.recorded, Entry(m.snap))
           \/ ~Records(c, m.snap, p.receivedSnapNum) /\ p.recorder = c.recorder /\ p.recorded = c.recorded
    BY ServerMessageTyped
  <2> QED
    BY <1>2, <1>3, <2>1, Zenon
<1>7. PICK new \in Nat, from \in Int : new = snap.serverFrame /\ from = snap.deltaFrameNum
  BY DEF ServerSnap
<1>8. /\ c.receivedSnapNum \in Nat /\ s.framenum \in Nat /\ s.nodelta_frame \in Nat /\ s.lastframe \in Int
      /\ c.pendingSnapNum \in Nat /\ c.currentSnapNum \in Nat /\ c.recorder \in {"off", "waiting", "recording"}
  BY DEF ServerType, ClientType
<1>9. /\ SlotsHold(c) /\ FiresInOrder(c) /\ SnapsHold(s, c, j) /\ MovesHold(s, c, i) /\ Demo(s, c, i, j)
      /\ SnapHolds(s, c, snap)
  <2>1. k \in (j + 1)..Len(s.net)
    OBVIOUS
  <2> QED
    BY <1>1, <1>2, <2>1, Zenon DEF Agreed, SnapsHold
<1>10. c.receivedSnapNum < new /\ new <= s.framenum /\ new > 0 /\ (snap.delta => from > 0 /\ from < new)
  BY <1>7, <1>8, <1>9 DEF SnapHolds
<1>11. World(new) \in States /\ (snap.delta => World(from) \in States)
  <2>1. Len(budget.worlds) \in Nat
    BY DEF BudgetType
  <2>2. new \in 1..Len(budget.worlds)
    <3>1. PICK last \in Nat, count \in Nat : last = s.framenum /\ count = Len(budget.worlds)
      BY <1>8, <2>1, Zenon
    <3>2. new <= last /\ new > 0
      BY <1>10, <3>1, Zenon
    <3>3. last <= count
      BY <3>1
    <3> QED
      BY <1>7, <3>1, <3>2, <3>3
  <2>3. snap.delta => from \in 1..Len(budget.worlds)
    <3>1. from > 0 /\ from < new => from \in 1..Len(budget.worlds)
      BY <1>7, <2>1, <2>2
    <3> QED
      BY <1>10, <3>1, Zenon
  <2> QED
    BY <2>2, <2>3, WorldTyped
<1>12. valid /\ slot.serverFrame = new /\ slot.valid /\ slot.truth = World(new) /\ slot.entities = slot.truth
  <2>1. ReadSlot(c.snapShots, snap, valid, slot)
    BY <1>5 DEF Read
  <2>2. World(snap.serverFrame) \in States /\ (snap.delta => World(snap.deltaFrameNum) \in States)
    BY <1>7, <1>11, Zenon
  <2>3. /\ valid /\ slot.serverFrame = snap.serverFrame /\ slot.valid
        /\ slot.truth = World(snap.serverFrame) /\ slot.entities = slot.truth
    BY <1>9, <2>1, <2>2, SnapRead
  <2> QED
    BY <1>7, <2>3, Zenon
<1>13. t.snapShots = [c.snapShots EXCEPT ![snap.serverFrame % UpdateBackup] = slot] /\ t.receivedSnapNum = new
  BY <1>5, <1>7, <1>12, Zenon DEF Read
<1>14. /\ SlotsHold(t) /\ Kept(t, t.receivedSnapNum)
       /\ \A f \in Int : Kept(c, f) => Kept(t, f)
  <2>1. /\ c.receivedSnapNum < snap.serverFrame /\ World(snap.serverFrame) \in States /\ snap.serverFrame > 0
        /\ slot.serverFrame = snap.serverFrame /\ slot.valid
        /\ slot.truth = World(snap.serverFrame) /\ slot.entities = slot.truth /\ t.receivedSnapNum = snap.serverFrame
    BY <1>7, <1>10, <1>11, <1>12, <1>13, Zenon
  <2> QED
    BY <1>9, <1>13, <2>1, SnapPut
<1>15. FiresInOrder(t)
  BY <1>4, <1>8, <1>9, <1>10, <1>13 DEF FiresInOrder, SameMoves
<1>16. SnapsHold(s, t, k)
  <2>1. ASSUME NEW l \in (k + 1)..Len(s.net) PROVE SnapHolds(s, t, s.net[l].snap)
    <3>1. l \in (j + 1)..Len(s.net) /\ k \in (j + 1)..Len(s.net) /\ k < l /\ l \in 1..Len(s.net)
      BY NetsTyped
    <3>2. SnapHolds(s, c, s.net[l].snap) /\ new < s.net[l].snap.serverFrame
      BY <1>1, <1>2, <1>7, <1>9, <3>1, Zenon DEF SnapsHold
    <3>3. PICK other \in ServerSnap : other = s.net[l].snap
      BY <3>1, SnapFrames
    <3>4. other.deltaFrameNum \in Int
      BY DEF ServerSnap
    <3>5. SnapHolds(s, t, other)
      BY <1>13, <1>14, <3>2, <3>3, <3>4, Zenon DEF SnapHolds
    <3> QED
      BY <3>3, <3>5
  <2>2. \A l \in (k + 1)..Len(s.net) : l \in (j + 1)..Len(s.net)
    OBVIOUS
  <2> QED
    BY <1>9, <2>1, <2>2, Zenon DEF SnapsHold
<1>17. MovesHold(s, t, i)
  <2>1. ASSUME NEW l \in Moves(c, i) PROVE MoveHolds(s, t, MoveOf(c, l))
    <3>1. MoveOf(c, l).lastframe \in Int
      BY MovesTyped
    <3>2. MoveHolds(s, c, MoveOf(c, l))
      BY <1>9 DEF MovesHold
    <3> QED
      BY <1>4, <1>14, <3>1, <3>2, Zenon DEF MoveHolds, SameMoves
  <2>2. Moves(t, i) = Moves(c, i) /\ \A l : MoveOf(t, l) = MoveOf(c, l)
    BY <1>4, Zenon DEF Moves, MoveOf
  <2>3. s.lastframe <= t.receivedSnapNum \/ s.lastframe = -1
    <3>1. s.lastframe <= c.receivedSnapNum \/ s.lastframe = -1
      BY <1>9 DEF MovesHold
    <3> QED
      BY <1>7, <1>8, <1>10, <1>13, <3>1
  <2>4. Kept(t, s.lastframe)
    BY <1>8, <1>9, <1>14 DEF MovesHold
  <2> QED
    BY <1>4, <1>9, <2>1, <2>2, <2>3, <2>4, Zenon DEF MovesHold, SameMoves
<1> DEFINE records == Records(c, snap, t.receivedSnapNum)
<1>18. PICK last \in Nat : /\ last = Len(c.recorded) + 1 /\ DOMAIN c.recorded = 1..(last - 1)
                           /\ \A n \in DOMAIN c.recorded : c.recorded[n].frame \in Nat
  BY RecordedTyped
<1>19. /\ Entry(snap).frame = new /\ Entry(snap).delta = snap.delta /\ Entry(snap).from = from
  BY <1>7 DEF Entry
<1>20. /\ records => /\ DOMAIN t.recorded = 1..last /\ t.recorded[last] = Entry(snap) /\ t.recorder = "recording"
                     /\ \A n \in DOMAIN c.recorded : t.recorded[n] = c.recorded[n]
       /\ ~records => t.recorded = c.recorded /\ t.recorder = c.recorder
  <2>1. PICK recorded \in Seq(Entries) : recorded = c.recorded
    BY DEF ClientType, Entries
  <2>2. PICK entry : entry = Entry(snap)
    OBVIOUS
  <2>3. PICK longer : longer = Append(recorded, entry)
    OBVIOUS
  <2>4. /\ DOMAIN longer = 1..last /\ longer[last] = entry
        /\ \A n \in DOMAIN recorded : longer[n] = recorded[n]
    BY <1>18, <2>1, <2>3
  <2> QED
    BY <1>6, <2>1, <2>2, <2>3, <2>4, Zenon
<1>21. \A f : Recorded(c, f) => Recorded(t, f)
  <2>1. ASSUME NEW n \in DOMAIN c.recorded PROVE n \in DOMAIN t.recorded /\ t.recorded[n] = c.recorded[n]
    <3>1. n \in 1..last
      BY <1>18
    <3> QED
      BY <1>20, <3>1, Zenon
  <2> QED
    BY <2>1, Zenon DEF Recorded
<1>22. Asked(s, t, i)
  <2>1. Asked(s, c, i)
    BY <1>9 DEF Demo
  <2>2. c.recorder # "off" => t.recorder # "off"
    BY <1>20
  <2> QED
    BY <1>4, <2>1, <2>2, Zenon DEF Asked
<1>23. ASSUME s.nodelta_frame # 0, new >= s.nodelta_frame, snap.delta PROVE from >= s.nodelta_frame /\ Recorded(c, from)
  <2>1. k \in (j + 1)..Len(s.net)
    OBVIOUS
  <2> QED
    BY <1>1, <1>2, <1>7, <1>9, <1>23, <2>1, Zenon DEF Demo
<1>24. Covered(s, t, t.receivedSnapNum)
  <2>1. SUFFICES ASSUME s.nodelta_frame # 0, new >= s.nodelta_frame PROVE Recorded(t, new)
    BY <1>13 DEF Covered
  <2>2. s.executed
    BY <1>9, <2>1 DEF Demo, Asked
  <2>3. c.recorder # "off"
    BY <1>9, <2>2 DEF Demo, Asked
  <2>4. records
    <3>1. CASE snap.delta
      <4>1. c.recorded # <<>>
        <5>1. Recorded(c, from)
          BY <1>23, <2>1, <3>1
        <5> QED
          BY <5>1 DEF Recorded
      <4> QED
        BY <1>9, <4>1 DEF Demo, Records
    <3>2. CASE ~snap.delta
      BY <1>7, <1>8, <1>13, <2>3, <3>2 DEF Records
    <3> QED
      BY <3>1, <3>2
  <2>5. last \in DOMAIN t.recorded /\ t.recorded[last].frame = new
    <3>1. last \in 1..last
      BY <1>18, RecordedTyped
    <3> QED
      BY <1>19, <1>20, <2>4, <3>1, Zenon
  <2> QED
    BY <2>5, Zenon DEF Recorded
<1>25. \A n \in DOMAIN t.recorded :
         /\ t.recorded[n].frame <= t.receivedSnapNum
         /\ t.recorded[n].delta /\ s.nodelta_frame # 0 /\ t.recorded[n].frame >= s.nodelta_frame
            => \E o \in 1..(n - 1) : t.recorded[o].frame = t.recorded[n].from
  <2>1. ASSUME NEW n \in DOMAIN c.recorded
        PROVE  /\ c.recorded[n].frame <= new
               /\ c.recorded[n].delta /\ s.nodelta_frame # 0 /\ c.recorded[n].frame >= s.nodelta_frame
                    => \E o \in 1..(n - 1) : c.recorded[o].frame = c.recorded[n].from
    <3>1. c.recorded[n].frame <= c.receivedSnapNum
      BY <1>9 DEF Demo
    <3>2. c.recorded[n].frame <= new
      <4>1. PICK x \in Nat : x = c.recorded[n].frame
        BY <1>18
      <4>2. x <= new
        BY <1>7, <1>8, <1>10, <3>1, <4>1
      <4> QED
        BY <4>1, <4>2
    <3> QED
      BY <1>9, <3>2, Zenon DEF Demo
  <2>2. CASE ~records
    <3>1. t.recorded = c.recorded /\ t.receivedSnapNum = new
      BY <1>13, <1>20, <2>2, Zenon
    <3> QED
      BY <2>1, <3>1, Zenon
  <2>3. CASE records
    <3>1. ASSUME NEW n \in 1..(last - 1)
          PROVE /\ t.recorded[n].frame <= t.receivedSnapNum
                /\ t.recorded[n].delta /\ s.nodelta_frame # 0 /\ t.recorded[n].frame >= s.nodelta_frame
                   => \E o \in 1..(n - 1) : t.recorded[o].frame = t.recorded[n].from
      <4>1. n \in DOMAIN c.recorded /\ t.recorded[n] = c.recorded[n]
        BY <1>18, <1>20, <2>3
      <4>2. \A o \in 1..(n - 1) : t.recorded[o] = c.recorded[o]
        <5>1. ASSUME NEW o \in 1..(n - 1) PROVE o \in 1..(last - 1)
          BY <1>18
        <5> QED
          BY <1>18, <1>20, <2>3, <5>1, Zenon
      <4> QED
        BY <1>13, <2>1, <4>1, <4>2, Zenon
    <3>2. /\ t.recorded[last].frame <= t.receivedSnapNum
          /\ t.recorded[last].delta /\ s.nodelta_frame # 0 /\ t.recorded[last].frame >= s.nodelta_frame
             => \E o \in 1..(last - 1) : t.recorded[o].frame = t.recorded[last].from
      <4>1. t.recorded[last].frame = new /\ t.recorded[last].delta = snap.delta /\ t.recorded[last].from = from
        BY <1>19, <1>20, <2>3, Zenon
      <4>2. new <= t.receivedSnapNum
        BY <1>7, <1>13
      <4>3. ASSUME s.nodelta_frame # 0, new >= s.nodelta_frame, snap.delta
            PROVE \E o \in 1..(last - 1) : t.recorded[o].frame = from
        BY <1>18, <1>20, <1>23, <2>3, <4>3, Zenon DEF Recorded
      <4> QED
        BY <4>1, <4>2, <4>3, Zenon
    <3>3. \A n \in DOMAIN t.recorded : n \in 1..(last - 1) \/ n = last
      <4>1. DOMAIN t.recorded = 1..last
        BY <1>20, <2>3
      <4> QED
        BY <1>18, <4>1
    <3> QED
      BY <3>1, <3>2, <3>3, Zenon
  <2> QED
    BY <2>2, <2>3
<1>26. Demo(s, t, i, k)
  <2>1. \A f : Covered(s, c, f) => Covered(s, t, f)
    BY <1>21, Zenon DEF Covered
  <2>2. \A l \in Moves(t, i) : Covered(s, t, MoveOf(t, l).lastframe)
    <3>1. Moves(t, i) = Moves(c, i) /\ \A l : MoveOf(t, l) = MoveOf(c, l)
      BY <1>4, Zenon DEF Moves, MoveOf
    <3> QED
      BY <1>9, <2>1, <3>1, Zenon DEF Demo
  <2>3. \A l \in (k + 1)..Len(s.net) : l \in (j + 1)..Len(s.net)
    OBVIOUS
  <2>4. ASSUME NEW l \in (k + 1)..Len(s.net), s.nodelta_frame # 0, s.net[l].snap.serverFrame >= s.nodelta_frame, s.net[l].snap.delta
        PROVE  s.net[l].snap.deltaFrameNum >= s.nodelta_frame /\ Recorded(t, s.net[l].snap.deltaFrameNum)
    BY <1>9, <1>21, <2>3, <2>4, Zenon DEF Demo
  <2>5. t.recorded # <<>> => t.recorder = "recording"
    BY <1>9, <1>20, Zenon DEF Demo
  <2> QED
    BY <1>9, <1>22, <1>24, <1>25, <2>1, <2>2, <2>4, <2>5, Zenon DEF Demo
<1>27. t.receivedSnapNum <= s.framenum
  BY <1>10, <1>13
<1>28. Agreed(s, t, i, k)
  BY <1>14, <1>15, <1>16, <1>17, <1>26, <1>27, Zenon DEF Agreed
<1> QED
  BY <1>1, <1>3, <1>28, Zenon

-----------------------------------------------------------------------------
(* What the ends agree on, while the client does anything else.            *)

LEMMA ClientSame ==
  ASSUME NEW s, s \in ServerType(s), NEW c \in ClientType, NEW i \in Nat, NEW j \in Nat, Agreed(s, c, i, j),
         NEW t \in ClientType, SameSnaps(c, t), FiresInOrder(t), t.net = c.net,
         c.cmdNum <= t.cmdNum, t.cmdNum <= t.ucmdHead
  PROVE  Agreed(s, t, i, j)
<1>1. c.cmdNum \in Nat /\ t.cmdNum \in Nat /\ s.UcmdReceived \in Nat
  BY DEF ClientType, ServerType
<1>2. /\ t.snapShots = c.snapShots /\ t.receivedSnapNum = c.receivedSnapNum
      /\ t.recorder = c.recorder /\ t.asks = c.asks /\ t.recorded = c.recorded
  BY DEF SameSnaps
<1>3. SnapsHold(s, c, j) /\ MovesHold(s, c, i) /\ Demo(s, c, i, j) /\ SlotsHold(c) /\ Kept(c, c.receivedSnapNum)
      /\ c.receivedSnapNum <= s.framenum
  BY DEF Agreed
<1>4. \A f : Kept(c, f) => Kept(t, f)
  BY <1>2, Zenon DEF Kept, Slot
<1>5. Moves(t, i) = Moves(c, i) /\ \A k : MoveOf(t, k) = MoveOf(c, k)
  BY Zenon DEF Moves, MoveOf
<1>6. SnapsHold(s, t, j)
  <2>1. ASSUME NEW k \in (j + 1)..Len(s.net) PROVE SnapHolds(s, t, s.net[k].snap)
    <3>1. SnapHolds(s, c, s.net[k].snap)
      BY <1>3 DEF SnapsHold
    <3> QED
      BY <1>2, <1>4, <3>1, Zenon DEF SnapHolds
  <2> QED
    BY <1>3, <2>1, Zenon DEF SnapsHold
<1>7. MovesHold(s, t, i)
  <2>1. ASSUME NEW k \in Moves(c, i) PROVE MoveHolds(s, t, MoveOf(c, k))
    <3>1. MoveHolds(s, c, MoveOf(c, k)) /\ MoveOf(c, k).head \in Nat
      BY <1>3, MovesTyped DEF MovesHold
    <3>2. MoveOf(c, k).head <= t.cmdNum + 1
      BY <1>1, <3>1 DEF MoveHolds
    <3> QED
      BY <1>4, <3>1, <3>2, Zenon DEF MoveHolds
  <2>2. s.UcmdReceived <= t.cmdNum
    BY <1>1, <1>3 DEF MovesHold
  <2> QED
    BY <1>2, <1>3, <1>4, <1>5, <2>1, <2>2, Zenon DEF MovesHold
<1>8. Demo(s, t, i, j)
  <2>1. Asked(s, t, i)
    BY <1>2, <1>3, Zenon DEF Demo, Asked
  <2>2. \A f : Recorded(t, f) <=> Recorded(c, f)
    BY <1>2, Zenon DEF Recorded
  <2> QED
    BY <1>2, <1>3, <1>5, <2>1, <2>2, Zenon DEF Demo, Covered
<1>9. SlotsHold(t) /\ Kept(t, t.receivedSnapNum) /\ t.receivedSnapNum <= s.framenum
  BY <1>2, <1>3, <1>4, Zenon DEF SlotsHold
<1> QED
  BY <1>6, <1>7, <1>8, <1>9, Zenon DEF Agreed

\* CL_UpdateSnapshot and CL_AdjustServerTime: what is fired next has been
\* received, and is newer than what has been fired.
LEMMA FiredAgreed ==
  ASSUME NEW s, s \in ServerType(s), NEW c \in ClientType, NEW i \in Nat, NEW j \in Nat, Agreed(s, c, i, j),
         NEW t, t = UpdateSnapshot(c) \/ t = Fire(c)
  PROVE  t \in ClientType /\ Agreed(s, t, i, j)
<1>1. /\ c.receivedSnapNum \in Nat /\ c.pendingSnapNum \in Nat /\ c.currentSnapNum \in Nat /\ c.cmdNum \in Nat
  BY DEF ClientType
<1>2. FiresInOrder(c) /\ SlotsHold(c) /\ c.cmdNum <= c.ucmdHead
  BY DEF Agreed, MovesHold
<1>3. t \in ClientType /\ SameSnaps(c, t) /\ SameSent(c, t)
  BY UpdateTyped, FireTyped
<1>4. FiresInOrder(t)
  <2>1. t.receivedSnapNum = c.receivedSnapNum
    BY <1>3 DEF SameSnaps
  <2>2. CASE t.currentSnapNum = c.currentSnapNum /\ t.pendingSnapNum = c.pendingSnapNum
    BY <1>2, <2>1, <2>2, Zenon DEF FiresInOrder
  <2>3. CASE c.pendingSnapNum # 0 /\ t.currentSnapNum = c.pendingSnapNum /\ t.pendingSnapNum = 0
    BY <1>1, <1>2, <2>1, <2>3 DEF FiresInOrder
  <2>4. ASSUME NEW f \in Int, t.pendingSnapNum = Slot(c, f).serverFrame, Slot(c, f).serverFrame > c.currentSnapNum,
               t.currentSnapNum = c.currentSnapNum
        PROVE  FiresInOrder(t)
    <3>1. Slot(c, f).serverFrame <= c.receivedSnapNum
      BY <1>2, PlaceTyped DEF SlotsHold, Slot
    <3> QED
      BY <1>1, <1>2, <2>1, <2>4, <3>1 DEF FiresInOrder
  <2>5. CASE t = UpdateSnapshot(c)
    <3>1. /\ t.currentSnapNum = c.currentSnapNum
          /\ \/ t.pendingSnapNum = c.pendingSnapNum
             \/ \E f \in Int : /\ t.pendingSnapNum = Slot(c, f).serverFrame
                               /\ Slot(c, f).serverFrame > c.currentSnapNum
      BY <2>5, UpdateTyped
    <3> QED
      BY <2>2, <2>4, <3>1
  <2>6. CASE t = Fire(c)
    <3>1. \/ SameFired(c, t)
          \/ c.pendingSnapNum # 0 /\ t.currentSnapNum = c.pendingSnapNum /\ t.pendingSnapNum = 0
      BY <2>6, FireTyped
    <3> QED
      BY <2>2, <2>3, <3>1 DEF SameFired
  <2> QED
    BY <2>5, <2>6
<1>5. t.net = c.net /\ c.cmdNum <= t.cmdNum /\ t.cmdNum <= t.ucmdHead
  BY <1>1, <1>2, <1>3 DEF SameSent
<1> QED
  BY <1>3, <1>4, <1>5, ClientSame

\* CL_CreateNewUserCommand.
LEMMA CommandAgreed ==
  ASSUME NEW s, s \in ServerType(s), NEW c \in ClientType, Agreed(s, c, 0, 0), NEW step \in Nat
  PROVE  NewCommand(c, step) \in ClientType /\ Agreed(s, NewCommand(c, step), 0, 0)
<1>1. PICK t : t = NewCommand(c, step)
  OBVIOUS
<1>2. /\ t \in ClientType /\ SameSnaps(c, t) /\ SameFired(c, t) /\ t.net = c.net
      /\ t.cmdNum = c.ucmdHead /\ t.ucmdHead = c.ucmdHead + 1
  BY <1>1, UserCommandTyped, Zenon
<1>3. c.cmdNum \in Nat /\ c.ucmdHead \in Nat /\ c.cmdNum <= c.ucmdHead
  BY DEF ClientType, Agreed, MovesHold
<1>4. c.cmdNum <= t.cmdNum /\ t.cmdNum <= t.ucmdHead
  BY <1>2, <1>3
<1>5. FiresInOrder(t)
  BY <1>2, Zenon DEF Agreed, FiresInOrder, SameSnaps, SameFired
<1>6. Agreed(s, t, 0, 0)
  BY <1>2, <1>4, <1>5, ClientSame
<1> QED
  BY <1>1, <1>2, <1>6, Zenon

\* CL_Record_f: nothing has been recorded before.
LEMMA StartAgreed ==
  ASSUME NEW s, s \in ServerType(s), NEW c \in ClientType, Agreed(s, c, 0, 0), c.recorder = "off",
         NEW t, t = [c EXCEPT !.recorder = "waiting", !.asks = TRUE]
  PROVE  t \in ClientType /\ Agreed(s, t, 0, 0)
<1>1. PICK u : u = t
  OBVIOUS
<1>2. /\ u \in ClientType /\ SameFired(c, u) /\ SameSent(c, u) /\ u.recorder = "waiting" /\ u.asks
      /\ u.snapShots = c.snapShots /\ u.receivedSnapNum = c.receivedSnapNum /\ u.recorded = c.recorded
  BY <1>1, StartTyped
<1>3. SnapsHold(s, c, 0) /\ MovesHold(s, c, 0) /\ Demo(s, c, 0, 0) /\ SlotsHold(c) /\ Kept(c, c.receivedSnapNum)
      /\ FiresInOrder(c) /\ c.receivedSnapNum <= s.framenum
  BY DEF Agreed
<1>4. \A f : Kept(c, f) => Kept(u, f)
  BY <1>2, Zenon DEF Kept, Slot
<1>5. Moves(u, 0) = Moves(c, 0) /\ \A k : MoveOf(u, k) = MoveOf(c, k)
  BY <1>2, Zenon DEF Moves, MoveOf, SameSent
<1>6. SnapsHold(s, u, 0)
  <2>1. ASSUME NEW k \in (0 + 1)..Len(s.net) PROVE SnapHolds(s, u, s.net[k].snap)
    <3>1. SnapHolds(s, c, s.net[k].snap)
      BY <1>3 DEF SnapsHold
    <3> QED
      BY <1>2, <1>4, <3>1, Zenon DEF SnapHolds
  <2> QED
    BY <1>3, <2>1, Zenon DEF SnapsHold
<1>7. MovesHold(s, u, 0)
  <2>1. ASSUME NEW k \in Moves(c, 0) PROVE MoveHolds(s, u, MoveOf(c, k))
    BY <1>2, <1>3, <1>4, Zenon DEF MovesHold, MoveHolds, SameSent
  <2> QED
    BY <1>2, <1>3, <1>4, <1>5, <2>1, Zenon DEF MovesHold, SameSent
<1>8. Demo(s, u, 0, 0)
  <2>1. Asked(s, u, 0)
    BY <1>2, <1>3 DEF Demo, Asked
  <2>2. \A f : Recorded(u, f) <=> Recorded(c, f)
    BY <1>2, Zenon DEF Recorded
  <2>3. u.recorded = <<>>
    BY <1>2, <1>3 DEF Demo
  <2> QED
    BY <1>2, <1>3, <1>5, <2>1, <2>2, <2>3, Zenon DEF Demo, Covered
<1>9. SlotsHold(u) /\ Kept(u, u.receivedSnapNum) /\ u.receivedSnapNum <= s.framenum /\ FiresInOrder(u)
  BY <1>2, <1>3, <1>4, Zenon DEF SlotsHold, FiresInOrder, SameFired
<1>10. Agreed(s, u, 0, 0)
  BY <1>6, <1>7, <1>8, <1>9, Zenon DEF Agreed
<1> QED
  BY <1>1, <1>2, <1>10, Zenon

\* CL_SendMessagesToServer: the client tells of the last snapshot it has got,
\* which is not older than those it has told of.
LEMMA SendAgreed ==
  ASSUME NEW s, s \in ServerType(s), NEW c \in ClientType, NEW i \in Nat, Agreed(s, c, 0, i)
  PROVE  Send(c) \in ClientType /\ Agreed(s, Send(c), 0, i)
<1>1. PICK t : t = Send(c)
  OBVIOUS
<1>2. PICK m \in ClientMessage :
        /\ t \in ClientType /\ SameSnaps(c, t) /\ SameFired(c, t)
        /\ t.cmdNum = c.cmdNum /\ t.ucmdHead = c.ucmdHead /\ t.net = Append(c.net, m)
        /\ m.asks = c.asks
        /\ m.moves # <<>> => /\ c.currentSnapNum # 0 /\ m.moves[1].head = c.cmdNum + 1
                             /\ m.moves[1].lastframe =
                                  IF c.receivedSnapNum <= 0 THEN -1 ELSE Slot(c, c.receivedSnapNum).serverFrame
  BY <1>1, SendTyped, Zenon
<1>3. /\ c.receivedSnapNum \in Nat /\ c.currentSnapNum \in Nat /\ c.cmdNum \in Nat /\ s.UcmdReceived \in Nat
      /\ s.lastframe \in Int /\ UpdateBackup \in Nat /\ UpdateBackup > 1
  BY BackupsHold DEF ClientType, ServerType, Backups
<1>4. SnapsHold(s, c, i) /\ MovesHold(s, c, 0) /\ Demo(s, c, 0, i) /\ SlotsHold(c) /\ Kept(c, c.receivedSnapNum)
      /\ FiresInOrder(c) /\ c.receivedSnapNum <= s.framenum
  BY DEF Agreed
<1>5. ASSUME m.moves # <<>> PROVE m.moves[1].lastframe = c.receivedSnapNum /\ c.receivedSnapNum > 0
  <2>1. c.receivedSnapNum > 0
    BY <1>2, <1>3, <1>4, <1>5 DEF FiresInOrder
  <2>2. Slot(c, c.receivedSnapNum).serverFrame = c.receivedSnapNum
    BY <1>3, <1>4, <2>1 DEF Kept
  <2> QED
    BY <1>2, <1>3, <1>5, <2>1, <2>2
<1>6. PICK q \in Seq(ClientMessage), last \in Nat : q = c.net /\ last = Len(q) + 1
  BY NetsTyped
<1>7. /\ Len(t.net) = last /\ Len(q) \in Nat
      /\ \A k \in 1..Len(q) : t.net[k] = q[k]
      /\ t.net[last] = m
  <2>1. t.net = Append(q, m)
    BY <1>2, <1>6, Zenon
  <2> QED
    BY <1>6, <2>1
<1>8. \A k \in 1..Len(t.net) : (k \in 1..Len(c.net) /\ t.net[k] = c.net[k]) \/ (k = last /\ t.net[k] = m)
  BY <1>6, <1>7
<1>9. /\ t.snapShots = c.snapShots /\ t.receivedSnapNum = c.receivedSnapNum
      /\ t.recorder = c.recorder /\ t.asks = c.asks /\ t.recorded = c.recorded
      /\ t.pendingSnapNum = c.pendingSnapNum /\ t.currentSnapNum = c.currentSnapNum
  BY <1>2 DEF SameSnaps, SameFired
<1>10. \A f : Kept(c, f) => Kept(t, f)
  BY <1>9, Zenon DEF Kept, Slot
<1>11. 0 + 1 = 1
  OBVIOUS
<1>12. ASSUME NEW k \in Moves(t, 0)
       PROVE  \/ k \in Moves(c, 0) /\ MoveOf(t, k) = MoveOf(c, k)
              \/ /\ k = last /\ MoveOf(t, k).lastframe = c.receivedSnapNum
                 /\ MoveOf(t, k).head = c.cmdNum + 1 /\ c.receivedSnapNum > 0
  <2>1. k \in 1..Len(t.net) /\ t.net[k].moves # <<>>
    BY <1>11, Zenon DEF Moves
  <2>2. CASE k \in 1..Len(c.net) /\ t.net[k] = c.net[k]
    BY <1>11, <2>1, <2>2, Zenon DEF Moves, MoveOf
  <2>3. CASE k = last /\ t.net[k] = m
    BY <1>2, <1>5, <2>1, <2>3, Zenon DEF MoveOf
  <2> QED
    BY <1>8, <2>1, <2>2, <2>3
<1>13. ASSUME NEW k \in Moves(c, 0)
       PROVE  /\ k < last /\ MoveHolds(s, c, MoveOf(c, k)) /\ MoveOf(c, k).lastframe \in Int
              /\ MoveOf(c, k).head \in Nat /\ MoveOf(c, k).head <= c.cmdNum + 1
              /\ c.receivedSnapNum > 0 => MoveOf(c, k).lastframe <= c.receivedSnapNum
  <2>1. k \in 1..Len(c.net) /\ MoveOf(c, k).lastframe \in Int /\ MoveOf(c, k).head \in Nat
    BY MovesTyped
  <2>2. k < last
    BY <1>6, <2>1
  <2>3. MoveHolds(s, c, MoveOf(c, k))
    BY <1>4 DEF MovesHold
  <2>4. c.receivedSnapNum > 0 => MoveOf(c, k).lastframe <= c.receivedSnapNum
    BY <1>3, <2>1, <2>3 DEF MoveHolds, Kept
  <2> QED
    BY <2>1, <2>2, <2>3, <2>4 DEF MoveHolds
<1>14. SnapsHold(s, t, i)
  <2>1. ASSUME NEW k \in (i + 1)..Len(s.net) PROVE SnapHolds(s, t, s.net[k].snap)
    <3>1. SnapHolds(s, c, s.net[k].snap)
      BY <1>4 DEF SnapsHold
    <3> QED
      BY <1>9, <1>10, <3>1, Zenon DEF SnapHolds
  <2> QED
    BY <1>4, <2>1, Zenon DEF SnapsHold
<1>15. MovesHold(s, t, 0)
  <2>1. ASSUME NEW k \in Moves(t, 0) PROVE MoveHolds(s, t, MoveOf(t, k))
    <3>1. CASE k \in Moves(c, 0) /\ MoveOf(t, k) = MoveOf(c, k)
      BY <1>2, <1>10, <1>13, <3>1, Zenon DEF MoveHolds
    <3>2. CASE /\ k = last /\ MoveOf(t, k).lastframe = c.receivedSnapNum
               /\ MoveOf(t, k).head = c.cmdNum + 1 /\ c.receivedSnapNum > 0
      <4>1. s.lastframe <= c.receivedSnapNum
        BY <1>3, <1>4, <3>2 DEF MovesHold
      <4>2. s.UcmdReceived < c.cmdNum + 1 /\ c.cmdNum + 1 <= c.cmdNum + 1
        BY <1>3, <1>4 DEF MovesHold
      <4> QED
        BY <1>2, <1>4, <1>10, <3>2, <4>1, <4>2, Zenon DEF MoveHolds
    <3> QED
      BY <1>12, <3>1, <3>2
  <2>2. ASSUME NEW k \in Moves(t, 0), NEW l \in Moves(t, 0), k <= l
        PROVE  MoveOf(t, k).lastframe <= MoveOf(t, l).lastframe /\ MoveOf(t, k).head <= MoveOf(t, l).head
    <3>1. CASE (k \in Moves(c, 0) /\ MoveOf(t, k) = MoveOf(c, k)) /\ (l \in Moves(c, 0) /\ MoveOf(t, l) = MoveOf(c, l))
      BY <1>4, <2>2, <3>1, Zenon DEF MovesHold
    <3>2. CASE /\ l = last /\ MoveOf(t, l).lastframe = c.receivedSnapNum
               /\ MoveOf(t, l).head = c.cmdNum + 1 /\ c.receivedSnapNum > 0
      <4>1. CASE k \in Moves(c, 0) /\ MoveOf(t, k) = MoveOf(c, k)
        BY <1>13, <3>2, <4>1, Zenon
      <4>2. CASE MoveOf(t, k).lastframe = c.receivedSnapNum /\ MoveOf(t, k).head = c.cmdNum + 1
        BY <1>3, <3>2, <4>2
      <4> QED
        BY <1>12, <4>1, <4>2
    <3>3. CASE k = last /\ l \in Moves(c, 0)
      <4>1. l \in Nat
        BY <3>3, MovesTyped
      <4> QED
        BY <1>13, <2>2, <3>3, <4>1
    <3> QED
      BY <1>12, <3>1, <3>2, <3>3
  <2> QED
    BY <1>2, <1>4, <1>9, <1>10, <2>1, <2>2, Zenon DEF MovesHold
<1>16. Demo(s, t, 0, i)
  <2>1. Asked(s, t, 0)
    <3>1. Asked(s, c, 0)
      BY <1>4 DEF Demo
    <3>2. (\E k \in 1..Len(t.net) : t.net[k].asks) => c.asks \/ \E k \in 1..Len(c.net) : c.net[k].asks
      BY <1>2, <1>8, Zenon
    <3> QED
      BY <1>9, <1>11, <3>1, <3>2, Zenon DEF Asked
  <2>2. \A f : Recorded(t, f) <=> Recorded(c, f)
    BY <1>9, Zenon DEF Recorded
  <2>3. \A f : Covered(s, t, f) <=> Covered(s, c, f)
    BY <2>2, Zenon DEF Covered
  <2>4. \A k \in Moves(t, 0) : Covered(s, t, MoveOf(t, k).lastframe)
    BY <1>4, <1>12, <2>3, Zenon DEF Demo
  <2> QED
    BY <1>4, <1>9, <2>1, <2>2, <2>3, <2>4, Zenon DEF Demo
<1>17. SlotsHold(t) /\ Kept(t, t.receivedSnapNum) /\ t.receivedSnapNum <= s.framenum /\ FiresInOrder(t)
  BY <1>4, <1>9, <1>10, Zenon DEF SlotsHold, FiresInOrder
<1>18. Agreed(s, t, 0, i)
  BY <1>14, <1>15, <1>16, <1>17, Zenon DEF Agreed
<1> QED
  BY <1>1, <1>2, <1>18, Zenon

-----------------------------------------------------------------------------
(* What the ends do in a frame.                                            *)

ClientMessagesRead(s, net, count) ==
  LET parsed[k \in 0..count] == IF k = 0 THEN s ELSE ParseClientMessage(parsed[k - 1], net[k])
  IN parsed

ServerMessagesRead(c, net, count) ==
  LET parsed[k \in 0..count] == IF k = 0 THEN c ELSE ParseServerMessage(parsed[k - 1], net[k])
  IN parsed

\* The server reads some messages, one after the other.
LEMMA ServerRead ==
  ASSUME NEW s, s \in ServerType(s), RingHolds(s), NEW c \in ClientType, Agreed(s, c, 0, 0), NEW count \in 0..Len(c.net)
  PROVE  LET t == ExecuteClientThinks(ClientMessagesRead(s, c.net, count)[count])
         IN t \in ServerType(t) /\ t.framenum = s.framenum /\ RingHolds(t) /\ Agreed(t, c, count, 0)
<1>1. PICK net \in Seq(ClientMessage) : net = c.net
  BY NetsTyped
<1>2. count \in 0..Len(net) /\ count \in Nat
  BY <1>1
<1>3. PICK parsed : parsed = ClientMessagesRead(s, net, count)
  OBVIOUS
<1>4. /\ parsed[0] = s /\ \A k \in 1..count : parsed[k] = ParseClientMessage(parsed[k - 1], net[k])
      /\ \A k \in 0..count : parsed[k] \in ServerType(s)
  <2>1. LET run == ClientMessagesRead(s, net, count)
        IN /\ run[0] = s /\ \A k \in 1..count : run[k] = ParseClientMessage(run[k - 1], net[k])
           /\ \A k \in 0..count : run[k] \in ServerType(s)
    BY <1>2, ClientMessagesRun DEF ClientMessagesRead
  <2> QED
    BY <1>3, <2>1, Zenon
<1> DEFINE Good(k) == SameRing(s, parsed[k]) /\ Agreed(parsed[k], c, k, 0)
           good == {k \in 0..count : Good(k)}
<1>5. 0 \in good
  <2>1. SameRing(s, s)
    BY DEF SameRing
  <2>2. Good(0)
    BY <1>4, <2>1, Zenon
  <2>3. 0 \in 0..count
    BY <1>2
  <2> QED
    BY <2>2, <2>3, Zenon
<1>6. ASSUME NEW k \in 1..count, k - 1 \in good PROVE k \in good
  <2>1. PICK j \in Nat : j = k - 1 /\ k = j + 1 /\ j \in 0..count
    BY <1>2
  <2>2. PICK u : u = parsed[j]
    OBVIOUS
  <2>3. SameRing(s, u) /\ Agreed(u, c, j, 0) /\ u \in ServerType(s)
    BY <1>4, <1>6, <2>1, <2>2, Zenon
  <2>4. u \in ServerType(u)
    BY <2>3, ServerTypeOf
  <2>5. k \in 1..Len(c.net) /\ k \in Nat /\ k \in 0..count
    BY <1>1, <1>2
  <2>6. Agreed(ParseClientMessage(u, c.net[k]), c, k, 0)
    BY <2>1, <2>3, <2>4, <2>5, ClientMessageAgreed
  <2>7. c.net[k] \in ClientMessage
    BY <2>5, NetsTyped
  <2>8. SameRing(u, ParseClientMessage(u, c.net[k]))
    BY <2>4, <2>7, ClientMessageTyped
  <2>9. parsed[k] = ParseClientMessage(u, c.net[k])
    BY <1>1, <1>4, <2>1, <2>2, Zenon
  <2>10. SameRing(s, parsed[k])
    BY <2>3, <2>8, <2>9, Zenon DEF SameRing
  <2>11. Good(k)
    BY <2>6, <2>9, <2>10, Zenon
  <2> QED
    BY <2>5, <2>11, Zenon
<1> HIDE DEF good
<1>7. count \in good
  <2>1. \A k \in 0..count : k \in good
    BY <1>2, <1>5, <1>6, UpTo
  <2> QED
    BY <1>2, <2>1
<1>8. PICK u : u = parsed[count]
  OBVIOUS
<1>9. SameRing(s, u) /\ Agreed(u, c, count, 0) /\ u \in ServerType(s)
  <2>1. Good(count)
    BY <1>7, Zenon DEF good
  <2>2. count \in 0..count
    BY <1>2
  <2> QED
    BY <1>4, <1>8, <2>1, <2>2, Zenon
<1>10. u \in ServerType(u)
  BY <1>9, ServerTypeOf
<1>11. PICK t : t = ExecuteClientThinks(u)
  OBVIOUS
<1>12. t \in ServerType(t) /\ SameRing(u, t)
  BY <1>10, <1>11, ThinksTyped
<1>13. Agreed(t, c, count, 0)
  BY <1>2, <1>9, <1>10, <1>11, ThinksAgreed
<1>14. RingHolds(t) /\ t.framenum = s.framenum
  <2>1. SameRing(s, t)
    BY <1>9, <1>12, Zenon DEF SameRing
  <2> QED
    BY <2>1, RingSame DEF SameRing
<1>15. t = ExecuteClientThinks(ClientMessagesRead(s, c.net, count)[count])
  BY <1>1, <1>3, <1>8, <1>11, Zenon
<1> QED
  BY <1>12, <1>13, <1>14, <1>15, Zenon

\* The client reads some messages, one after the other.
LEMMA ClientRead ==
  ASSUME budget \in BudgetType, NEW s, s \in ServerType(s), s.framenum <= Len(budget.worlds),
         NEW c \in ClientType, Agreed(s, c, 0, 0), NEW count \in 0..Len(s.net)
  PROVE  LET t == ServerMessagesRead(c, s.net, count)[count]
         IN t \in ClientType /\ Agreed(s, t, 0, count)
<1>1. PICK net \in Seq(ServerMessage) : net = s.net
  BY NetsTyped
<1>2. count \in 0..Len(net) /\ count \in Nat
  BY <1>1
<1>3. PICK parsed : parsed = ServerMessagesRead(c, net, count)
  OBVIOUS
<1>4. /\ parsed[0] = c /\ \A k \in 1..count : parsed[k] = ParseServerMessage(parsed[k - 1], net[k])
      /\ \A k \in 0..count : parsed[k] \in ClientType
  <2>1. LET run == ServerMessagesRead(c, net, count)
        IN /\ run[0] = c /\ \A k \in 1..count : run[k] = ParseServerMessage(run[k - 1], net[k])
           /\ \A k \in 0..count : run[k] \in ClientType
    BY <1>2, ServerMessagesRun DEF ServerMessagesRead
  <2> QED
    BY <1>3, <2>1, Zenon
<1> DEFINE good == {k \in 0..count : Agreed(s, parsed[k], 0, k)}
<1>5. 0 \in good
  <2>1. 0 \in 0..count
    BY <1>2
  <2> QED
    BY <1>4, <2>1, Zenon
<1>6. ASSUME NEW k \in 1..count, k - 1 \in good PROVE k \in good
  <2>1. PICK j \in Nat : j = k - 1 /\ k = j + 1 /\ j \in 0..count
    BY <1>2
  <2>2. PICK u \in ClientType : u = parsed[j]
    BY <1>4, <2>1
  <2>3. Agreed(s, u, 0, j)
    BY <1>6, <2>1, <2>2, Zenon
  <2>4. k \in 1..Len(s.net) /\ k \in 0..count
    BY <1>1, <1>2
  <2>5. Agreed(s, ParseServerMessage(u, s.net[k]), 0, k)
    BY <2>1, <2>3, <2>4, ServerMessageAgreed
  <2>6. parsed[k] = ParseServerMessage(u, s.net[k])
    BY <1>1, <1>4, <2>1, <2>2, Zenon
  <2> QED
    BY <2>4, <2>5, <2>6, Zenon
<1> HIDE DEF good
<1>7. count \in good
  <2>1. \A k \in 0..count : k \in good
    BY <1>2, <1>5, <1>6, UpTo
  <2> QED
    BY <1>2, <2>1
<1>8. Agreed(s, parsed[count], 0, count) /\ parsed[count] \in ClientType
  <2>1. count \in 0..count
    BY <1>2
  <2> QED
    BY <1>4, <1>7, <2>1, Zenon DEF good
<1> QED
  BY <1>1, <1>3, <1>8, Zenon

Holds(s, c) == s \in ServerType(s) /\ c \in ClientType /\ RingHolds(s) /\ Agreed(s, c, 0, 0)

\* SV_Frame, when it is not time for a snapshot.
LEMMA ServerReadsHolds ==
  ASSUME NEW s, NEW c, Holds(s, c), NEW count \in 0..Len(c.net)
  PROVE  LET t == ExecuteClientThinks(ClientMessagesRead(s, c.net, count)[count])
         IN Holds(t, WithoutFirst(c, count)) /\ t.framenum = s.framenum
<1>1. PICK t : t = ExecuteClientThinks(ClientMessagesRead(s, c.net, count)[count])
  OBVIOUS
<1>2. c \in ClientType /\ t \in ServerType(t) /\ t.framenum = s.framenum /\ RingHolds(t) /\ Agreed(t, c, count, 0)
  BY <1>1, ServerRead DEF Holds
<1>3. PICK d : d = WithoutFirst(c, count)
  OBVIOUS
<1>4. d \in ClientType /\ Agreed(t, d, 0, 0)
  BY <1>2, <1>3, MessagesGone
<1> QED
  BY <1>1, <1>2, <1>3, <1>4, Zenon DEF Holds

\* SV_Frame, when it is.
LEMMA ServerSnapsHolds ==
  ASSUME budget \in BudgetType, NEW s, NEW c, Holds(s, c), NEW count \in 0..Len(c.net), s.framenum + 1 <= Len(budget.worlds)
  PROVE  LET t == ExecuteClientThinks(ClientMessagesRead(s, c.net, count)[count])
             v == WriteFrame(BuildFrame([t EXCEPT !.framenum = @ + 1]))
         IN Holds(v, WithoutFirst(c, count)) /\ v.framenum = s.framenum + 1
<1>1. PICK t : t = ExecuteClientThinks(ClientMessagesRead(s, c.net, count)[count])
  OBVIOUS
<1>2. c \in ClientType /\ t \in ServerType(t) /\ t.framenum = s.framenum /\ RingHolds(t) /\ Agreed(t, c, count, 0)
  BY <1>1, ServerRead DEF Holds
<1>3. PICK w : w = BuildFrame([t EXCEPT !.framenum = @ + 1])
  OBVIOUS
<1>4. count \in Nat /\ s.framenum \in Nat /\ Len(budget.worlds) \in Nat
  BY DEF Holds, ServerType, BudgetType
<1>5. /\ w \in ServerType(w) /\ RingHolds(w) /\ w.framenum = t.framenum + 1
      /\ World(w.framenum) \in States /\ Agreed(w, c, count, 0) /\ Fresh(w, c)
  <2>1. t.framenum + 1 <= Len(budget.worlds)
    BY <1>2
  <2>2. PICK u : u = [t EXCEPT !.framenum = @ + 1]
    OBVIOUS
  <2>3. LET b == BuildFrame(u)
        IN /\ b \in ServerType(b) /\ RingHolds(b) /\ b.framenum = t.framenum + 1
           /\ World(b.framenum) \in States /\ Agreed(b, c, count, 0) /\ Fresh(b, c)
    BY <1>2, <1>4, <2>1, <2>2, FrameBegun
  <2> QED
    BY <1>3, <2>2, <2>3, Zenon
<1>6. PICK v : v = WriteFrame(w)
  OBVIOUS
<1>7. v \in ServerType(v) /\ v.framenum = w.framenum /\ RingHolds(v) /\ Agreed(v, c, count, 0)
  <2>1. w.framenum \in 1..Len(budget.worlds)
    BY <1>2, <1>4, <1>5
  <2> QED
    BY <1>2, <1>4, <1>5, <1>6, <2>1, FrameWritten
<1>8. PICK d : d = WithoutFirst(c, count)
  OBVIOUS
<1>9. d \in ClientType /\ Agreed(v, d, 0, 0)
  BY <1>2, <1>7, <1>8, MessagesGone
<1>10. v = WriteFrame(BuildFrame([t EXCEPT !.framenum = @ + 1])) /\ v.framenum = s.framenum + 1
  BY <1>2, <1>3, <1>5, <1>6, <1>7, Zenon
<1> QED
  BY <1>1, <1>7, <1>8, <1>9, <1>10, Zenon DEF Holds

\* CL_Frame.
LEMMA ClientFrameHolds ==
  ASSUME budget \in BudgetType, NEW s, NEW c, Holds(s, c), s.framenum <= Len(budget.worlds), NEW count \in 0..Len(s.net),
         NEW due \in BOOLEAN, NEW sends \in BOOLEAN
  PROVE  LET b == IF due THEN Fire(UpdateSnapshot(c)) ELSE UpdateSnapshot(c)
             d == ServerMessagesRead(b, s.net, count)[count]
             t == WithoutFirst(s, count)
         IN Holds(t, IF sends THEN Send(d) ELSE d) /\ t.framenum = s.framenum
<1>1. PICK u : u = UpdateSnapshot(c)
  OBVIOUS
<1>2. PICK f : f = Fire(u)
  OBVIOUS
<1>3. s \in ServerType(s) /\ c \in ClientType /\ RingHolds(s) /\ Agreed(s, c, 0, 0)
  BY DEF Holds
<1>4. u \in ClientType /\ Agreed(s, u, 0, 0)
  BY <1>1, <1>3, FiredAgreed
<1>5. f \in ClientType /\ Agreed(s, f, 0, 0)
  BY <1>2, <1>3, <1>4, FiredAgreed
<1>6. PICK b : b = IF due THEN Fire(UpdateSnapshot(c)) ELSE UpdateSnapshot(c)
  OBVIOUS
<1>7. b \in ClientType /\ Agreed(s, b, 0, 0)
  BY <1>1, <1>2, <1>4, <1>5, <1>6, Zenon
<1>8. PICK d : d = ServerMessagesRead(b, s.net, count)[count]
  OBVIOUS
<1>9. d \in ClientType /\ Agreed(s, d, 0, count)
  BY <1>3, <1>7, <1>8, ClientRead
<1>10. Send(d) \in ClientType /\ Agreed(s, Send(d), 0, count)
  <2>1. count \in Nat
    BY <1>3, NetsTyped
  <2> QED
    BY <1>3, <1>9, <2>1, SendAgreed
<1>11. PICK e : e = IF sends THEN Send(d) ELSE d
  OBVIOUS
<1>12. e \in ClientType /\ Agreed(s, e, 0, count)
  BY <1>9, <1>10, <1>11, Zenon
<1>13. PICK t : t = WithoutFirst(s, count)
  OBVIOUS
<1>14. t \in ServerType(t) /\ SameRing(s, t) /\ Agreed(t, e, 0, 0)
  BY <1>3, <1>12, <1>13, SnapsGone
<1>15. RingHolds(t) /\ t.framenum = s.framenum
  BY <1>3, <1>14, RingSame DEF SameRing
<1> QED
  BY <1>6, <1>8, <1>11, <1>12, <1>13, <1>14, <1>15, Zenon DEF Holds

\* SV_AddGameCommand.
LEMMA GameCommandHolds ==
  ASSUME NEW s, NEW c, Holds(s, c)
  PROVE  Holds(AddGameCommand(s), c) /\ AddGameCommand(s).framenum = s.framenum
<1>1. s \in ServerType(s) /\ c \in ClientType /\ RingHolds(s) /\ Agreed(s, c, 0, 0)
  BY DEF Holds
<1>2. PICK t : t = AddGameCommand(s)
  OBVIOUS
<1>3. t \in ServerType(s) /\ SameRing(s, t) /\ SameTalk(s, t)
  BY <1>1, <1>2, GameCommandTyped
<1>4. t \in ServerType(t)
  BY <1>3, ServerTypeOf
<1>5. t.framenum = s.framenum /\ RingHolds(t)
  BY <1>1, <1>3, RingSame DEF SameRing
<1>6. s.framenum \in Nat /\ s.nodelta_frame \in Nat /\ c.receivedSnapNum \in Nat
  BY <1>1 DEF ServerType, ClientType
<1>7. Len(s.net) \in Nat /\ \A k \in 1..Len(s.net) : s.net[k].snap.serverFrame \in Nat
  BY <1>1, NetsTyped, SnapFrames
<1>8. s.framenum <= t.framenum /\ t.framenum \in Nat
  BY <1>5, <1>6
<1>9. Agreed(t, c, 0, 0)
  BY <1>1, <1>3, <1>6, <1>7, <1>8, ServerSame
<1> QED
  BY <1>1, <1>2, <1>4, <1>5, <1>9, Zenon DEF Holds

\* A message is lost.
LEMMA LostHolds ==
  ASSUME NEW s, NEW c, Holds(s, c)
  PROVE  /\ s.net # <<>> => /\ Holds([s EXCEPT !.net = Tail(@)], c)
                            /\ [s EXCEPT !.net = Tail(@)].framenum = s.framenum
         /\ c.net # <<>> => Holds(s, [c EXCEPT !.net = Tail(@)])
<1>1. s \in ServerType(s) /\ c \in ClientType /\ RingHolds(s) /\ Agreed(s, c, 0, 0)
  BY DEF Holds
<1>2. Len(s.net) \in Nat /\ Len(c.net) \in Nat /\ s.net \in Seq(ServerMessage) /\ c.net \in Seq(ClientMessage)
  BY <1>1, NetsTyped
<1>3. ASSUME NEW T, NEW q \in Seq(T), q # <<>> PROVE Tail(q) = SubSeq(q, 1 + 1, Len(q)) /\ 1 \in 0..Len(q)
  <2>1. Tail(q) = SubSeq(q, 2, Len(q))
    BY <1>3, TailIsSubSeq
  <2>2. 1 + 1 = 2
    OBVIOUS
  <2>3. Len(q) \in Nat /\ Len(q) # 0
    BY <1>3
  <2>4. 1 \in 0..Len(q)
    BY <2>3
  <2> QED
    BY <2>1, <2>2, <2>4, Zenon
<1>4. ASSUME s.net # <<>>
      PROVE  /\ Holds([s EXCEPT !.net = Tail(@)], c)
             /\ [s EXCEPT !.net = Tail(@)].framenum = s.framenum
  <2>1. Tail(s.net) = SubSeq(s.net, 1 + 1, Len(s.net)) /\ 1 \in 0..Len(s.net)
    BY <1>2, <1>3, <1>4
  <2>2. [s EXCEPT !.net = Tail(@)] = WithoutFirst(s, 1)
    BY <2>1, Zenon DEF WithoutFirst
  <2>3. PICK t : t = WithoutFirst(s, 1)
    OBVIOUS
  <2>4. Agreed(s, c, 0, 1)
    BY <1>1, <1>2, MessageSkipped
  <2>5. t \in ServerType(t) /\ SameRing(s, t) /\ Agreed(t, c, 0, 0)
    BY <1>1, <2>1, <2>3, <2>4, SnapsGone
  <2>6. RingHolds(t) /\ t.framenum = s.framenum
    BY <1>1, <2>5, RingSame DEF SameRing
  <2> QED
    BY <1>1, <2>2, <2>3, <2>5, <2>6, Zenon DEF Holds
<1>5. ASSUME c.net # <<>> PROVE Holds(s, [c EXCEPT !.net = Tail(@)])
  <2>1. Tail(c.net) = SubSeq(c.net, 1 + 1, Len(c.net)) /\ 1 \in 0..Len(c.net)
    BY <1>2, <1>3, <1>5
  <2>2. [c EXCEPT !.net = Tail(@)] = WithoutFirst(c, 1)
    BY <2>1, Zenon DEF WithoutFirst
  <2>3. PICK d : d = WithoutFirst(c, 1)
    OBVIOUS
  <2>4. Agreed(s, c, 1, 0)
    BY <1>1, <1>2, MessageSkipped
  <2>5. d \in ClientType /\ Agreed(s, d, 0, 0)
    BY <1>1, <2>1, <2>3, <2>4, MessagesGone
  <2> QED
    BY <1>1, <2>2, <2>3, <2>5, Zenon DEF Holds
<1> QED
  BY <1>4, <1>5

-----------------------------------------------------------------------------
(* The invariant.                                                          *)

\* What happens may use up one of the events that are left.
Kinds == {"frames", "losses", "commands", "moves", "records"}

LEMMA BudgetKept ==
  ASSUME budget \in BudgetType
  PROVE  /\ \A kind \in Kinds : Spend(kind) =>
              /\ budget' \in BudgetType /\ budget'.worlds = budget.worlds
              /\ kind # "frames" => budget'.frames = budget.frames
              /\ kind = "frames" => budget.frames > 0 /\ budget'.frames = budget.frames - 1
         /\ UNCHANGED budget => budget' \in BudgetType /\ budget'.worlds = budget.worlds /\ budget'.frames = budget.frames
<1>1. ASSUME NEW b \in BudgetType, NEW kind \in Kinds, b[kind] > 0, NEW d, d = [b EXCEPT ![kind] = @ - 1]
      PROVE  /\ d \in BudgetType /\ d.worlds = b.worlds
             /\ kind # "frames" => d.frames = b.frames
             /\ kind = "frames" => b.frames > 0 /\ d.frames = b.frames - 1
  <2>1. CASE kind = "frames"
    <3>1. PICK n \in Nat : n = b.frames - 1 /\ b.frames > 0
      BY <1>1, <2>1 DEF BudgetType
    <3>2. d = [b EXCEPT !.frames = n]
      BY <1>1, <2>1, <3>1
    <3> QED
      BY <2>1, <3>1, <3>2 DEF BudgetType
  <2>2. CASE kind = "losses"
    <3>1. PICK n \in Nat : n = b.losses - 1
      BY <1>1, <2>2 DEF BudgetType
    <3>2. d = [b EXCEPT !.losses = n]
      BY <1>1, <2>2, <3>1
    <3> QED
      BY <2>2, <3>1, <3>2 DEF BudgetType
  <2>3. CASE kind = "commands"
    <3>1. PICK n \in Nat : n = b.commands - 1
      BY <1>1, <2>3 DEF BudgetType
    <3>2. d = [b EXCEPT !.commands = n]
      BY <1>1, <2>3, <3>1
    <3> QED
      BY <2>3, <3>1, <3>2 DEF BudgetType
  <2>4. CASE kind = "moves"
    <3>1. PICK n \in Nat : n = b.moves - 1
      BY <1>1, <2>4 DEF BudgetType
    <3>2. d = [b EXCEPT !.moves = n]
      BY <1>1, <2>4, <3>1
    <3> QED
      BY <2>4, <3>1, <3>2 DEF BudgetType
  <2>5. CASE kind = "records"
    <3>1. PICK n \in Nat : n = b.records - 1
      BY <1>1, <2>5 DEF BudgetType
    <3>2. d = [b EXCEPT !.records = n]
      BY <1>1, <2>5, <3>1
    <3> QED
      BY <2>5, <3>1, <3>2 DEF BudgetType
  <2> QED
    BY <2>1, <2>2, <2>3, <2>4, <2>5 DEF Kinds
<1>2. ASSUME NEW kind \in Kinds, Spend(kind)
      PROVE  /\ budget' \in BudgetType /\ budget'.worlds = budget.worlds
             /\ kind # "frames" => budget'.frames = budget.frames
             /\ kind = "frames" => budget.frames > 0 /\ budget'.frames = budget.frames - 1
  <2>1. budget[kind] > 0 /\ budget' = [budget EXCEPT ![kind] = @ - 1]
    BY <1>2 DEF Spend
  <2> QED
    BY <1>1, <2>1, Zenon
<1> QED
  BY <1>2

\* What holds at both ends after a step.
StepHolds == /\ Holds(server', client') /\ budget' \in BudgetType /\ budget'.worlds = budget.worlds
             /\ server'.framenum + budget'.frames <= Len(budget.worlds)

LEMMA InvariantParts ==
  ASSUME IInv
  PROVE  /\ budget \in BudgetType /\ Holds(server, client) /\ server.framenum + budget.frames <= Len(budget.worlds)
         /\ server.framenum \in Nat /\ budget.frames \in Nat /\ Len(budget.worlds) \in Nat
         /\ server.framenum <= Len(budget.worlds)
<1>1. budget \in BudgetType /\ Holds(server, client) /\ server.framenum + budget.frames <= Len(budget.worlds)
  BY DEF IInv, Types, Holds
<1>2. server.framenum \in Nat
  BY <1>1 DEF Holds, ServerType
<1>3. budget.frames \in Nat /\ Len(budget.worlds) \in Nat
  BY <1>1 DEF BudgetType
<1> QED
  BY <1>1, <1>2, <1>3

LEMMA ServerReadsKeeps ==
  ASSUME IInv, ServerReads
  PROVE  StepHolds
<1>1. PICK count \in 1..Len(client.net) : ServerFrame(count, FALSE) /\ UNCHANGED budget
  BY DEF ServerReads
<1>2. /\ server' = ExecuteClientThinks(ClientMessagesRead(server, client.net, count)[count])
      /\ client' = WithoutFirst(client, count)
  BY <1>1, Zenon DEF ServerFrame, ClientMessagesRead, WithoutFirst
<1>3. count \in 0..Len(client.net)
  OBVIOUS
<1>4. Holds(server', client') /\ server'.framenum = server.framenum
  BY <1>2, <1>3, InvariantParts, ServerReadsHolds, Zenon
<1> QED
  BY <1>1, <1>4, InvariantParts, BudgetKept DEF StepHolds

LEMMA ServerSnapsKeeps ==
  ASSUME IInv, ServerSnaps
  PROVE  StepHolds
<1>1. PICK count \in 0..Len(client.net) : ServerFrame(count, TRUE)
  BY DEF ServerSnaps
<1>2. LET t == ExecuteClientThinks(ClientMessagesRead(server, client.net, count)[count])
      IN /\ server' = WriteFrame(BuildFrame([t EXCEPT !.framenum = @ + 1]))
         /\ client' = WithoutFirst(client, count)
  BY <1>1, Zenon DEF ServerFrame, ClientMessagesRead, WithoutFirst
<1>3. /\ budget' \in BudgetType /\ budget'.worlds = budget.worlds
      /\ budget.frames > 0 /\ budget'.frames = budget.frames - 1
  <2>1. Spend("frames") /\ "frames" \in Kinds
    BY DEF ServerSnaps, Kinds
  <2> QED
    BY <2>1, InvariantParts, BudgetKept
<1>4. server.framenum + 1 <= Len(budget.worlds)
  BY <1>3, InvariantParts
<1>5. Holds(server', client') /\ server'.framenum = server.framenum + 1
  BY <1>2, <1>4, InvariantParts, ServerSnapsHolds, Zenon
<1> QED
  BY <1>3, <1>5, InvariantParts DEF StepHolds

LEMMA GameCommandKeeps ==
  ASSUME IInv, GameCommand
  PROVE  StepHolds
<1>1. Spend("commands") /\ server' = AddGameCommand(server) /\ client' = client
  BY DEF GameCommand
<1>2. "commands" \in Kinds /\ "commands" # "frames"
  BY DEF Kinds
<1>3. budget' \in BudgetType /\ budget'.worlds = budget.worlds /\ budget'.frames = budget.frames
  BY <1>1, <1>2, InvariantParts, BudgetKept
<1>4. Holds(server', client') /\ server'.framenum = server.framenum
  BY <1>1, InvariantParts, GameCommandHolds, Zenon
<1> QED
  BY <1>3, <1>4, InvariantParts DEF StepHolds

LEMMA ClientRunsKeeps ==
  ASSUME IInv, ClientRuns
  PROVE  StepHolds
<1>1. PICK count \in 0..Len(server.net), due \in BOOLEAN, sends \in BOOLEAN : ClientFrame(count, due, sends)
  BY DEF ClientRuns
<1>2. LET b == IF due THEN Fire(UpdateSnapshot(client)) ELSE UpdateSnapshot(client)
          d == ServerMessagesRead(b, server.net, count)[count]
      IN /\ client' = IF sends THEN Send(d) ELSE d
         /\ server' = WithoutFirst(server, count)
         /\ UNCHANGED budget
  BY <1>1, Zenon DEF ClientFrame, ServerMessagesRead, WithoutFirst
<1>3. Holds(server', client') /\ server'.framenum = server.framenum
  BY <1>2, InvariantParts, ClientFrameHolds, Zenon
<1> QED
  BY <1>2, <1>3, InvariantParts, BudgetKept DEF StepHolds

LEMMA NewUserCommandKeeps ==
  ASSUME IInv, NewUserCommand
  PROVE  StepHolds
<1>1. PICK step \in ClockSteps : client' = NewCommand(client, step)
  BY Zenon DEF NewUserCommand, NewCommand
<1>2. Spend("moves") /\ server' = server /\ "moves" \in Kinds /\ "moves" # "frames" /\ step \in Nat
  BY ScenariosAssumption DEF NewUserCommand, Kinds
<1>3. budget' \in BudgetType /\ budget'.worlds = budget.worlds /\ budget'.frames = budget.frames
  BY <1>2, InvariantParts, BudgetKept
<1>4. Holds(server', client') /\ server'.framenum = server.framenum
  BY <1>1, <1>2, InvariantParts, CommandAgreed, Zenon DEF Holds
<1> QED
  BY <1>3, <1>4, InvariantParts DEF StepHolds

LEMMA StartRecordingKeeps ==
  ASSUME IInv, StartRecording
  PROVE  StepHolds
<1>1. /\ Spend("records") /\ server' = server /\ client.recorder = "off"
      /\ client' = [client EXCEPT !.recorder = "waiting", !.asks = TRUE]
  BY DEF StartRecording
<1>2. "records" \in Kinds /\ "records" # "frames"
  BY DEF Kinds
<1>3. budget' \in BudgetType /\ budget'.worlds = budget.worlds /\ budget'.frames = budget.frames
  BY <1>1, <1>2, InvariantParts, BudgetKept
<1>4. Holds(server', client') /\ server'.framenum = server.framenum
  BY <1>1, InvariantParts, StartAgreed, Zenon DEF Holds
<1> QED
  BY <1>3, <1>4, InvariantParts DEF StepHolds

LEMMA LoseKeeps ==
  ASSUME IInv, Lose
  PROVE  StepHolds
<1>1. /\ Spend("losses")
      /\ \/ server.net # <<>> /\ server' = [server EXCEPT !.net = Tail(@)] /\ client' = client
         \/ client.net # <<>> /\ client' = [client EXCEPT !.net = Tail(@)] /\ server' = server
  BY DEF Lose
<1>2. "losses" \in Kinds /\ "losses" # "frames"
  BY DEF Kinds
<1>3. budget' \in BudgetType /\ budget'.worlds = budget.worlds /\ budget'.frames = budget.frames
  BY <1>1, <1>2, InvariantParts, BudgetKept
<1>4. Holds(server', client') /\ server'.framenum = server.framenum
  <2>1. Holds(server, client)
    BY InvariantParts
  <2>2. /\ server.net # <<>> => /\ Holds([server EXCEPT !.net = Tail(@)], client)
                               /\ [server EXCEPT !.net = Tail(@)].framenum = server.framenum
        /\ client.net # <<>> => Holds(server, [client EXCEPT !.net = Tail(@)])
    BY <2>1, LostHolds, Zenon
  <2>3. CASE server.net # <<>> /\ server' = [server EXCEPT !.net = Tail(@)] /\ client' = client
    BY <2>2, <2>3, Zenon
  <2>4. CASE client.net # <<>> /\ client' = [client EXCEPT !.net = Tail(@)] /\ server' = server
    BY <2>2, <2>4, Zenon
  <2> QED
    BY <1>1, <2>3, <2>4
<1> QED
  BY <1>3, <1>4, InvariantParts DEF StepHolds

\* No step of either end, and no loss, makes them disagree.
LEMMA StepKeeps ==
  ASSUME IInv, [Next]_vars
  PROVE  StepHolds
<1>1. CASE UNCHANGED vars
  <2>1. server' = server /\ client' = client /\ UNCHANGED budget
    BY <1>1 DEF vars
  <2> QED
    BY <2>1, InvariantParts, BudgetKept DEF StepHolds
<1>2. CASE Next
  BY <1>2, ServerReadsKeeps, ServerSnapsKeeps, GameCommandKeeps, ClientRunsKeeps, NewUserCommandKeeps,
     StartRecordingKeeps, LoseKeeps DEF Next
<1> QED
  BY <1>1, <1>2

\* The worlds do not change, so that what holds after a step holds of them then.
LEMMA StepMeans ==
  ASSUME StepHolds
  PROVE  IInv'
<1>1. \A f : World(f)' = World(f)
  BY DEF StepHolds, World
<1>2. Types'
  BY DEF StepHolds, Holds, Types
<1>3. RingHolds(server)'
  <2>1. RingHolds(server')
    BY DEF StepHolds, Holds
  <2> QED
    BY <1>1, <2>1, Zenon DEF RingHolds, Placed, InRing, Size
<1>4. Agreed(server, client, 0, 0)'
  <2>1. Agreed(server', client', 0, 0)
    BY DEF StepHolds, Holds
  <2>2. SlotsHold(client)'
    BY <1>1, <2>1, Zenon DEF Agreed, SlotsHold
  <2>3. SnapsHold(server, client, 0)'
    BY <1>1, <2>1, Zenon DEF Agreed, SnapsHold, SnapHolds
  <2>4. (client.receivedSnapNum <= server.framenum /\ Kept(client, client.receivedSnapNum))'
    BY <2>1, Zenon DEF Agreed, Kept, Slot
  <2>5. FiresInOrder(client)' /\ MovesHold(server, client, 0)' /\ Demo(server, client, 0, 0)'
    BY <2>1, Zenon DEF Agreed, FiresInOrder, MovesHold, Demo
  <2> QED
    BY <2>2, <2>3, <2>4, <2>5, Zenon DEF Agreed
<1> QED
  BY <1>2, <1>3, <1>4 DEF IInv

\* At first nothing has been sent.
LEMMA InitBudget ==
  ASSUME Init
  PROVE  budget \in BudgetType /\ budget.frames <= Len(budget.worlds)
<1>1. budget \in Scenarios
  BY DEF Init
<1>2. /\ budget \in [frames : Nat, losses : Nat, commands : Nat, moves : Nat, records : Nat, inFlight : Nat,
                    worlds : Seq([Ents -> Nat])]
      /\ budget.frames <= Len(budget.worlds)
  BY <1>1, ScenariosAssumption, Zenon
<1> QED
  BY <1>2, Zenon DEF BudgetType, States

NoServer ==
  [framenum |-> 0, next |-> 0, entities |-> [i \in 0..(EntityRing - 1) |-> <<0, 0>>],
   snapShots |-> [i \in 0..(UpdateBackup - 1) |-> [first |-> 0, num |-> 0]],
   lastframe |-> -1, lastSentFrameNum |-> 0, nodelta |-> FALSE, nodelta_frame |-> 0,
   gameCommands |-> <<>>, executed |-> FALSE, ucmds |-> [i \in 0..(CmdBackup - 1) |-> [number |-> 0, time |-> 0]],
   UcmdReceived |-> 0, UcmdExecuted |-> 0, UcmdTime |-> 0, thoughts |-> <<>>, net |-> <<>>]

NoSnap == [serverFrame |-> 0, valid |-> FALSE, entities |-> Nothing, truth |-> Nothing, commands |-> {}]

NoClient ==
  [snapShots |-> [i \in 0..(UpdateBackup - 1) |-> NoSnap],
   receivedSnapNum |-> 0, pendingSnapNum |-> 0, currentSnapNum |-> 0,
   cmds |-> [i \in 0..(CmdBackup - 1) |-> [number |-> 0, time |-> 0]],
   cmdNum |-> 0, ucmdHead |-> 0, ucmdAcknowledged |-> 0, ucmdSent |-> 0, time |-> 1,
   times |-> <<>>, recorder |-> "off", asks |-> FALSE, recorded |-> <<>>,
   taken |-> <<>>, executed |-> <<>>, late |-> FALSE, skips |-> FALSE, net |-> <<>>]

LEMMA NoServerTyped ==
  /\ NoServer \in ServerType(NoServer) /\ RingHolds(NoServer)
<1>1. PICK none \in Int : none = -1
  OBVIOUS
<1>2. PICK entities \in [0..(EntityRing - 1) -> Nat \X Nat] : entities = [i \in 0..(EntityRing - 1) |-> <<0, 0>>]
  OBVIOUS
<1>3. PICK snapShots \in [0..(UpdateBackup - 1) -> [first : Nat, num : Nat]] :
        snapShots = [i \in 0..(UpdateBackup - 1) |-> [first |-> 0, num |-> 0]]
  OBVIOUS
<1>4. PICK ucmds \in CmdRing : ucmds = [i \in 0..(CmdBackup - 1) |-> [number |-> 0, time |-> 0]]
  BY DEF CmdRing, UserCmds
<1>5. PICK s : s = NoServer
  OBVIOUS
<1>6. s = [framenum |-> 0, next |-> 0, entities |-> entities, snapShots |-> snapShots,
           lastframe |-> none, lastSentFrameNum |-> 0, nodelta |-> FALSE, nodelta_frame |-> 0,
           gameCommands |-> <<>>, executed |-> FALSE, ucmds |-> ucmds,
           UcmdReceived |-> 0, UcmdExecuted |-> 0, UcmdTime |-> 0, thoughts |-> <<>>, net |-> <<>>]
  BY <1>1, <1>2, <1>3, <1>4, <1>5, Zenon DEF NoServer
<1>7. s \in ServerType(s)
  BY <1>6 DEF ServerType, CmdRing
<1>8. RingHolds(s)
  <2>1. s.framenum = 0 /\ s.next = 0
    BY <1>6
  <2>2. PICK pos : pos = [f \in 1..(s.framenum + 1) |-> 0]
    OBVIOUS
  <2>3. pos \in [1..(s.framenum + 1) -> Nat] /\ pos[s.framenum + 1] = 0 /\ 1..s.framenum = {}
    BY <2>1, <2>2
  <2>4. 0 % EntityRing = 0
    BY EntitiesHold
  <2>5. Placed(s, pos)
    BY <2>1, <2>3, <2>4, Zenon DEF Placed
  <2> QED
    BY <2>3, <2>5, Zenon DEF RingHolds
<1> QED
  BY <1>5, <1>7, <1>8

LEMMA NoClientTyped == NoClient \in ClientType
<1>1. PICK snapShots \in [0..(UpdateBackup - 1) -> ClientSnap] : snapShots = [i \in 0..(UpdateBackup - 1) |-> NoSnap]
  <2>1. Nothing \in States /\ Nothing \in [Ents -> Int]
    BY EmitTyped DEF States
  <2>2. NoSnap \in ClientSnap
    BY <2>1 DEF NoSnap, ClientSnap
  <2> QED
    BY <2>2
<1>2. PICK cmds \in CmdRing : cmds = [i \in 0..(CmdBackup - 1) |-> [number |-> 0, time |-> 0]]
  BY DEF CmdRing, UserCmds
<1>3. NoClient =
        [snapShots |-> snapShots, receivedSnapNum |-> 0, pendingSnapNum |-> 0, currentSnapNum |-> 0,
         cmds |-> cmds, cmdNum |-> 0, ucmdHead |-> 0, ucmdAcknowledged |-> 0, ucmdSent |-> 0, time |-> 1,
         times |-> <<>>, recorder |-> "off", asks |-> FALSE, recorded |-> <<>>,
         taken |-> <<>>, executed |-> <<>>, late |-> FALSE, skips |-> FALSE, net |-> <<>>]
  BY <1>1, <1>2, Zenon DEF NoClient
<1> QED
  BY <1>3 DEF ClientType, CmdRing

LEMMA InitAgreed == Agreed(NoServer, NoClient, 0, 0)
<1>1. PICK s : s = NoServer
  OBVIOUS
<1>2. PICK c : c = NoClient
  OBVIOUS
<1>3. /\ s.framenum = 0 /\ s.lastframe = -1 /\ ~s.nodelta /\ s.nodelta_frame = 0 /\ ~s.executed
      /\ s.UcmdReceived = 0 /\ s.UcmdExecuted = 0 /\ s.net = <<>>
  BY <1>1 DEF NoServer
<1>4. /\ c.receivedSnapNum = 0 /\ c.pendingSnapNum = 0 /\ c.currentSnapNum = 0 /\ c.cmdNum = 0 /\ c.ucmdHead = 0
      /\ c.recorder = "off" /\ ~c.asks /\ c.recorded = <<>> /\ c.net = <<>>
  BY <1>2 DEF NoClient
<1>5. \A i \in 0..(UpdateBackup - 1) : c.snapShots[i].serverFrame = 0 /\ ~c.snapShots[i].valid
  BY <1>2 DEF NoClient, NoSnap
<1>6. Moves(c, 0) = {} /\ (0 + 1)..Len(s.net) = {} /\ (0 + 1)..Len(c.net) = {} /\ DOMAIN c.recorded = {}
  BY <1>3, <1>4 DEF Moves
<1>7. c.receivedSnapNum <= s.framenum /\ Kept(c, c.receivedSnapNum) /\ Kept(c, s.lastframe)
  BY <1>3, <1>4 DEF Kept
<1>8. SlotsHold(c)
  BY <1>4, <1>5 DEF SlotsHold
<1>9. FiresInOrder(c)
  BY <1>4 DEF FiresInOrder
<1>10. SnapsHold(s, c, 0)
  BY <1>6, Zenon DEF SnapsHold
<1>11. MovesHold(s, c, 0)
  BY <1>3, <1>4, <1>6, <1>7 DEF MovesHold
<1>12. Demo(s, c, 0, 0)
  <2>1. Asked(s, c, 0)
    BY <1>3, <1>4, <1>6 DEF Asked
  <2>2. s.nodelta_frame <= s.framenum /\ \A f : Covered(s, c, f)
    BY <1>3 DEF Covered
  <2> QED
    BY <1>4, <1>6, <2>1, <2>2, Zenon DEF Demo
<1> QED
  BY <1>1, <1>2, <1>7, <1>8, <1>9, <1>10, <1>11, <1>12, Zenon DEF Agreed

LEMMA InitHolds ==
  ASSUME Init
  PROVE  IInv
<1>1. server = NoServer /\ client = NoClient
  BY Zenon DEF Init, NoServer, NoClient, NoSnap
<1>2. server \in ServerType(server) /\ RingHolds(server) /\ client \in ClientType /\ Agreed(server, client, 0, 0)
  BY <1>1, NoServerTyped, NoClientTyped, InitAgreed, Zenon
<1>3. server.framenum = 0
  BY <1>1 DEF NoServer
<1>4. server.framenum + budget.frames <= Len(budget.worlds)
  <2>1. budget.frames \in Nat
    BY InitBudget DEF BudgetType
  <2> QED
    BY <1>3, <2>1, InitBudget
<1> QED
  BY <1>2, <1>4, InitBudget, Zenon DEF IInv, Types

\* The invariant means what is promised.
LEMMA SoundMeans ==
  ASSUME IInv
  PROVE  SnapshotsSound
<1>1. /\ server \in ServerType(server) /\ client \in ClientType /\ SlotsHold(client) /\ FiresInOrder(client)
      /\ MovesHold(server, client, 0) /\ server.nodelta_frame <= server.framenum
      /\ client.receivedSnapNum <= server.framenum
  BY DEF IInv, Types, Agreed, Demo
<1>2. TypeOK
  <2>1. /\ server.framenum \in Nat /\ server.lastframe \in Int /\ server.nodelta_frame \in Nat
        /\ server.UcmdReceived \in Nat /\ client.receivedSnapNum \in Nat
        /\ client.recorder \in {"off", "waiting", "recording"}
    BY <1>1 DEF ServerType, ClientType
  <2>2. server.lastframe \in -1..server.framenum
    BY <1>1, <2>1 DEF MovesHold
  <2>3. server.nodelta_frame \in 0..server.framenum
    BY <1>1, <2>1
  <2> QED
    BY <1>1, <2>1, <2>2, <2>3, Zenon DEF TypeOK, MovesHold, FiresInOrder
<1>3. DOMAIN client.snapShots = 0..(UpdateBackup - 1)
  BY <1>1 DEF ClientType
<1>4. \A i \in DOMAIN client.snapShots : client.snapShots[i].serverFrame \in Nat
  BY <1>1, <1>3 DEF ClientType, ClientSnap
<1>5. FramesUsable
  BY <1>1, <1>3, Zenon DEF SlotsHold, FramesUsable
<1>6. SnapshotsAgree
  <2>1. \A i \in DOMAIN client.snapShots : client.snapShots[i].valid => client.snapShots[i].serverFrame > 0
    BY <1>1, <1>3, <1>4 DEF SlotsHold
  <2> QED
    BY <1>1, <1>3, <2>1, Zenon DEF SlotsHold, SnapshotsAgree
<1> QED
  BY <1>2, <1>5, <1>6 DEF SnapshotsSound

LEMMA DemoMeans ==
  ASSUME IInv
  PROVE  DemoDecodes
  BY Zenon DEF IInv, Agreed, Demo, DemoDecodes

-----------------------------------------------------------------------------
(* Theorems.                                                               *)

\* What the ends keep of the snapshots, and what is on its way between them,
\* agree as the protocol needs it.
THEOREM Invariant == Spec => []IInv
<1>1. Init => IInv
  BY InitHolds
<1>2. IInv /\ [Next]_vars => IInv'
  BY StepKeeps, StepMeans
<1> QED
  BY <1>1, <1>2, PTL DEF Spec

\* SNAP_EmitPacketEntities, SNAP_ParseFrame: a snapshot can always be decoded
\* when it is read, however many have been lost, and the client then sees what
\* the server has put into it.
THEOREM SnapshotsAreSound == Spec => []SnapshotsSound
<1>1. IInv => SnapshotsSound
  BY SoundMeans
<1> QED
  BY <1>1, Invariant, PTL

\* CL_Record_f, HandleClientCommand_NoDelta and SNAP_WriteFrameSnapToClient:
\* from the answer to nodelta on, what a demo has of the snapshots is enough to
\* play it.
THEOREM DemosDecode == Spec => []DemoDecodes
<1>1. IInv => DemoDecodes
  BY DemoMeans
<1> QED
  BY <1>1, Invariant, PTL

===============================================================================
