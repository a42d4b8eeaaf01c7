---------------------------- MODULE Match_proofs ----------------------------
(***************************************************************************)
(* Proofs about Match: what each function of the game module makes of a    *)
(* sound state, and the theorems that follow.                              *)
(***************************************************************************)
EXTENDS MatchInvariant, FiniteSetTheorems, TLAPS

-----------------------------------------------------------------------------
(* Numbers, sequences.                                                     *)

\* Sets of numbers have a least one.
LEMMA LeastNumber ==
  ASSUME NEW S \in SUBSET Nat, S # {}
  PROVE  \E x \in S : \A y \in S : x <= y
<1>1. PICK x \in S : \A y \in S : ~(<<y, x>> \in OpToRel(<, Nat))
  BY NatLessThanWellFounded, WFMin
<1>2. ASSUME NEW y \in S PROVE x <= y
  <2>1. ~(y < x)
    BY <1>1 DEF OpToRel
  <2> QED
    BY <2>1
<1> QED
  BY <1>2

\* The states two handlers can differ in only by what is not about teams.
SameTeams(g, h) ==
  /\ h.conn = g.conn /\ h.fake = g.fake /\ h.team = g.team /\ h.ready = g.ready /\ h.list = g.list
  /\ h.vote = g.vote /\ h.voted = g.voted /\ h.changes = g.changes /\ h.ownVote = g.ownVote

\* Base is about these parts.
LEMMA BaseOfTeams ==
  ASSUME NEW g, NEW h, Base(g), Typed(h), h.conn = g.conn, h.team = g.team, h.list = g.list,
         h.voted = g.voted, h.ownVote = g.ownVote
  PROVE  Base(h)
  BY DEF Base, Listed, Seated, Owned, Begun, IsSpectator, Members, InUse

\* So is readiness.
LEMMA AllReadyOfTeams ==
  ASSUME NEW g, NEW h, h.conn = g.conn, h.team = g.team, h.list = g.list, h.ready = g.ready
  PROVE  AllReady(h) <=> AllReady(g)
<1>1. \A t : Considered(h, t) = Considered(g, t)
  BY DEF Considered, InUse, IsSpectator
<1>2. \A t : TeamIsReady(h, t) <=> TeamIsReady(g, t)
  BY <1>1 DEF TeamIsReady
<1>3. Enough(h) <=> Enough(g)
  BY DEF Enough
<1> QED
  BY <1>2, <1>3 DEF AllReady

\* Nothing is listed anew where the lists are up to date.
LEMMA ListIsKept ==
  ASSUME NEW g, Base(g)
  PROVE  UpdateMembersList(g) = g
<1>1. g \in GameType /\ g.list = [t \in Teams |-> Members(g, t)]
  BY DEF Base, Typed, Listed, GameType
<1>2. [g EXCEPT !.list = g.list] = g
  BY <1>1 DEF GameType
<1> QED
  BY <1>1, <1>2 DEF UpdateMembersList

\* Another queue.
LEMMA QueueTyped ==
  ASSUME NEW g, Typed(g), NEW q \in Seq(Slots), IsInjective(q), NEW r, r = [g EXCEPT !.queue = q]
  PROVE  Typed(r) /\ SameTeams(g, r) /\ r.state = g.state /\ r.forceStart = g.forceStart /\ r.passed = g.passed /\ r.queue = q
<1>1. r \in GameType
  BY DEF Typed, GameType
<1>2. r.queue = q /\ SameTeams(g, r) /\ r.state = g.state /\ r.forceStart = g.forceStart /\ r.passed = g.passed
  BY DEF Typed, GameType, SameTeams
<1> QED
  BY <1>1, <1>2 DEF Typed

\* The parts that a launch writes.
Launched(g, r, state, waiting, passed, forceStart, advance, teamlock, locked, exitNow) ==
  r = [g EXCEPT !.state = state, !.waiting = waiting, !.passed = passed, !.forceStart = forceStart,
                !.advance = advance, !.teamlock = teamlock, !.locked = locked, !.exitNow = exitNow]

\* They keep their types.
LEMMA LaunchedTyped ==
  ASSUME NEW g \in GameType, NEW state \in States, NEW waiting \in Flag, NEW passed \in SUBSET {"limit", "vote", "open"},
         NEW forceStart \in Flag, NEW advance \in Flag, NEW teamlock \in Flag, NEW locked \in Flag, NEW exitNow \in Flag,
         NEW r, Launched(g, r, state, waiting, passed, forceStart, advance, teamlock, locked, exitNow)
  PROVE  /\ r \in GameType /\ SameTeams(g, r) /\ r.state = state /\ r.queue = g.queue
         /\ r.passed = passed /\ r.forceStart = forceStart
<1>1. r \in GameType
  BY DEF GameType, Launched
<1> QED
  BY <1>1 DEF GameType, SameTeams, Launched

\* What a launch writes.
LEMMA LaunchTyped ==
  ASSUME NEW g, Typed(g), NEW state \in States, NEW r, r = Enter(g, state)
  PROVE  /\ Typed(r) /\ SameTeams(g, r) /\ r.state = state /\ r.queue = g.queue
         /\ r.passed = g.passed \ {"limit"}
         /\ r.forceStart = (g.forceStart /\ state \notin {"warmup", "playtime"})
<1>1. g \in GameType
  BY DEF Typed
<1>2. ScriptLocks(g, state) \in Flag
  BY <1>1 DEF ScriptLocks, GameType, Flag
<1>3. (IF state = "warmup" THEN FALSE ELSE g.advance \/ state \in {"countdown", "playtime"}) \in Flag
  BY <1>1 DEF GameType, Flag
<1>4. (g.passed \ {"limit"}) \in SUBSET {"limit", "vote", "open"}
  BY <1>1 DEF GameType
<1>5. /\ FALSE \in Flag /\ (g.forceStart /\ state \notin {"warmup", "playtime"}) \in Flag
      /\ (g.teamlock /\ state # "postmatch") \in Flag /\ (g.exitNow /\ state # "waitexit") \in Flag
  BY <1>1 DEF GameType, Flag
<1>6. PICK w \in Flag, p \in SUBSET {"limit", "vote", "open"}, f \in Flag, a \in Flag, t \in Flag, l \in Flag, e \in Flag :
        /\ w = FALSE /\ p = (g.passed \ {"limit"}) /\ f = (g.forceStart /\ state \notin {"warmup", "playtime"})
        /\ a = (IF state = "warmup" THEN FALSE ELSE g.advance \/ state \in {"countdown", "playtime"})
        /\ t = (g.teamlock /\ state # "postmatch") /\ l = ScriptLocks(g, state)
        /\ e = (g.exitNow /\ state # "waitexit")
  BY <1>2, <1>3, <1>4, <1>5, Zenon
<1>7. Launched(g, r, state, w, p, f, a, t, l, e)
  BY <1>6, Zenon DEF Launched, Enter
<1>8. /\ w \in Flag /\ p \in SUBSET {"limit", "vote", "open"} /\ f \in Flag
      /\ a \in Flag /\ t \in Flag /\ l \in Flag /\ e \in Flag
  BY <1>6
<1>9. /\ r \in GameType /\ SameTeams(g, r) /\ r.state = state /\ r.queue = g.queue
      /\ r.passed = p /\ r.forceStart = f
  BY <1>1, <1>7, <1>8, LaunchedTyped
<1> QED
  BY <1>1, <1>6, <1>9, Zenon DEF Typed

-----------------------------------------------------------------------------
(* Recursion along numbers.                                                *)

\* What holds at first and is kept by every step holds to the end.
LEMMA UpTo ==
  ASSUME NEW n \in Nat, NEW good, 0 \in good, \A i \in 1..n : i - 1 \in good => i \in good
  PROVE  \A i \in 0..n : i \in good
<1> DEFINE bad == {i \in 0..n : i \notin good}
<1>1. SUFFICES ASSUME bad # {} PROVE FALSE
  OBVIOUS
<1>2. PICK b \in bad : \A i \in bad : b <= i
  <2>1. bad \in SUBSET Nat
    OBVIOUS
  <2> QED
    BY <1>1, <2>1, LeastNumber
<1>3. b \in 1..n /\ b - 1 \in 0..n /\ b - 1 \notin bad
  BY <1>2
<1> QED
  BY <1>2, <1>3

\* Steps that stay in a set, and a run of them.
Steps(f, n, S) == n \in Nat /\ f \in [1..n -> [S -> S]]
RunOf(h, f, n, S, s0) == h \in [0..n -> S] /\ h[0] = s0 /\ \A i \in 1..n : h[i] = f[i][h[i - 1]]

\* Such steps can be taken one after another.
LEMMA Iteration ==
  ASSUME NEW n, NEW S, NEW f, Steps(f, n, S), NEW s0 \in S
  PROVE  \E h : RunOf(h, f, n, S, s0)
<1> USE DEF Steps
<1> DEFINE good == {m \in 0..n : \E h \in [0..m -> S] : h[0] = s0 /\ \A i \in 1..m : h[i] = f[i][h[i - 1]]}
<1>1. 0 \in good
  <2> DEFINE h == [i \in 0..0 |-> s0]
  <2>1. h \in [0..0 -> S] /\ h[0] = s0 /\ 0 \in 0..n /\ \A i \in 1..0 : FALSE
    OBVIOUS
  <2> HIDE DEF h
  <2> QED
    BY <2>1
<1>2. ASSUME NEW m \in 1..n, m - 1 \in good PROVE m \in good
  <2>1. PICK h \in [0..m - 1 -> S] : h[0] = s0 /\ \A i \in 1..m - 1 : h[i] = f[i][h[i - 1]]
    BY <1>2
  <2>2. m - 1 \in 0..m - 1 /\ f[m][h[m - 1]] \in S
    BY <2>1
  <2> DEFINE k == [i \in 0..m |-> IF i = m THEN f[m][h[m - 1]] ELSE h[i]]
  <2>3. k \in [0..m -> S]
    BY <2>1, <2>2
  <2>4. k[0] = s0
    BY <2>1
  <2>5. ASSUME NEW i \in 1..m PROVE k[i] = f[i][k[i - 1]]
    BY <2>1, <2>5
  <2> HIDE DEF k
  <2>6. m \in 0..n
    OBVIOUS
  <2> QED
    BY <2>3, <2>4, <2>5, <2>6
<1> HIDE DEF good
<1>3. \A i \in 0..n : i \in good
  BY <1>1, <1>2, UpTo, Zenon
<1>4. n \in good
  BY <1>3
<1> QED
  BY <1>4 DEF good, RunOf

\* Keep keeps types, order and difference.
LEMMA Kept ==
  ASSUME NEW s \in Seq(Slots), NEW S
  PROVE  /\ Keep(s, S) \in Seq(Slots)
         /\ \A i \in DOMAIN Keep(s, S) : Keep(s, S)[i] \in S
         /\ IsInjective(s) => IsInjective(Keep(s, S))
<1> DEFINE kept[i \in 0..Len(s)] ==
        IF i = 0 THEN <<>> ELSE IF s[i] \in S THEN Append(kept[i - 1], s[i]) ELSE kept[i - 1]
<1>1. Keep(s, S) = kept[Len(s)]
  BY DEF Keep
<1>2. \E k : k = [i \in 0..Len(s) |-> IF i = 0 THEN <<>> ELSE IF s[i] \in S THEN Append(k[i - 1], s[i]) ELSE k[i - 1]]
  <2> DEFINE f == [i \in 1..Len(s) |-> [q \in Seq(Slots) |-> IF s[i] \in S THEN Append(q, s[i]) ELSE q]]
  <2>1. f \in [1..Len(s) -> [Seq(Slots) -> Seq(Slots)]]
    <3>1. \A i \in 1..Len(s) : s[i] \in Slots
      OBVIOUS
    <3>2. \A q \in Seq(Slots), c \in Slots : Append(q, c) \in Seq(Slots)
      OBVIOUS
    <3> QED
      BY <3>1, <3>2
  <2>2. PICK h : RunOf(h, f, Len(s), Seq(Slots), <<>>)
    <3>1. Len(s) \in Nat /\ <<>> \in Seq(Slots)
      OBVIOUS
    <3> HIDE DEF f
    <3>2. Steps(f, Len(s), Seq(Slots))
      BY <2>1, <3>1 DEF Steps
    <3> QED
      BY <3>1, <3>2, Iteration
  <2>3. h = [i \in 0..Len(s) |-> IF i = 0 THEN <<>> ELSE IF s[i] \in S THEN Append(h[i - 1], s[i]) ELSE h[i - 1]]
    <3>1. \A i \in 1..Len(s) : i - 1 \in 0..Len(s) /\ i \in DOMAIN f
      OBVIOUS
    <3>2. \A i \in 1..Len(s) : h[i] = IF s[i] \in S THEN Append(h[i - 1], s[i]) ELSE h[i - 1]
      BY <2>2, <3>1 DEF RunOf
    <3>3. h = [i \in 0..Len(s) |-> h[i]]
      BY <2>2 DEF RunOf
    <3>4. ASSUME NEW i \in 0..Len(s)
          PROVE  h[i] = IF i = 0 THEN <<>> ELSE IF s[i] \in S THEN Append(h[i - 1], s[i]) ELSE h[i - 1]
      <4>1. i = 0 \/ i \in 1..Len(s)
        OBVIOUS
      <4> QED
        BY <2>2, <3>2, <4>1 DEF RunOf
    <3> QED
      BY <3>3, <3>4, Zenon
  <2> QED
    BY <2>3
<1>3. kept = [i \in 0..Len(s) |-> IF i = 0 THEN <<>> ELSE IF s[i] \in S THEN Append(kept[i - 1], s[i]) ELSE kept[i - 1]]
  BY <1>2, Zenon DEF kept
<1> HIDE DEF kept
<1> DEFINE Good(q, i) == /\ q \in Seq(Slots) /\ \A j \in 1..Len(q) : q[j] \in S
                         /\ \A j \in 1..Len(q) : \E k \in 1..i : q[j] = s[k]
                         /\ IsInjective(s) => IsInjective(q)
           good == {i \in 0..Len(s) : Good(kept[i], i)}
<1>4. 0 \in good
  BY <1>3 DEF IsInjective
<1>5. ASSUME NEW i \in 1..Len(s), i - 1 \in good PROVE i \in good
  <2>1. /\ kept[i] = IF s[i] \in S THEN Append(kept[i - 1], s[i]) ELSE kept[i - 1]
        /\ Good(kept[i - 1], i - 1) /\ s[i] \in Slots
    <3>1. i \in 0..Len(s) /\ i # 0 /\ s[i] \in Slots
      OBVIOUS
    <3>2. kept[i] = IF i = 0 THEN <<>> ELSE IF s[i] \in S THEN Append(kept[i - 1], s[i]) ELSE kept[i - 1]
      BY <1>3, <3>1
    <3> QED
      BY <1>5, <3>1, <3>2
  <2>2. CASE s[i] \notin S
    <3>1. kept[i] = kept[i - 1] /\ i \in 0..Len(s)
      BY <2>1, <2>2
    <3>2. \A k \in 1..i - 1 : k \in 1..i
      OBVIOUS
    <3>3. Good(kept[i - 1], i)
      BY <2>1, <3>2
    <3> HIDE DEF Good
    <3> QED
      BY <3>1, <3>3
  <2>3. CASE s[i] \in S
    <3> DEFINE q == kept[i - 1]
               r == kept[i]
    <3>1. r = Append(q, s[i]) /\ q \in Seq(Slots) /\ r \in Seq(Slots) /\ Len(r) = Len(q) + 1
      BY <2>1, <2>3
    <3>2. \A j \in 1..Len(r) : r[j] = IF j = Len(r) THEN s[i] ELSE q[j]
      BY <3>1
    <3>3. \A j \in 1..Len(r) : r[j] \in S /\ \E k \in 1..i : r[j] = s[k]
      BY <2>1, <2>3, <3>1, <3>2
    <3>4. ASSUME IsInjective(s), NEW a \in 1..Len(r), NEW b \in 1..Len(r), r[a] = r[b] PROVE a = b
      <4>1. ASSUME NEW j \in 1..Len(q) PROVE q[j] # s[i]
        <5>1. PICK k \in 1..i - 1 : q[j] = s[k]
          BY <2>1, <4>1
        <5>2. k # i /\ k \in DOMAIN s /\ i \in DOMAIN s
          OBVIOUS
        <5>3. s[k] # s[i]
          <6> HIDE DEF kept
          <6> QED
            BY <3>4, <5>2 DEF IsInjective
        <5> QED
          BY <5>1, <5>3
      <4>2. /\ Len(q) \in Nat /\ DOMAIN q = 1..Len(q) /\ IsInjective(q)
            /\ \A j \in 1..Len(r) : j # Len(r) => j \in 1..Len(q) /\ r[j] = q[j]
            /\ r[Len(r)] = s[i]
        BY <2>1, <3>1, <3>2, <3>4
      <4> HIDE DEF q, r
      <4>3. CASE a = Len(r) \/ b = Len(r)
        BY <3>4, <4>1, <4>2, <4>3
      <4>4. CASE a # Len(r) /\ b # Len(r)
        BY <3>4, <4>2, <4>4 DEF IsInjective
      <4> QED
        BY <4>3, <4>4
    <3>5. IsInjective(s) => IsInjective(r)
      BY <3>1, <3>4 DEF IsInjective
    <3>6. Good(r, i)
      BY <3>1, <3>3, <3>5
    <3>7. i \in 0..Len(s)
      OBVIOUS
    <3> HIDE DEF Good
    <3> QED
      BY <3>6, <3>7
  <2> QED
    BY <2>2, <2>3
<1>6. Len(s) \in good
  <2>1. Len(s) \in Nat
    OBVIOUS
  <2> HIDE DEF good
  <2>2. \A i \in 0..Len(s) : i \in good
    BY <1>4, <1>5, <2>1, UpTo, Zenon
  <2> QED
    BY <2>1, <2>2
<1> QED
  BY <1>1, <1>6

-----------------------------------------------------------------------------
(* Match states.                                                           *)

\* A ranking names nobody twice.
Ranking(s) == s \in Seq(Slots) /\ IsInjective(s)

\* One sequence after another that names others.
LEMMA Concatenated ==
  ASSUME NEW p, Ranking(p), NEW q, Ranking(q), \A i \in DOMAIN p, j \in DOMAIN q : p[i] # q[j]
  PROVE  Ranking(p \o q)
<1> DEFINE r == p \o q
           m == Len(p)
           n == Len(q)
<1>1. p \in Seq(Slots) /\ q \in Seq(Slots) /\ m \in Nat /\ n \in Nat /\ DOMAIN p = 1..m /\ DOMAIN q = 1..n
  BY DEF Ranking
<1>2. r \in Seq(Slots) /\ DOMAIN r = 1..m + n
  BY <1>1
<1>3. \A i \in 1..m : r[i] = p[i]
  BY <1>1
<1>4. \A i \in m + 1..m + n : i - m \in 1..n /\ r[i] = q[i - m]
  BY <1>1
<1> HIDE DEF r, m, n
<1>5. ASSUME NEW i \in 1..m + n, NEW j \in 1..m + n, r[i] = r[j] PROVE i = j
  <2>0. i \in Int /\ j \in Int
    BY <1>1
  <2>1. CASE i \in 1..m /\ j \in 1..m
    BY <1>1, <1>3, <1>5, <2>1 DEF Ranking, IsInjective
  <2>2. CASE i \in m + 1..m + n /\ j \in m + 1..m + n
    <3>1. i - m \in DOMAIN q /\ j - m \in DOMAIN q /\ q[i - m] = q[j - m]
      BY <1>1, <1>4, <1>5, <2>2
    <3>2. i - m = j - m
      BY <3>1 DEF Ranking, IsInjective
    <3> QED
      BY <1>1, <2>0, <3>2
  <2>3. CASE i \in 1..m /\ j \in m + 1..m + n
    BY <1>1, <1>3, <1>4, <1>5, <2>3
  <2>4. CASE i \in m + 1..m + n /\ j \in 1..m
    BY <1>1, <1>3, <1>4, <1>5, <2>4
  <2> QED
    BY <1>1, <2>1, <2>2, <2>3, <2>4
<1>6. Ranking(r)
  BY <1>2, <1>5 DEF Ranking, IsInjective
<1> QED
  BY <1>6 DEF r

\* The winners before those who wait: nobody is in the queue twice.
LEMMA AdvancedQueue ==
  ASSUME NEW p, Ranking(p), NEW w \in 0..Len(p), NEW q, Ranking(q)
  PROVE  Ranking(Reverse(SubSeq(p, 1, w)) \o Keep(q, Slots \ Range(p)))
<1> DEFINE front == Reverse(SubSeq(p, 1, w))
           rest  == Keep(q, Slots \ Range(p))
<1>1. front \in Seq(Slots) /\ Len(front) = w /\ \A i \in 1..w : front[i] = p[w - i + 1]
  BY DEF Reverse, Ranking
<1>2. ASSUME NEW i \in 1..w PROVE w - i + 1 \in DOMAIN p /\ front[i] = p[w - i + 1]
  BY <1>1 DEF Ranking
<1>3. ASSUME NEW i \in 1..w, NEW j \in 1..w, front[i] = front[j] PROVE i = j
  <2>1. w - i + 1 = w - j + 1
    BY <1>2, <1>3 DEF Ranking, IsInjective
  <2> QED
    BY <2>1
<1>4. Ranking(front)
  BY <1>1, <1>3 DEF Ranking, IsInjective
<1>5. Ranking(rest) /\ \A i \in DOMAIN rest : rest[i] \notin Range(p)
  BY Kept DEF Ranking
<1>6. \A i \in DOMAIN front : front[i] \in Range(p)
  BY <1>1, <1>2 DEF Range
<1> HIDE DEF front, rest
<1>7. Ranking(front \o rest)
  BY <1>4, <1>5, <1>6, Concatenated
<1> QED
  BY <1>7 DEF front, rest

\* The challengers' queue after a match.
LEMMA Advanced ==
  ASSUME NEW g, Typed(g), NEW ranking, Ranking(ranking), NEW r, r = AdvanceChallengersQueue(g, ranking)
  PROVE  Typed(r) /\ SameTeams(g, r) /\ r.state = g.state /\ r.forceStart = g.forceStart /\ r.passed = g.passed
<1> DEFINE players == Keep(ranking, {c \in Slots : InUse(g, c) /\ ~IsSpectator(g, c)})
           winners == Len(players) - Len(players) \div 2
           queue   == Reverse(SubSeq(players, 1, winners)) \o Keep(g.queue, Slots \ Range(players))
<1>1. Ranking(players)
  BY Kept DEF Ranking
<1>2. winners \in 0..Len(players)
  <2>1. Len(players) \in Nat
    BY <1>1 DEF Ranking
  <2> QED
    BY <2>1
<1>3. Ranking(g.queue)
  BY DEF Typed, GameType, Ranking
<1>4. Ranking(queue)
  <2> HIDE DEF players, winners
  <2> QED
    BY <1>1, <1>2, <1>3, AdvancedQueue
<1>5. r = g \/ r = [g EXCEPT !.queue = queue]
  BY DEF AdvanceChallengersQueue
<1> HIDE DEF queue
<1>6. CASE r = g
  BY <1>6 DEF SameTeams
<1>7. CASE r = [g EXCEPT !.queue = queue]
  BY <1>4, <1>7, QueueTyped DEF Ranking
<1> QED
  BY <1>5, <1>6, <1>7

\* A launch of any state.
LEMMA LaunchStateBase ==
  ASSUME NEW g, Base(g), NEW state \in States, NEW ranking, Ranking(ranking), NEW r, r = LaunchState(g, state, ranking)
  PROVE  /\ Base(r) /\ SameTeams(g, r) /\ r.state = state
         /\ r.forceStart = (g.forceStart /\ state \notin {"warmup", "playtime"})
         /\ AllReady(r) <=> AllReady(g)
<1>1. PICK h : /\ Typed(h) /\ SameTeams(g, h) /\ h.state = g.state /\ h.forceStart = g.forceStart
               /\ r = Enter(h, state)
  <2>1. CASE state = "waitexit" /\ g.advance
    BY <2>1, Advanced DEF LaunchState, Base
  <2>2. CASE ~(state = "waitexit" /\ g.advance)
    <3>1. r = Enter(g, state)
      BY <2>2 DEF LaunchState
    <3>2. Typed(g) /\ SameTeams(g, g)
      BY DEF Base, SameTeams
    <3> QED
      BY <3>1, <3>2
  <2> QED
    BY <2>1, <2>2
<1>2. /\ Typed(r) /\ SameTeams(h, r) /\ r.state = state
      /\ r.forceStart = (h.forceStart /\ state \notin {"warmup", "playtime"})
  BY <1>1, LaunchTyped
<1>3. SameTeams(g, r)
  BY <1>1, <1>2 DEF SameTeams
<1>4. r.forceStart = (g.forceStart /\ state \notin {"warmup", "playtime"})
  BY <1>1, <1>2, Zenon
<1>5. Base(r)
  BY <1>2, <1>3, BaseOfTeams DEF SameTeams
<1>6. AllReady(r) <=> AllReady(g)
  BY <1>3, AllReadyOfTeams DEF SameTeams
<1> QED
  BY <1>2, <1>3, <1>4, <1>5, <1>6

\* A launch in which the challengers do not matter.
LEMMA LaunchBase ==
  ASSUME NEW g, Base(g), NEW state \in States, NEW r, r = Launch(g, state)
  PROVE  /\ Base(r) /\ SameTeams(g, r) /\ r.state = state
         /\ r.forceStart = (g.forceStart /\ state \notin {"warmup", "playtime"})
         /\ AllReady(r) <=> AllReady(g)
<1>1. Ranking(<<>>)
  BY DEF Ranking, IsInjective
<1> QED
  BY <1>1, LaunchStateBase DEF Launch

\* A handler does not begin the match.
NoMatch(g, r) == r.state = "playtime" => g.state = "playtime"

\* After G_Match_CheckReadys it has nothing more to do.
LEMMA CheckReadysSound ==
  ASSUME NEW g, Base(g), NEW r, r = CheckReadys(g)
  PROVE  Sound(r) /\ SameTeams(g, r) /\ NoMatch(g, r)
<1>0. "warmup" \in States /\ "countdown" \in States
  BY DEF States
<1>1. CASE g.state = "warmup" /\ AllReady(g)
  <2>1. r = Launch(g, "countdown")
    BY <1>1 DEF CheckReadys
  <2>2. Base(r) /\ SameTeams(g, r) /\ r.state = "countdown" /\ AllReady(r)
    BY <1>0, <1>1, <2>1, LaunchBase
  <2> QED
    BY <2>2 DEF Sound, Counted, Started, NoMatch
<1>2. CASE g.state = "countdown" /\ ~g.forceStart /\ ~AllReady(g)
  <2>1. r = Launch(g, "warmup")
    BY <1>2 DEF CheckReadys
  <2>2. Base(r) /\ SameTeams(g, r) /\ r.state = "warmup" /\ ~AllReady(r)
    BY <1>0, <1>2, <2>1, LaunchBase
  <2> QED
    BY <2>2 DEF Sound, Counted, Started, NoMatch
<1>3. CASE ~(g.state = "warmup" /\ AllReady(g)) /\ ~(g.state = "countdown" /\ ~g.forceStart /\ ~AllReady(g))
  <2>1. r = g
    BY <1>3 DEF CheckReadys
  <2> QED
    BY <1>3, <2>1 DEF Sound, Counted, Started, NoMatch, SameTeams
<1> QED
  BY <1>1, <1>2, <1>3

-----------------------------------------------------------------------------
(* Teams.                                                                  *)

\* There is a place in the team, or the client has it.
HasRoom(g, c, t) == t \in Teams => IsSpawned(g, c) /\ (g.team[c] = t \/ ~IsFull(g, t))

\* Of the parts of the state, another team changes these two.
LEMMA MovedTyped ==
  ASSUME NEW g, Typed(g), NEW c \in Slots, NEW t \in Teams \union {"spectators"}, NEW m, m = [g EXCEPT !.team[c] = t]
  PROVE  /\ Typed(m) /\ m.team = [g.team EXCEPT ![c] = t] /\ m.conn = g.conn /\ m.fake = g.fake /\ m.ready = g.ready
         /\ m.list = g.list /\ m.voted = g.voted /\ m.ownVote = g.ownVote
         /\ m.state = g.state /\ m.forceStart = g.forceStart /\ m.queue = g.queue
<1>1. g \in GameType /\ g.team \in [Slots -> Teams \union {"spectators"}]
  BY DEF Typed, GameType
<1>2. [g.team EXCEPT ![c] = t] \in [Slots -> Teams \union {"spectators"}]
  BY <1>1
<1>3. m = [g EXCEPT !.team = [g.team EXCEPT ![c] = t]]
  OBVIOUS
<1>4. m \in GameType
  <2>1. \A team \in [Slots -> Teams \union {"spectators"}] : [g EXCEPT !.team = team] \in GameType
    BY <1>1 DEF GameType
  <2> QED
    BY <1>2, <1>3, <2>1
<1>5. /\ m.team = [g.team EXCEPT ![c] = t] /\ m.conn = g.conn /\ m.fake = g.fake /\ m.ready = g.ready
      /\ m.list = g.list /\ m.voted = g.voted /\ m.ownVote = g.ownVote
      /\ m.state = g.state /\ m.forceStart = g.forceStart /\ m.queue = g.queue
  BY <1>1, <1>3 DEF GameType
<1> QED
  BY <1>4, <1>5 DEF Typed

\* New lists are of the members.
LEMMA ListedAnew ==
  ASSUME NEW g, Typed(g), NEW r, r = UpdateMembersList(g)
  PROVE  /\ Typed(r) /\ Listed(r) /\ r.team = g.team /\ r.conn = g.conn /\ r.fake = g.fake /\ r.ready = g.ready
         /\ r.voted = g.voted /\ r.ownVote = g.ownVote
         /\ r.state = g.state /\ r.forceStart = g.forceStart /\ r.queue = g.queue
<1> DEFINE list == [t \in Teams |-> Members(g, t)]
<1>1. g \in GameType
  BY DEF Typed
<1>2. list \in [Teams -> SUBSET Slots]
  BY DEF Members
<1>3. r = [g EXCEPT !.list = list]
  BY DEF UpdateMembersList
<1>4. \A t \in Teams : list[t] = Members(g, t)
  OBVIOUS
<1> HIDE DEF list
<1>5. r \in GameType
  BY <1>1, <1>2, <1>3, ZenonT(40) DEF GameType
<1>6. /\ r.team = g.team /\ r.conn = g.conn /\ r.fake = g.fake /\ r.ready = g.ready
      /\ r.voted = g.voted /\ r.ownVote = g.ownVote /\ r.list = list
      /\ r.state = g.state /\ r.forceStart = g.forceStart /\ r.queue = g.queue
  BY <1>1, <1>3 DEF GameType
<1>7. \A t : Members(r, t) = Members(g, t)
  BY <1>6 DEF Members, InUse
<1> QED
  BY <1>4, <1>5, <1>6, <1>7 DEF Typed, Listed

\* What is left of readiness.
SameButTeam(g, r) ==
  /\ r.conn = g.conn /\ r.fake = g.fake /\ r.ready = g.ready /\ r.voted = g.voted /\ r.ownVote = g.ownVote
  /\ r.state = g.state /\ r.forceStart = g.forceStart /\ r.queue = g.queue

\* A client that respawns in a team with a place for it.
LEMMA Respawned ==
  ASSUME NEW g, Base(g), NEW c \in Slots, NEW t \in Teams \union {"spectators"}, HasRoom(g, c, t),
         NEW r, r = Respawn(g, c, t)
  PROVE  Base(r) /\ SameButTeam(g, r) /\ r.team = [g.team EXCEPT ![c] = t]
<1> DEFINE m == [g EXCEPT !.team[c] = t]
<1>0. Typed(g) /\ g.team \in [Slots -> Teams \union {"spectators"}]
  BY DEF Base, Typed, GameType
<1>1. Typed(m) /\ SameButTeam(g, m) /\ m.team = [g.team EXCEPT ![c] = t] /\ m.list = g.list
  BY <1>0, MovedTyped DEF SameButTeam
<1>2. r = IF g.team[c] # t THEN UpdateMembersList(m) ELSE m
  BY DEF Respawn
<1> HIDE DEF m
<1>3. CASE g.team[c] = t
  <2>1. r = m /\ m.team = g.team
    BY <1>0, <1>1, <1>2, <1>3
  <2>2. Base(m)
    BY <1>1, <2>1, BaseOfTeams DEF SameButTeam
  <2> QED
    BY <1>1, <2>1, <2>2
<1>4. CASE g.team[c] # t
  <2>1. /\ Typed(r) /\ Listed(r) /\ SameButTeam(m, r) /\ r.team = m.team
    BY <1>1, <1>2, <1>4, ListedAnew DEF SameButTeam
  <2>2. SameButTeam(g, r) /\ r.team = [g.team EXCEPT ![c] = t]
    BY <1>1, <2>1 DEF SameButTeam
  <2>3. Owned(r)
    BY <2>2 DEF Base, Owned, SameButTeam, InUse
  <2>4. ASSUME NEW u \in Teams, rules.teamBased, rules.maxPerTeam > 0
        PROVE  Count(Members(r, u)) <= rules.maxPerTeam
    <3>1. Members(r, u) \subseteq Members(g, u) \union (IF u = t THEN {c} ELSE {})
      BY <1>0, <2>2 DEF Members, InUse, SameButTeam
    <3>2. Members(g, u) \subseteq Slots /\ IsFiniteSet(Members(g, u))
      <4>1. IsFiniteSet(Slots)
        BY CountsAssumption, FS_Interval DEF Slots
      <4> QED
        BY <4>1, FS_Subset DEF Members
    <3>3. Count(Members(g, u)) <= rules.maxPerTeam /\ Count(Members(g, u)) \in Nat
      BY <2>4, <3>2, FS_CardinalityType DEF Base, Seated, Count
    <3>6. rules.maxPerTeam \in Nat
      BY ScenariosAssumption DEF Base
    <3>4. CASE u # t
      <4>1. Members(r, u) \subseteq Members(g, u)
        BY <3>1, <3>4
      <4>2. Cardinality(Members(r, u)) <= Cardinality(Members(g, u)) /\ Cardinality(Members(r, u)) \in Nat
        BY <3>2, <4>1, FS_Subset, FS_CardinalityType
      <4> QED
        BY <3>3, <3>6, <4>2 DEF Count
    <3>5. CASE u = t
      <4>2. g.list[u] = Members(g, u)
        BY DEF Base, Listed
      <4>1. Count(g.list[u]) + 1 <= rules.maxPerTeam
        BY <1>4, <2>4, <3>3, <3>5, <3>6, <4>2 DEF HasRoom, IsFull
      <4>3. IsFiniteSet(Members(g, u) \union {c}) /\ Cardinality(Members(g, u) \union {c}) <= Cardinality(Members(g, u)) + 1
        BY <3>2, <3>3, FS_AddElement DEF Count
      <4>4. Cardinality(Members(r, u)) <= Cardinality(Members(g, u) \union {c})
        BY <3>1, <3>5, <4>3, FS_Subset
      <4>5. Cardinality(Members(r, u)) \in Nat /\ Cardinality(Members(g, u) \union {c}) \in Nat
        <5>1. IsFiniteSet(Members(r, u))
          BY <3>1, <3>5, <4>3, FS_Subset
        <5> QED
          BY <4>3, <5>1, FS_CardinalityType
      <4> QED
        BY <3>3, <3>6, <4>1, <4>2, <4>3, <4>4, <4>5 DEF Count
    <3> QED
      BY <3>4, <3>5
  <2>6. Begun(r)
    BY <1>0, <2>2 DEF Base, Begun, IsSpectator, SameButTeam, HasRoom, IsSpawned
  <2>5. Base(r)
    BY <2>1, <2>3, <2>4, <2>6 DEF Base, Seated
  <2> QED
    BY <2>2, <2>5
<1> QED
  BY <1>3, <1>4

\* Another readiness.
PutReady(g, c, x) == [g EXCEPT !.ready[c] = x]

\* It is no concern of the teams.
LEMMA ReadyTyped ==
  ASSUME NEW g, Base(g), NEW c \in Slots, NEW x \in Flag, NEW r, r = PutReady(g, c, x)
  PROVE  /\ Base(r) /\ r.ready = [g.ready EXCEPT ![c] = x] /\ r.team = g.team /\ r.conn = g.conn /\ r.fake = g.fake
         /\ r.list = g.list /\ r.state = g.state /\ r.forceStart = g.forceStart /\ r.queue = g.queue
<1>1. g \in GameType /\ g.ready \in [Slots -> Flag]
  BY DEF Base, Typed, GameType
<1>2. [g.ready EXCEPT ![c] = x] \in [Slots -> Flag]
  BY <1>1
<1>3. r = [g EXCEPT !.ready = [g.ready EXCEPT ![c] = x]]
  BY DEF PutReady
<1>4. r \in GameType
  <2>1. \A ready \in [Slots -> Flag] : [g EXCEPT !.ready = ready] \in GameType
    BY <1>1 DEF GameType
  <2> QED
    BY <1>2, <1>3, <2>1
<1>5. /\ r.ready = [g.ready EXCEPT ![c] = x] /\ r.team = g.team /\ r.conn = g.conn /\ r.fake = g.fake
      /\ r.voted = g.voted /\ r.ownVote = g.ownVote
      /\ r.list = g.list /\ r.state = g.state /\ r.forceStart = g.forceStart /\ r.queue = g.queue
  BY <1>1, <1>3 DEF GameType
<1>6. Typed(r)
  BY <1>4, <1>5 DEF Base, Typed
<1>7. Base(r)
  BY <1>5, <1>6, BaseOfTeams
<1> QED
  BY <1>5, <1>7

\* A client or bot stays what it is.
SameClients(g, r) == r.conn = g.conn /\ r.fake = g.fake

\* Who changes teams is not ready there.
LEMMA SetTeamSound ==
  ASSUME NEW g, Base(g), NEW c \in Slots, NEW t \in Teams \union {"spectators"}, HasRoom(g, c, t),
         NEW r, r = SetTeam(g, c, t)
  PROVE  /\ Sound(r) /\ NoMatch(g, r) /\ SameClients(g, r) /\ r.team = [g.team EXCEPT ![c] = t]
         /\ t \in Teams /\ InUse(g, c) => ~AllReady(r)
<1> DEFINE s == Respawn(g, c, t)
           u == PutReady(s, c, FALSE)
<1>1. Base(s) /\ SameButTeam(g, s) /\ s.team = [g.team EXCEPT ![c] = t]
  BY Respawned
<1>2. r = CheckReadys(u)
  BY Zenon DEF SetTeam, PutReady
<1> HIDE DEF s
<1>3. /\ Base(u) /\ u.ready = [s.ready EXCEPT ![c] = FALSE] /\ u.team = s.team /\ u.conn = s.conn /\ u.fake = s.fake
      /\ u.state = s.state
  <2>1. PICK x \in Flag : x = FALSE
    BY Zenon DEF Flag
  <2>2. u = PutReady(s, c, x)
    BY <2>1, Zenon
  <2> HIDE DEF u
  <2>3. x \in Flag /\ Base(s) /\ c \in Slots
    BY <1>1, <2>1
  <2>4. /\ Base(u) /\ u.ready = [s.ready EXCEPT ![c] = x] /\ u.team = s.team /\ u.conn = s.conn /\ u.fake = s.fake
        /\ u.state = s.state
    BY <2>2, <2>3, ReadyTyped
  <2> QED
    BY <2>1, <2>4, Zenon
<1> HIDE DEF u
<1>4. Sound(r) /\ SameTeams(u, r) /\ NoMatch(u, r)
  BY <1>2, <1>3, CheckReadysSound
<1>5. /\ r.conn = g.conn /\ r.fake = g.fake /\ r.team = [g.team EXCEPT ![c] = t] /\ NoMatch(g, r)
      /\ r.ready = [s.ready EXCEPT ![c] = FALSE]
  BY <1>1, <1>3, <1>4 DEF SameTeams, SameButTeam, NoMatch
<1>6. ASSUME t \in Teams, InUse(g, c) PROVE ~AllReady(r)
  <2>1. g.team \in [Slots -> Teams \union {"spectators"}] /\ s.ready \in [Slots -> Flag]
    BY <1>1 DEF Base, Typed, GameType
  <2>2. c \in r.list[t]
    BY <1>4, <1>5, <1>6, <2>1 DEF Sound, Base, Listed, Members, InUse
  <2>3. ~IsSpectator(r, c) /\ InUse(r, c) /\ ~r.ready[c]
    BY <1>5, <1>6, <2>1 DEF IsSpectator, InUse, Teams
  <2>4. c \in Considered(r, t)
    BY <2>2, <2>3 DEF Considered
  <2> QED
    BY <1>6, <2>3, <2>4 DEF AllReady, TeamIsReady
<1> QED
  BY <1>4, <1>5, <1>6 DEF SameClients

\* Who is not in the queue can wait at its end.
LEMMA AppendedRanking ==
  ASSUME NEW q, Ranking(q), NEW c \in Slots, \A i \in 1..Len(q) : q[i] # c
  PROVE  Ranking(Append(q, c))
  BY DEF Ranking, IsInjective

\* A queue without somebody.
LEMMA WithoutRanking ==
  ASSUME NEW q, Ranking(q), NEW c
  PROVE  Ranking(Without(q, c))
  BY Kept DEF Ranking, Without

\* Another queue.
PutQueue(g, q) == [g EXCEPT !.queue = q]

\* It is no concern of readiness.
LEMMA QueueSound ==
  ASSUME NEW g, Base(g), NEW q, Ranking(q), NEW r, r = PutQueue(g, q)
  PROVE  /\ Base(r) /\ SameTeams(g, r) /\ NoMatch(g, r) /\ r.state = g.state
         /\ Sound(g) => Sound(r)
         /\ AllReady(r) <=> AllReady(g)
<1>1. Typed(r) /\ SameTeams(g, r) /\ r.state = g.state /\ r.forceStart = g.forceStart
  BY QueueTyped DEF Base, Ranking, PutQueue
<1>2. Base(r)
  BY <1>1, BaseOfTeams DEF SameTeams
<1>3. AllReady(r) <=> AllReady(g)
  BY <1>1, AllReadyOfTeams DEF SameTeams
<1> QED
  BY <1>1, <1>2, <1>3 DEF Sound, Counted, Started, NoMatch

\* The queue of a state.
LEMMA QueueOf ==
  ASSUME NEW g, Base(g)
  PROVE  Ranking(g.queue)
  BY DEF Base, Typed, GameType, Ranking

\* What is the same is sound.
LEMMA Unchanged ==
  ASSUME NEW g
  PROVE  SameTeams(g, g) /\ NoMatch(g, g)
  BY DEF SameTeams, NoMatch

\* A client gets into the queue.
LEMMA JoinQueueSound ==
  ASSUME NEW g, Sound(g), NEW c \in Slots, NEW r, r = JoinQueue(g, c)
  PROVE  Sound(r) /\ SameTeams(g, r) /\ NoMatch(g, r)
<1>0. Base(g) /\ Ranking(g.queue)
  BY QueueOf DEF Sound
<1>1. CASE IsQueued(g, c)
  BY <1>1, Unchanged DEF JoinQueue
<1>2. CASE ~IsQueued(g, c)
  <2>1. Ranking(Append(g.queue, c))
    BY <1>0, <1>2, AppendedRanking DEF IsQueued
  <2>2. r = g \/ r = PutQueue(g, Append(g.queue, c))
    BY DEF JoinQueue, PutQueue
  <2>3. CASE r = g
    BY <2>3, Unchanged
  <2>4. CASE r = PutQueue(g, Append(g.queue, c))
    BY <1>0, <2>1, <2>4, QueueSound
  <2> QED
    BY <2>2, <2>3, <2>4
<1> QED
  BY <1>1, <1>2

\* And out of it.
LEMMA LeaveQueueSound ==
  ASSUME NEW g, Sound(g), NEW c \in Slots, NEW r, r = LeaveQueue(g, c)
  PROVE  Sound(r) /\ NoMatch(g, r)
<1>1. Base(g) /\ Ranking(Without(g.queue, c))
  BY QueueOf, WithoutRanking DEF Sound
<1>2. r = g \/ r = PutQueue(g, Without(g.queue, c))
  BY DEF LeaveQueue, PutQueue
<1>3. CASE r = g
  BY <1>3, Unchanged
<1>4. CASE r = PutQueue(g, Without(g.queue, c))
  BY <1>1, <1>4, QueueSound
<1> QED
  BY <1>2, <1>3, <1>4

\* A team that may be joined has a place.
LEMMA OpenHasRoom ==
  ASSUME NEW g, NEW c, NEW t, IsSpawned(g, c), DenyJoinTeam(g, c, t) = "ER_TEAM_OK"
  PROVE  HasRoom(g, c, t)
  BY DEF DenyJoinTeam, HasRoom

\* A client joins a team, or is refused.
LEMMA JoinTeamSound ==
  ASSUME NEW g, Sound(g), NEW c \in Slots, IsSpawned(g, c), NEW t \in Teams, NEW r, r = JoinTeam(g, c, t)
  PROVE  /\ Sound(r) /\ NoMatch(g, r) /\ SameClients(g, r)
         /\ DenyJoinTeam(g, c, t) = "ER_TEAM_OK" => ~AllReady(r)
<1>0. Base(g)
  BY DEF Sound
<1>1. UpdateMembersList(g) = g
  BY <1>0, ListIsKept
<1>2. CASE DenyJoinTeam(g, c, t) = "ER_TEAM_OK"
  <2>1. r = SetTeam(g, c, t)
    BY <1>1, <1>2 DEF JoinTeam
  <2>2. HasRoom(g, c, t) /\ t \in Teams \union {"spectators"}
    BY <1>2, OpenHasRoom
  <2>3. /\ Sound(r) /\ NoMatch(g, r) /\ SameClients(g, r)
        /\ t \in Teams /\ InUse(g, c) => ~AllReady(r)
    BY <1>0, <2>1, <2>2, SetTeamSound
  <2> QED
    BY <2>3 DEF IsSpawned, InUse
<1>3. CASE DenyJoinTeam(g, c, t) # "ER_TEAM_OK"
  <2>1. r = g \/ r = JoinQueue(g, c)
    BY <1>1, <1>3 DEF JoinTeam
  <2>2. Sound(r) /\ SameTeams(g, r) /\ NoMatch(g, r)
    BY <2>1, Unchanged, JoinQueueSound
  <2> QED
    BY <1>3, <2>2 DEF SameTeams, SameClients
<1> QED
  BY <1>2, <1>3

\* The best team may be joined.
LEMMA BestIsOpen ==
  ASSUME NEW g, NEW c, rules.teamBased, BestTeam(g, c) # "none"
  PROVE  BestTeam(g, c) \in Teams /\ DenyJoinTeam(g, c, BestTeam(g, c)) = "ER_TEAM_OK"
<1> DEFINE open == {t \in Teams : DenyJoinTeam(g, c, t) = "ER_TEAM_OK"}
           best == {t \in open : \A u \in open : Count(g.list[t]) <= Count(g.list[u])}
<1>1. best \subseteq open /\ open \subseteq {"alpha", "beta"}
  BY DEF Teams
<1>2. BestTeam(g, c) = CASE best = {} -> "none" [] "alpha" \in best -> "alpha" [] OTHER -> "beta"
  BY DEF BestTeam
<1>3. BestTeam(g, c) \in best
  <2> HIDE DEF best, open
  <2> QED
    BY <1>1, <1>2
<1> QED
  BY <1>3

\* A client joins any team, or none.
LEMMA JoinAnyTeamSound ==
  ASSUME NEW g, Sound(g), NEW c \in Slots, IsSpawned(g, c), NEW silent \in BOOLEAN, NEW r, r = JoinAnyTeam(g, c, silent)
  PROVE  /\ Sound(r.g) /\ NoMatch(g, r.g) /\ SameClients(g, r.g)
         /\ rules.teamBased /\ r.joined => ~AllReady(r.g)
         /\ silent /\ ~r.joined => r.g = g
<1>1. UpdateMembersList(g) = g /\ Base(g)
  BY ListIsKept DEF Sound
<1> DEFINE best == BestTeam(g, c)
<1>2. r = IF ~rules.teamBased
          THEN IF g.team[c] = "players" THEN [g |-> g, joined |-> FALSE]
               ELSE [g |-> JoinTeam(g, c, "players"), joined |-> TRUE]
          ELSE IF best = g.team[c] THEN [g |-> g, joined |-> FALSE]
          ELSE IF best # "none" THEN [g |-> JoinTeam(g, c, best), joined |-> TRUE]
          ELSE IF BeforeEnd(g) /\ ~silent THEN [g |-> JoinQueue(g, c), joined |-> FALSE]
          ELSE [g |-> g, joined |-> FALSE]
  BY <1>1, Zenon DEF JoinAnyTeam
<1>3. CASE ~rules.teamBased /\ g.team[c] # "players"
  <2>1. r.g = JoinTeam(g, c, "players") /\ r.joined
    BY <1>2, <1>3
  <2>2. "players" \in Teams
    BY <1>3 DEF Teams
  <2> QED
    BY <1>3, <2>1, <2>2, JoinTeamSound
<1>4. CASE rules.teamBased /\ best # g.team[c] /\ best # "none"
  <2>1. r.g = JoinTeam(g, c, best) /\ r.joined
    BY <1>2, <1>4
  <2>2. best \in Teams /\ DenyJoinTeam(g, c, best) = "ER_TEAM_OK"
    BY <1>4, BestIsOpen
  <2> HIDE DEF best
  <2> QED
    BY <2>1, <2>2, JoinTeamSound
<1>5. CASE ~(~rules.teamBased /\ g.team[c] # "players") /\ ~(rules.teamBased /\ best # g.team[c] /\ best # "none")
  <2>1. ~r.joined /\ (r.g = g \/ (~silent /\ r.g = JoinQueue(g, c)))
    <3> HIDE DEF best
    <3>1. r = [g |-> g, joined |-> FALSE] \/ (~silent /\ r = [g |-> JoinQueue(g, c), joined |-> FALSE])
      <4>1. CASE rules.teamBased
        BY <1>2, <1>5, <4>1, Zenon
      <4>2. CASE ~rules.teamBased
        BY <1>2, <1>5, <4>2, Zenon
      <4> QED
        BY <4>1, <4>2
    <3>2. CASE r = [g |-> g, joined |-> FALSE]
      <4>1. r.g = g
        BY <3>2
      <4>2. ~r.joined
        BY <3>2
      <4> QED
        BY <4>1, <4>2, Zenon
    <3>3. CASE ~silent /\ r = [g |-> JoinQueue(g, c), joined |-> FALSE]
      <4>1. r.g = JoinQueue(g, c) /\ ~r.joined
        BY <3>3
      <4> QED
        BY <3>3, <4>1
    <3> QED
      BY <3>1, <3>2, <3>3
  <2>2. Sound(r.g) /\ NoMatch(g, r.g) /\ SameTeams(g, r.g)
    BY <2>1, Unchanged, JoinQueueSound
  <2> QED
    BY <2>1, <2>2, Unchanged DEF SameTeams, SameClients
<1> QED
  BY <1>3, <1>4, <1>5

\* A run whose steps stay in a set ends in it.
LEMMA RunStays ==
  ASSUME NEW n \in Nat, NEW S, NEW h, h[0] \in S, \A i \in 1..n : h[i - 1] \in S => h[i] \in S
  PROVE  h[n] \in S
<1> DEFINE good == {i \in 0..n : h[i] \in S}
<1>1. 0 \in good
  OBVIOUS
<1>2. ASSUME NEW i \in 1..n, i - 1 \in good PROVE i \in good
  BY <1>2
<1>3. \A i \in 0..n : i \in good
  <2> HIDE DEF good
  <2> QED
    BY <1>1, <1>2, UpTo, Zenon
<1> QED
  BY <1>3

\* What the challengers are let in from: nobody comes or goes, no match begins,
\* and who was let in is not ready.
Admissions(g) ==
  {a \in [g: GameType, refused: BOOLEAN, restart: BOOLEAN] :
     /\ Sound(a.g) /\ NoMatch(g, a.g) /\ SameClients(g, a.g)
     /\ rules.teamBased /\ a.restart => ~AllReady(a.g)}

\* The next challenger.
LEMMA LetInStays ==
  ASSUME NEW g, NEW a \in Admissions(g), NEW c \in Slots, IsSpawned(g, c)
  PROVE  LetIn(a, c) \in Admissions(g)
<1> DEFINE r == JoinAnyTeam(a.g, c, TRUE)
           restart == a.restart \/ (r.joined /\ r.g.state = "countdown")
<1>1. /\ Sound(a.g) /\ NoMatch(g, a.g) /\ SameClients(g, a.g) /\ a.restart \in BOOLEAN
      /\ rules.teamBased /\ a.restart => ~AllReady(a.g)
  BY DEF Admissions
<1>2. IsSpawned(a.g, c)
  BY <1>1 DEF IsSpawned, SameClients
<1>3. /\ Sound(r.g) /\ NoMatch(a.g, r.g) /\ SameClients(a.g, r.g)
      /\ rules.teamBased /\ r.joined => ~AllReady(r.g)
      /\ ~r.joined => r.g = a.g
  <2>1. TRUE \in BOOLEAN
    OBVIOUS
  <2> HIDE DEF r
  <2>2. r = JoinAnyTeam(a.g, c, TRUE)
    BY DEF r
  <2> QED
    BY <1>1, <1>2, <2>1, <2>2, JoinAnyTeamSound
<1>4. LetIn(a, c) = IF a.refused THEN a ELSE [g |-> r.g, refused |-> ~r.joined, restart |-> restart]
  BY Zenon DEF LetIn
<1>5. r.g \in GameType /\ NoMatch(g, r.g) /\ SameClients(g, r.g)
  BY <1>1, <1>3 DEF Sound, Base, Typed, NoMatch, SameClients
<1>6. restart \in BOOLEAN /\ (rules.teamBased /\ restart => ~AllReady(r.g))
  <2> HIDE DEF r
  <2> QED
    BY <1>1, <1>2, <1>3
<1> HIDE DEF r, restart
<1>7. [g |-> r.g, refused |-> ~r.joined, restart |-> restart] \in Admissions(g)
  BY <1>3, <1>5, <1>6 DEF Admissions
<1> QED
  BY <1>4, <1>7

\* All of them.
LEMMA ExecuteChallengersSound ==
  ASSUME NEW g, Sound(g), NEW r, r = ExecuteChallengersQueue(g)
  PROVE  Sound(r) /\ NoMatch(g, r)
<1> DEFINE queue == Challengers(g)
           s0    == [g |-> g, refused |-> FALSE, restart |-> FALSE]
           n     == Len(queue)
           S     == Admissions(g)
<1> DEFINE after[i \in 0..Len(queue)] ==
        IF i = 0 THEN [g |-> g, refused |-> FALSE, restart |-> FALSE] ELSE LetIn(after[i - 1], queue[i])
<1>1. r = IF ~rules.challengers \/ g.state = "playtime" \/ "open" \notin g.passed THEN g
          ELSE IF after[n].restart THEN Launch(after[n].g, "warmup") ELSE after[n].g
  BY DEF ExecuteChallengersQueue
<1>2. queue \in Seq(Slots) /\ n \in Nat /\ \A i \in 1..n : queue[i] \in Slots /\ IsSpawned(g, queue[i])
  <2>1. g.queue \in Seq(Slots)
    BY DEF Sound, Base, Typed, GameType
  <2>2. queue \in Seq(Slots) /\ \A i \in DOMAIN queue : IsSpawned(g, queue[i])
    BY <2>1, Kept DEF Challengers
  <2> HIDE DEF queue
  <2> QED
    BY <2>2
<1>3. s0 \in S
  <2>1. g \in GameType /\ SameClients(g, g) /\ NoMatch(g, g)
    BY DEF Sound, Base, Typed, SameClients, NoMatch
  <2> QED
    BY <2>1 DEF Admissions
<1>4. \A i \in 1..n, a \in S : LetIn(a, queue[i]) \in S
  <2> HIDE DEF queue, n
  <2> QED
    BY <1>2, LetInStays
<1> HIDE DEF S, s0, queue
<1>5. \E k : k = [i \in 0..n |-> IF i = 0 THEN s0 ELSE LetIn(k[i - 1], queue[i])]
  <2> DEFINE f == [i \in 1..n |-> [a \in S |-> LetIn(a, queue[i])]]
  <2> HIDE DEF n
  <2>1. Steps(f, n, S)
    BY <1>2, <1>4 DEF Steps
  <2>2. \A i \in 1..n, a \in S : f[i][a] = LetIn(a, queue[i])
    OBVIOUS
  <2> HIDE DEF f
  <2>3. PICK h : RunOf(h, f, n, S, s0)
    BY <1>3, <2>1, Iteration
  <2>4. h = [i \in 0..n |-> h[i]] /\ h[0] = s0
    BY <2>3 DEF RunOf
  <2>5. ASSUME NEW i \in 0..n PROVE h[i] = IF i = 0 THEN s0 ELSE LetIn(h[i - 1], queue[i])
    <3>1. CASE i = 0
      BY <2>4, <3>1
    <3>2. CASE i # 0
      <4>1. i \in 1..n /\ i - 1 \in 0..n
        BY <1>2, <3>2
      <4>2. h[i - 1] \in S /\ h[i] = f[i][h[i - 1]]
        BY <2>3, <4>1 DEF RunOf
      <4> QED
        BY <2>2, <3>2, <4>1, <4>2
    <3> QED
      BY <3>1, <3>2
  <2>6. h = [i \in 0..n |-> IF i = 0 THEN s0 ELSE LetIn(h[i - 1], queue[i])]
    BY <2>4, <2>5, Zenon
  <2> QED
    BY <2>6
<1>6. after = [i \in 0..n |-> IF i = 0 THEN s0 ELSE LetIn(after[i - 1], queue[i])]
  BY <1>5 DEF after, s0
<1> HIDE DEF after, n
<1>7. after[n] \in S
  <2>1. after[0] \in S
    BY <1>2, <1>3, <1>6
  <2>2. \A i \in 1..n : after[i - 1] \in S => after[i] \in S
    BY <1>2, <1>4, <1>6
  <2> QED
    BY <1>2, <2>1, <2>2, RunStays
<1>8. PICK a : a = after[n] /\ a \in Admissions(g)
  BY <1>7 DEF S
<1>9. CASE r = g
  BY <1>9, Unchanged
<1>10. CASE rules.challengers /\ a.restart /\ r = Launch(a.g, "warmup")
  <2>1. Sound(a.g) /\ (rules.teamBased => ~AllReady(a.g))
    BY <1>8, <1>10 DEF Admissions
  <2>2. Base(r) /\ r.state = "warmup" /\ (AllReady(r) <=> AllReady(a.g))
    BY <1>10, <2>1, LaunchBase DEF Sound, States
  <2> QED
    BY <1>10, <2>1, <2>2 DEF Sound, Counted, Started, NoMatch
<1>11. CASE r = a.g
  BY <1>8, <1>11 DEF Admissions
<1> QED
  BY <1>1, <1>8, <1>9, <1>10, <1>11

-----------------------------------------------------------------------------
(* Match states, with the rules.                                           *)

\* Another state that differs in what is about neither teams nor readiness.
Beside(g, r) == SameTeams(g, r) /\ r.state = g.state /\ (g.forceStart => r.forceStart)

\* Players are waited for or not, a countdown is forced, the level is left.
Awaiting(g) == [g EXCEPT !.waiting = TRUE]
GoingOn(g)  == [g EXCEPT !.waiting = FALSE]
Leaving(g)  == [g EXCEPT !.exitNow = TRUE]
Forced(g)   == [g EXCEPT !.forceStart = TRUE]

\* They leave the rest of a state.
LEMMA PutTyped ==
  ASSUME NEW g, Base(g)
  PROVE  /\ Base(Awaiting(g)) /\ Beside(g, Awaiting(g))
         /\ Base(GoingOn(g)) /\ Beside(g, GoingOn(g))
         /\ Base(Leaving(g)) /\ Beside(g, Leaving(g))
<1>0. g \in GameType /\ IsInjective(g.queue)
  BY DEF Base, Typed
<1>1. ASSUME NEW x \in Flag PROVE Base([g EXCEPT !.waiting = x]) /\ Beside(g, [g EXCEPT !.waiting = x])
  <2> DEFINE r == [g EXCEPT !.waiting = x]
  <2>1. r \in GameType
    BY <1>0 DEF GameType
  <2>2. SameTeams(g, r) /\ r.state = g.state /\ r.forceStart = g.forceStart /\ r.queue = g.queue
    BY <1>0 DEF GameType, SameTeams
  <2> HIDE DEF r
  <2>3. Base(r)
    BY <1>0, <2>1, <2>2, BaseOfTeams DEF Typed, SameTeams
  <2>4. Beside(g, r)
    BY <2>2 DEF Beside
  <2> QED
    BY <2>3, <2>4 DEF r
<1>2. ASSUME NEW x \in Flag PROVE Base([g EXCEPT !.exitNow = x]) /\ Beside(g, [g EXCEPT !.exitNow = x])
  <2> DEFINE r == [g EXCEPT !.exitNow = x]
  <2>1. r \in GameType
    BY <1>0 DEF GameType
  <2>2. SameTeams(g, r) /\ r.state = g.state /\ r.forceStart = g.forceStart /\ r.queue = g.queue
    BY <1>0 DEF GameType, SameTeams
  <2> HIDE DEF r
  <2>3. Base(r)
    BY <1>0, <2>1, <2>2, BaseOfTeams DEF Typed, SameTeams
  <2>4. Beside(g, r)
    BY <2>2 DEF Beside
  <2> QED
    BY <2>3, <2>4 DEF r
<1>3. TRUE \in Flag /\ FALSE \in Flag
  BY DEF Flag
<1> QED
  BY <1>1, <1>2, <1>3, Zenon DEF Awaiting, GoingOn, Leaving

\* Points of time are no concern of teams.
LEMMA PassedTyped ==
  ASSUME NEW g, Base(g), NEW x \in SUBSET {"limit", "vote", "open"}, NEW r, r = [g EXCEPT !.passed = x]
  PROVE  Base(r) /\ Beside(g, r)
<1>0. g \in GameType /\ IsInjective(g.queue)
  BY DEF Base, Typed
<1>1. r \in GameType
  BY <1>0 DEF GameType
<1>2. SameTeams(g, r) /\ r.state = g.state /\ r.forceStart = g.forceStart /\ r.queue = g.queue
  BY <1>0 DEF GameType, SameTeams
<1>3. Base(r)
  BY <1>0, <1>1, <1>2, BaseOfTeams DEF Typed, SameTeams
<1>4. Beside(g, r)
  BY <1>2 DEF Beside
<1> QED
  BY <1>3, <1>4

\* Nor is a forced countdown.
LEMMA ForcedTyped ==
  ASSUME NEW g, Base(g)
  PROVE  Base(Forced(g)) /\ SameTeams(g, Forced(g)) /\ Forced(g).forceStart
<1>0. g \in GameType /\ IsInjective(g.queue)
  BY DEF Base, Typed
<1>1. ASSUME NEW x \in Flag, NEW r, r = [g EXCEPT !.forceStart = x] PROVE Base(r) /\ SameTeams(g, r) /\ r.forceStart = x
  <2>1. r \in GameType
    BY <1>0, <1>1 DEF GameType
  <2>2. SameTeams(g, r) /\ r.forceStart = x /\ r.queue = g.queue
    BY <1>0, <1>1 DEF GameType, SameTeams
  <2>3. Base(r)
    BY <1>0, <2>1, <2>2, BaseOfTeams DEF Typed, SameTeams
  <2> QED
    BY <2>2, <2>3
<1>2. TRUE \in Flag
  BY DEF Flag
<1> QED
  BY <1>1, <1>2, Zenon DEF Forced

\* Soundness is of teams, the state, and whether it was forced.
LEMMA SoundOfTeams ==
  ASSUME NEW g, Sound(g), NEW r, Base(r), Beside(g, r)
  PROVE  Sound(r) /\ NoMatch(g, r) /\ (Enough(r) <=> Enough(g))
<1>1. AllReady(r) <=> AllReady(g)
  BY AllReadyOfTeams DEF Beside, SameTeams
<1> QED
  BY <1>1 DEF Sound, Counted, Started, NoMatch, Enough, Beside, SameTeams

\* Deserted matches and countdowns are called off.
LEMMA CheckStateAbortSound ==
  ASSUME NEW g, Sound(g), NEW r, r = CheckStateAbort(g)
  PROVE  Sound(r) /\ NoMatch(g, r) /\ (r.state = "countdown" => Enough(r))
<1>0. Base(g) /\ FALSE \in Flag /\ TRUE \in Flag
  BY DEF Sound, Flag
<1>1. CASE ~BeforeEnd(g) \/ (g.waiting /\ Enough(g))
  <2>1. r = GoingOn(g)
    BY <1>1 DEF CheckStateAbort, GoingOn, BeforeEnd
  <2>2. Base(r) /\ Beside(g, r)
    BY <1>0, <2>1, PutTyped
  <2>3. Sound(r) /\ NoMatch(g, r) /\ (Enough(r) <=> Enough(g))
    BY <2>2, SoundOfTeams
  <2> QED
    BY <1>1, <2>2, <2>3 DEF BeforeEnd, Beside
<1>2. CASE ~(~BeforeEnd(g) \/ (g.waiting /\ Enough(g))) /\ g.state = "warmup" /\ ~Enough(g) /\ rules.warmupLimit
  <2>1. r = Awaiting(g)
    BY <1>2 DEF CheckStateAbort, Awaiting
  <2>2. Base(r) /\ Beside(g, r)
    BY <1>0, <2>1, PutTyped
  <2> QED
    BY <1>2, <2>2, SoundOfTeams DEF Beside
<1>3. CASE ~(~BeforeEnd(g) \/ (g.waiting /\ Enough(g))) /\ g.state = "countdown" /\ ~Enough(g)
  <2> DEFINE h == Launch(g, "warmup")
  <2>1. r = Awaiting(h)
    BY <1>3 DEF CheckStateAbort, Awaiting
  <2>2. Base(h) /\ SameTeams(g, h) /\ h.state = "warmup" /\ (AllReady(h) <=> AllReady(g))
    BY <1>0, LaunchBase DEF States
  <2> HIDE DEF h
  <2>3. Base(r) /\ SameTeams(h, r) /\ r.state = "warmup"
    BY <2>1, <2>2, PutTyped DEF Beside
  <2>4. ~AllReady(r)
    BY <1>3, <2>2, <2>3, AllReadyOfTeams DEF SameTeams, AllReady
  <2> QED
    BY <2>3, <2>4 DEF Sound, Counted, Started, NoMatch
<1>4. CASE ~(~BeforeEnd(g) \/ (g.waiting /\ Enough(g))) /\ g.state = "playtime" /\ ~Enough(g)
  <2>1. r = Launch(g, "postmatch")
    BY <1>4 DEF CheckStateAbort
  <2>2. Base(r) /\ r.state = "postmatch"
    BY <1>0, <2>1, LaunchBase DEF States
  <2> QED
    BY <2>2 DEF Sound, Counted, Started, NoMatch
<1>5. CASE /\ ~(~BeforeEnd(g) \/ (g.waiting /\ Enough(g))) /\ ~(g.state = "warmup" /\ ~Enough(g) /\ rules.warmupLimit)
           /\ ~(g.state = "countdown" /\ ~Enough(g)) /\ ~(g.state = "playtime" /\ ~Enough(g))
  <2>1. r = g
    BY <1>5 DEF CheckStateAbort
  <2> QED
    BY <1>5, <2>1 DEF NoMatch
<1> QED
  BY <1>1, <1>2, <1>3, <1>4, <1>5

\* The next state when a limit is hit, for a match only if players are enough.
LEMMA ThinkRulesSound ==
  ASSUME NEW g, Sound(g), NEW ranking, Ranking(ranking), NEW r, r = ThinkRules(g, ranking)
  PROVE  /\ Sound(r)
         /\ r.state = "playtime" => g.state = "playtime" \/ (g.state = "countdown" /\ (Enough(r) <=> Enough(g)))
<1>0. Base(g) /\ TRUE \in Flag /\ g.state \in States
  BY DEF Sound, Flag, Base, Typed, GameType
<1>1. CASE "limit" \notin g.passed
  <2>1. r = g
    BY <1>1 DEF ThinkRules
  <2> QED
    BY <2>1
<1>2. CASE "limit" \in g.passed /\ g.state = "warmup"
  <2> DEFINE h == Forced(g)
  <2>1. r = Launch(h, "countdown")
    BY <1>2 DEF ThinkRules, NextState, Forced
  <2>2. Base(h) /\ h.forceStart
    BY <1>0, ForcedTyped
  <2> HIDE DEF h
  <2>3. Base(r) /\ r.state = "countdown" /\ r.forceStart
    <3>1. "countdown" \in States /\ "countdown" \notin {"warmup", "playtime"}
      BY DEF States
    <3>2. /\ Base(r) /\ r.state = "countdown"
          /\ r.forceStart = (h.forceStart /\ "countdown" \notin {"warmup", "playtime"})
      BY <2>1, <2>2, <3>1, LaunchBase, Zenon
    <3> QED
      BY <2>2, <3>1, <3>2, Zenon
  <2> QED
    BY <2>3 DEF Sound, Counted, Started
<1>3. CASE "limit" \in g.passed /\ g.state = "countdown"
  <2>1. r = Launch(g, "playtime")
    BY <1>3 DEF ThinkRules, NextState
  <2>2. Base(r) /\ r.state = "playtime" /\ SameTeams(g, r)
    BY <1>0, <2>1, LaunchBase DEF States
  <2> QED
    BY <1>3, <2>2 DEF Sound, Counted, Started, Enough, SameTeams
<1>4. CASE "limit" \in g.passed /\ g.state = "playtime"
  <2>1. r = Launch(g, "postmatch")
    BY <1>4 DEF ThinkRules, NextState
  <2>2. Base(r) /\ r.state = "postmatch"
    BY <1>0, <2>1, LaunchBase DEF States
  <2> QED
    BY <2>2 DEF Sound, Counted, Started
<1>5. CASE "limit" \in g.passed /\ g.state = "postmatch"
  <2>1. r = LaunchState(g, "waitexit", ranking)
    BY <1>5 DEF ThinkRules, NextState
  <2>2. Base(r) /\ r.state = "waitexit"
    <3>1. PICK state \in States : state = "waitexit"
      BY DEF States
    <3>2. r = LaunchState(g, state, ranking)
      BY <2>1, <3>1
    <3>3. Base(r) /\ r.state = state
      BY <1>0, <3>2, LaunchStateBase
    <3> QED
      BY <3>1, <3>3
  <2> QED
    BY <2>2 DEF Sound, Counted, Started
<1>6. CASE "limit" \in g.passed /\ g.state = "waitexit"
  <2>1. r = Leaving(g)
    BY <1>6 DEF ThinkRules, NextState, Leaving
  <2>2. Base(r) /\ Beside(g, r)
    BY <1>0, <2>1, PutTyped
  <2> QED
    BY <1>6, <2>2, SoundOfTeams DEF Beside
<1> QED
  BY <1>0, <1>1, <1>2, <1>3, <1>4, <1>5, <1>6 DEF States

-----------------------------------------------------------------------------
(* Clients that come and go.                                               *)

ConnStates == {"free", "connected", "spawned", "zombie"}
PutConn(g, c, x) == [g EXCEPT !.conn[c] = x]

\* A client in no team, or one that stays in use or out of it, is no concern
\* of readiness.
LEMMA ConnSound ==
  ASSUME NEW g, Sound(g), NEW c \in Slots, NEW x \in ConnStates,
         x # "connected", x = "spawned" => InUse(g, c),
         g.team[c] = "spectators" \/ (InUse(g, c) => x \in {"connected", "spawned"}),
         NEW r, r = PutConn(g, c, x)
  PROVE  Sound(r) /\ NoMatch(g, r) /\ r.conn = [g.conn EXCEPT ![c] = x] /\ r.team = g.team /\ r.fake = g.fake
<1>1. g \in GameType /\ Base(g) /\ g.conn \in [Slots -> ConnStates]
  BY DEF Sound, Base, Typed, GameType, ConnStates
<1>2. r \in GameType
  <2>1. \A conn \in [Slots -> ConnStates] : [g EXCEPT !.conn = conn] \in GameType
    BY <1>1 DEF GameType, ConnStates
  <2>2. [g.conn EXCEPT ![c] = x] \in [Slots -> ConnStates]
    BY <1>1
  <2> QED
    BY <2>1, <2>2 DEF PutConn
<1>3. /\ r.conn = [g.conn EXCEPT ![c] = x] /\ r.team = g.team /\ r.fake = g.fake /\ r.list = g.list /\ r.ready = g.ready
      /\ r.queue = g.queue /\ r.state = g.state /\ r.forceStart = g.forceStart
      /\ r.voted = g.voted /\ r.ownVote = g.ownVote
  BY <1>1 DEF GameType, PutConn
<1>4. \A d \in Slots : (InUse(r, d) /\ r.team[d] # "spectators") <=> (InUse(g, d) /\ g.team[d] # "spectators")
  BY <1>1, <1>3 DEF InUse
<1>5. \A d \in Slots : InUse(r, d) => InUse(g, d)
  BY <1>1, <1>3 DEF InUse
<1>6. \A t \in Teams : Members(r, t) = Members(g, t)
  <2>1. "spectators" \notin Teams
    BY DEF Teams
  <2> QED
    BY <1>3, <1>4, <2>1 DEF Members
<1>7. \A t \in Teams : Considered(r, t) = Considered(g, t)
  <2>1. \A t \in Teams : g.list[t] \subseteq Slots
    BY <1>1 DEF GameType
  <2> QED
    BY <1>3, <1>4, <2>1 DEF Considered, IsSpectator
<1>8. AllReady(r) <=> AllReady(g)
  BY <1>3, <1>7 DEF AllReady, TeamIsReady, Enough
<1>9. Base(r)
  BY <1>1, <1>2, <1>3, <1>5, <1>6 DEF Base, Typed, Listed, Seated, Owned, Begun, IsSpectator
<1> QED
  BY <1>3, <1>8, <1>9 DEF Sound, Counted, Started, NoMatch

\* A client on its way out is neither in the queue nor a bot.
LEMMA DroppedTyped ==
  ASSUME NEW g, Base(g), NEW c \in Slots, NEW r, r = [g EXCEPT !.queue = Without(@, c), !.fake[c] = FALSE]
  PROVE  Base(r) /\ r.conn = g.conn /\ r.team = g.team /\ r.state = g.state
<1>1. g \in GameType /\ g.fake \in [Slots -> Flag] /\ FALSE \in Flag
  BY DEF Base, Typed, GameType, Flag
<1>2. Ranking(Without(g.queue, c))
  BY QueueOf, WithoutRanking
<1> DEFINE queue == Without(g.queue, c)
           fake  == [g.fake EXCEPT ![c] = FALSE]
<1>3. queue \in Seq(Slots) /\ fake \in [Slots -> Flag] /\ IsInjective(queue)
  BY <1>1, <1>2 DEF Ranking
<1>4. r = [g EXCEPT !.queue = queue, !.fake = fake]
  BY Zenon
<1> HIDE DEF queue, fake
<1>5. \A q \in Seq(Slots), f \in [Slots -> Flag] : [g EXCEPT !.queue = q, !.fake = f] \in GameType
  BY <1>1 DEF GameType
<1>6. r \in GameType
  BY <1>3, <1>4, <1>5
<1>7. /\ r.conn = g.conn /\ r.team = g.team /\ r.list = g.list /\ r.state = g.state
      /\ r.voted = g.voted /\ r.ownVote = g.ownVote /\ r.queue = queue
  BY <1>1, <1>4 DEF GameType
<1>8. Base(r)
  BY <1>3, <1>6, <1>7, BaseOfTeams DEF Typed
<1> QED
  BY <1>7, <1>8

\* Who disconnects leaves its team first.
LEMMA DisconnectSound ==
  ASSUME NEW g, Base(g), NEW c \in Slots, NEW r, r = Disconnect(g, c)
  PROVE  Sound(r) /\ NoMatch(g, r) /\ r.conn[c] = "zombie"
<1> DEFINE s == Respawn(g, c, "spectators")
           u == [s EXCEPT !.queue = Without(@, c), !.fake[c] = FALSE]
           v == CheckReadys(u)
<1>1. r = [v EXCEPT !.conn[c] = "zombie"]
  BY Zenon DEF Disconnect
<1>2. Base(s) /\ SameButTeam(g, s) /\ s.team = [g.team EXCEPT ![c] = "spectators"]
  <2>1. HasRoom(g, c, "spectators") /\ "spectators" \in Teams \union {"spectators"}
    BY DEF HasRoom, Teams
  <2> HIDE DEF s
  <2>2. s = Respawn(g, c, "spectators")
    BY DEF s
  <2> QED
    BY <2>1, <2>2, Respawned
<1>3. s.team[c] = "spectators" /\ NoMatch(g, s)
  <2>1. g.team \in [Slots -> Teams \union {"spectators"}]
    BY DEF Base, Typed, GameType
  <2> QED
    BY <1>2, <2>1 DEF NoMatch, SameButTeam
<1> HIDE DEF s
<1>4. Base(u) /\ u.conn = s.conn /\ u.team = s.team /\ u.state = s.state
  BY <1>2, DroppedTyped
<1> HIDE DEF u
<1>5. Sound(v) /\ SameTeams(u, v) /\ NoMatch(u, v)
  BY <1>4, CheckReadysSound
<1>6. v.team[c] = "spectators" /\ NoMatch(g, v)
  BY <1>3, <1>4, <1>5 DEF SameTeams, NoMatch
<1> HIDE DEF v
<1>7. Sound(r) /\ NoMatch(v, r) /\ r.conn = [v.conn EXCEPT ![c] = "zombie"]
  <2>1. PICK x \in ConnStates : x = "zombie"
    BY DEF ConnStates
  <2>2. r = PutConn(v, c, x)
    BY <1>1, <2>1 DEF PutConn
  <2>3. x # "connected" /\ x # "spawned"
    BY <2>1
  <2>4. Sound(r) /\ NoMatch(v, r) /\ r.conn = [v.conn EXCEPT ![c] = x]
    BY <1>5, <1>6, <2>2, <2>3, ConnSound
  <2> QED
    BY <2>1, <2>4
<1>8. v.conn \in [Slots -> ConnStates]
  BY <1>5 DEF Sound, Base, Typed, GameType, ConnStates
<1> QED
  BY <1>6, <1>7, <1>8 DEF NoMatch

-----------------------------------------------------------------------------
(* Votes.                                                                  *)

VoteType == [kind: VoteKinds \union {"none"}, target: Slots, op: Flag]

\* The same teams, readiness and state.
SameMatch(g, r) == /\ r.conn = g.conn /\ r.team = g.team /\ r.list = g.list /\ r.ready = g.ready
                   /\ r.state = g.state /\ r.forceStart = g.forceStart

\* Votes are no concern of the match.
LEMMA SoundOfMatch ==
  ASSUME NEW g, Sound(g), NEW r, Typed(r), SameMatch(g, r), Owned(r)
  PROVE  Sound(r) /\ NoMatch(g, r)
<1>1. AllReady(r) <=> AllReady(g)
  BY AllReadyOfTeams DEF SameMatch
<1>2. Base(r)
  BY DEF Sound, Base, Listed, Seated, Begun, IsSpectator, Members, InUse, SameMatch
<1> QED
  BY <1>1, <1>2 DEF Sound, Counted, Started, NoMatch, SameMatch

\* The vote that is on, and what was voted.
PutVote(g, vote, passed) == [g EXCEPT !.vote = vote, !.passed = passed]
PutVotes(g, voted, changes, ownVote) == [g EXCEPT !.voted = voted, !.changes = changes, !.ownVote = ownVote]

\* Both keep their types.
LEMMA VoteTyped ==
  ASSUME NEW g, Typed(g), NEW vote \in VoteType, NEW passed \in SUBSET {"limit", "vote", "open"},
         NEW r, r = PutVote(g, vote, passed)
  PROVE  /\ Typed(r) /\ SameMatch(g, r) /\ r.vote = vote /\ r.passed = passed
         /\ r.voted = g.voted /\ r.changes = g.changes /\ r.ownVote = g.ownVote /\ r.fake = g.fake
<1>0. g \in GameType
  BY DEF Typed
<1>1. r \in GameType
  <2>1. \A v \in VoteType, p \in SUBSET {"limit", "vote", "open"} : [g EXCEPT !.vote = v, !.passed = p] \in GameType
    BY <1>0 DEF GameType, VoteType
  <2> QED
    BY <2>1 DEF PutVote
<1>2. /\ SameMatch(g, r) /\ r.vote = vote /\ r.passed = passed /\ r.queue = g.queue
      /\ r.voted = g.voted /\ r.changes = g.changes /\ r.ownVote = g.ownVote /\ r.fake = g.fake
  BY <1>0 DEF GameType, PutVote, SameMatch
<1> QED
  BY <1>1, <1>2 DEF Typed

\* The votes of the slots as well.
LEMMA VotesTyped ==
  ASSUME NEW g, Typed(g), NEW voted \in [Slots -> {"nothing", "yes", "no"}], NEW changes \in [Slots -> 0..rules.voteChanges],
         NEW ownVote \in [Slots -> Flag], NEW r, r = PutVotes(g, voted, changes, ownVote)
  PROVE  /\ Typed(r) /\ SameMatch(g, r) /\ r.vote = g.vote /\ r.passed = g.passed
         /\ r.voted = voted /\ r.changes = changes /\ r.ownVote = ownVote /\ r.fake = g.fake
<1>0. g \in GameType
  BY DEF Typed
<1>1. r \in GameType
  BY <1>0 DEF GameType, PutVotes
<1>2. /\ SameMatch(g, r) /\ r.vote = g.vote /\ r.passed = g.passed /\ r.queue = g.queue
      /\ r.voted = voted /\ r.changes = changes /\ r.ownVote = ownVote /\ r.fake = g.fake
  BY <1>0 DEF GameType, PutVotes, SameMatch
<1> QED
  BY <1>1, <1>2 DEF Typed

\* Nobody has voted yet.
LEMMA NoVotes ==
  ASSUME rules \in Scenarios
  PROVE  /\ [c \in Slots |-> "nothing"] \in [Slots -> {"nothing", "yes", "no"}]
         /\ [c \in Slots |-> rules.voteChanges] \in [Slots -> 0..rules.voteChanges]
         /\ [c \in Slots |-> FALSE] \in [Slots -> Flag]
         /\ NoVote \in VoteType /\ rules.voteChanges \in 1..rules.voteChanges
<1>1. rules.voteChanges \in Nat \ {0}
  BY ScenariosAssumption
<1>2. NoVote \in VoteType
  BY CountsAssumption DEF NoVote, VoteType, Slots, Flag
<1> QED
  BY <1>1, <1>2 DEF Flag

\* A vote is over.
LEMMA ResetVotesSound ==
  ASSUME NEW g, Sound(g), NEW r, r = ResetVotes(g)
  PROVE  /\ Sound(r) /\ NoMatch(g, r) /\ SameMatch(g, r)
         /\ r.voted = [c \in Slots |-> "nothing"] /\ r.changes = [c \in Slots |-> rules.voteChanges]
<1> DEFINE voted   == [c \in Slots |-> "nothing"]
           changes == [c \in Slots |-> rules.voteChanges]
           own     == [c \in Slots |-> FALSE]
           passed  == g.passed \ {"vote"}
           h       == PutVote(g, NoVote, passed)
<1>1. /\ voted \in [Slots -> {"nothing", "yes", "no"}] /\ changes \in [Slots -> 0..rules.voteChanges]
      /\ own \in [Slots -> Flag] /\ NoVote \in VoteType
  BY NoVotes DEF Sound, Base
<1>2. g \in GameType /\ Typed(g) /\ passed \in SUBSET {"limit", "vote", "open"}
  BY DEF Sound, Base, Typed, GameType
<1>3. \A c \in Slots : voted[c] = "nothing"
  OBVIOUS
<1>4. r = [g EXCEPT !.vote = NoVote, !.passed = passed, !.voted = voted, !.changes = changes, !.ownVote = own]
  BY Zenon DEF ResetVotes
<1> HIDE DEF voted, changes, own, passed
<1>5. r = PutVotes(h, voted, changes, own)
  BY <1>2, <1>4 DEF GameType, PutVote, PutVotes
<1>6. Typed(h) /\ SameMatch(g, h)
  BY <1>1, <1>2, VoteTyped
<1> HIDE DEF h
<1>7. Typed(r) /\ SameMatch(h, r) /\ r.voted = voted /\ r.changes = changes
  BY <1>1, <1>5, <1>6, VotesTyped
<1>8. SameMatch(g, r) /\ Owned(r)
  BY <1>3, <1>6, <1>7 DEF SameMatch, Owned
<1> QED
  BY <1>7, <1>8, SoundOfMatch DEF voted, changes

-----------------------------------------------------------------------------
(* Who connects has no vote yet.                                           *)

\* The client of a slot.
PutClient(g, conn, fake, team) == [g EXCEPT !.conn = conn, !.fake = fake, !.team = team]

\* It keeps its type.
LEMMA ClientTyped ==
  ASSUME NEW g, Typed(g), NEW conn \in [Slots -> ConnStates], NEW fake \in [Slots -> Flag],
         NEW team \in [Slots -> Teams \union {"spectators"}], NEW r, r = PutClient(g, conn, fake, team)
  PROVE  /\ Typed(r) /\ r.conn = conn /\ r.fake = fake /\ r.team = team /\ r.list = g.list /\ r.ready = g.ready
         /\ r.state = g.state /\ r.forceStart = g.forceStart
         /\ r.voted = g.voted /\ r.changes = g.changes /\ r.ownVote = g.ownVote
<1>1. g \in GameType
  BY DEF Typed
<1>2. r \in GameType
  <2>1. \A k \in [Slots -> ConnStates], f \in [Slots -> Flag], t \in [Slots -> Teams \union {"spectators"}] :
          [g EXCEPT !.conn = k, !.fake = f, !.team = t] \in GameType
    BY <1>1 DEF GameType, ConnStates
  <2> QED
    BY <2>1 DEF PutClient
<1>3. /\ r.conn = conn /\ r.fake = fake /\ r.team = team /\ r.list = g.list /\ r.ready = g.ready
      /\ r.state = g.state /\ r.forceStart = g.forceStart /\ r.queue = g.queue
      /\ r.voted = g.voted /\ r.changes = g.changes /\ r.ownVote = g.ownVote
  BY <1>1 DEF GameType, PutClient
<1> QED
  BY <1>2, <1>3 DEF Typed

\* A client or a bot gets a slot that is not in use.
LEMMA ClientConnectSound ==
  ASSUME NEW g, Sound(g), NEW c \in Slots, ~InUse(g, c), NEW fake \in Flag, NEW r, r = ClientConnect(g, c, fake)
  PROVE  Sound(r) /\ NoMatch(g, r)
<1> DEFINE conn    == [g.conn EXCEPT ![c] = IF fake THEN "spawned" ELSE "connected"]
           fakes   == [g.fake EXCEPT ![c] = fake]
           team    == [g.team EXCEPT ![c] = "spectators"]
           voted   == [g.voted EXCEPT ![c] = "nothing"]
           changes == [g.changes EXCEPT ![c] = rules.voteChanges]
           own     == [g.ownVote EXCEPT ![c] = FALSE]
           h       == PutClient(g, conn, fakes, team)
<1>1. g \in GameType /\ Typed(g) /\ Base(g) /\ FALSE \in Flag /\ rules.voteChanges \in 0..rules.voteChanges
  <2>1. rules.voteChanges \in 1..rules.voteChanges /\ rules.voteChanges \in Nat
    BY NoVotes, ScenariosAssumption DEF Sound, Base
  <2> QED
    BY <2>1 DEF Sound, Base, Typed, Flag
<1>2. /\ conn \in [Slots -> ConnStates] /\ fakes \in [Slots -> Flag] /\ team \in [Slots -> Teams \union {"spectators"}]
  BY <1>1 DEF GameType, ConnStates
<1>3. /\ voted \in [Slots -> {"nothing", "yes", "no"}] /\ changes \in [Slots -> 0..rules.voteChanges]
      /\ own \in [Slots -> Flag]
  BY <1>1 DEF GameType
<1>4. r = PutVotes(h, voted, changes, own)
  BY <1>1 DEF ClientConnect, ResetVote, PutVotes, PutClient, GameType
<1>5. \A d \in Slots : /\ d # c => conn[d] = g.conn[d] /\ team[d] = g.team[d] /\ voted[d] = g.voted[d] /\ own[d] = g.ownVote[d]
                       /\ team[c] = "spectators" /\ voted[c] = "nothing"
  BY <1>1 DEF GameType
<1> HIDE DEF conn, fakes, team, voted, changes, own
<1>6. /\ Typed(h) /\ h.conn = conn /\ h.team = team /\ h.list = g.list /\ h.ready = g.ready
      /\ h.state = g.state /\ h.forceStart = g.forceStart
  BY <1>1, <1>2, ClientTyped
<1> HIDE DEF h
<1>7. Typed(r) /\ SameMatch(h, r) /\ r.voted = voted /\ r.ownVote = own
  BY <1>3, <1>4, <1>6, VotesTyped
<1>8. /\ r.conn = conn /\ r.team = team /\ r.list = g.list /\ r.ready = g.ready
      /\ r.state = g.state /\ r.forceStart = g.forceStart
  BY <1>6, <1>7 DEF SameMatch
<1>9. \A d \in Slots : (InUse(r, d) /\ r.team[d] # "spectators") <=> (InUse(g, d) /\ g.team[d] # "spectators")
  BY <1>5, <1>8 DEF InUse
<1>10. \A d \in Slots : d # c => (InUse(r, d) <=> InUse(g, d)) /\ r.team[d] = g.team[d]
  BY <1>5, <1>8 DEF InUse
<1>11. \A t \in Teams : Members(r, t) = Members(g, t)
  <2>1. "spectators" \notin Teams
    BY DEF Teams
  <2>2. \A t \in Teams, d \in Slots : (InUse(r, d) /\ r.team[d] = t) <=> (InUse(g, d) /\ g.team[d] = t)
    BY <1>5, <1>8, <1>10, <2>1
  <2> QED
    BY <2>2 DEF Members
<1>12. \A t \in Teams : Considered(r, t) = Considered(g, t)
  <2>1. \A t \in Teams : g.list[t] \subseteq Slots
    BY <1>1 DEF GameType
  <2> QED
    BY <1>8, <1>9, <2>1 DEF Considered, IsSpectator
<1>13. AllReady(r) <=> AllReady(g)
  BY <1>8, <1>12 DEF AllReady, TeamIsReady, Enough
<1>14. Owned(r)
  BY <1>1, <1>5, <1>7, <1>10 DEF Base, Owned
<1>16. Begun(r)
  BY <1>1, <1>5, <1>8 DEF Base, Begun, IsSpectator
<1>15. Base(r)
  BY <1>1, <1>7, <1>8, <1>11, <1>14, <1>16 DEF Base, Listed, Seated
<1> QED
  BY <1>8, <1>13, <1>15 DEF Sound, Counted, Started, NoMatch

-----------------------------------------------------------------------------
(* What passed votes do.                                                   *)

\* Out of the team, and out of the queue.
LEMMA RemovePassedSound ==
  ASSUME NEW g, Base(g), NEW c \in Slots, NEW r, r = RemovePassed(g, c)
  PROVE  Sound(r) /\ NoMatch(g, r)
<1> DEFINE s == SetTeam(g, c, "spectators")
<1>1. r = PutQueue(s, Without(s.queue, c))
  BY Zenon DEF RemovePassed, PutQueue
<1>2. HasRoom(g, c, "spectators") /\ "spectators" \in Teams \union {"spectators"}
  BY DEF HasRoom, Teams
<1>3. s = SetTeam(g, c, "spectators")
  OBVIOUS
<1> HIDE DEF s
<1>4. Sound(s) /\ NoMatch(g, s)
  BY <1>2, <1>3, SetTeamSound
<1>5. Base(s) /\ Ranking(Without(s.queue, c))
  BY <1>4, QueueOf, WithoutRanking DEF Sound
<1>6. Sound(r) /\ NoMatch(s, r)
  BY <1>1, <1>4, <1>5, QueueSound
<1> QED
  BY <1>4, <1>6 DEF NoMatch

\* What a handler of the match may leave of g.
Sane(g) == {x \in GameType : Sound(x) /\ NoMatch(g, x)}

\* A player gets ready.
LEMMA MakeReadyStays ==
  ASSUME NEW g, NEW x \in Sane(g), NEW c \in Slots
  PROVE  MakeReady(x, c) \in Sane(g)
<1> DEFINE r == MakeReady(x, c)
           s == PutReady(x, c, TRUE)
<1>1. Sound(x) /\ NoMatch(g, x) /\ Base(x)
  BY DEF Sane, Sound
<1>2. PICK y \in Flag : y = TRUE
  BY Zenon DEF Flag
<1>3. Base(s) /\ s.state = x.state
  <2>1. s = PutReady(x, c, y)
    BY <1>2
  <2> HIDE DEF s
  <2>2. Base(s) /\ s.ready = [x.ready EXCEPT ![c] = y] /\ s.team = x.team /\ s.conn = x.conn /\ s.fake = x.fake
        /\ s.list = x.list /\ s.state = x.state /\ s.forceStart = x.forceStart /\ s.queue = x.queue
    BY <1>1, <2>1, ReadyTyped
  <2> QED
    BY <2>2
<1>4. r = IF c \in NotReadys(x) THEN CheckReadys(s) ELSE x
  BY Zenon DEF MakeReady, PutReady
<1> HIDE DEF r, s
<1>5. Sound(r) /\ NoMatch(x, r)
  <2>1. CASE c \in NotReadys(x)
    <3>1. Sound(r) /\ NoMatch(s, r)
      BY <1>3, <1>4, <2>1, CheckReadysSound
    <3> QED
      BY <1>3, <3>1 DEF NoMatch
  <2>2. CASE c \notin NotReadys(x)
    BY <1>1, <1>4, <2>2, Unchanged
  <2> QED
    BY <2>1, <2>2
<1>6. r \in Sane(g)
  BY <1>1, <1>5 DEF Sane, Sound, Base, Typed, NoMatch
<1> QED
  BY <1>6 DEF r

\* A bot goes.
LEMMA RemoveBotStays ==
  ASSUME NEW g, NEW x \in Sane(g), NEW c \in Slots
  PROVE  RemoveBot(x, c) \in Sane(g)
<1> DEFINE r == RemoveBot(x, c)
<1>1. Sound(x) /\ NoMatch(g, x) /\ Base(x)
  BY DEF Sane, Sound
<1>2. r = IF x.fake[c] THEN Disconnect(x, c) ELSE x
  BY DEF RemoveBot
<1> HIDE DEF r
<1>3. Sound(r) /\ NoMatch(x, r)
  BY <1>1, <1>2, DisconnectSound, Unchanged
<1>4. r \in Sane(g)
  BY <1>1, <1>3 DEF Sane, Sound, Base, Typed, NoMatch
<1> QED
  BY <1>4 DEF r

\* Every slot in turn: what each step keeps, all of them keep.
LEMMA EverySlot ==
  ASSUME NEW S, NEW s0 \in S, NEW f, Steps(f, NumSlots, S)
  PROVE  \E h : h = [c \in 0..NumSlots |-> IF c = 0 THEN s0 ELSE f[c][h[c - 1]]] /\ \A c \in 0..NumSlots : h[c] \in S
<1>0. NumSlots \in Nat
  BY CountsAssumption
<1>1. PICK h : RunOf(h, f, NumSlots, S, s0)
  BY Iteration
<1>2. h = [c \in 0..NumSlots |-> h[c]] /\ h[0] = s0 /\ \A c \in 0..NumSlots : h[c] \in S
  BY <1>1 DEF RunOf
<1>3. ASSUME NEW c \in 0..NumSlots PROVE h[c] = IF c = 0 THEN s0 ELSE f[c][h[c - 1]]
  <2>1. CASE c = 0
    BY <1>2, <2>1
  <2>2. CASE c # 0
    <3>1. c \in 1..NumSlots
      BY <1>0, <2>2
    <3> QED
      BY <1>1, <2>2, <3>1 DEF RunOf
  <2> QED
    BY <2>1, <2>2
<1>4. h = [c \in 0..NumSlots |-> IF c = 0 THEN s0 ELSE f[c][h[c - 1]]]
  BY <1>2, <1>3, Zenon
<1> QED
  BY <1>2, <1>4

\* All players get ready.
LEMMA AllreadyPassedSound ==
  ASSUME NEW g, Sound(g), NEW r, r = AllreadyPassed(g)
  PROVE  Sound(r) /\ NoMatch(g, r)
<1> DEFINE S == Sane(g)
           f == [c \in 1..NumSlots |-> [x \in S |-> MakeReady(x, c)]]
<1> DEFINE after[c \in 0..NumSlots] == IF c = 0 THEN g ELSE MakeReady(after[c - 1], c)
<1>0. NumSlots \in Nat
  BY CountsAssumption
<1>1. r = after[NumSlots]
  BY DEF AllreadyPassed
<1>2. g \in S
  BY Unchanged DEF Sane, Sound, Base, Typed
<1>3. \A c \in 1..NumSlots, x \in S : MakeReady(x, c) \in S
  BY MakeReadyStays DEF Slots
<1> HIDE DEF S
<1>4. Steps(f, NumSlots, S) /\ \A c \in 1..NumSlots, x \in S : f[c][x] = MakeReady(x, c)
  BY <1>0, <1>3 DEF Steps
<1> HIDE DEF f
<1>5. PICK h : h = [c \in 0..NumSlots |-> IF c = 0 THEN g ELSE f[c][h[c - 1]]] /\ \A c \in 0..NumSlots : h[c] \in S
  BY <1>2, <1>4, EverySlot
<1>6. h = [c \in 0..NumSlots |-> IF c = 0 THEN g ELSE MakeReady(h[c - 1], c)]
  <2>1. ASSUME NEW c \in 0..NumSlots
        PROVE  (IF c = 0 THEN g ELSE f[c][h[c - 1]]) = IF c = 0 THEN g ELSE MakeReady(h[c - 1], c)
    <3>1. CASE c = 0
      BY <3>1
    <3>2. CASE c # 0
      <4>1. c \in 1..NumSlots /\ c - 1 \in 0..NumSlots
        BY <1>0, <3>2
      <4>2. h[c - 1] \in S
        BY <1>5, <4>1
      <4> QED
        BY <1>4, <3>2, <4>1, <4>2
    <3> QED
      BY <3>1, <3>2
  <2> QED
    BY <1>5, <2>1, Zenon
<1>7. \E k : k = [c \in 0..NumSlots |-> IF c = 0 THEN g ELSE MakeReady(k[c - 1], c)]
  BY <1>6
<1>8. after = [c \in 0..NumSlots |-> IF c = 0 THEN g ELSE MakeReady(after[c - 1], c)]
  BY <1>7 DEF after
<1> HIDE DEF after
<1>9. after[NumSlots] \in S
  <2>1. after[0] \in S
    BY <1>0, <1>2, <1>8
  <2>2. \A c \in 1..NumSlots : after[c - 1] \in S => after[c] \in S
    BY <1>0, <1>3, <1>8
  <2> QED
    BY <1>0, <2>1, <2>2, RunStays
<1> QED
  BY <1>1, <1>9 DEF S, Sane

\* All bots go.
LEMMA RemoveBotsSound ==
  ASSUME NEW g, Sound(g), NEW r, r = RemoveBots(g)
  PROVE  Sound(r) /\ NoMatch(g, r)
<1> DEFINE S == Sane(g)
           f == [c \in 1..NumSlots |-> [x \in S |-> RemoveBot(x, NumSlots + 1 - c)]]
<1> DEFINE after[c \in 0..NumSlots] == IF c = 0 THEN g ELSE RemoveBot(after[c - 1], NumSlots + 1 - c)
<1>0. NumSlots \in Nat
  BY CountsAssumption
<1>1. r = after[NumSlots]
  BY DEF RemoveBots
<1>2. g \in S
  BY Unchanged DEF Sane, Sound, Base, Typed
<1>3. \A c \in 1..NumSlots, x \in S : RemoveBot(x, NumSlots + 1 - c) \in S
  <2>1. \A c \in 1..NumSlots : NumSlots + 1 - c \in Slots
    BY <1>0 DEF Slots
  <2> QED
    BY <2>1, RemoveBotStays
<1> HIDE DEF S
<1>4. Steps(f, NumSlots, S) /\ \A c \in 1..NumSlots, x \in S : f[c][x] = RemoveBot(x, NumSlots + 1 - c)
  BY <1>0, <1>3 DEF Steps
<1> HIDE DEF f
<1>5. PICK h : h = [c \in 0..NumSlots |-> IF c = 0 THEN g ELSE f[c][h[c - 1]]] /\ \A c \in 0..NumSlots : h[c] \in S
  BY <1>2, <1>4, EverySlot
<1>6. h = [c \in 0..NumSlots |-> IF c = 0 THEN g ELSE RemoveBot(h[c - 1], NumSlots + 1 - c)]
  <2>1. ASSUME NEW c \in 0..NumSlots
        PROVE  (IF c = 0 THEN g ELSE f[c][h[c - 1]]) = IF c = 0 THEN g ELSE RemoveBot(h[c - 1], NumSlots + 1 - c)
    <3>1. CASE c = 0
      BY <3>1
    <3>2. CASE c # 0
      <4>1. c \in 1..NumSlots /\ c - 1 \in 0..NumSlots
        BY <1>0, <3>2
      <4>2. h[c - 1] \in S
        BY <1>5, <4>1
      <4> QED
        BY <1>4, <3>2, <4>1, <4>2
    <3> QED
      BY <3>1, <3>2
  <2> QED
    BY <1>5, <2>1, Zenon
<1>7. \E k : k = [c \in 0..NumSlots |-> IF c = 0 THEN g ELSE RemoveBot(k[c - 1], NumSlots + 1 - c)]
  BY <1>6
<1>8. after = [c \in 0..NumSlots |-> IF c = 0 THEN g ELSE RemoveBot(after[c - 1], NumSlots + 1 - c)]
  BY <1>7 DEF after
<1> HIDE DEF after
<1>9. after[NumSlots] \in S
  <2>1. after[0] \in S
    BY <1>0, <1>2, <1>8
  <2>2. \A c \in 1..NumSlots : after[c - 1] \in S => after[c] \in S
    BY <1>0, <1>3, <1>8
  <2> QED
    BY <1>0, <2>1, <2>2, RunStays
<1> QED
  BY <1>1, <1>9 DEF S, Sane

\* The teams are locked or unlocked.
LEMMA LockPassedSound ==
  ASSUME NEW g, Sound(g), NEW lock \in Flag, NEW r, r = LockPassed(g, lock)
  PROVE  Sound(r) /\ NoMatch(g, r)
<1>1. g \in GameType /\ Typed(g) /\ Owned(g) /\ g.locked \in Flag
  BY DEF Sound, Base, Typed, GameType
<1> DEFINE locked == IF InMatch(g) THEN lock ELSE g.locked
<1>2. locked \in Flag
  BY <1>1
<1>3. r = [g EXCEPT !.teamlock = lock, !.locked = locked]
  BY Zenon DEF LockPassed
<1> HIDE DEF locked
<1>4. \A x \in Flag, y \in Flag : [g EXCEPT !.teamlock = x, !.locked = y] \in GameType
  BY <1>1 DEF GameType
<1>5. r \in GameType
  BY <1>2, <1>3, <1>4
<1>6. SameMatch(g, r) /\ r.queue = g.queue /\ r.voted = g.voted /\ r.ownVote = g.ownVote
  BY <1>1, <1>3 DEF GameType, SameMatch
<1>7. Typed(r) /\ Owned(r)
  BY <1>1, <1>5, <1>6 DEF Typed, Owned, SameMatch, InUse
<1> QED
  BY <1>6, <1>7, SoundOfMatch

\* What was voted for is done.
LEMMA ExecuteSound ==
  ASSUME NEW g, Sound(g), IsVoting(g), NEW r, r = Execute(g)
  PROVE  Sound(r) /\ NoMatch(g, r)
<1>1. g.vote.kind \in VoteKinds /\ g.vote.target \in Slots /\ Base(g)
  BY DEF Sound, Base, Typed, GameType, IsVoting
<1>2. CASE g.vote.kind = "allready"
  <2>1. r = AllreadyPassed(g)
    BY <1>2 DEF Execute
  <2> QED
    BY <2>1, AllreadyPassedSound
<1>3. CASE g.vote.kind = "lock"
  <2>1. PICK x \in Flag : x = TRUE
    BY Zenon DEF Flag
  <2>2. r = LockPassed(g, x)
    BY <1>3, <2>1 DEF Execute
  <2> QED
    BY <2>2, LockPassedSound
<1>4. CASE g.vote.kind = "unlock"
  <2>1. PICK x \in Flag : x = FALSE
    BY Zenon DEF Flag
  <2>2. r = LockPassed(g, x)
    BY <1>4, <2>1 DEF Execute
  <2> QED
    BY <2>2, LockPassedSound
<1>5. CASE g.vote.kind = "kick"
  <2>1. PICK c \in Slots : c = g.vote.target
    BY <1>1
  <2>2. r = Disconnect(g, c)
    BY <1>5, <2>1 DEF Execute
  <2> QED
    BY <1>1, <2>2, DisconnectSound
<1>6. CASE g.vote.kind = "remove"
  <2>1. PICK c \in Slots : c = g.vote.target
    BY <1>1
  <2>2. r = RemovePassed(g, c)
    BY <1>6, <2>1 DEF Execute
  <2> QED
    BY <1>1, <2>2, RemovePassedSound
<1> QED
  BY <1>1, <1>2, <1>3, <1>4, <1>5, <1>6 DEF VoteKinds

\* A vote is looked at.
LEMMA CheckStateSound ==
  ASSUME NEW g, Sound(g), NEW idle, NEW r, r = CheckState(g, idle)
  PROVE  Sound(r) /\ NoMatch(g, r)
<1>1. CASE r = g
  BY <1>1, Unchanged
<1>2. CASE r = ResetVotes(g)
  BY <1>2, ResetVotesSound
<1>3. CASE IsVoting(g) /\ r = ResetVotes(Execute(g))
  <2>1. PICK x : x = Execute(g)
    OBVIOUS
  <2>2. Sound(x) /\ NoMatch(g, x)
    BY <1>3, <2>1, ExecuteSound
  <2>3. r = ResetVotes(x)
    BY <1>3, <2>1
  <2>4. Sound(r) /\ NoMatch(x, r)
    BY <2>2, <2>3, ResetVotesSound
  <2> QED
    BY <2>2, <2>4 DEF NoMatch
<1>4. r = g \/ r = ResetVotes(g) \/ (IsVoting(g) /\ r = ResetVotes(Execute(g)))
  BY Zenon DEF CheckState
<1> QED
  BY <1>1, <1>2, <1>3, <1>4

-----------------------------------------------------------------------------
(* A level begins.                                                         *)

\* Nobody is enough for a match.
LEMMA NobodyIsReady ==
  ASSUME NEW g, \A t \in Teams : g.list[t] = {}
  PROVE  ~AllReady(g)
<1>1. Count({}) = 0
  BY FS_EmptySet DEF Count
<1>2. CASE rules.teamBased
  BY <1>2 DEF AllReady, Enough, Teams
<1>3. CASE ~rules.teamBased
  <2>1. g.list["players"] = {}
    BY <1>3 DEF Teams
  <2> QED
    BY <1>1, <1>3, <2>1 DEF AllReady, Enough
<1> QED
  BY <1>2, <1>3

\* What is reset, apart from the votes.
Anew(g, team, ready, list) ==
  [g EXCEPT !.team = team, !.ready = ready, !.list = list, !.locked = FALSE, !.teamlock = FALSE,
            !.state = "warmup", !.waiting = FALSE, !.forceStart = FALSE,
            !.advance = FALSE, !.exitNow = FALSE, !.passed = {}]

\* Everything keeps its type.
LEMMA AnewTyped ==
  ASSUME NEW g, Typed(g), NEW team \in [Slots -> Teams \union {"spectators"}], NEW ready \in [Slots -> Flag],
         NEW list \in [Teams -> SUBSET Slots], NEW r, r = Anew(g, team, ready, list)
  PROVE  /\ Typed(r) /\ r.conn = g.conn /\ r.fake = g.fake /\ r.team = team /\ r.list = list
         /\ r.state = "warmup" /\ r.voted = g.voted /\ r.ownVote = g.ownVote
<1> DEFINE h == [g EXCEPT !.team = team, !.ready = ready, !.list = list]
<1>1. g \in GameType
  BY DEF Typed
<1>2. h \in GameType
  <2>1. \A t \in [Slots -> Teams \union {"spectators"}], x \in [Slots -> Flag], l \in [Teams -> SUBSET Slots] :
          [g EXCEPT !.team = t, !.ready = x, !.list = l] \in GameType
    BY <1>1 DEF GameType
  <2> QED
    BY <2>1
<1>3. /\ h.conn = g.conn /\ h.fake = g.fake /\ h.team = team /\ h.list = list /\ h.queue = g.queue
      /\ h.voted = g.voted /\ h.ownVote = g.ownVote
  BY <1>1 DEF GameType
<1>4. PICK x \in Flag : x = FALSE
  BY Zenon DEF Flag
<1>5. r = [h EXCEPT !.state = "warmup", !.waiting = x, !.passed = {}, !.forceStart = x,
                    !.advance = x, !.teamlock = x, !.locked = x, !.exitNow = x]
  BY <1>1, <1>4, ZenonT(40) DEF Anew, GameType
<1> HIDE DEF h
<1>6. PICK state \in States, passed \in SUBSET {"limit", "vote", "open"} : state = "warmup" /\ passed = {}
  BY DEF States
<1>7. Launched(h, r, state, x, passed, x, x, x, x, x)
  BY <1>5, <1>6 DEF Launched
<1>8. r \in GameType /\ SameTeams(h, r) /\ r.state = state /\ r.queue = h.queue
  BY <1>2, <1>4, <1>6, <1>7, LaunchedTyped
<1> QED
  BY <1>3, <1>6, <1>8 DEF Typed, SameTeams

\* A new level has spectators only, and waits for players.
LEMMA InitLevelSound ==
  ASSUME NEW g, Sound(g), NEW r, r = InitLevel(g)
  PROVE  /\ Sound(r) /\ NoMatch(g, r) /\ \A c \in Slots : r.team[c] = "spectators" /\ r.voted[c] = "nothing"
         /\ r.conn = g.conn /\ r.fake = g.fake
<1> DEFINE h     == ResetVotes(g)
           team  == [c \in Slots |-> "spectators"]
           ready == [c \in Slots |-> FALSE]
           list  == [t \in Teams |-> {}]
<1>1. h = ResetVotes(g) /\ r = Anew(h, team, ready, list)
  BY Zenon DEF InitLevel, Anew
<1>2. /\ team \in [Slots -> Teams \union {"spectators"}] /\ list \in [Teams -> SUBSET Slots]
      /\ \A c \in Slots : team[c] = "spectators"
      /\ \A t \in Teams : list[t] = {}
  OBVIOUS
<1>3. ready \in [Slots -> Flag]
  BY DEF Flag
<1> HIDE DEF h, team, ready, list
<1>4. Sound(h) /\ SameMatch(g, h) /\ h.voted = [c \in Slots |-> "nothing"]
  BY <1>1, ResetVotesSound
<1>5. Typed(h) /\ Owned(h) /\ rules \in Scenarios
  BY <1>4 DEF Sound, Base
<1>6. /\ Typed(r) /\ r.conn = h.conn /\ r.fake = h.fake /\ r.team = team /\ r.list = list
      /\ r.state = "warmup" /\ r.voted = h.voted /\ r.ownVote = h.ownVote
  BY <1>1, <1>2, <1>3, <1>5, AnewTyped
<1>7. \A t \in Teams : Members(r, t) = {}
  <2>1. "spectators" \notin Teams
    BY DEF Teams
  <2> QED
    BY <1>2, <1>6, <2>1 DEF Members
<1>8. Seated(r)
  <2>1. Count({}) = 0
    BY FS_EmptySet DEF Count
  <2>2. rules.maxPerTeam \in Nat
    BY <1>5, ScenariosAssumption
  <2> QED
    BY <1>7, <2>1, <2>2 DEF Seated
<1>9. Base(r) /\ ~AllReady(r)
  <2>1. Listed(r) /\ \A t \in Teams : r.list[t] = {}
    BY <1>2, <1>6, <1>7 DEF Listed
  <2>2. Owned(r)
    BY <1>5, <1>6 DEF Owned, InUse
  <2>3. Begun(r)
    BY <1>2, <1>6 DEF Begun, IsSpectator
  <2> QED
    BY <1>5, <1>6, <1>8, <2>1, <2>2, <2>3, NobodyIsReady DEF Base
<1>10. Sound(r) /\ NoMatch(g, r)
  BY <1>6, <1>9 DEF Sound, Counted, Started, NoMatch
<1>11. h.conn = g.conn /\ h.fake = g.fake
  <2>1. g \in GameType
    BY DEF Sound, Base, Typed
  <2> QED
    BY <1>1, <2>1 DEF ResetVotes, GameType
<1> QED
  BY <1>2, <1>4, <1>6, <1>10, <1>11

\* Clients begin anew.
LEMMA BeginAnew ==
  ASSUME NEW g, Sound(g), NEW conn \in [Slots -> ConnStates],
         \A c \in Slots : conn[c] \in {"connected", "spawned"} <=> InUse(g, c), \A c \in Slots : IsSpectator(g, c),
         NEW r, r = PutClient(g, conn, g.fake, g.team)
  PROVE  Sound(r)
<1>1. Typed(g) /\ g.fake \in [Slots -> Flag] /\ g.team \in [Slots -> Teams \union {"spectators"}] /\ Base(g)
  BY DEF Sound, Base, Typed, GameType
<1>2. /\ Typed(r) /\ r.conn = conn /\ r.team = g.team /\ r.list = g.list /\ r.ready = g.ready
      /\ r.state = g.state /\ r.forceStart = g.forceStart /\ r.voted = g.voted /\ r.ownVote = g.ownVote
  BY <1>1, ClientTyped
<1>3. \A c \in Slots : InUse(r, c) <=> InUse(g, c)
  BY <1>2 DEF InUse
<1>4. \A t \in Teams : Members(r, t) = Members(g, t)
  BY <1>2, <1>3 DEF Members
<1>5. \A t \in Teams : Considered(r, t) = Considered(g, t)
  <2>1. \A t \in Teams : g.list[t] \subseteq Slots
    BY <1>1 DEF Typed, GameType
  <2> QED
    BY <1>2, <1>3, <2>1 DEF Considered, IsSpectator
<1>6. AllReady(r) <=> AllReady(g)
  BY <1>2, <1>5 DEF AllReady, TeamIsReady, Enough
<1>7. Base(r)
  BY <1>1, <1>2, <1>3, <1>4 DEF Base, Listed, Seated, Owned, Begun, IsSpectator
<1> QED
  BY <1>2, <1>6, <1>7 DEF Sound, Counted, Started

-----------------------------------------------------------------------------
(* The steps.                                                              *)

\* What is chosen of a set of slots is in it.
LEMMA ChosenSlots ==
  ASSUME NEW S \in SUBSET Slots, S # {}
  PROVE  FirstOf(S) \in S /\ LastOf(S) \in S
<1>1. NumSlots \in Nat /\ \A c \in S : c \in Nat /\ c <= NumSlots
  BY CountsAssumption DEF Slots
<1>2. FirstOf(S) \in S
  <2>1. \E c \in S : \A d \in S : c <= d
    BY <1>1, LeastNumber
  <2> QED
    BY <2>1 DEF FirstOf
<1>3. LastOf(S) \in S
  <2> DEFINE D == {NumSlots - c : c \in S}
  <2>1. D \in SUBSET Nat /\ D # {}
    BY <1>1
  <2>2. PICK x \in D : \A y \in D : x <= y
    BY <2>1, LeastNumber
  <2>3. PICK c \in S : x = NumSlots - c
    BY <2>2
  <2>4. \A d \in S : d <= c
    <3>1. ASSUME NEW d \in S PROVE d <= c
      <4>1. NumSlots - c <= NumSlots - d
        BY <2>2, <2>3
      <4> QED
        BY <1>1, <4>1
    <3> QED
      BY <3>1
  <2>5. \E k \in S : \A d \in S : d <= k
    BY <2>4
  <2> QED
    BY <2>5 DEF LastOf
<1> QED
  BY <1>2, <1>3

\* A free slot is no more in use than that of a zombie.
LEMMA FreeSlotsAreFree ==
  ASSUME IInv, FreeSlots(game) # {}
  PROVE  FirstOf(FreeSlots(game)) \in Slots /\ ~InUse(game, FirstOf(FreeSlots(game)))
<1>1. rules.slots \in Slots
  BY ScenariosAssumption DEF IInv, Sound, Base
<1>2. FreeSlots(game) \in SUBSET Slots
  BY <1>1, CountsAssumption DEF FreeSlots, Slots
<1>3. FirstOf(FreeSlots(game)) \in FreeSlots(game)
  BY <1>2, ChosenSlots
<1> QED
  BY <1>2, <1>3 DEF FreeSlots, InUse

\* A client connects.
LEMMA ConnectStep ==
  ASSUME IInv, Connect
  PROVE  Sound(game') /\ NoMatch(game, game')
<1>1. PICK x \in Flag : x = FALSE
  BY Zenon DEF Flag
<1>2. Sound(game) /\ Base(game)
  BY DEF IInv, Sound
<1>3. CASE FreeSlots(game) # {} /\ game' = ClientConnect(game, FirstOf(FreeSlots(game)), FALSE)
  <2>1. PICK c : c = FirstOf(FreeSlots(game))
    OBVIOUS
  <2>2. c \in Slots /\ ~InUse(game, c) /\ game' = ClientConnect(game, c, x)
    BY <1>1, <1>3, <2>1, FreeSlotsAreFree
  <2> QED
    BY <1>2, <2>2, ClientConnectSound
<1>4. CASE Bots(game) # {} /\ game' = ClientConnect(Disconnect(game, LastOf(Bots(game))), LastOf(Bots(game)), FALSE)
  <2>1. PICK c : c = LastOf(Bots(game))
    OBVIOUS
  <2>2. c \in Slots
    BY <1>4, <2>1, ChosenSlots DEF Bots
  <2>3. PICK g : g = Disconnect(game, c)
    OBVIOUS
  <2>4. Sound(g) /\ NoMatch(game, g) /\ ~InUse(g, c)
    <3>1. Sound(g) /\ NoMatch(game, g) /\ g.conn[c] = "zombie"
      BY <1>2, <2>2, <2>3, DisconnectSound
    <3> QED
      BY <3>1 DEF InUse
  <2>5. game' = ClientConnect(g, c, x)
    BY <1>1, <1>4, <2>1, <2>3
  <2>6. Sound(game') /\ NoMatch(g, game')
    BY <2>2, <2>4, <2>5, ClientConnectSound
  <2> QED
    BY <2>4, <2>6 DEF NoMatch
<1> QED
  BY <1>3, <1>4 DEF Connect

\* A bot connects.
LEMMA BotConnectsStep ==
  ASSUME IInv, BotConnects
  PROVE  Sound(game') /\ NoMatch(game, game')
<1>1. PICK x \in Flag : x = TRUE
  BY Zenon DEF Flag
<1>2. PICK c : c = FirstOf(FreeSlots(game))
  OBVIOUS
<1>3. c \in Slots /\ ~InUse(game, c) /\ game' = ClientConnect(game, c, x)
  BY <1>1, <1>2, FreeSlotsAreFree DEF BotConnects
<1> QED
  BY <1>3, ClientConnectSound DEF IInv

\* A bot leaves.
LEMMA BotLeavesStep ==
  ASSUME IInv, BotLeaves
  PROVE  Sound(game') /\ NoMatch(game, game')
<1>1. PICK c : c = FirstOf(Bots(game))
  OBVIOUS
<1>2. c \in Slots /\ game' = Disconnect(game, c)
  BY <1>1, ChosenSlots DEF BotLeaves, Bots
<1> QED
  BY <1>2, DisconnectSound DEF IInv, Sound

\* An operator votes for everybody.
LEMMA OperatorVoteStep ==
  ASSUME IInv, OperatorVote
  PROVE  Sound(game') /\ NoMatch(game, game')
<1>1. PICK v \in {"yes", "no"} :
        game' = [game EXCEPT !.voted = [c \in Slots |-> IF c \in Humans(game) THEN v ELSE @[c]],
                             !.ownVote = [c \in Slots |-> @[c] \/ c \in Humans(game)]]
  BY DEF OperatorVote
<1> DEFINE voted == [c \in Slots |-> IF c \in Humans(game) THEN v ELSE game.voted[c]]
           own   == [c \in Slots |-> game.ownVote[c] \/ c \in Humans(game)]
<1>2. game \in GameType /\ Typed(game) /\ Owned(game)
  BY DEF IInv, Sound, Base, Typed
<1>3. voted \in [Slots -> {"nothing", "yes", "no"}] /\ game.changes \in [Slots -> 0..rules.voteChanges]
  BY <1>2 DEF GameType
<1>4. own \in [Slots -> Flag]
  BY <1>2 DEF GameType, Flag
<1>5. game' = [game EXCEPT !.voted = voted, !.ownVote = own]
  BY <1>1, Zenon
<1>6. \A c \in Slots : InUse(game, c) /\ voted[c] # "nothing" => own[c]
  BY <1>2 DEF Owned
<1> HIDE DEF voted, own
<1>7. game' = PutVotes(game, voted, game.changes, own)
  BY <1>2, <1>5 DEF PutVotes, GameType
<1>8. Typed(game') /\ SameMatch(game, game') /\ game'.voted = voted /\ game'.ownVote = own
  BY <1>2, <1>3, <1>4, <1>7, VotesTyped
<1>9. Owned(game')
  BY <1>6, <1>8 DEF Owned, SameMatch, InUse
<1> QED
  BY <1>8, <1>9, SoundOfMatch DEF IInv

\* A client begins.
LEMMA BeginStep ==
  ASSUME IInv, NEW c \in Slots, Begin(c)
  PROVE  Sound(game') /\ NoMatch(game, game')
<1>1. PICK x \in ConnStates : x = "spawned"
  BY DEF ConnStates
<1>2. PICK h : h = PutConn(game, c, x)
  OBVIOUS
<1>3. game' = Respawn(h, c, "spectators")
  BY <1>1, <1>2 DEF Begin, PutConn
<1>4. InUse(game, c) /\ x # "connected" /\ x \in {"connected", "spawned"} /\ Sound(game)
  BY <1>1 DEF Begin, InUse, IInv
<1>5. /\ Sound(h) /\ NoMatch(game, h) /\ h.conn = [game.conn EXCEPT ![c] = x]
      /\ h.team = game.team /\ h.fake = game.fake
  BY <1>2, <1>4, ConnSound
<1>6. h.team[c] = "spectators" /\ h.team \in [Slots -> Teams \union {"spectators"}] /\ Typed(h) /\ Owned(h)
  BY <1>5 DEF Begin, IInv, Sound, Base, Begun, IsSpectator, Typed, GameType
<1>7. game' = [h EXCEPT !.team[c] = "spectators"]
  BY <1>3, <1>6 DEF Respawn
<1>8. PICK t \in Teams \union {"spectators"} : t = "spectators"
  OBVIOUS
<1>9. PICK m : m = [h EXCEPT !.team[c] = t]
  OBVIOUS
<1>10. /\ Typed(m) /\ m.team = [h.team EXCEPT ![c] = t] /\ m.conn = h.conn /\ m.fake = h.fake /\ m.ready = h.ready
       /\ m.list = h.list /\ m.voted = h.voted /\ m.ownVote = h.ownVote
       /\ m.state = h.state /\ m.forceStart = h.forceStart /\ m.queue = h.queue
  BY <1>6, <1>9, MovedTyped
<1>11. SameMatch(h, m) /\ Owned(m)
  BY <1>6, <1>8, <1>10 DEF SameMatch, Owned, InUse
<1>12. Sound(m) /\ NoMatch(h, m)
  BY <1>5, <1>10, <1>11, SoundOfMatch
<1> QED
  BY <1>5, <1>7, <1>8, <1>9, <1>12 DEF NoMatch

\* A client leaves.
LEMMA LeaveStep ==
  ASSUME IInv, NEW c \in Slots, Leave(c)
  PROVE  Sound(game') /\ NoMatch(game, game')
  BY DisconnectSound DEF IInv, Sound, Leave

\* A slot that is not in use gets free.
LEMMA FreedSound ==
  ASSUME NEW g, Sound(g), NEW c \in Slots, g.conn[c] = "zombie", NEW r, r = PutConn(g, c, "free")
  PROVE  Sound(r) /\ NoMatch(g, r)
<1>1. PICK x \in ConnStates : x = "free"
  BY DEF ConnStates
<1>2. ~InUse(g, c) /\ x # "connected" /\ x # "spawned" /\ r = PutConn(g, c, x)
  BY <1>1 DEF InUse
<1> QED
  BY <1>2, ConnSound

\* A client times out.
LEMMA TimeOutStep ==
  ASSUME IInv, NEW c \in Slots, TimeOut(c)
  PROVE  Sound(game') /\ NoMatch(game, game')
<1>1. PICK g : g = Disconnect(game, c)
  OBVIOUS
<1>2. Sound(g) /\ NoMatch(game, g) /\ g.conn[c] = "zombie"
  BY <1>1, DisconnectSound DEF IInv, Sound
<1>3. game' = PutConn(g, c, "free")
  BY <1>1 DEF TimeOut, PutConn
<1>4. Sound(game') /\ NoMatch(g, game')
  BY <1>2, <1>3, FreedSound
<1> QED
  BY <1>2, <1>4 DEF NoMatch

\* The time of a zombie is over.
LEMMA ZombieTimePassesStep ==
  ASSUME IInv, NEW c \in Slots, ZombieTimePasses(c)
  PROVE  Sound(game') /\ NoMatch(game, game')
<1>1. game' = PutConn(game, c, "free") /\ game.conn[c] = "zombie"
  BY DEF ZombieTimePasses, PutConn
<1> QED
  BY <1>1, FreedSound DEF IInv

\* A client joins any team.
LEMMA JoinStep ==
  ASSUME IInv, NEW c \in Slots, Join(c)
  PROVE  Sound(game') /\ NoMatch(game, game')
<1>1. PICK x \in BOOLEAN : x = FALSE
  OBVIOUS
<1>2. PICK r : r = JoinAnyTeam(game, c, x)
  OBVIOUS
<1>3. game' = r.g /\ IsSpawned(game, c) /\ Sound(game)
  BY <1>1, <1>2 DEF Join, IInv
<1>4. Sound(r.g) /\ NoMatch(game, r.g)
  BY <1>2, <1>3, JoinAnyTeamSound
<1> QED
  BY <1>3, <1>4

\* A client joins a team of its choice.
LEMMA JoinTeamCmdStep ==
  ASSUME IInv, NEW c \in Slots, JoinTeamCmd(c)
  PROVE  Sound(game') /\ NoMatch(game, game')
<1>1. PICK t \in Teams : game' = JoinTeam(game, c, t)
  BY DEF JoinTeamCmd
<1>2. IsSpawned(game, c) /\ Sound(game)
  BY DEF JoinTeamCmd, Humans, IInv
<1> QED
  BY <1>1, <1>2, JoinTeamSound

\* A client becomes a spectator who is in no queue.
LEMMA Spec_fStep ==
  ASSUME IInv, NEW c \in Slots, Spec_f(c)
  PROVE  Sound(game') /\ NoMatch(game, game')
<1>1. Sound(game) /\ Base(game) /\ UpdateMembersList(game) = game
  BY ListIsKept DEF IInv, Sound
<1>2. CASE IsSpectator(game, c)
  <2>1. game' = PutQueue(game, Without(game.queue, c))
    BY <1>2, Zenon DEF Spec_f, PutQueue
  <2>2. Ranking(Without(game.queue, c))
    BY <1>1, QueueOf, WithoutRanking
  <2> QED
    BY <1>1, <2>1, <2>2, QueueSound
<1>3. CASE ~IsSpectator(game, c)
  <2>1. game' = RemovePassed(game, c)
    BY <1>1, <1>3, Zenon DEF Spec_f, RemovePassed
  <2> QED
    BY <1>1, <2>1, RemovePassedSound
<1> QED
  BY <1>2, <1>3

\* The queue is entered and left.
LEMMA QueueSteps ==
  ASSUME IInv, NEW c \in Slots, EnterQueue(c) \/ LeaveQueueCmd(c)
  PROVE  Sound(game') /\ NoMatch(game, game')
<1>1. CASE game' = JoinQueue(game, c)
  BY <1>1, JoinQueueSound DEF IInv
<1>2. CASE game' = LeaveQueue(game, c)
  BY <1>2, LeaveQueueSound DEF IInv
<1> QED
  BY <1>1, <1>2 DEF EnterQueue, LeaveQueueCmd

\* The readiness of a player changes.
LEMMA ReadySteps ==
  ASSUME IInv, NEW c \in Slots, Ready(c) \/ NotReady(c)
  PROVE  Sound(game') /\ NoMatch(game, game')
<1>1. PICK x \in Flag : game' = CheckReadys(PutReady(game, c, x))
  <2>1. CASE Ready(c)
    <3>1. PICK y \in Flag : y = TRUE
      BY Zenon DEF Flag
    <3>2. game' = CheckReadys(PutReady(game, c, y))
      BY <2>1, <3>1, Zenon DEF Ready, PutReady
    <3> QED
      BY <3>2
  <2>2. CASE NotReady(c)
    <3>1. PICK y \in Flag : y = FALSE
      BY Zenon DEF Flag
    <3>2. game' = CheckReadys(PutReady(game, c, y))
      BY <2>2, <3>1, Zenon DEF NotReady, PutReady
    <3> QED
      BY <3>2
  <2> QED
    BY <2>1, <2>2
<1>2. PICK s : s = PutReady(game, c, x)
  OBVIOUS
<1>3. Base(game)
  BY DEF IInv, Sound
<1>4. /\ Base(s) /\ s.ready = [game.ready EXCEPT ![c] = x] /\ s.team = game.team /\ s.conn = game.conn /\ s.fake = game.fake
      /\ s.list = game.list /\ s.state = game.state /\ s.forceStart = game.forceStart /\ s.queue = game.queue
  BY <1>2, <1>3, ReadyTyped
<1>5. Sound(game') /\ NoMatch(s, game')
  BY <1>1, <1>2, <1>4, CheckReadysSound
<1> QED
  BY <1>4, <1>5 DEF NoMatch

\* Inactive players are removed.
LEMMA InactivityRemoveStep ==
  ASSUME IInv, NEW c \in Slots, InactivityRemove(c)
  PROVE  Sound(game') /\ NoMatch(game, game')
<1>1. game' = RemovePassed(game, c)
  BY Zenon DEF InactivityRemove, RemovePassed
<1> QED
  BY <1>1, RemovePassedSound DEF IInv, Sound

\* The end of a level is asked for.
LEMMA ExitButtonStep ==
  ASSUME IInv, NEW c \in Slots, ExitButton(c)
  PROVE  Sound(game') /\ NoMatch(game, game')
<1>1. game' = Leaving(game) /\ Sound(game) /\ Base(game)
  BY DEF ExitButton, Leaving, IInv, Sound
<1>2. Base(game') /\ Beside(game, game')
  BY <1>1, PutTyped
<1> QED
  BY <1>1, <1>2, SoundOfTeams

\* A point of time passes.
LEMMA ElapseStep ==
  ASSUME IInv, NEW point \in {"limit", "vote", "open"}, Elapse(point)
  PROVE  Sound(game') /\ NoMatch(game, game')
<1>1. Sound(game) /\ Base(game) /\ game.passed \in SUBSET {"limit", "vote", "open"}
  BY DEF IInv, Sound, Base, Typed, GameType
<1>2. PICK x \in SUBSET {"limit", "vote", "open"} : x = game.passed \union {point}
  BY <1>1
<1>3. game' = [game EXCEPT !.passed = x]
  BY <1>2 DEF Elapse
<1>4. Base(game') /\ Beside(game, game')
  BY <1>1, <1>3, PassedTyped
<1> QED
  BY <1>1, <1>4, SoundOfTeams

\* A level ends.
LEMMA ExitLevelStep ==
  ASSUME IInv, NEW sameMap \in BOOLEAN, ExitLevel(sameMap)
  PROVE  Sound(game') /\ NoMatch(game, game')
<1>1. Sound(game)
  BY DEF IInv
<1>2. CASE sameMap
  <2>1. PICK g : g = InitLevel(game)
    OBVIOUS
  <2>2. Sound(g) /\ NoMatch(game, g)
    BY <1>1, <2>1, InitLevelSound
  <2>3. game' = RemoveBots(g)
    BY <1>2, <2>1 DEF ExitLevel
  <2>4. Sound(game') /\ NoMatch(g, game')
    BY <2>2, <2>3, RemoveBotsSound
  <2> QED
    BY <2>2, <2>4 DEF NoMatch
<1>3. CASE ~sameMap
  <2>1. PICK h : h = RemoveBots(game)
    OBVIOUS
  <2>2. Sound(h) /\ NoMatch(game, h)
    BY <1>1, <2>1, RemoveBotsSound
  <2>3. PICK g : g = InitLevel(h)
    OBVIOUS
  <2>4. Sound(g) /\ NoMatch(h, g) /\ \A c \in Slots : g.team[c] = "spectators"
    <3>1. /\ Sound(g) /\ NoMatch(h, g) /\ \A c \in Slots : g.team[c] = "spectators" /\ g.voted[c] = "nothing"
          /\ g.conn = h.conn /\ g.fake = h.fake
      BY <2>2, <2>3, InitLevelSound
    <3> QED
      BY <3>1
  <2>5. g \in GameType /\ g.conn \in [Slots -> ConnStates]
    BY <2>4 DEF Sound, Base, Typed, GameType, ConnStates
  <2> DEFINE conn == [c \in Slots |-> IF InUse(g, c) THEN "connected" ELSE g.conn[c]]
  <2>6. conn \in [Slots -> ConnStates] /\ \A c \in Slots : conn[c] \in {"connected", "spawned"} <=> InUse(g, c)
    BY <2>5 DEF ConnStates, InUse
  <2>7. game' = [g EXCEPT !.conn = conn]
    BY <1>3, <2>1, <2>3, Zenon DEF ExitLevel
  <2> HIDE DEF conn
  <2>8. game' = PutClient(g, conn, g.fake, g.team)
    BY <2>5, <2>7 DEF PutClient, GameType
  <2>9. \A c \in Slots : IsSpectator(g, c)
    BY <2>4 DEF IsSpectator
  <2>10. Sound(game')
    BY <2>4, <2>6, <2>8, <2>9, BeginAnew
  <2>11. game'.state = g.state
    BY <2>5, <2>7 DEF GameType
  <2> QED
    BY <2>2, <2>4, <2>10, <2>11 DEF NoMatch
<1> QED
  BY <1>2, <1>3

\* A client votes; the first to do so calls the vote.
Cast(g, c, v)    == [g EXCEPT !.voted[c] = v, !.changes[c] = @ - 1, !.ownVote[c] = TRUE]
Call(g, c, vote) == [ResetVotes(g) EXCEPT !.vote = vote, !.voted[c] = "yes", !.changes[c] = @ - 1, !.ownVote[c] = TRUE]

\* A vote is cast.
LEMMA CastSound ==
  ASSUME NEW g, Sound(g), NEW c \in Slots, NEW v \in {"yes", "no"}, g.changes[c] # 0, NEW r, r = Cast(g, c, v)
  PROVE  Sound(r) /\ NoMatch(g, r)
<1> DEFINE voted   == [g.voted EXCEPT ![c] = v]
           changes == [g.changes EXCEPT ![c] = g.changes[c] - 1]
           own     == [g.ownVote EXCEPT ![c] = TRUE]
<1>1. g \in GameType /\ Typed(g) /\ Owned(g) /\ rules.voteChanges \in Nat
  BY ScenariosAssumption DEF Sound, Base, Typed
<1>2. voted \in [Slots -> {"nothing", "yes", "no"}] /\ own \in [Slots -> Flag]
  BY <1>1 DEF GameType, Flag
<1>3. changes \in [Slots -> 0..rules.voteChanges]
  <2>1. g.changes \in [Slots -> 0..rules.voteChanges]
    BY <1>1 DEF GameType
  <2>2. g.changes[c] - 1 \in 0..rules.voteChanges
    BY <1>1, <2>1
  <2> QED
    BY <2>1, <2>2
<1>4. \A d \in Slots : InUse(g, d) /\ voted[d] # "nothing" => own[d]
  BY <1>1 DEF Owned, GameType
<1>5. r = [g EXCEPT !.voted = voted, !.changes = changes, !.ownVote = own]
  BY Zenon DEF Cast
<1> HIDE DEF voted, changes, own
<1>6. r = PutVotes(g, voted, changes, own)
  BY <1>5 DEF PutVotes
<1>7. Typed(r) /\ SameMatch(g, r) /\ r.voted = voted /\ r.ownVote = own
  BY <1>1, <1>2, <1>3, <1>6, VotesTyped
<1>8. Owned(r)
  BY <1>4, <1>7 DEF Owned, SameMatch, InUse
<1> QED
  BY <1>7, <1>8, SoundOfMatch

\* A vote is called.
LEMMA CallVoteStep ==
  ASSUME IInv, NEW c \in Slots, CallVote(c)
  PROVE  Sound(game') /\ NoMatch(game, game')
<1>1. PICK kind \in rules.votes, target \in Slots, op \in BOOLEAN, idle \in Idles(game), thinks \in BOOLEAN :
        LET started == Call(game, c, [kind |-> kind, target |-> target, op |-> op])
        IN game' = IF thinks THEN CheckState(started, idle) ELSE started
  <2>1. PICK kind \in rules.votes, target \in Slots, op \in BOOLEAN, idle \in Idles(game), thinks \in BOOLEAN :
          LET vote    == [kind |-> kind, target |-> target, op |-> op]
              started == [ResetVotes(game) EXCEPT !.vote = vote, !.voted[c] = "yes", !.changes[c] = @ - 1,
                                                  !.ownVote[c] = TRUE]
          IN /\ c \in Humans(game) /\ ~IsVoting(game)
             /\ op => rules.operators
             /\ op \/ MayCallVote(game, c)
             /\ kind \notin {"kick", "remove"} => target = 1
             /\ c \notin idle
             /\ Validates(game, vote)
             /\ game' = IF thinks THEN CheckState(started, idle) ELSE started
    BY Zenon DEF CallVote
  <2>2. LET started == Call(game, c, [kind |-> kind, target |-> target, op |-> op])
        IN game' = IF thinks THEN CheckState(started, idle) ELSE started
    BY <2>1, Zenon DEF Call
  <2> QED
    BY <2>2
<1> DEFINE vote    == [kind |-> kind, target |-> target, op |-> op]
           started == Call(game, c, vote)
<1>2. game' = IF thinks THEN CheckState(started, idle) ELSE started
  BY <1>1
<1>3. vote \in VoteType
  <2>1. kind \in VoteKinds
    BY ScenariosAssumption DEF IInv, Sound, Base
  <2> QED
    BY <2>1 DEF VoteType, Flag
<1>4. PICK h : h = ResetVotes(game)
  OBVIOUS
<1>5. /\ Sound(h) /\ NoMatch(game, h) /\ SameMatch(game, h)
      /\ h.voted = [d \in Slots |-> "nothing"] /\ h.changes = [d \in Slots |-> rules.voteChanges]
  BY <1>4, ResetVotesSound DEF IInv
<1>6. Typed(h) /\ Owned(h) /\ h \in GameType /\ h.passed \in SUBSET {"limit", "vote", "open"} /\ rules \in Scenarios
  BY <1>5 DEF Sound, Base, Typed, GameType
<1> DEFINE k == PutVote(h, vote, h.passed)
<1>7. started = Cast(k, c, "yes")
  <2> HIDE DEF vote
  <2> QED
    BY <1>4, <1>6 DEF PutVote, GameType, Call, Cast
<1> HIDE DEF vote, started
<1>8. /\ Typed(k) /\ SameMatch(h, k) /\ k.vote = vote /\ k.passed = h.passed
      /\ k.voted = h.voted /\ k.changes = h.changes /\ k.ownVote = h.ownVote /\ k.fake = h.fake
  BY <1>3, <1>6, VoteTyped
<1> HIDE DEF k
<1>9. Sound(k) /\ NoMatch(h, k)
  <2>1. Owned(k)
    BY <1>6, <1>8 DEF Owned, SameMatch, InUse
  <2> QED
    BY <1>5, <1>8, <2>1, SoundOfMatch
<1>10. k.changes[c] # 0
  <2>1. rules.voteChanges \in Nat \ {0}
    BY <1>6, ScenariosAssumption
  <2> QED
    BY <1>5, <1>8, <2>1
<1>11. PICK v \in {"yes", "no"} : v = "yes"
  OBVIOUS
<1>12. started = Cast(k, c, v)
  BY <1>7, <1>11
<1>13. Sound(started) /\ NoMatch(k, started)
  BY <1>9, <1>10, <1>12, CastSound
<1>14. Sound(game') /\ NoMatch(started, game')
  BY <1>2, <1>13, CheckStateSound, Unchanged
<1> QED
  BY <1>5, <1>9, <1>13, <1>14 DEF NoMatch

\* A client votes.
LEMMA VoteStep ==
  ASSUME IInv, NEW c \in Slots, Vote(c)
  PROVE  Sound(game') /\ NoMatch(game, game')
<1>1. PICK v \in {"yes", "no"}, idle \in Idles(game) : HasChanges(game, c) /\ game' = CheckState(Cast(game, c, v), idle)
  BY Zenon DEF Vote, Cast
<1>2. PICK k : k = Cast(game, c, v)
  OBVIOUS
<1>3. Sound(k) /\ NoMatch(game, k)
  BY <1>1, <1>2, CastSound DEF IInv, HasChanges
<1>4. game' = CheckState(k, idle)
  BY <1>1, <1>2
<1>5. Sound(game') /\ NoMatch(k, game')
  BY <1>3, <1>4, CheckStateSound
<1> QED
  BY <1>3, <1>5 DEF NoMatch

\* An order of scores names nobody twice.
LEMMA RankingsAreRankings ==
  ASSUME NEW g, NEW ranking \in Rankings(g)
  PROVE  Ranking(ranking)
<1>1. CASE ranking = <<>>
  BY <1>1 DEF Ranking, IsInjective
<1>2. CASE ranking \in [Slots -> Slots] /\ \A c \in Slots : \E i \in Slots : ranking[i] = c
  <2>1. IsFiniteSet(Slots)
    BY CountsAssumption, FS_Interval DEF Slots
  <2>2. ranking \in Surjection(Slots, Slots)
    BY <1>2 DEF Surjection
  <2>3. ranking \in Injection(Slots, Slots)
    BY <2>1, <2>2, FS_SurjSameCardinalityImpliesInj
  <2>4. ranking \in Seq(Slots)
    <3>1. Slots = 1..NumSlots /\ NumSlots \in Nat
      BY CountsAssumption DEF Slots
    <3>2. \A n \in Nat : \A S : \A f \in [1..n -> S] : f \in Seq(S)
      OBVIOUS
    <3> QED
      BY <1>2, <3>1, <3>2
  <2> QED
    BY <2>3, <2>4 DEF Injection, Ranking
<1> QED
  BY <1>1, <1>2 DEF Rankings

\* The frame of the gametype: a match begins with enough players.
LEMMA RunGametypeSound ==
  ASSUME NEW g, Sound(g), NEW ranking, Ranking(ranking), NEW r, r = RunGametype(g, ranking)
  PROVE  Sound(r) /\ (r.state = "playtime" => g.state = "playtime" \/ Enough(r))
<1>1. PICK x : x = ExecuteChallengersQueue(g)
  OBVIOUS
<1>2. Sound(x) /\ NoMatch(g, x)
  BY <1>1, ExecuteChallengersSound
<1>3. UpdateMembersList(x) = x
  BY <1>2, ListIsKept DEF Sound
<1>4. PICK y : y = CheckStateAbort(x)
  OBVIOUS
<1>5. Sound(y) /\ NoMatch(x, y) /\ (y.state = "countdown" => Enough(y))
  BY <1>2, <1>4, CheckStateAbortSound
<1>6. r = ThinkRules(y, ranking)
  BY <1>1, <1>3, <1>4 DEF RunGametype
<1>7. /\ Sound(r)
      /\ r.state = "playtime" => y.state = "playtime" \/ (y.state = "countdown" /\ (Enough(r) <=> Enough(y)))
  BY <1>5, <1>6, ThinkRulesSound
<1> QED
  BY <1>2, <1>5, <1>7 DEF NoMatch

\* A frame.
LEMMA FrameStep ==
  ASSUME IInv, NEW thinks \in BOOLEAN, Frame(thinks)
  PROVE  Sound(game') /\ (game'.state = "playtime" => game.state = "playtime" \/ Enough(game'))
<1>1. PICK idle \in Absent(game), ranking \in Rankings(game) : game' = AfterFrame(game, thinks, idle, ranking)
  BY DEF Frame
<1>2. Ranking(ranking)
  BY RankingsAreRankings
<1>3. PICK x : x = IF thinks THEN CheckState(game, idle) ELSE game
  OBVIOUS
<1>4. Sound(x) /\ NoMatch(game, x)
  BY <1>3, CheckStateSound, Unchanged DEF IInv
<1>5. PICK y : y = IF x.waiting THEN [x EXCEPT !.passed = @ \ {"limit"}] ELSE x
  OBVIOUS
<1>6. Sound(y) /\ NoMatch(x, y)
  <2>1. CASE ~x.waiting
    BY <1>4, <1>5, <2>1, Unchanged
  <2>2. CASE x.waiting
    <3>1. Base(x) /\ x.passed \in SUBSET {"limit", "vote", "open"}
      BY <1>4 DEF Sound, Base, Typed, GameType
    <3>2. PICK p \in SUBSET {"limit", "vote", "open"} : p = x.passed \ {"limit"}
      BY <3>1
    <3>3. y = [x EXCEPT !.passed = p]
      BY <1>5, <2>2, <3>2
    <3>4. Base(y) /\ Beside(x, y)
      BY <3>1, <3>3, PassedTyped
    <3> QED
      BY <1>4, <3>4, SoundOfTeams
  <2> QED
    BY <2>1, <2>2
<1>7. game' = RunGametype(y, ranking)
  BY <1>1, <1>3, <1>5, Zenon DEF AfterFrame
<1>8. Sound(game') /\ (game'.state = "playtime" => y.state = "playtime" \/ Enough(game'))
  BY <1>2, <1>6, <1>7, RunGametypeSound
<1> QED
  BY <1>4, <1>6, <1>8 DEF NoMatch

\* Every step leaves a sound state, and starts no match without enough players.
LEMMA NextStep ==
  ASSUME IInv, Next
  PROVE  Sound(game') /\ (game'.state = "playtime" => game.state = "playtime" \/ Enough(game'))
<1>1. CASE Connect
  BY <1>1, ConnectStep DEF NoMatch
<1>2. CASE BotConnects
  BY <1>2, BotConnectsStep DEF NoMatch
<1>3. CASE BotLeaves
  BY <1>3, BotLeavesStep DEF NoMatch
<1>4. CASE OperatorVote
  BY <1>4, OperatorVoteStep DEF NoMatch
<1>5. ASSUME NEW c \in Slots,
             \/ Begin(c) \/ Leave(c) \/ TimeOut(c) \/ ZombieTimePasses(c)
             \/ Join(c) \/ JoinTeamCmd(c) \/ Spec_f(c) \/ EnterQueue(c) \/ LeaveQueueCmd(c)
             \/ Ready(c) \/ NotReady(c) \/ InactivityRemove(c) \/ ExitButton(c)
             \/ CallVote(c) \/ Vote(c)
      PROVE  Sound(game') /\ NoMatch(game, game')
  BY <1>5, BeginStep, LeaveStep, TimeOutStep, ZombieTimePassesStep, JoinStep, JoinTeamCmdStep, Spec_fStep,
     QueueSteps, ReadySteps, InactivityRemoveStep, ExitButtonStep, CallVoteStep, VoteStep
<1>6. ASSUME NEW point \in {"limit", "vote", "open"}, Elapse(point)
      PROVE  Sound(game') /\ NoMatch(game, game')
  BY <1>6, ElapseStep
<1>7. ASSUME NEW thinks \in BOOLEAN, Frame(thinks)
      PROVE  Sound(game') /\ (game'.state = "playtime" => game.state = "playtime" \/ Enough(game'))
  BY <1>7, FrameStep
<1>8. ASSUME NEW sameMap \in BOOLEAN, ExitLevel(sameMap)
      PROVE  Sound(game') /\ NoMatch(game, game')
  BY <1>8, ExitLevelStep
<1> QED
  BY <1>1, <1>2, <1>3, <1>4, <1>5, <1>6, <1>7, <1>8 DEF Next, NoMatch

\* The rules stay.
LEMMA InvariantKept ==
  ASSUME IInv, [Next]_vars
  PROVE  IInv'
<1>1. rules' = rules /\ Sound(game')
  <2>1. CASE Next
    <3>1. rules' = rules
      BY <2>1, Zenon DEF Next
    <3> QED
      BY <2>1, <3>1, NextStep
  <2>2. CASE UNCHANGED vars
    BY <2>2 DEF vars, IInv
  <2> QED
    BY <2>1, <2>2
<1>2. Teams' = Teams
  BY <1>1 DEF Teams
<1>3. GameType' = GameType
  BY <1>1, <1>2, Zenon DEF GameType
<1>4. \A t \in Teams : Members(game, t)' = Members(game', t)
  BY DEF Members, InUse
<1>5. Typed(game)'
  BY <1>1, <1>3 DEF Sound, Base, Typed
<1>6. Listed(game)'
  BY <1>1, <1>2, <1>4 DEF Sound, Base, Listed
<1>7. Seated(game)'
  BY <1>1, <1>2, <1>4 DEF Sound, Base, Seated, Count
<1>8. Owned(game)' /\ Begun(game)'
  BY <1>1 DEF Sound, Base, Owned, Begun, InUse, IsSpectator
<1>9. AllReady(game)' <=> AllReady(game')
  BY <1>1, <1>2, Zenon DEF AllReady, Enough, Count, TeamIsReady, Considered, InUse, IsSpectator
<1>10. Base(game)'
  BY <1>1, <1>5, <1>6, <1>7, <1>8 DEF Sound, Base
<1> QED
  BY <1>1, <1>9, <1>10 DEF IInv, Sound, Counted, Started

\* The first level has nobody in it.
LEMMA InitHolds ==
  ASSUME Init
  PROVE  IInv
<1>1. rules \in Scenarios /\ rules.maxPerTeam \in Nat /\ rules.voteChanges \in Nat
  BY ScenariosAssumption DEF Init
<1>2. /\ [c \in Slots |-> "nothing"] \in [Slots -> {"nothing", "yes", "no"}]
      /\ [c \in Slots |-> rules.voteChanges] \in [Slots -> 0..rules.voteChanges]
      /\ [c \in Slots |-> FALSE] \in [Slots -> Flag] /\ NoVote \in VoteType
  BY <1>1, NoVotes
<1>3. PICK x \in Flag : x = FALSE
  BY Zenon DEF Flag
<1>4. PICK free \in [Slots -> ConnStates] : free = [c \in Slots |-> "free"]
  BY DEF ConnStates
<1>5. PICK nobody \in [Slots -> Flag] : nobody = [c \in Slots |-> FALSE]
  BY <1>2
<1>6. PICK team \in [Slots -> Teams \union {"spectators"}] : team = [c \in Slots |-> "spectators"]
  OBVIOUS
<1>7. PICK list \in [Teams -> SUBSET Slots] : list = [t \in Teams |-> {}]
  OBVIOUS
<1>8. PICK voted \in [Slots -> {"nothing", "yes", "no"}] : voted = [c \in Slots |-> "nothing"]
  BY <1>2
<1>9. PICK changes \in [Slots -> 0..rules.voteChanges] : changes = [c \in Slots |-> rules.voteChanges]
  BY <1>2
<1>10. game = [conn |-> free, fake |-> nobody, team |-> team, ready |-> nobody,
               list |-> list, locked |-> x, teamlock |-> x, queue |-> <<>>,
               state |-> "warmup", waiting |-> x, forceStart |-> x, advance |-> x,
               exitNow |-> x, passed |-> {}, vote |-> NoVote, voted |-> voted,
               changes |-> changes, ownVote |-> nobody]
  BY <1>3, <1>4, <1>5, <1>6, <1>7, <1>8, <1>9, Zenon DEF Init
<1>11. game \in GameType
  <2>1. "warmup" \in States /\ <<>> \in Seq(Slots)
    BY DEF States
  <2> QED
    BY <1>2, <1>10, <2>1 DEF GameType, ConnStates, VoteType
<1>12. Typed(game)
  BY <1>10, <1>11 DEF Typed, IsInjective
<1>13. \A c \in Slots : game.conn[c] = "free" /\ game.voted[c] = "nothing"
  BY <1>4, <1>8, <1>10
<1>14. \A t \in Teams : Members(game, t) = {} /\ game.list[t] = {}
  BY <1>7, <1>10, <1>13 DEF Members, InUse
<1>15. Seated(game)
  <2>1. Count({}) = 0
    BY FS_EmptySet DEF Count
  <2>2. \A t \in Teams : Count(Members(game, t)) <= rules.maxPerTeam
    <3>1. \A t \in Teams : Count(Members(game, t)) = 0
      BY <1>14, <2>1, Zenon
    <3> QED
      BY <1>1, <3>1
  <2> QED
    BY <2>2 DEF Seated
<1>16. Base(game)
  BY <1>1, <1>12, <1>13, <1>14, <1>15 DEF Base, Listed, Owned, Begun, InUse
<1>17. ~AllReady(game)
  BY <1>14, NobodyIsReady
<1>18. game.state = "warmup"
  BY <1>10
<1> QED
  BY <1>16, <1>17, <1>18 DEF IInv, Sound, Counted, Started

-----------------------------------------------------------------------------
(* The theorems.                                                           *)

\* The lists of members are up to date between the handlers of the game module,
\* and every handler leaves a state that G_Match_CheckReadys accepts.
THEOREM Invariant == Spec => []IInv
<1>1. Init => IInv
  BY InitHolds
<1>2. IInv /\ [Next]_vars => IInv'
  BY InvariantKept
<1> QED
  BY <1>1, <1>2, PTL DEF Spec

\* No team gets more members than it has places, whoever joins, is let in from
\* the queue or changes teams; and nobody is in the queue twice or votes more
\* often than allowed.
THEOREM SeatsAreSound == Spec => []SeatsSound
<1>1. IInv => SeatsSound
  BY DEF IInv, Sound, Base, Typed, Seated, SeatsSound, TypeOK, SeatsKept
<1> QED
  BY <1>1, Invariant, PTL

\* No client votes with what was voted before it got its slot
\* (G_CallVotes_ResetClient).
THEOREM NobodyInheritsAVote == Spec => []VotesAreOwn
<1>1. IInv => VotesAreOwn
  BY DEF IInv, Sound, Base, Owned, VotesAreOwn
<1> QED
  BY <1>1, Invariant, PTL

\* Who is in a team is among those whose readiness counts.
LEMMA PlayersAreConsidered ==
  ASSUME IInv, AllReady(game)
  PROVE  Players # {} /\ \A c \in Players : game.ready[c]
<1>1. /\ \A t \in Teams : game.list[t] = Members(game, t)
      /\ game.team \in [Slots -> Teams \union {"spectators"}]
  BY DEF IInv, Sound, Base, Typed, GameType, Listed
<1>2. \A t \in Teams : Considered(game, t) # {} /\ \A c \in Considered(game, t) : game.ready[c]
  BY DEF AllReady, TeamIsReady
<1>3. \A t \in Teams : Considered(game, t) \subseteq Players
  BY <1>1 DEF Considered, Members, Players
<1>4. Players # {}
  <2>1. Teams # {}
    BY DEF Teams
  <2> QED
    BY <1>2, <1>3, <2>1
<1>5. ASSUME NEW c \in Players
      PROVE  game.ready[c]
  <2>1. PICK t \in Teams : game.team[c] = t
    BY <1>1 DEF Players, IsSpectator
  <2>2. c \in Considered(game, t)
    BY <1>1, <2>1 DEF Considered, Members, Players
  <2> QED
    BY <1>2, <2>2
<1> QED
  BY <1>4, <1>5

\* A countdown goes on only while everybody in a team is ready, unless the time
\* limit of the warmup has forced it.
THEOREM CountdownsAreReady == Spec => []CountdownIsReady
<1>1. IInv => CountdownIsReady
  BY PlayersAreConsidered DEF IInv, Sound, Counted, CountdownIsReady
<1> QED
  BY <1>1, Invariant, PTL

\* The same, and that players who are all ready do not wait in warmup, provided
\* that challengers are for gametypes with teams.
THEOREM ReadinessIsDecisive == ChallengersHaveTeams => (Spec => []ReadinessDecides)
<1>1. ASSUME ChallengersHaveTeams PROVE Spec => []ReadinessDecides
  <2>1. ASSUME IInv PROVE ReadinessDecides
    <3>1. UpdateMembersList(game) = game
      BY <2>1, ListIsKept DEF IInv, Sound
    <3>2. ReadyStarts
      BY <1>1, <2>1, <3>1 DEF ChallengersHaveTeams, IInv, Sound, Base, Started, ReadyStarts
    <3>3. CountdownIsReady
      BY <2>1, PlayersAreConsidered DEF IInv, Sound, Counted, CountdownIsReady
    <3> QED
      BY <3>2, <3>3 DEF ReadinessDecides
  <2>2. IInv => ReadinessDecides
    BY <2>1
  <2> QED
    BY <2>2, Invariant, PTL
<1> QED
  BY <1>1

\* No match begins without enough players, in however long a frame.
THEOREM MatchesAreManned == Spec => MatchesStartManned
<1>1. IInv /\ [Next]_vars => [game.state # "playtime" /\ game'.state = "playtime" => Enough(UpdateMembersList(game'))]_vars
  <2> SUFFICES ASSUME IInv, Next, game.state # "playtime", game'.state = "playtime"
               PROVE  Enough(UpdateMembersList(game'))
    OBVIOUS
  <2>1. Sound(game') /\ Enough(game')
    BY NextStep
  <2>2. UpdateMembersList(game') = game'
    BY <2>1, ListIsKept DEF Sound
  <2> QED
    BY <2>1, <2>2
<1> QED
  BY <1>1, Invariant, PTL DEF Spec, MatchesStartManned
=============================================================================
