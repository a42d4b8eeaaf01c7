-------------------------- MODULE TaskSystem_proofs --------------------------
(***************************************************************************)
(* Proofs about TaskSystem for every set of workers and every load: any    *)
(* number of tasks, ranges, coroutines, dependencies and executions.       *)
(* First the scan: what it chooses and completes, and that it keeps the    *)
(* inductive invariant.  What is not a scan adds entries to a tape, lets a *)
(* thread yield what it runs, or starts and ends an execution.             *)
(***************************************************************************)
EXTENDS TaskSystemInvariant, FiniteSetTheorems, TLAPS

-----------------------------------------------------------------------------
(* Numbers.                                                                *)

\* Sets of numbers have a least one.
LEMMA LeastNumber ==
  ASSUME NEW S \in SUBSET Nat, S # {}
  PROVE  \E x \in S : \A y \in S : x <= y
<1>1. PICK x \in S : \A y \in S : ~(<<y, x>> \in OpToRel(<, Nat))
  BY NatLessThanWellFounded, WFMin
<1>2. ASSUME NEW y \in S PROVE x <= y
  <2>1. ~(y < x)
    BY <1>1 DEF OpToRel
  <2> QED
    BY <2>1
<1> QED
  BY <1>2

\* Least chooses it, or 0.
LEMMA LeastIsOne ==
  ASSUME NEW S \in SUBSET (Nat \ {0})
  PROVE  /\ Least(S) # 0 => Least(S) \in S
         /\ S = {} <=> Least(S) = 0
         /\ \A j \in S : Least(S) <= j
<1>1. CASE S = {}
  BY <1>1 DEF Least
<1>2. CASE S # {}
  <2>1. Least(S) \in S /\ \A j \in S : Least(S) <= j
    BY <1>2, LeastNumber DEF Least
  <2> QED
    BY <1>2, <2>1
<1> QED
  BY <1>1, <1>2

\* Bounded sets of numbers have a greatest one.
LEMMA GreatestNumber ==
  ASSUME NEW n \in Nat, NEW S \in SUBSET (0..n), S # {}
  PROVE  \E r \in S : \A q \in S : q <= r
<1> DEFINE T == {n - j : j \in S}
<1>1. T \in SUBSET Nat /\ T # {}
  <2>1. \A j \in S : n - j \in Nat
    OBVIOUS
  <2> QED
    BY <2>1
<1> HIDE DEF T
<1>2. PICK x \in T : \A y \in T : x <= y
  BY <1>1, LeastNumber
<1>3. PICK j \in S : x = n - j
  BY <1>2 DEF T
<1>4. ASSUME NEW k \in S PROVE k <= j
  <2>1. n - k \in T
    BY DEF T
  <2>2. n - j <= n - k
    BY <1>2, <1>3, <2>1
  <2> QED
    BY <2>2
<1> QED
  BY <1>4

\* A function on the numbers of a sequence is one.
LEMMA Numbered ==
  ASSUME NEW T, NEW n \in Nat, NEW r \in [1..n -> T]
  PROVE  r \in Seq(T) /\ Len(r) = n
OBVIOUS

-----------------------------------------------------------------------------
(* Entries.                                                                *)

\* What does not change in an entry: everything but the status and the counter
\* of satisfied dependencies.
Same(e, f) ==
  /\ f.kind = e.kind /\ f.affinity = e.affinity /\ f.deps = e.deps /\ f.rank = e.rank
  /\ f.coro = e.coro /\ f.dependents = e.dependents /\ f.total = e.total
  /\ f.jump = e.jump /\ f.arg = e.arg

\* The fields of an entry.
LEMMA EntryFields ==
  ASSUME NEW e \in EntryType
  PROVE  /\ e.status \in {"Pending", "Busy", "Completed"} /\ e.satisfied \in Nat /\ e.total \in Nat
         /\ e.affinity \in {"AnyThread", "OnlyMainThread"} /\ e.deps \in SUBSET Places
         /\ e.coro \in 0..MaxCoros /\ e.rank \in 0..MaxCoros /\ e.dependents \in SUBSET (1..MaxEntries)
         /\ e.kind \in {"task", "fork", "parallel", "join", "head", "resume"} /\ e.arg \in Nat \X Nat
BY DEF EntryType

\* The bounds of a load are numbers.
LEMMA Bounds ==
  ASSUME Types
  PROVE  /\ MaxEntries \in Nat /\ MaxCoros \in Nat
         /\ load.indices \in SUBSET (Nat \X Nat) /\ load.subranges \in SUBSET (Nat \X Nat \X (Nat \ {0}))
BY LoadsAssumption DEF Types, LoadType, MaxEntries, MaxCoros

\* Setting the status.
LEMMA StatusChanges ==
  ASSUME NEW e \in EntryType, NEW s \in {"Pending", "Busy", "Completed"}, NEW f, f = [e EXCEPT !.status = s]
  PROVE  f \in EntryType /\ Same(e, f) /\ f.status = s /\ f.satisfied = e.satisfied
BY DEF EntryType, Same

\* Counting a dependency.
LEMMA SatisfiedChanges ==
  ASSUME NEW e \in EntryType, NEW f, f = [e EXCEPT !.satisfied = @ + 1]
  PROVE  f \in EntryType /\ Same(e, f) /\ f.status = e.status /\ f.satisfied = e.satisfied + 1
BY DEF EntryType, Same

\* Completing an entry counts it in its dependents.
LEMMA CompleteEntryChanges ==
  ASSUME NEW s \in Seq(EntryType), NEW i \in DOMAIN s, i \notin s[i].dependents, NEW r, r = CompleteEntry(s, i)
  PROVE  /\ r \in Seq(EntryType) /\ Len(r) = Len(s)
         /\ \A j \in DOMAIN s :
              /\ Same(s[j], r[j])
              /\ r[j].status = IF j = i THEN "Completed" ELSE s[j].status
              /\ r[j].satisfied = s[j].satisfied + IF j \in s[i].dependents THEN 1 ELSE 0
<1>0. \A j \in DOMAIN s : s[j] \in EntryType
  OBVIOUS
<1>1. \A j \in DOMAIN s : s[j] \in EntryType /\ s[j].satisfied \in Nat
  BY <1>0, EntryFields
<1>2. r = [j \in 1..Len(s) |-> r[j]]
  BY DEF CompleteEntry
<1>3. ASSUME NEW j \in DOMAIN s
      PROVE  /\ r[j] \in EntryType /\ Same(s[j], r[j])
             /\ r[j].status = IF j = i THEN "Completed" ELSE s[j].status
             /\ r[j].satisfied = s[j].satisfied + IF j \in s[i].dependents THEN 1 ELSE 0
  <2>1. CASE j = i
    <3>1. r[j] = [s[j] EXCEPT !.status = "Completed"]
      BY <2>1 DEF CompleteEntry
    <3>2. r[j] \in EntryType /\ Same(s[j], r[j]) /\ r[j].status = "Completed" /\ r[j].satisfied = s[j].satisfied
      BY <1>1, <3>1, StatusChanges
    <3> QED
      BY <1>1, <2>1, <3>2
  <2>2. CASE j # i /\ j \in s[i].dependents
    <3>1. r[j] = [s[j] EXCEPT !.satisfied = @ + 1]
      BY <2>2 DEF CompleteEntry
    <3>2. r[j] \in EntryType /\ Same(s[j], r[j]) /\ r[j].status = s[j].status /\ r[j].satisfied = s[j].satisfied + 1
      BY <1>1, <3>1, SatisfiedChanges
    <3> QED
      BY <2>2, <3>2
  <2>3. CASE j # i /\ j \notin s[i].dependents
    <3>1. r[j] = s[j]
      BY <2>3 DEF CompleteEntry
    <3> QED
      BY <1>1, <2>3, <3>1 DEF Same
  <2> QED
    BY <2>1, <2>2, <2>3
<1>4. r \in Seq(EntryType) /\ Len(r) = Len(s)
  <2>1. \A j \in 1..Len(s) : r[j] \in EntryType
    BY <1>3
  <2>2. r \in [1..Len(s) -> EntryType]
    BY <1>2, <2>1
  <2> QED
    BY <2>2, Numbered
<1> QED
  BY <1>3, <1>4

\* Completing coroutines.
LEMMA Completes1Changes ==
  ASSUME NEW s \in Seq(EntryType), NEW end, NEW r, r = Completes1(s, end)
  PROVE  /\ r \in Seq(EntryType) /\ Len(r) = Len(s)
         /\ \A j \in DOMAIN s :
              /\ Same(s[j], r[j]) /\ r[j].satisfied = s[j].satisfied
              /\ \/ r[j].status = s[j].status
                 \/ s[j].status = "Busy" /\ r[j].status = "Completed" /\ j \in finished
<1>1. \A j \in DOMAIN s : s[j] \in EntryType
  OBVIOUS
<1>2. r = [j \in 1..Len(s) |-> r[j]]
  BY DEF Completes1
<1>3. ASSUME NEW j \in DOMAIN s
      PROVE  /\ r[j] \in EntryType /\ Same(s[j], r[j]) /\ r[j].satisfied = s[j].satisfied
             /\ \/ r[j].status = s[j].status
                \/ s[j].status = "Busy" /\ r[j].status = "Completed" /\ j \in finished
  <2>1. CASE r[j] = s[j]
    BY <1>1, <2>1 DEF Same
  <2>2. CASE r[j] # s[j]
    <3>1. r[j] = [s[j] EXCEPT !.status = "Completed"] /\ s[j].status = "Busy" /\ j \in finished
      BY <2>2 DEF Completes1
    <3>2. r[j] \in EntryType /\ Same(s[j], r[j]) /\ r[j].status = "Completed" /\ r[j].satisfied = s[j].satisfied
      BY <1>1, <3>1, StatusChanges
    <3> QED
      BY <3>1, <3>2
  <2> QED
    BY <2>1, <2>2
<1>4. r \in Seq(EntryType) /\ Len(r) = Len(s)
  <2>1. \A j \in 1..Len(s) : r[j] \in EntryType
    BY <1>3
  <2>2. r \in [1..Len(s) -> EntryType]
    BY <1>2, <2>1
  <2> QED
    BY <2>2, Numbered
<1> QED
  BY <1>3, <1>4

-----------------------------------------------------------------------------
(* What a scan chooses.                                                    *)

\* A scan of tape 0 chooses an entry that can be run, if any.
LEMMA Choose0Is ==
  ASSUME NEW t, NEW t0 \in Seq(EntryType), NEW t1, NEW c, c = Choose0(t, t0, t1)
  PROVE  c = 0 \/ (c \in DOMAIN t0 /\ Eligible(t, t0[c]) /\ Satisfied(t0, t1, t0[c]))
<1>1. PICK R : c = Least({i \in DOMAIN t0 : Eligible(t, t0[i]) /\ Satisfied(t0, t1, t0[i]) /\ R[i]})
  BY Zenon DEF Choose0
<1> DEFINE S == {i \in DOMAIN t0 : Eligible(t, t0[i]) /\ Satisfied(t0, t1, t0[i]) /\ R[i]}
<1>2. S \in SUBSET (Nat \ {0})
  OBVIOUS
<1>3. c = 0 \/ c \in S
  <2> HIDE DEF S
  <2>1. c = Least(S)
    BY <1>1 DEF S
  <2> QED
    BY <1>2, <2>1, LeastIsOne
<1> QED
  BY <1>3

\* A scan of tape 1 too, with what it has completed on its way.
LEMMA Choose1Is ==
  ASSUME NEW t, NEW t0, NEW t1 \in Seq(EntryType), NEW c, c = Choose1(t, t0, t1), startScan[1] \in Nat \ {0}
  PROVE  c = 0 \/ (c \in DOMAIN t1 /\ Eligible(t, t1[c]) /\ Satisfied(t0, Completes1(t1, c), t1[c]))
<1> DEFINE S == {i \in startScan[1]..Len(t1) : Eligible(t, t1[i]) /\ Satisfied(t0, Completes1(t1, i), t1[i])}
<1>1. S \in SUBSET (Nat \ {0}) /\ S \subseteq DOMAIN t1
  OBVIOUS
<1>2. c = 0 \/ c \in S
  <2>1. c = Least(S)
    BY DEF Choose1
  <2> HIDE DEF S
  <2> QED
    BY <1>1, <2>1, LeastIsOne
<1> QED
  BY <1>1, <1>2

\* The entries that a scan looks at.
Scanned(k, t0) == IF k = 0 THEN t0 ELSE tape[1]

\* What a scan chooses can be run, as far as the tapes after it tell.
LEMMA ScanResultChooses ==
  ASSUME NEW t, NEW first \in 0..1, NEW t0 \in Seq(EntryType), tape[1] \in Seq(EntryType),
         startScan[1] \in Nat \ {0}, NEW r, r = ScanResult(t, first, t0)
  PROVE  /\ r.entries = [k \in 0..1 |-> IF k = 0 THEN t0 ELSE r.entries[1]]
         /\ r.entries[1] = tape[1] \/ \E end : r.entries[1] = Completes1(tape[1], end)
         /\ \/ r.chosen = None
            \/ \E k \in 0..1 : \E i \in DOMAIN Scanned(k, t0) :
                 /\ r.chosen = <<k, i>> /\ r.entries[k][i] = Scanned(k, t0)[i]
                 /\ Eligible(t, Scanned(k, t0)[i]) /\ Satisfied(t0, r.entries[1], Scanned(k, t0)[i])
<1> DEFINE c1 == Choose1(t, t0, tape[1])
           after1 == Completes1(tape[1], IF c1 = 0 THEN Len(tape[1]) + 1 ELSE c1)
           c0 == Choose0(t, t0, IF first = 0 THEN tape[1] ELSE after1)
           c == IF first = 0 THEN (IF c0 # 0 THEN <<0, c0>> ELSE IF c1 # 0 THEN <<1, c1>> ELSE None)
                             ELSE (IF c1 # 0 THEN <<1, c1>> ELSE IF c0 # 0 THEN <<0, c0>> ELSE None)
           scanned1 == first = 1 \/ c[1] = 1 \/ c = None
<1>1. r.chosen = c /\ r.entries = [k \in 0..1 |-> IF k = 0 THEN t0 ELSE IF scanned1 THEN after1 ELSE tape[1]]
  BY DEF ScanResult
<1>2. c1 = 0 \/ (c1 \in DOMAIN tape[1] /\ Eligible(t, tape[1][c1]) /\ Satisfied(t0, Completes1(tape[1], c1), tape[1][c1]))
  BY Choose1Is
<1>3. LET t1 == IF first = 0 THEN tape[1] ELSE after1
      IN c0 = 0 \/ (c0 \in DOMAIN t0 /\ Eligible(t, t0[c0]) /\ Satisfied(t0, t1, t0[c0]))
  <2> HIDE DEF after1
  <2> QED
    BY Choose0Is
<1>4. c1 # 0 => after1 = Completes1(tape[1], c1) /\ after1[c1] = tape[1][c1]
  <2>1. c1 \in DOMAIN tape[1] => Completes1(tape[1], c1)[c1] = tape[1][c1]
    <3> HIDE DEF c1
    <3>1. c1 \in Nat => ~(c1 < c1)
      OBVIOUS
    <3>2. c1 \in DOMAIN tape[1] => c1 \in Nat
      OBVIOUS
    <3> QED
      BY <3>1, <3>2 DEF Completes1
  <2> QED
    BY <1>2, <2>1
<1>5. \E end : after1 = Completes1(tape[1], end)
  OBVIOUS
<1> HIDE DEF c1, after1, c0
<1>6. r.entries[0] = t0 /\ r.entries[1] = IF scanned1 THEN after1 ELSE tape[1]
  BY <1>1
<1>7. CASE c = None
  BY <1>1, <1>5, <1>6, <1>7
<1>8. CASE c = <<1, c1>> /\ c1 # 0
  <2>1. scanned1 /\ r.entries[1] = after1
    BY <1>6, <1>8
  <2>2. r.chosen = <<1, c1>> /\ c1 \in DOMAIN Scanned(1, t0) /\ Scanned(1, t0) = tape[1]
    BY <1>1, <1>2, <1>8 DEF Scanned
  <2> QED
    BY <1>1, <1>2, <1>4, <1>5, <2>1, <2>2
<1>9. CASE c = <<0, c0>> /\ c0 # 0
  <2>1. r.entries[1] = IF first = 0 THEN tape[1] ELSE after1
    BY <1>6, <1>9 DEF None
  <2>2. r.chosen = <<0, c0>> /\ c0 \in DOMAIN Scanned(0, t0) /\ Scanned(0, t0) = t0
    BY <1>1, <1>3, <1>9 DEF Scanned
  <2> QED
    BY <1>1, <1>3, <1>5, <1>6, <2>1, <2>2
<1> QED
  BY <1>7, <1>8, <1>9

\* A scan moves the start of one tape to the first open entry, if any is open.
LEMMA ScanResultMoves ==
  ASSUME NEW t, NEW first \in 0..1, NEW t0, NEW r, r = ScanResult(t, first, t0)
  PROVE  \/ r.moved = 2 /\ \A k \in 0..1 : Open(k, Scanned(k, t0)) = {}
         \/ r.moved \in 0..1 /\ r.to = Least(Open(r.moved, Scanned(r.moved, t0)))
                             /\ Open(r.moved, Scanned(r.moved, t0)) # {}
<1> DEFINE open == [k \in 0..1 |-> Open(k, IF k = 0 THEN t0 ELSE tape[1])]
<1>1. /\ r.moved = IF open[first] # {} THEN first ELSE IF open[1 - first] # {} THEN 1 - first ELSE 2
      /\ r.to = IF open[first] # {} THEN Least(open[first]) ELSE Least(open[1 - first])
  BY DEF ScanResult
<1>2. open[0] = Open(0, Scanned(0, t0)) /\ open[1] = Open(1, Scanned(1, t0))
  BY DEF Scanned
<1> HIDE DEF open
<1>3. CASE first = 0
  BY <1>1, <1>2, <1>3
<1>4. CASE first = 1
  BY <1>1, <1>2, <1>4
<1> QED
  BY <1>3, <1>4

-----------------------------------------------------------------------------
(* What a scan does, entry by entry, when h is what it takes.              *)

\* The entries of both tapes after it.
TapesAfter(t, h) ==
  /\ tape' \in [0..1 -> Seq(EntryType)] /\ Len(Regular') = Len(Regular) /\ Len(Heads') = Len(Heads)
  /\ \A i \in DOMAIN Regular :
       /\ Same(Regular[i], Regular'[i])
       /\ Regular'[i].status = IF h = <<0, i>> THEN "Busy"
                               ELSE IF pending[t] = <<0, i>> THEN "Completed" ELSE Regular[i].status
       /\ Regular'[i].satisfied = Regular[i].satisfied
            + IF pending[t] # None /\ i \in Regular[pending[t][2]].dependents THEN 1 ELSE 0
  /\ \A i \in DOMAIN Heads :
       /\ Same(Heads[i], Heads'[i]) /\ Heads'[i].satisfied = Heads[i].satisfied
       /\ IF h = <<1, i>> THEN Heads'[i].status = "Busy"
          ELSE \/ Heads'[i].status = Heads[i].status
               \/ Heads[i].status = "Busy" /\ Heads'[i].status = "Completed" /\ i \in finished

\* That h could be taken.
MayTake(t, h) ==
  h # None => /\ h \in Indices /\ Entry(h).status = "Pending"
              /\ Entry(h).affinity = "AnyThread" \/ t = Main
              /\ Entry(h)'.satisfied = Entry(h).total
              /\ \A d \in Entry(h).deps : tape'[d[1]][d[2]].status = "Completed"

\* What the thread does next.
Continues(t, h) ==
  /\ h # None /\ HasCallable(h) =>
       /\ pc' = [pc EXCEPT ![t] = "run"] /\ chosen' = [chosen EXCEPT ![t] = h]
       /\ calls' = [calls EXCEPT ![h[1]][h[2]] = @ + 1] /\ pending' = [pending EXCEPT ![t] = None]
  /\ h # None /\ ~HasCallable(h) =>
       pending' = [pending EXCEPT ![t] = h] /\ UNCHANGED <<pc, chosen, calls>>
  /\ h = None =>
       /\ pending' = [pending EXCEPT ![t] = None] /\ UNCHANGED <<chosen, calls>>
       /\ \/ UNCHANGED pc
          \/ /\ pc' = [pc EXCEPT ![t] = IF t = Main THEN "leave" ELSE "check"]
             /\ \A i \in startScan[0]..Len(Regular) : Regular[i].status # "Pending"
             /\ \A i \in startScan[1]..Len(Heads) : Heads[i].status = "Completed"

\* Where the next scans start.
StartsMove ==
  /\ startScan' \in [0..1 -> Nat]
  /\ \A k \in 0..1 : startScan'[k] \in startScan[k]..Len(tape[k]) + 1
  /\ \A i \in startScan[0]..startScan'[0] - 1 : Regular[i].status # "Pending"
  /\ \A i \in startScan[1]..startScan'[1] - 1 : Heads[i].status = "Completed"

ScanView(t, h) ==
  /\ pc[t] = "scan"
  /\ TapesAfter(t, h) /\ MayTake(t, h) /\ Continues(t, h) /\ StartsMove
  /\ turn' \in [Threads -> 0..1] /\ UNCHANGED <<finished, syncVars>>

\* The scan in the terms of the module.
ScanBody(t, first, t0, r) ==
  /\ first = 1 - turn[t]
  /\ t0 = IF pending[t] = None THEN tape[0] ELSE CompleteEntry(tape[0], pending[t][2])
  /\ r = ScanResult(t, first, t0)
  /\ turn' = [turn EXCEPT ![t] = first]
  /\ startScan' = IF r.moved = 2 THEN startScan ELSE [startScan EXCEPT ![r.moved] = r.to]
  /\ IF r.chosen # None
       THEN /\ tape' = TakeEntry(r.entries, r.chosen)
            /\ IF HasCallable(r.chosen)
                 THEN /\ pc' = [pc EXCEPT ![t] = "run"]
                      /\ chosen' = [chosen EXCEPT ![t] = r.chosen]
                      /\ calls' = [calls EXCEPT ![r.chosen[1]][r.chosen[2]] = @ + 1]
                      /\ pending' = [pending EXCEPT ![t] = None]
                 ELSE /\ pending' = [pending EXCEPT ![t] = r.chosen]
                      /\ UNCHANGED <<pc, chosen, calls>>
       ELSE /\ tape' = r.entries
            /\ pc' = [pc EXCEPT ![t] = IF r.moved # 2 THEN "scan"
                                       ELSE IF t = Main THEN "leave" ELSE "check"]
            /\ pending' = [pending EXCEPT ![t] = None]
            /\ UNCHANGED <<chosen, calls>>

\* The step with its LET opened.
LEMMA ScanHasBody ==
  ASSUME NEW t, Scan(t)
  PROVE  pc[t] = "scan" /\ UNCHANGED <<finished, syncVars>> /\ \E first, t0, r : ScanBody(t, first, t0, r)
<1>1. pc[t] = "scan" /\ UNCHANGED <<finished, syncVars>>
  BY DEF Scan
<1> DEFINE first == 1 - turn[t]
           t0 == IF pending[t] = None THEN tape[0] ELSE CompleteEntry(tape[0], pending[t][2])
           r == ScanResult(t, first, t0)
<1>2. ScanBody(t, first, t0, r)
  BY DEF Scan, ScanBody
<1> QED
  BY <1>1, <1>2

\* No entry depends on itself through its dependents.
LEMMA NotOwnDependent ==
  ASSUME Kinds, RangesKept, NEW i \in DOMAIN Regular
  PROVE  i \notin Regular[i].dependents
<1>1. CASE Regular[i].kind = "fork"
  <2>1. Regular[i].dependents = i + 1..Join(i) - 1
    BY <1>1 DEF RangesKept
  <2> QED
    BY <2>1
<1>2. CASE Regular[i].kind = "parallel"
  <2>1. PICK f \in DOMAIN Regular : Regular[f].kind = "fork" /\ i \in Regular[f].dependents \cup {Join(f)}
    BY <1>2 DEF RangesKept
  <2>2. Regular[Join(f)].kind = "join" /\ Join(f) \in DOMAIN Regular /\ Regular[f].dependents = f + 1..Join(f) - 1
    BY <2>1 DEF RangesKept
  <2>3. i \in Regular[f].dependents
    BY <1>2, <2>1, <2>2
  <2>4. Regular[i].dependents = {Join(f)}
    BY <2>1, <2>3 DEF RangesKept
  <2> QED
    BY <2>2, <2>3, <2>4
<1>3. CASE Regular[i].kind \notin {"fork", "parallel"}
  BY <1>3 DEF Kinds
<1> QED
  BY <1>1, <1>2, <1>3

\* Taking an entry changes its status.
LEMMA TakeChanges ==
  ASSUME NEW s \in [0..1 -> Seq(EntryType)], NEW k \in 0..1, NEW i \in DOMAIN s[k],
         NEW r, r = TakeEntry(s, <<k, i>>)
  PROVE  /\ r \in [0..1 -> Seq(EntryType)] /\ \A l \in 0..1 : Len(r[l]) = Len(s[l])
         /\ \A l \in 0..1 : \A j \in DOMAIN s[l] : <<l, j>> # <<k, i>> => r[l][j] = s[l][j]
         /\ Same(s[k][i], r[k][i]) /\ r[k][i].status = "Busy" /\ r[k][i].satisfied = s[k][i].satisfied
<1> DEFINE e == [s[k][i] EXCEPT !.status = "Busy"]
<1>1. e \in EntryType /\ Same(s[k][i], e) /\ e.status = "Busy" /\ e.satisfied = s[k][i].satisfied
  <2>1. s[k][i] \in EntryType
    OBVIOUS
  <2> QED
    BY <2>1, StatusChanges
<1>2. r = [s EXCEPT ![k] = [s[k] EXCEPT ![i] = e]]
  BY DEF TakeEntry
<1> HIDE DEF e
<1>3. [s[k] EXCEPT ![i] = e] \in Seq(EntryType) /\ Len([s[k] EXCEPT ![i] = e]) = Len(s[k])
  BY <1>1
<1>4. r \in [0..1 -> Seq(EntryType)] /\ r[k] = [s[k] EXCEPT ![i] = e] /\ \A l \in 0..1 : l # k => r[l] = s[l]
  BY <1>2, <1>3
<1>5. r[k][i] = e /\ \A j \in DOMAIN s[k] : j # i => r[k][j] = s[k][j]
  BY <1>4
<1>6. \A l \in 0..1 : Len(r[l]) = Len(s[l])
  BY <1>3, <1>4
<1>7. \A l \in 0..1 : \A j \in DOMAIN s[l] : <<l, j>> # <<k, i>> => r[l][j] = s[l][j]
  BY <1>4, <1>5
<1> QED
  BY <1>1, <1>4, <1>5, <1>6, <1>7

\* The tape after completing the pending entry.
PendingDone(t, t0) ==
  /\ t0 \in Seq(EntryType) /\ Len(t0) = Len(Regular)
  /\ \A i \in DOMAIN Regular :
       /\ Same(Regular[i], t0[i])
       /\ t0[i].status = IF pending[t] = <<0, i>> THEN "Completed" ELSE Regular[i].status
       /\ t0[i].satisfied = Regular[i].satisfied
            + IF pending[t] # None /\ i \in Regular[pending[t][2]].dependents THEN 1 ELSE 0
       /\ t0[i].status = "Pending" <=> Regular[i].status = "Pending"

\* The tape after completeEntry is that.
LEMMA PendingCompleted ==
  ASSUME Kinds, RangesKept, Owners, NEW t \in Threads, NEW t0,
         t0 = IF pending[t] = None THEN tape[0] ELSE CompleteEntry(tape[0], pending[t][2])
  PROVE  PendingDone(t, t0)
<1>0. Regular \in Seq(EntryType) /\ tape[0] = Regular
  BY DEF Kinds, Regular
<1>1. CASE pending[t] = None
  <2>1. t0 = Regular /\ \A i \in DOMAIN Regular : pending[t] # <<0, i>>
    BY <1>0, <1>1 DEF None
  <2>2. \A i \in DOMAIN Regular : Regular[i].satisfied \in Nat
    BY <1>0, EntryFields
  <2> QED
    BY <1>0, <1>1, <2>1, <2>2 DEF Same, PendingDone
<1>2. CASE pending[t] # None
  <2>1. PICK p \in DOMAIN Regular : pending[t] = <<0, p>> /\ Regular[p].status = "Busy"
    <3>1. pending[t] \in Indices /\ pending[t][1] = 0 /\ Entry(pending[t]).status = "Busy"
      BY <1>2 DEF Owners
    <3>2. pending[t] = <<0, pending[t][2]>>
      BY <3>1 DEF Indices, Places
    <3> QED
      BY <3>1, <3>2 DEF Indices, Entry, Regular
  <2>2. t0 = CompleteEntry(Regular, p) /\ pending[t][2] = p
    BY <1>0, <1>2, <2>1
  <2>3. p \notin Regular[p].dependents
    BY NotOwnDependent
  <2>4. /\ t0 \in Seq(EntryType) /\ Len(t0) = Len(Regular)
        /\ \A j \in DOMAIN Regular :
             /\ Same(Regular[j], t0[j])
             /\ t0[j].status = IF j = p THEN "Completed" ELSE Regular[j].status
             /\ t0[j].satisfied = Regular[j].satisfied + IF j \in Regular[p].dependents THEN 1 ELSE 0
    BY <1>0, <2>2, <2>3, CompleteEntryChanges
  <2>5. \A j \in DOMAIN Regular : pending[t] = <<0, j>> <=> j = p
    BY <2>1
  <2>6. \A j \in DOMAIN Regular : t0[j].status = "Pending" <=> Regular[j].status = "Pending"
    BY <2>1, <2>4
  <2> QED
    BY <1>2, <2>2, <2>4, <2>5, <2>6 DEF PendingDone
<1> QED
  BY <1>1, <1>2

\* The chosen entry, if there is one, can be taken, and the tapes before it is taken.
EntriesBefore(entries, t0) ==
  /\ entries \in [0..1 -> Seq(EntryType)] /\ entries[0] = t0
  /\ Len(entries[1]) = Len(Heads)
  /\ \A i \in DOMAIN Heads :
       /\ Same(Heads[i], entries[1][i]) /\ entries[1][i].satisfied = Heads[i].satisfied
       /\ \/ entries[1][i].status = Heads[i].status
          \/ Heads[i].status = "Busy" /\ entries[1][i].status = "Completed" /\ i \in finished

\* What a scan chooses was pending, eligible and satisfied, and the tapes after it say so.
LEMMA ScanChoice ==
  ASSUME Types, Kinds, RangesKept, Owners, NEW t \in Threads, NEW first, NEW t0, NEW r, ScanBody(t, first, t0, r)
  PROVE  /\ EntriesBefore(r.entries, t0)
         /\ \/ r.chosen = None
            \/ \E k \in 0..1 : \E i \in DOMAIN tape[k] :
                 /\ r.chosen = <<k, i>> /\ r.entries[k][i] = Scanned(k, t0)[i]
                 /\ Eligible(t, r.entries[k][i]) /\ Satisfied(t0, r.entries[1], r.entries[k][i])
<1>1. first \in 0..1 /\ r = ScanResult(t, first, t0)
  BY DEF ScanBody, Types
<1>2. t0 \in Seq(EntryType) /\ Len(t0) = Len(Regular)
  <2>1. t0 = IF pending[t] = None THEN tape[0] ELSE CompleteEntry(tape[0], pending[t][2])
    BY DEF ScanBody
  <2>2. PendingDone(t, t0)
    BY <2>1, PendingCompleted
  <2> QED
    BY <2>2 DEF PendingDone
<1>3. tape[1] \in Seq(EntryType) /\ Heads = tape[1] /\ Regular = tape[0] /\ startScan[1] \in Nat \ {0}
  BY DEF Kinds, Heads, Regular
<1>4. /\ r.entries = [k \in 0..1 |-> IF k = 0 THEN t0 ELSE r.entries[1]]
      /\ r.entries[1] = tape[1] \/ \E end : r.entries[1] = Completes1(tape[1], end)
      /\ \/ r.chosen = None
         \/ \E k \in 0..1 : \E i \in DOMAIN Scanned(k, t0) :
              /\ r.chosen = <<k, i>> /\ r.entries[k][i] = Scanned(k, t0)[i]
              /\ Eligible(t, Scanned(k, t0)[i]) /\ Satisfied(t0, r.entries[1], Scanned(k, t0)[i])
  <2> DEFINE P(x) == /\ x.entries = [k \in 0..1 |-> IF k = 0 THEN t0 ELSE x.entries[1]]
                     /\ x.entries[1] = tape[1] \/ \E end : x.entries[1] = Completes1(tape[1], end)
                     /\ \/ x.chosen = None
                        \/ \E k \in 0..1 : \E i \in DOMAIN Scanned(k, t0) :
                             /\ x.chosen = <<k, i>> /\ x.entries[k][i] = Scanned(k, t0)[i]
                             /\ Eligible(t, Scanned(k, t0)[i]) /\ Satisfied(t0, x.entries[1], Scanned(k, t0)[i])
  <2>1. \A x : x = ScanResult(t, first, t0) => P(x)
    BY <1>1, <1>2, <1>3, ScanResultChooses
  <2> HIDE DEF P
  <2>2. P(r)
    BY <1>1, <2>1
  <2> QED
    BY <2>2 DEF P
<1>5. /\ r.entries[1] \in Seq(EntryType) /\ Len(r.entries[1]) = Len(Heads)
      /\ \A i \in DOMAIN Heads :
           /\ Same(Heads[i], r.entries[1][i]) /\ r.entries[1][i].satisfied = Heads[i].satisfied
           /\ \/ r.entries[1][i].status = Heads[i].status
              \/ Heads[i].status = "Busy" /\ r.entries[1][i].status = "Completed" /\ i \in finished
  <2>1. CASE r.entries[1] = tape[1]
    BY <1>3, <2>1 DEF Same
  <2>2. CASE \E end : r.entries[1] = Completes1(tape[1], end)
    BY <1>3, <2>2, Completes1Changes
  <2> QED
    BY <1>4, <2>1, <2>2
<1>6. r.entries \in [0..1 -> Seq(EntryType)] /\ r.entries[0] = t0
  BY <1>2, <1>4, <1>5
<1>7. \A k \in 0..1 : DOMAIN Scanned(k, t0) = DOMAIN tape[k]
  BY <1>2, <1>3 DEF Scanned, Kinds
<1> QED
  BY <1>4, <1>5, <1>6, <1>7 DEF EntriesBefore

\* The scan takes it.
LEMMA ScanTakes ==
  ASSUME Types, Kinds, RangesKept, Owners, NEW t \in Threads, NEW first, NEW t0, NEW r, ScanBody(t, first, t0, r)
  PROVE  TapesAfter(t, r.chosen) /\ MayTake(t, r.chosen)
<1>0. PendingDone(t, t0)
  <2>1. t0 = IF pending[t] = None THEN tape[0] ELSE CompleteEntry(tape[0], pending[t][2])
    BY DEF ScanBody
  <2> QED
    BY <2>1, PendingCompleted
<1>1. /\ t0 \in Seq(EntryType) /\ Len(t0) = Len(Regular)
      /\ \A i \in DOMAIN Regular :
           /\ Same(Regular[i], t0[i])
           /\ t0[i].status = IF pending[t] = <<0, i>> THEN "Completed" ELSE Regular[i].status
           /\ t0[i].satisfied = Regular[i].satisfied
                + IF pending[t] # None /\ i \in Regular[pending[t][2]].dependents THEN 1 ELSE 0
           /\ t0[i].status = "Pending" <=> Regular[i].status = "Pending"
  BY <1>0 DEF PendingDone
<1> DEFINE e1 == r.entries[1]
<1>2. /\ r.entries \in [0..1 -> Seq(EntryType)] /\ r.entries[0] = t0
      /\ Len(e1) = Len(Heads)
      /\ \A i \in DOMAIN Heads :
           /\ Same(Heads[i], e1[i]) /\ e1[i].satisfied = Heads[i].satisfied
           /\ \/ e1[i].status = Heads[i].status
              \/ Heads[i].status = "Busy" /\ e1[i].status = "Completed" /\ i \in finished
  <2>1. EntriesBefore(r.entries, t0)
    BY ScanChoice
  <2> QED
    BY <2>1 DEF EntriesBefore
<1>3. tape[0] = Regular /\ tape[1] = Heads /\ tape'[0] = Regular' /\ tape'[1] = Heads'
  BY DEF Regular, Heads
<1>4. CASE r.chosen = None
  <2>1. tape' = r.entries
    BY <1>4 DEF ScanBody
  <2>2. Regular' = t0 /\ Heads' = e1
    BY <1>2, <1>3, <2>1
  <2>3. /\ \A i \in DOMAIN Regular : r.chosen # <<0, i>>
        /\ \A i \in DOMAIN Heads : r.chosen # <<1, i>>
    <3>1. 0 \notin DOMAIN Regular /\ 0 \notin DOMAIN Heads
      BY <1>3 DEF Kinds
    <3> QED
      BY <1>4, <3>1 DEF None
  <2>4. TapesAfter(t, r.chosen)
    BY <1>1, <1>2, <2>1, <2>2, <2>3 DEF TapesAfter
  <2> QED
    BY <1>4, <2>4 DEF MayTake
<1>5. ASSUME NEW k \in 0..1, NEW i \in DOMAIN tape[k],
             r.chosen = <<k, i>>, r.entries[k][i] = Scanned(k, t0)[i],
             Eligible(t, r.entries[k][i]), Satisfied(t0, e1, r.entries[k][i])
      PROVE  TapesAfter(t, r.chosen) /\ MayTake(t, r.chosen)
  <2>1. r.chosen # None
    <3>1. i # 0
      BY DEF Kinds
    <3> QED
      BY <1>5, <3>1 DEF None
  <2>2. tape' = TakeEntry(r.entries, <<k, i>>)
    BY <1>5, <2>1 DEF ScanBody
  <2>3. i \in DOMAIN r.entries[k]
    BY <1>1, <1>2, <1>3
  <2>4. /\ tape' \in [0..1 -> Seq(EntryType)] /\ \A l \in 0..1 : Len(tape'[l]) = Len(r.entries[l])
        /\ \A l \in 0..1 : \A j \in DOMAIN r.entries[l] : <<l, j>> # <<k, i>> => tape'[l][j] = r.entries[l][j]
        /\ Same(r.entries[k][i], tape'[k][i]) /\ tape'[k][i].status = "Busy" /\ tape'[k][i].satisfied = r.entries[k][i].satisfied
    <3> DEFINE s == r.entries
    <3> DEFINE P(x) == /\ x \in [0..1 -> Seq(EntryType)] /\ \A l \in 0..1 : Len(x[l]) = Len(s[l])
                       /\ \A l \in 0..1 : \A j \in DOMAIN s[l] : <<l, j>> # <<k, i>> => x[l][j] = s[l][j]
                       /\ Same(s[k][i], x[k][i]) /\ x[k][i].status = "Busy" /\ x[k][i].satisfied = s[k][i].satisfied
    <3>1. s \in [0..1 -> Seq(EntryType)] /\ i \in DOMAIN s[k]
      BY <1>2, <2>3
    <3> HIDE DEF s
    <3>2. \A x : x = TakeEntry(s, <<k, i>>) => P(x)
      BY <3>1, TakeChanges
    <3> HIDE DEF P
    <3>3. P(tape')
      BY <2>2, <3>2 DEF s
    <3> QED
      BY <3>3 DEF P, s
  <2>5. r.entries[k][i].status = "Pending" /\ (r.entries[k][i].affinity = "AnyThread" \/ t = Main)
    BY <1>5 DEF Eligible
  <2>6. tape[k][i].status = "Pending" /\ Same(tape[k][i], r.entries[k][i])
    <3>1. CASE k = 0
      BY <1>1, <1>2, <1>3, <2>5, <3>1
    <3>2. CASE k = 1
      BY <1>2, <1>3, <2>5, <3>2
    <3> QED
      BY <3>1, <3>2
  <2>7. TapesAfter(t, r.chosen)
    <3>1. \A j \in DOMAIN Regular : <<0, j>> # <<k, i>> => Regular'[j] = t0[j]
      BY <1>1, <1>2, <1>3, <2>4
    <3>2. \A j \in DOMAIN Heads : <<1, j>> # <<k, i>> => Heads'[j] = e1[j]
      BY <1>2, <1>3, <2>4
    <3>3. Len(Regular') = Len(Regular) /\ Len(Heads') = Len(Heads)
      BY <1>1, <1>2, <1>3, <2>4
    <3>4. ASSUME NEW j \in DOMAIN Regular
          PROVE  /\ Same(Regular[j], Regular'[j])
                 /\ Regular'[j].status = IF r.chosen = <<0, j>> THEN "Busy"
                                         ELSE IF pending[t] = <<0, j>> THEN "Completed" ELSE Regular[j].status
                 /\ Regular'[j].satisfied = Regular[j].satisfied
                      + IF pending[t] # None /\ j \in Regular[pending[t][2]].dependents THEN 1 ELSE 0
      <4>1. CASE <<0, j>> # <<k, i>>
        BY <1>1, <1>5, <3>1, <4>1
      <4>2. CASE <<0, j>> = <<k, i>>
        <5>1. k = 0 /\ i = j
          BY <4>2
        <5>2. Same(t0[j], Regular'[j]) /\ Regular'[j].status = "Busy" /\ Regular'[j].satisfied = t0[j].satisfied
          BY <1>2, <1>3, <2>4, <5>1
        <5>3. Same(Regular[j], Regular'[j])
          BY <1>1, <5>2 DEF Same
        <5> QED
          BY <1>1, <1>5, <5>1, <5>2, <5>3
      <4> QED
        BY <4>1, <4>2
    <3>5. ASSUME NEW j \in DOMAIN Heads
          PROVE  /\ Same(Heads[j], Heads'[j]) /\ Heads'[j].satisfied = Heads[j].satisfied
                 /\ IF r.chosen = <<1, j>> THEN Heads'[j].status = "Busy"
                    ELSE \/ Heads'[j].status = Heads[j].status
                         \/ Heads[j].status = "Busy" /\ Heads'[j].status = "Completed" /\ j \in finished
      <4>1. CASE <<1, j>> # <<k, i>>
        BY <1>2, <1>5, <3>2, <4>1
      <4>2. CASE <<1, j>> = <<k, i>>
        <5>1. k = 1 /\ i = j
          BY <4>2
        <5>2. Same(e1[j], Heads'[j]) /\ Heads'[j].status = "Busy" /\ Heads'[j].satisfied = e1[j].satisfied
          BY <1>2, <1>3, <2>4, <5>1
        <5>3. Same(Heads[j], Heads'[j])
          BY <1>2, <5>2 DEF Same
        <5> QED
          BY <1>2, <1>5, <5>1, <5>2, <5>3
      <4> QED
        BY <4>1, <4>2
    <3> QED
      BY <2>4, <3>3, <3>4, <3>5 DEF TapesAfter
  <2>8. r.chosen \in Indices
    <3>1. i \in Nat /\ i >= 1 /\ i <= Len(tape[k])
      BY DEF Kinds
    <3>0. MaxEntries \in Nat /\ MaxCoros \in Nat /\ Len(Regular) <= MaxEntries /\ Len(Heads) <= MaxCoros
      BY Bounds DEF Kinds
    <3>2. k = 0 => i \in 1..MaxEntries
      BY <1>3, <3>0, <3>1
    <3>3. k = 1 => i \in 1..MaxCoros
      BY <1>3, <3>0, <3>1
    <3> QED
      BY <1>5, <3>2, <3>3 DEF Indices, Places
  <2>9. ASSUME NEW d \in tape[k][i].deps PROVE tape'[d[1]][d[2]].status = "Completed"
    <3>1. d \in Indices
      BY <1>3 DEF Kinds
    <3>2. d[1] \in 0..1 /\ d[2] \in DOMAIN tape[d[1]] /\ d = <<d[1], d[2]>>
      BY <3>1 DEF Indices, Places
    <3>3. r.entries[d[1]][d[2]].status = "Completed" /\ d[2] \in DOMAIN r.entries[d[1]]
      <4>1. d \in r.entries[k][i].deps
        BY <2>6 DEF Same
      <4>2. IF d[1] = 0 THEN t0[d[2]].status = "Completed" ELSE e1[d[2]].status = "Completed"
        BY <1>5, <4>1 DEF Satisfied
      <4> QED
        BY <1>1, <1>2, <1>3, <3>2, <4>2
    <3>4. <<d[1], d[2]>> # <<k, i>>
      BY <2>5, <3>3
    <3> QED
      BY <2>4, <3>2, <3>3, <3>4
  <2>10. MayTake(t, r.chosen)
    <3>1. Entry(r.chosen) = tape[k][i] /\ Entry(r.chosen)' = tape'[k][i]
      BY <1>5 DEF Entry
    <3> QED
      BY <1>5, <2>4, <2>5, <2>6, <2>8, <2>9, <3>1 DEF MayTake, Same, Satisfied
  <2> QED
    BY <2>7, <2>10
<1> QED
  BY <1>4, <1>5, ScanChoice

\* Entries that are not open are taken, on tape 1 completed.
LEMMA NotOpen ==
  ASSUME Types, Kinds, RangesKept, Owners, NEW t \in Threads, NEW t0, PendingDone(t, t0)
  PROVE  /\ \A i \in startScan[0]..Len(Regular) : i \notin Open(0, Scanned(0, t0)) => Regular[i].status # "Pending"
         /\ \A i \in startScan[1]..Len(Heads) : i \notin Open(1, Scanned(1, t0)) => Heads[i].status = "Completed"
         /\ \A k \in 0..1 : Open(k, Scanned(k, t0)) \subseteq startScan[k]..Len(tape[k])
         /\ \A k \in 0..1 : startScan[k] \in 1..Len(tape[k]) + 1 /\ Len(tape[k]) \in Nat
<1>1. \A k \in 0..1 : startScan[k] \in 1..Len(tape[k]) + 1 /\ Len(tape[k]) \in Nat
  BY DEF Kinds
<1>2. tape[0] = Regular /\ tape[1] = Heads
  BY DEF Regular, Heads
<1>3. Scanned(0, t0) = t0 /\ Scanned(1, t0) = Heads /\ Len(t0) = Len(Regular)
  BY <1>2 DEF Scanned, PendingDone
<1>4. ASSUME NEW i \in startScan[0]..Len(Regular), i \notin Open(0, Scanned(0, t0)) PROVE Regular[i].status # "Pending"
  <2>1. i \in DOMAIN Regular
    BY <1>1, <1>2 DEF Kinds
  <2>2. t0[i].status # "Pending"
    BY <1>3, <1>4 DEF Open
  <2> QED
    BY <2>1, <2>2 DEF PendingDone
<1>5. ASSUME NEW i \in startScan[1]..Len(Heads), i \notin Open(1, Scanned(1, t0)) PROVE Heads[i].status = "Completed"
  <2>1. i \in DOMAIN Heads
    BY <1>1, <1>2 DEF Kinds
  <2>2. Heads[i] \in EntryType
    BY <1>2, <2>1 DEF Kinds
  <2>3. Heads[i].status \notin {"Pending", "Busy"}
    BY <1>3, <1>5 DEF Open
  <2> QED
    BY <2>2, <2>3, EntryFields
<1>6. \A k \in 0..1 : Open(k, Scanned(k, t0)) \subseteq startScan[k]..Len(tape[k])
  BY <1>2, <1>3 DEF Open
<1> QED
  BY <1>1, <1>4, <1>5, <1>6

\* The thread goes on, and the starts move.
LEMMA ScanContinues ==
  ASSUME Types, Kinds, RangesKept, Owners, NEW t \in Threads, NEW first, NEW t0, NEW r,
         ScanBody(t, first, t0, r), pc[t] = "scan"
  PROVE  Continues(t, r.chosen) /\ StartsMove
<1>0. PendingDone(t, t0)
  <2>1. t0 = IF pending[t] = None THEN tape[0] ELSE CompleteEntry(tape[0], pending[t][2])
    BY DEF ScanBody
  <2> QED
    BY <2>1, PendingCompleted
<1>1. /\ \A i \in startScan[0]..Len(Regular) : i \notin Open(0, Scanned(0, t0)) => Regular[i].status # "Pending"
      /\ \A i \in startScan[1]..Len(Heads) : i \notin Open(1, Scanned(1, t0)) => Heads[i].status = "Completed"
      /\ \A k \in 0..1 : Open(k, Scanned(k, t0)) \subseteq startScan[k]..Len(tape[k])
      /\ \A k \in 0..1 : startScan[k] \in 1..Len(tape[k]) + 1 /\ Len(tape[k]) \in Nat
  BY <1>0, NotOpen
<1>2. tape[0] = Regular /\ tape[1] = Heads
  BY DEF Regular, Heads
<1>3. first \in 0..1 /\ r = ScanResult(t, first, t0)
  BY DEF ScanBody, Types
<1>4. \/ r.moved = 2 /\ \A k \in 0..1 : Open(k, Scanned(k, t0)) = {}
      \/ r.moved \in 0..1 /\ r.to = Least(Open(r.moved, Scanned(r.moved, t0)))
                          /\ Open(r.moved, Scanned(r.moved, t0)) # {}
  BY <1>3, ScanResultMoves
<1>5. startScan \in [0..1 -> Nat]
  BY DEF Types
<1>6. CASE r.moved = 2
  <2>1. /\ \A i \in startScan[0]..Len(Regular) : Regular[i].status # "Pending"
        /\ \A i \in startScan[1]..Len(Heads) : Heads[i].status = "Completed"
    BY <1>1, <1>4, <1>6
  <2>2. Continues(t, r.chosen)
    <3>1. CASE r.chosen # None
      BY <3>1 DEF ScanBody, Continues
    <3>2. CASE r.chosen = None
      BY <1>6, <2>1, <3>2 DEF ScanBody, Continues
    <3> QED
      BY <3>1, <3>2
  <2>3. startScan' = startScan
    BY <1>6 DEF ScanBody
  <2>4. StartsMove
    BY <1>1, <1>5, <2>3 DEF StartsMove
  <2> QED
    BY <2>2, <2>4
<1>7. CASE r.moved \in 0..1
  <2> DEFINE k == r.moved
             S == Open(k, Scanned(k, t0))
  <2>1. S \in SUBSET (Nat \ {0}) /\ S # {} /\ r.to = Least(S)
    BY <1>1, <1>4, <1>7
  <2>2. r.to \in S /\ \A j \in S : r.to <= j
    <3> HIDE DEF S, k
    <3>1. S = {} <=> Least(S) = 0
      BY <2>1, LeastIsOne
    <3>2. Least(S) \in S /\ \A j \in S : Least(S) <= j
      BY <2>1, <3>1, LeastIsOne
    <3> QED
      BY <2>1, <3>2
  <2>0. r.moved # 2
    BY <1>7
  <2>3. Continues(t, r.chosen)
    <3>1. CASE r.chosen # None
      BY <3>1 DEF ScanBody, Continues
    <3>2. CASE r.chosen = None
      <4>1. pc' = [pc EXCEPT ![t] = "scan"] /\ pending' = [pending EXCEPT ![t] = None] /\ UNCHANGED <<chosen, calls>>
        BY <2>0, <3>2 DEF ScanBody
      <4>2. pc' = pc
        BY <4>1 DEF Types
      <4> QED
        BY <3>2, <4>1, <4>2 DEF Continues
    <3> QED
      BY <3>1, <3>2
  <2>4. startScan' = [startScan EXCEPT ![k] = r.to]
    BY <2>0 DEF ScanBody
  <2>5. r.to \in startScan[k]..Len(tape[k])
    BY <1>1, <1>7, <2>2
  <2>6. \A i \in startScan[k]..r.to - 1 : i \notin S /\ i \in startScan[k]..Len(tape[k])
    <3> HIDE DEF S
    <3>1. startScan[k] \in Nat /\ Len(tape[k]) \in Nat /\ k \in 0..1
      BY <1>1, <1>7
    <3> QED
      BY <2>2, <2>5, <3>1
  <2>7. startScan' \in [0..1 -> Nat] /\ \A l \in 0..1 : startScan'[l] \in startScan[l]..Len(tape[l]) + 1
    <3>1. ASSUME NEW l \in 0..1 PROVE startScan'[l] \in startScan[l]..Len(tape[l]) + 1
      <4>1. CASE l = k
        BY <1>1, <1>5, <2>4, <2>5, <4>1
      <4>2. CASE l # k
        BY <1>1, <1>5, <2>4, <4>2
      <4> QED
        BY <4>1, <4>2
    <3>2. r.to \in Nat
      BY <2>1, <2>2
    <3> QED
      BY <1>5, <2>4, <3>1, <3>2
  <2>8. \A i \in startScan[0]..startScan'[0] - 1 : Regular[i].status # "Pending"
    <3>1. CASE k = 0
      BY <1>1, <1>2, <1>5, <2>4, <2>6, <3>1
    <3>2. CASE k = 1
      <4>1. startScan'[0] = startScan[0] /\ startScan[0] \in Nat
        BY <1>5, <2>4, <3>2
      <4> QED
        BY <4>1
    <3> QED
      BY <1>7, <3>1, <3>2
  <2>9. \A i \in startScan[1]..startScan'[1] - 1 : Heads[i].status = "Completed"
    <3>1. CASE k = 1
      BY <1>1, <1>2, <1>5, <2>4, <2>6, <3>1
    <3>2. CASE k = 0
      <4>1. startScan'[1] = startScan[1] /\ startScan[1] \in Nat
        BY <1>5, <2>4, <3>2
      <4> QED
        BY <4>1
    <3> QED
      BY <1>7, <3>1, <3>2
  <2> QED
    BY <2>3, <2>7, <2>8, <2>9 DEF StartsMove
<1> QED
  BY <1>4, <1>6, <1>7

\* A scan is what it looks like from outside.
LEMMA ScanIsSeen ==
  ASSUME Types, Kinds, RangesKept, Owners, NEW t \in Threads, Scan(t)
  PROVE  \E h : ScanView(t, h)
<1>1. pc[t] = "scan" /\ UNCHANGED <<finished, syncVars>> /\ \E first, t0, r : ScanBody(t, first, t0, r)
  BY ScanHasBody
<1>2. PICK first, t0, r : ScanBody(t, first, t0, r)
  BY <1>1
<1>3. TapesAfter(t, r.chosen) /\ MayTake(t, r.chosen)
  BY <1>2, ScanTakes
<1>4. Continues(t, r.chosen) /\ StartsMove
  BY <1>1, <1>2, ScanContinues
<1>5. turn' \in [Threads -> 0..1]
  <2>1. turn' = [turn EXCEPT ![t] = first] /\ first \in 0..1
    BY <1>2 DEF ScanBody, Types
  <2> QED
    BY <2>1 DEF Types
<1> QED
  BY <1>1, <1>3, <1>4, <1>5 DEF ScanView

-----------------------------------------------------------------------------
(* Places and entries.                                                     *)

\* The entries of both tapes, by place.
LEMMA EntryAt ==
  ASSUME Types, Kinds
  PROVE  /\ \A i \in DOMAIN Regular : <<0, i>> \in Indices /\ Entry(<<0, i>>) = Regular[i]
         /\ \A i \in DOMAIN Heads : <<1, i>> \in Indices /\ Entry(<<1, i>>) = Heads[i]
         /\ \A h \in Indices : \/ h = <<0, h[2]>> /\ h[1] = 0 /\ h[2] \in DOMAIN Regular
                               \/ h = <<1, h[2]>> /\ h[1] = 1 /\ h[2] \in DOMAIN Heads
         /\ \A h \in Indices : Entry(h) \in EntryType /\ h # None
<1>0. MaxEntries \in Nat /\ MaxCoros \in Nat /\ Len(Regular) <= MaxEntries /\ Len(Heads) <= MaxCoros
  BY Bounds DEF Kinds
<1>1. tape[0] = Regular /\ tape[1] = Heads /\ Regular \in Seq(EntryType) /\ Heads \in Seq(EntryType)
  BY DEF Regular, Heads, Kinds
<1>2. ASSUME NEW i \in DOMAIN Regular PROVE <<0, i>> \in Indices /\ Entry(<<0, i>>) = Regular[i]
  <2>1. i \in 1..MaxEntries
    BY <1>0, <1>1
  <2> QED
    BY <1>1, <2>1 DEF Indices, Places, Entry
<1>3. ASSUME NEW i \in DOMAIN Heads PROVE <<1, i>> \in Indices /\ Entry(<<1, i>>) = Heads[i]
  <2>1. i \in 1..MaxCoros
    BY <1>0, <1>1
  <2> QED
    BY <1>1, <2>1 DEF Indices, Places, Entry
<1>4. ASSUME NEW h \in Indices
      PROVE  \/ h = <<0, h[2]>> /\ h[1] = 0 /\ h[2] \in DOMAIN Regular
             \/ h = <<1, h[2]>> /\ h[1] = 1 /\ h[2] \in DOMAIN Heads
  BY <1>1 DEF Indices, Places
<1>5. ASSUME NEW h \in Indices PROVE Entry(h) \in EntryType /\ h # None
  <2>1. h[2] # 0
    BY <1>1, <1>4
  <2> QED
    BY <1>1, <1>2, <1>3, <1>4, <2>1 DEF None
<1> QED
  BY <1>2, <1>3, <1>4, <1>5

\* Dependencies are entries.
LEMMA DependOnEntries ==
  ASSUME Types, Kinds
  PROVE  \A g \in Indices : Entry(g).deps \subseteq Indices
<1>1. /\ \A i \in DOMAIN Regular : Regular[i].deps \subseteq Indices
      /\ \A i \in DOMAIN Heads : Heads[i].deps \subseteq Indices
  BY DEF Kinds
<1> TAKE g \in Indices
<1>2. CASE g = <<0, g[2]>> /\ g[1] = 0 /\ g[2] \in DOMAIN Regular
  <2>1. Entry(g) = Regular[g[2]]
    BY <1>2 DEF Entry, Regular
  <2> QED
    BY <1>1, <1>2, <2>1
<1>3. CASE g = <<1, g[2]>> /\ g[1] = 1 /\ g[2] \in DOMAIN Heads
  <2>1. Entry(g) = Heads[g[2]]
    BY <1>3 DEF Entry, Heads
  <2> QED
    BY <1>1, <1>3, <2>1
<1> QED
  BY <1>2, <1>3, EntryAt

\* What the pending entry is.
LEMMA PendingIsBusy ==
  ASSUME Types, Kinds, Owners, NEW t \in Threads, pending[t] # None
  PROVE  \E q \in DOMAIN Regular : pending[t] = <<0, q>> /\ pending[t][2] = q /\ Regular[q].status = "Busy"
<1>1. pending[t] \in Indices /\ pending[t][1] = 0 /\ Entry(pending[t]).status = "Busy"
  BY DEF Owners
<1> QED
  BY <1>1, EntryAt

\* The ranges of different forks are apart.
LEMMA RangesAreApart ==
  ASSUME Kinds, RangesKept, NEW f \in DOMAIN Regular, NEW g \in DOMAIN Regular, f # g,
         Regular[f].kind = "fork", Regular[g].kind = "fork"
  PROVE  (f..Join(f)) \cap (g..Join(g)) = {}
<1>1. /\ Join(f) \in DOMAIN Regular /\ Regular[f].dependents = f + 1..Join(f) - 1
      /\ \A p \in Regular[f].dependents : Regular[p].kind = "parallel"
      /\ Regular[Join(f)].kind = "join"
  BY DEF RangesKept
<1>2. /\ Join(g) \in DOMAIN Regular /\ Regular[g].dependents = g + 1..Join(g) - 1
      /\ \A p \in Regular[g].dependents : Regular[p].kind = "parallel"
      /\ Regular[Join(g)].kind = "join"
  BY DEF RangesKept
<1>3. f \in Nat /\ g \in Nat /\ Join(f) \in Nat /\ Join(g) \in Nat
  <2>1. Regular \in Seq(EntryType)
    BY DEF Kinds, Regular
  <2>2. DOMAIN Regular \subseteq Nat
    BY <2>1
  <2> QED
    BY <1>1, <1>2, <2>2
<1>4. f \notin g + 1..Join(g) /\ g \notin f + 1..Join(f)
  <2>1. f \notin g + 1..Join(g) - 1 /\ f # Join(g)
    BY <1>2
  <2>2. g \notin f + 1..Join(f) - 1 /\ g # Join(f)
    BY <1>1
  <2> QED
    BY <1>3, <2>1, <2>2
<1> QED
  BY <1>3, <1>4

\* Who depends on an entry that has not been completed has still to wait.
LEMMA DependentsWait ==
  ASSUME Types, Kinds, RangesKept, NEW q \in DOMAIN Regular, Regular[q].status # "Completed",
         NEW i \in Regular[q].dependents
  PROVE  /\ i \in DOMAIN Regular /\ Regular[i].satisfied # Regular[i].total
         /\ \/ Regular[q].kind = "fork" /\ Regular[i].kind = "parallel"
            \/ Regular[q].kind = "parallel" /\ Regular[i].kind = "join"
<1>1. Regular[q].kind \in {"fork", "parallel"}
  BY DEF Kinds
<1>2. CASE Regular[q].kind = "fork"
  <2>1. Join(q) \in DOMAIN Regular /\ Regular[q].dependents = q + 1..Join(q) - 1
    BY <1>2 DEF RangesKept
  <2>2. Regular[i].kind = "parallel" /\ Regular[i].total = 1 /\ Regular[i].satisfied = 0
    BY <1>2 DEF RangesKept
  <2>3. i \in DOMAIN Regular
    BY <2>1 DEF Kinds, Regular
  <2> QED
    BY <1>2, <2>2, <2>3
<1>3. CASE Regular[q].kind = "parallel"
  <2>1. PICK f \in DOMAIN Regular : Regular[f].kind = "fork" /\ q \in Regular[f].dependents \cup {Join(f)}
    BY <1>3 DEF RangesKept
  <2>2. /\ Regular[Join(f)].kind = "join" /\ Join(f) \in DOMAIN Regular
        /\ Regular[Join(f)].total = Cardinality(Regular[f].dependents)
        /\ Regular[Join(f)].satisfied = Cardinality(Done(Regular[f].dependents))
        /\ Regular[f].dependents = f + 1..Join(f) - 1
    BY <2>1 DEF RangesKept
  <2>3. q \in Regular[f].dependents
    BY <1>3, <2>1, <2>2
  <2>4. i = Join(f)
    BY <2>1, <2>3 DEF RangesKept
  <2>5. Cardinality(Done(Regular[f].dependents)) # Cardinality(Regular[f].dependents)
    <3>1. IsFiniteSet(Regular[f].dependents)
      <4>1. f \in Int /\ Join(f) \in Int
        <5>1. Regular \in Seq(EntryType)
          BY DEF Kinds, Regular
        <5>2. DOMAIN Regular \subseteq Int
          BY <5>1
        <5> QED
          BY <2>2, <5>2
      <4>2. IsFiniteSet(f + 1..Join(f) - 1)
        BY <4>1, FS_Interval
      <4> QED
        BY <2>2, <4>2
    <3>2. Done(Regular[f].dependents) \subseteq Regular[f].dependents /\ q \notin Done(Regular[f].dependents)
      BY DEF Done
    <3> QED
      BY <2>3, <3>1, <3>2, FS_Subset
  <2> QED
    BY <1>3, <2>2, <2>4, <2>5
<1> QED
  BY <1>1, <1>2, <1>3

-----------------------------------------------------------------------------
(* A scan keeps the invariant.                                             *)

\* Nothing that does not change with a load does.
LEMMA SameLoad ==
  ASSUME load' = load
  PROVE  EntryType' = EntryType /\ Places' = Places /\ MaxEntries' = MaxEntries /\ MaxCoros' = MaxCoros
BY DEF EntryType, Places, MaxEntries, MaxCoros

\* Scans leave the places, and what does not change in an entry.
LEMMA ScanKeepsPlaces ==
  ASSUME Types, Kinds, NEW t, NEW h, ScanView(t, h)
  PROVE  /\ load' = load /\ Indices' = Indices
         /\ DOMAIN Regular' = DOMAIN Regular /\ DOMAIN Heads' = DOMAIN Heads
         /\ \A i \in DOMAIN Regular : Same(Regular[i], Regular'[i])
         /\ \A i \in DOMAIN Heads : Same(Heads[i], Heads'[i])
         /\ \A g \in Indices : Same(Entry(g), Entry(g)') /\ (HasCallable(g)' <=> HasCallable(g))
         /\ Regular' \in Seq(EntryType) /\ Heads' \in Seq(EntryType)
<1>1. load' = load
  BY DEF ScanView, syncVars
<1>2. Places' = Places
  BY <1>1, SameLoad
<1>3. Regular = tape[0] /\ Heads = tape[1] /\ Regular' = tape'[0] /\ Heads' = tape'[1]
  BY DEF Regular, Heads
<1>4. /\ tape \in [0..1 -> Seq(EntryType)] /\ tape' \in [0..1 -> Seq(EntryType)]
      /\ Len(Regular') = Len(Regular) /\ Len(Heads') = Len(Heads)
  BY DEF Kinds, ScanView, TapesAfter
<1>5. DOMAIN Regular' = DOMAIN Regular /\ DOMAIN Heads' = DOMAIN Heads
  BY <1>3, <1>4
<1>6. \A h1 \in Places : DOMAIN tape'[h1[1]] = DOMAIN tape[h1[1]]
  <2>1. \A h1 \in Places : h1[1] \in 0..1
    BY DEF Places
  <2>2. \A k \in 0..1 : DOMAIN tape'[k] = DOMAIN tape[k]
    BY <1>3, <1>5
  <2> QED
    BY <2>1, <2>2
<1>7. Indices' = Indices
  BY <1>2, <1>6 DEF Indices
<1>8. /\ \A i \in DOMAIN Regular : Same(Regular[i], Regular'[i])
      /\ \A i \in DOMAIN Heads : Same(Heads[i], Heads'[i])
  BY DEF ScanView, TapesAfter
<1>9. \A g \in Indices : Same(Entry(g), Entry(g)')
  <2> TAKE g \in Indices
  <2>1. \/ g[1] = 0 /\ g[2] \in DOMAIN Regular
        \/ g[1] = 1 /\ g[2] \in DOMAIN Heads
    BY EntryAt
  <2> QED
    BY <1>3, <1>8, <2>1 DEF Entry
<1>10. \A g \in Indices : HasCallable(g)' <=> HasCallable(g)
  BY <1>9 DEF HasCallable, Same
<1>11. Regular' \in Seq(EntryType) /\ Heads' \in Seq(EntryType)
  BY <1>3, <1>4
<1> QED
  BY <1>1, <1>5, <1>7, <1>8, <1>9, <1>10, <1>11

\* Which statuses there are afterwards.
LEMMA ScanStatuses ==
  ASSUME Types, Kinds, Owners, NEW t \in Threads, NEW h, ScanView(t, h)
  PROVE  /\ \A i \in DOMAIN Regular :
              /\ Regular'[i].status = "Completed" <=> (Regular[i].status = "Completed" \/ pending[t] = <<0, i>>)
              /\ Regular'[i].status = "Pending" <=> (Regular[i].status = "Pending" /\ h # <<0, i>>)
         /\ \A i \in DOMAIN Heads :
              /\ Heads[i].status = "Completed" => Heads'[i].status = "Completed"
              /\ Heads'[i].status = "Pending" <=> (Heads[i].status = "Pending" /\ h # <<1, i>>)
              /\ Heads'[i].status = "Completed" => Heads[i].status = "Completed" \/ i \in finished
         /\ \A g \in Indices :
              /\ Entry(g)'.status = "Pending" <=> (Entry(g).status = "Pending" /\ h # g)
              /\ Entry(g).status = "Completed" => Entry(g)'.status = "Completed"
<1>1. h # None => h \in Indices /\ Entry(h).status = "Pending"
  BY DEF ScanView, MayTake
<1>2. /\ \A i \in DOMAIN Regular :
           Regular'[i].status = IF h = <<0, i>> THEN "Busy"
                                ELSE IF pending[t] = <<0, i>> THEN "Completed" ELSE Regular[i].status
      /\ \A i \in DOMAIN Heads :
           IF h = <<1, i>> THEN Heads'[i].status = "Busy"
           ELSE \/ Heads'[i].status = Heads[i].status
                \/ Heads[i].status = "Busy" /\ Heads'[i].status = "Completed" /\ i \in finished
  BY DEF ScanView, TapesAfter
<1>3. \A i \in DOMAIN Regular : h = <<0, i>> => Regular[i].status = "Pending"
  BY <1>1, EntryAt
<1>4. \A i \in DOMAIN Heads : h = <<1, i>> => Heads[i].status = "Pending"
  BY <1>1, EntryAt
<1>5. \A i \in DOMAIN Regular : pending[t] = <<0, i>> => Regular[i].status = "Busy"
  <2> TAKE i \in DOMAIN Regular
  <2> HAVE pending[t] = <<0, i>>
  <2>1. pending[t] # None
    BY EntryAt
  <2> QED
    BY <2>1, PendingIsBusy
<1>6. ASSUME NEW i \in DOMAIN Regular
      PROVE  /\ Regular'[i].status = "Completed" <=> (Regular[i].status = "Completed" \/ pending[t] = <<0, i>>)
             /\ Regular'[i].status = "Pending" <=> (Regular[i].status = "Pending" /\ h # <<0, i>>)
  BY <1>2, <1>3, <1>5
<1>7. ASSUME NEW i \in DOMAIN Heads
      PROVE  /\ Heads[i].status = "Completed" => Heads'[i].status = "Completed"
             /\ Heads'[i].status = "Pending" <=> (Heads[i].status = "Pending" /\ h # <<1, i>>)
             /\ Heads'[i].status = "Completed" => Heads[i].status = "Completed" \/ i \in finished
  BY <1>2, <1>4
<1>8. ASSUME NEW g \in Indices
      PROVE  /\ Entry(g)'.status = "Pending" <=> (Entry(g).status = "Pending" /\ h # g)
             /\ Entry(g).status = "Completed" => Entry(g)'.status = "Completed"
  <2>1. Regular = tape[0] /\ Heads = tape[1] /\ Regular' = tape'[0] /\ Heads' = tape'[1]
    BY DEF Regular, Heads
  <2>2. \/ g = <<0, g[2]>> /\ g[1] = 0 /\ g[2] \in DOMAIN Regular
        \/ g = <<1, g[2]>> /\ g[1] = 1 /\ g[2] \in DOMAIN Heads
    BY EntryAt
  <2>3. CASE g = <<0, g[2]>> /\ g[1] = 0 /\ g[2] \in DOMAIN Regular
    <3>1. Entry(g) = Regular[g[2]] /\ Entry(g)' = Regular'[g[2]]
      BY <2>1, <2>3 DEF Entry
    <3> QED
      BY <1>6, <2>3, <3>1
  <2>4. CASE g = <<1, g[2]>> /\ g[1] = 1 /\ g[2] \in DOMAIN Heads
    <3>1. Entry(g) = Heads[g[2]] /\ Entry(g)' = Heads'[g[2]]
      BY <2>1, <2>4 DEF Entry
    <3> QED
      BY <1>7, <2>4, <3>1
  <2> QED
    BY <2>2, <2>3, <2>4
<1> QED
  BY <1>6, <1>7, <1>8

\* A call is counted where it is made.
LEMMA CallCounted ==
  ASSUME NEW c \in [0..1 -> Seq(Nat)], NEW k \in 0..1, NEW i \in DOMAIN c[k], NEW d,
         d = [c EXCEPT ![k][i] = @ + 1]
  PROVE  /\ d \in [0..1 -> Seq(Nat)] /\ \A l \in 0..1 : Len(d[l]) = Len(c[l])
         /\ \A l \in 0..1 : \A j \in DOMAIN c[l] : d[l][j] = c[l][j] + IF <<l, j>> = <<k, i>> THEN 1 ELSE 0
<1> DEFINE e == [c[k] EXCEPT ![i] = c[k][i] + 1]
<1>1. d = [c EXCEPT ![k] = e]
  OBVIOUS
<1>2. c[k] \in Seq(Nat) /\ c[k][i] + 1 \in Nat
  OBVIOUS
<1>3. e \in Seq(Nat) /\ Len(e) = Len(c[k]) /\ e[i] = c[k][i] + 1 /\ \A j \in DOMAIN c[k] : j # i => e[j] = c[k][j]
  BY <1>2
<1> HIDE DEF e
<1>4. d \in [0..1 -> Seq(Nat)] /\ d[k] = e /\ \A l \in 0..1 : l # k => d[l] = c[l]
  BY <1>1, <1>3
<1>5. \A l \in 0..1 : Len(d[l]) = Len(c[l])
  BY <1>3, <1>4
<1>6. ASSUME NEW l \in 0..1, NEW j \in DOMAIN c[l]
      PROVE  d[l][j] = c[l][j] + IF <<l, j>> = <<k, i>> THEN 1 ELSE 0
  <2>1. c[l][j] \in Nat
    OBVIOUS
  <2>2. CASE l = k /\ j = i
    BY <1>3, <1>4, <2>2
  <2>3. CASE l # k \/ j # i
    BY <1>3, <1>4, <2>1, <2>3
  <2> QED
    BY <2>2, <2>3
<1> QED
  BY <1>4, <1>5, <1>6

\* So it is in a scan.
LEMMA ScanCalls ==
  ASSUME Types, Kinds, NEW t, NEW h, ScanView(t, h)
  PROVE  /\ calls' \in [0..1 -> Seq(Nat)] /\ \A k \in 0..1 : Len(calls'[k]) = Len(calls[k])
         /\ \A g \in Indices : calls'[g[1]][g[2]] = calls[g[1]][g[2]] + IF g = h /\ HasCallable(h) THEN 1 ELSE 0
<1>1. calls \in [0..1 -> Seq(Nat)] /\ \A k \in 0..1 : DOMAIN calls[k] = DOMAIN tape[k]
  BY DEF Kinds
<1>2. \A g \in Indices : g[1] \in 0..1 /\ g[2] \in DOMAIN calls[g[1]] /\ g = <<g[1], g[2]>>
  BY <1>1 DEF Indices, Places
<1>3. \A g \in Indices : calls[g[1]][g[2]] \in Nat
  BY <1>1, <1>2
<1>4. CASE h # None /\ HasCallable(h)
  <2>1. calls' = [calls EXCEPT ![h[1]][h[2]] = @ + 1] /\ h \in Indices
    BY <1>4 DEF ScanView, Continues, MayTake
  <2>2. /\ calls' \in [0..1 -> Seq(Nat)] /\ \A l \in 0..1 : Len(calls'[l]) = Len(calls[l])
        /\ \A l \in 0..1 : \A j \in DOMAIN calls[l] :
             calls'[l][j] = calls[l][j] + IF <<l, j>> = <<h[1], h[2]>> THEN 1 ELSE 0
    <3> DEFINE P(d) == /\ d \in [0..1 -> Seq(Nat)] /\ \A l \in 0..1 : Len(d[l]) = Len(calls[l])
                       /\ \A l \in 0..1 : \A j \in DOMAIN calls[l] :
                            d[l][j] = calls[l][j] + IF <<l, j>> = <<h[1], h[2]>> THEN 1 ELSE 0
    <3>1. \A d : d = [calls EXCEPT ![h[1]][h[2]] = @ + 1] => P(d)
      BY <1>1, <1>2, <2>1, CallCounted
    <3> HIDE DEF P
    <3>2. P(calls')
      BY <2>1, <3>1
    <3> QED
      BY <3>2 DEF P
  <2>3. \A g \in Indices : (<<g[1], g[2]>> = <<h[1], h[2]>>) <=> g = h
    BY <1>2, <2>1
  <2> QED
    BY <1>2, <1>4, <2>2, <2>3
<1>5. CASE ~(h # None /\ HasCallable(h))
  <2>1. calls' = calls
    BY <1>5 DEF ScanView, Continues
  <2>2. \A g \in Indices : ~(g = h /\ HasCallable(h))
    BY <1>5, EntryAt
  <2> QED
    BY <1>1, <1>3, <2>1, <2>2
<1> QED
  BY <1>4, <1>5

\* Kinds is kept.
LEMMA ScanKeepsKinds ==
  ASSUME Types, Kinds, RangesKept, NEW t \in Threads, Owners, NEW h, ScanView(t, h)
  PROVE  Kinds'
<1>1. /\ load' = load /\ Indices' = Indices
      /\ DOMAIN Regular' = DOMAIN Regular /\ DOMAIN Heads' = DOMAIN Heads
      /\ \A i \in DOMAIN Regular : Same(Regular[i], Regular'[i])
      /\ \A i \in DOMAIN Heads : Same(Heads[i], Heads'[i])
  BY ScanKeepsPlaces
<1>2. EntryType' = EntryType /\ MaxEntries' = MaxEntries /\ MaxCoros' = MaxCoros
  BY <1>1, SameLoad
<1>3. Regular = tape[0] /\ Heads = tape[1] /\ Regular' = tape'[0] /\ Heads' = tape'[1]
  BY DEF Regular, Heads
<1>4. tape' \in [0..1 -> Seq(EntryType)] /\ Len(Regular') = Len(Regular) /\ Len(Heads') = Len(Heads)
  BY DEF ScanView, TapesAfter
<1>5. calls' \in [0..1 -> Seq(Nat)] /\ \A k \in 0..1 : Len(calls'[k]) = Len(calls[k])
  BY ScanCalls
<1>6. \A k \in 0..1 : Len(tape'[k]) = Len(tape[k])
  BY <1>3, <1>4
<1>7. \A k \in 0..1 : Len(calls'[k]) = Len(tape'[k]) /\ startScan'[k] \in 1..Len(tape'[k]) + 1
  <2> TAKE k \in 0..1
  <2>1. startScan'[k] \in startScan[k]..Len(tape[k]) + 1
    BY DEF ScanView, StartsMove
  <2>2. startScan[k] \in 1..Len(tape[k]) + 1 /\ Len(calls[k]) = Len(tape[k]) /\ Len(tape[k]) \in Nat
    BY DEF Kinds
  <2> QED
    BY <1>5, <1>6, <2>1, <2>2, SMTT(30)
<1>8. \A i \in DOMAIN Regular : Regular[i].kind \notin {"parallel", "join"} => Regular'[i].satisfied = Regular[i].satisfied
  <2> TAKE i \in DOMAIN Regular
  <2> HAVE Regular[i].kind \notin {"parallel", "join"}
  <2>1. ~(pending[t] # None /\ i \in Regular[pending[t][2]].dependents)
    <3> SUFFICES ASSUME pending[t] # None, i \in Regular[pending[t][2]].dependents PROVE FALSE
      OBVIOUS
    <3>1. PICK q \in DOMAIN Regular : pending[t] = <<0, q>> /\ pending[t][2] = q /\ Regular[q].status = "Busy"
      BY PendingIsBusy
    <3> QED
      BY <3>1, DependentsWait
  <2>2. Regular'[i].satisfied = Regular[i].satisfied + 0
    BY <2>1 DEF ScanView, TapesAfter
  <2>3. Regular[i].satisfied \in Nat
    BY <1>3, EntryFields DEF Kinds
  <2> QED
    BY <2>2, <2>3
<1>9. ASSUME NEW i \in DOMAIN Regular'
      PROVE  LET e == Regular'[i] IN
               /\ e.kind # "head" /\ e.deps \subseteq Indices'
               /\ e.coro # 0 <=> e.kind = "resume"
               /\ e.coro <= Len(Heads')
               /\ e.kind \notin {"fork", "parallel"} => e.dependents = {}
               /\ e.kind \notin {"parallel", "join"} => e.total = 0 /\ e.satisfied = 0
  <2>1. i \in DOMAIN Regular /\ Same(Regular[i], Regular'[i])
    BY <1>1
  <2>2. LET e == Regular[i] IN
          /\ e.kind # "head" /\ e.deps \subseteq Indices
          /\ e.coro # 0 <=> e.kind = "resume"
          /\ e.coro <= Len(Heads)
          /\ e.kind \notin {"fork", "parallel"} => e.dependents = {}
          /\ e.kind \notin {"parallel", "join"} => e.total = 0 /\ e.satisfied = 0
    BY <2>1 DEF Kinds
  <2> QED
    BY <1>1, <1>4, <1>8, <2>1, <2>2 DEF Same
<1>10. ASSUME NEW i \in DOMAIN Heads'
       PROVE  LET e == Heads'[i] IN
                /\ e.kind = "head" /\ e.coro = i /\ e.deps \subseteq Indices'
                /\ e.total = 0 /\ e.satisfied = 0
  <2>1. i \in DOMAIN Heads /\ Same(Heads[i], Heads'[i]) /\ Heads'[i].satisfied = Heads[i].satisfied
    BY <1>1 DEF ScanView, TapesAfter
  <2>2. LET e == Heads[i] IN
          /\ e.kind = "head" /\ e.coro = i /\ e.deps \subseteq Indices
          /\ e.total = 0 /\ e.satisfied = 0
    BY <2>1 DEF Kinds
  <2> QED
    BY <1>1, <2>1, <2>2 DEF Same
<1>11. Len(Regular') <= MaxEntries' /\ Len(Heads') <= MaxCoros'
  BY <1>2, <1>4 DEF Kinds
<1> QED
  BY <1>2, <1>4, <1>5, <1>7, <1>9, <1>10, <1>11 DEF Kinds

\* What a fork says, so that it can be talked about.
ForkSays(f) ==
  LET join == Join(f)
      range == Regular[f].dependents
  IN /\ join \in DOMAIN Regular /\ range = f + 1..join - 1
     /\ \A p \in range :
          /\ Regular[p].kind = "parallel" /\ Regular[p].dependents = {join} /\ Regular[p].total = 1
          /\ Regular[p].satisfied = IF Regular[f].status = "Completed" THEN 1 ELSE 0
     /\ Regular[join].kind = "join" /\ Regular[join].total = Cardinality(range)
     /\ Regular[join].satisfied = Cardinality(Done(range))

\* RangesKept is what every fork says, and that nothing else is in a range.
LEMMA ForksSay ==
  RangesKept <=> /\ \A f \in DOMAIN Regular : Regular[f].kind = "fork" => ForkSays(f)
                 /\ \A i \in DOMAIN Regular : Regular[i].kind \in {"parallel", "join"} =>
                      \E f \in DOMAIN Regular : Regular[f].kind = "fork" /\ i \in Regular[f].dependents \cup {Join(f)}
BY DEF RangesKept, ForkSays

\* Who has a given entry among its dependents: its fork, or what precedes the join.
LEMMA WhoseDependent ==
  ASSUME Types, Kinds, RangesKept, NEW f \in DOMAIN Regular, Regular[f].kind = "fork",
         NEW q \in DOMAIN Regular
  PROVE  /\ \A p \in Regular[f].dependents : p \in Regular[q].dependents <=> q = f
         /\ Join(f) \in Regular[q].dependents <=> q \in Regular[f].dependents
<1>1. ForkSays(f)
  BY ForksSay
<1>2. f \in Nat /\ q \in Nat /\ Join(f) \in Nat
  <2>1. Regular \in Seq(EntryType)
    BY DEF Kinds, Regular
  <2>2. DOMAIN Regular \subseteq Nat
    BY <2>1
  <2> QED
    BY <1>1, <2>2 DEF ForkSays
<1>3. CASE Regular[q].kind \notin {"fork", "parallel"}
  <2>1. Regular[q].dependents = {}
    BY <1>3 DEF Kinds
  <2>2. q # f /\ q \notin Regular[f].dependents
    BY <1>1, <1>3 DEF ForkSays
  <2> QED
    BY <2>1, <2>2
<1>4. CASE q = f
  <2>1. Join(f) \notin Regular[f].dependents /\ f \notin Regular[f].dependents
    BY <1>1, <1>2 DEF ForkSays
  <2> QED
    BY <1>4, <2>1
<1>5. CASE Regular[q].kind = "fork" /\ q # f
  <2>1. (f..Join(f)) \cap (q..Join(q)) = {}
    BY <1>5, RangesAreApart
  <2>2. ForkSays(q) /\ Join(q) \in Nat
    <3>1. ForkSays(q)
      BY <1>5, ForksSay
    <3>2. Regular \in Seq(EntryType)
      BY DEF Kinds, Regular
    <3>3. DOMAIN Regular \subseteq Nat
      BY <3>2
    <3> QED
      BY <3>1, <3>3 DEF ForkSays
  <2>3. Regular[q].dependents \subseteq q..Join(q) /\ Regular[f].dependents \subseteq f..Join(f)
    BY <1>1, <1>2, <2>2 DEF ForkSays
  <2>4. f <= Join(f)
    <3>1. Join(f) = f + Cardinality(Regular[f].dependents) + 1
      BY DEF Join
    <3>2. Cardinality(Regular[f].dependents) \in Nat
      BY <1>1, <1>2, FS_Interval, FS_CardinalityType DEF ForkSays
    <3> QED
      BY <1>2, <3>1, <3>2
  <2>5. Join(f) \in f..Join(f) /\ q \notin Regular[f].dependents
    BY <1>1, <1>2, <1>5, <2>4 DEF ForkSays
  <2> QED
    BY <1>5, <2>1, <2>3, <2>5
<1>6. CASE Regular[q].kind = "parallel"
  <2>1. PICK g \in DOMAIN Regular : Regular[g].kind = "fork" /\ q \in Regular[g].dependents \cup {Join(g)}
    BY <1>6 DEF RangesKept
  <2>2. ForkSays(g)
    BY <2>1, ForksSay
  <2>3. q \in Regular[g].dependents /\ Regular[q].dependents = {Join(g)}
    BY <1>6, <2>1, <2>2 DEF ForkSays
  <2>4. \A p \in Regular[f].dependents : p # Join(g) /\ q # f
    BY <1>1, <1>6, <2>2 DEF ForkSays
  <2>5. q # f
    BY <1>6
  <2>6. Join(f) = Join(g) <=> q \in Regular[f].dependents
    <3>1. CASE g = f
      BY <2>3, <3>1
    <3>2. CASE g # f
      <4>1. (f..Join(f)) \cap (g..Join(g)) = {}
        BY <2>1, <3>2, RangesAreApart
      <4>2. g \in Nat /\ Join(g) \in Nat
        <5>1. Regular \in Seq(EntryType)
          BY DEF Kinds, Regular
        <5>2. DOMAIN Regular \subseteq Nat
          BY <5>1
        <5> QED
          BY <2>2, <5>2 DEF ForkSays
      <4>3. q \in g..Join(g) /\ Join(g) \in g..Join(g)
        BY <1>2, <2>2, <2>3, <4>2 DEF ForkSays
      <4>4. Regular[f].dependents \subseteq f..Join(f)
        BY <1>1, <1>2 DEF ForkSays
      <4>5. Join(f) \in f..Join(f)
        <5>1. Cardinality(Regular[f].dependents) \in Nat
          BY <1>1, <1>2, FS_Interval, FS_CardinalityType DEF ForkSays
        <5> QED
          BY <1>2, <5>1 DEF Join
      <4> QED
        BY <4>1, <4>3, <4>4, <4>5
    <3> QED
      BY <3>1, <3>2
  <2> QED
    BY <2>3, <2>4, <2>5, <2>6
<1> QED
  BY <1>3, <1>4, <1>5, <1>6

\* A scan that completes an entry counts it where it is waited for.
LEMMA ScanKeepsRanges ==
  ASSUME Types, Kinds, RangesKept, Owners, NEW t \in Threads, NEW h, ScanView(t, h)
  PROVE  RangesKept'
<1>1. /\ DOMAIN Regular' = DOMAIN Regular
      /\ \A i \in DOMAIN Regular : Same(Regular[i], Regular'[i])
  BY ScanKeepsPlaces
<1>2. \A i \in DOMAIN Regular :
        Regular'[i].status = "Completed" <=> (Regular[i].status = "Completed" \/ pending[t] = <<0, i>>)
  BY ScanStatuses
<1>3. \A i \in DOMAIN Regular :
        Regular'[i].satisfied = Regular[i].satisfied
          + IF pending[t] # None /\ i \in Regular[pending[t][2]].dependents THEN 1 ELSE 0
  BY DEF ScanView, TapesAfter
<1>4. \A i \in DOMAIN Regular : Regular'[i].kind = Regular[i].kind /\ Regular'[i].dependents = Regular[i].dependents
                                /\ Regular'[i].total = Regular[i].total
  BY <1>1 DEF Same
<1>5. \A i \in DOMAIN Regular : Join(i)' = Join(i)
  BY <1>4 DEF Join
<1>6. Regular \in Seq(EntryType) /\ DOMAIN Regular \subseteq Nat
  BY DEF Kinds, Regular
<1>7. ASSUME NEW f \in DOMAIN Regular', Regular'[f].kind = "fork" PROVE ForkSays(f)'
  <2>1. f \in DOMAIN Regular /\ Regular[f].kind = "fork"
    BY <1>1, <1>4, <1>7
  <2>2. ForkSays(f)
    BY <2>1, ForksSay
  <2> DEFINE join == Join(f)
             range == Regular[f].dependents
  <2>3. Join(f)' = join /\ Regular'[f].dependents = range
    BY <1>4, <1>5, <2>1
  <2>4. join \in DOMAIN Regular /\ range = f + 1..join - 1 /\ range \subseteq DOMAIN Regular
    <3>1. join \in DOMAIN Regular /\ range = f + 1..join - 1
      BY <2>2 DEF ForkSays
    <3>2. DOMAIN Regular = 1..Len(Regular) /\ Len(Regular) \in Nat
      BY <1>6
    <3> QED
      BY <2>1, <3>1, <3>2
  <2>5. ASSUME NEW p \in range
        PROVE  Regular'[p].satisfied = IF Regular'[f].status = "Completed" THEN 1 ELSE 0
    <3>1. Regular[p].satisfied = IF Regular[f].status = "Completed" THEN 1 ELSE 0
      BY <2>2 DEF ForkSays
    <3>2. CASE pending[t] = None
      <4>1. pending[t] # <<0, f>>
        BY <2>1, <3>2, EntryAt
      <4> QED
        BY <1>2, <1>3, <2>1, <2>4, <3>1, <3>2, <4>1
    <3>3. CASE pending[t] # None
      <4>1. PICK q \in DOMAIN Regular : pending[t] = <<0, q>> /\ pending[t][2] = q /\ Regular[q].status = "Busy"
        BY <3>3, PendingIsBusy
      <4>2. p \in Regular[q].dependents <=> q = f
        BY <2>1, WhoseDependent
      <4>3. pending[t] = <<0, f>> <=> q = f
        BY <4>1
      <4>4. Regular'[p].satisfied = Regular[p].satisfied + IF q = f THEN 1 ELSE 0
        BY <1>3, <2>4, <3>3, <4>1, <4>2
      <4>5. CASE q = f
        BY <1>2, <2>1, <3>1, <4>1, <4>3, <4>4, <4>5
      <4>6. CASE q # f
        BY <1>2, <2>1, <3>1, <4>3, <4>4, <4>6
      <4> QED
        BY <4>5, <4>6
    <3> QED
      BY <3>2, <3>3
  <2>6. Regular'[join].satisfied = Cardinality(Done(range)')
    <3>1. Regular[join].satisfied = Cardinality(Done(range))
      BY <2>2 DEF ForkSays
    <3>2. Done(range) = {p \in range : Regular[p].status = "Completed"}
      BY DEF Done
    <3>3. Done(range)' = {p \in range : Regular'[p].status = "Completed"}
      BY <2>3 DEF Done
    <3>4. IsFiniteSet(range) /\ IsFiniteSet(Done(range)) /\ Cardinality(Done(range)) \in Nat
      <4>1. IsFiniteSet(range)
        BY <1>6, <2>1, <2>4, FS_Interval
      <4>2. IsFiniteSet(Done(range))
        BY <3>2, <4>1, FS_Subset
      <4> QED
        BY <4>1, <4>2, FS_CardinalityType
    <3>5. CASE pending[t] = None
      <4>1. \A p \in range : pending[t] # <<0, p>>
        BY <2>4, <3>5, EntryAt
      <4>2. Done(range)' = Done(range)
        BY <1>2, <2>4, <3>2, <3>3, <4>1
      <4> QED
        BY <1>3, <2>4, <3>1, <3>4, <3>5, <4>2
    <3>6. CASE pending[t] # None
      <4>1. PICK q \in DOMAIN Regular : pending[t] = <<0, q>> /\ pending[t][2] = q /\ Regular[q].status = "Busy"
        BY <3>6, PendingIsBusy
      <4>2. join \in Regular[q].dependents <=> q \in range
        BY <2>1, WhoseDependent
      <4>3. Regular'[join].satisfied = Regular[join].satisfied + IF q \in range THEN 1 ELSE 0
        BY <1>3, <2>4, <3>6, <4>1, <4>2
      <4>4. \A p \in range : Regular'[p].status = "Completed" <=> (Regular[p].status = "Completed" \/ p = q)
        BY <1>2, <2>4, <4>1
      <4>5. CASE q \in range
        <5>1. Done(range)' = Done(range) \cup {q} /\ q \notin Done(range)
          BY <3>2, <3>3, <4>1, <4>4, <4>5
        <5>2. Cardinality(Done(range) \cup {q}) = Cardinality(Done(range)) + 1
          BY <3>4, <5>1, FS_AddElement
        <5> QED
          BY <3>1, <4>3, <4>5, <5>1, <5>2
      <4>6. CASE q \notin range
        <5>1. Done(range)' = Done(range)
          BY <3>2, <3>3, <4>4, <4>6
        <5> QED
          BY <3>1, <3>4, <4>3, <4>6, <5>1
      <4> QED
        BY <4>5, <4>6
    <3> QED
      BY <3>5, <3>6
  <2>7. \A p \in range : Regular'[p].kind = "parallel" /\ Regular'[p].dependents = {join} /\ Regular'[p].total = 1
    BY <1>4, <2>2, <2>4 DEF ForkSays
  <2>8. Regular'[join].kind = "join" /\ Regular'[join].total = Cardinality(range)
    BY <1>4, <2>2, <2>4 DEF ForkSays
  <2>9. Regular'[join].satisfied = Cardinality({i \in range : Regular'[i].status = "Completed"})
    BY <2>3, <2>6 DEF Done
  <2>10. Done(Regular[f].dependents)' = {i \in range : Regular'[i].status = "Completed"}
    BY <2>3 DEF Done
  <2> DEFINE join2 == Join(f)'
             range2 == Regular'[f].dependents
  <2>11. join2 = join /\ range2 = range
    BY <2>3
  <2> HIDE DEF join, range, join2, range2
  <2>12. /\ join2 \in DOMAIN Regular' /\ range2 = f + 1..join2 - 1
         /\ \A p \in range2 :
              /\ Regular'[p].kind = "parallel" /\ Regular'[p].dependents = {join2} /\ Regular'[p].total = 1
              /\ Regular'[p].satisfied = IF Regular'[f].status = "Completed" THEN 1 ELSE 0
         /\ Regular'[join2].kind = "join" /\ Regular'[join2].total = Cardinality(range2)
         /\ Regular'[join2].satisfied = Cardinality(Done(Regular[f].dependents)')
    BY <1>1, <2>4, <2>5, <2>7, <2>8, <2>9, <2>10, <2>11
  <2> QED
    BY <2>12 DEF ForkSays, join2, range2
<1>8. ASSUME NEW i \in DOMAIN Regular', Regular'[i].kind \in {"parallel", "join"}
      PROVE  \E f \in DOMAIN Regular' : Regular'[f].kind = "fork" /\ i \in Regular'[f].dependents \cup {Join(f)'}
  <2>1. i \in DOMAIN Regular /\ Regular[i].kind \in {"parallel", "join"}
    BY <1>1, <1>4, <1>8
  <2>2. PICK f \in DOMAIN Regular : Regular[f].kind = "fork" /\ i \in Regular[f].dependents \cup {Join(f)}
    BY <2>1 DEF RangesKept
  <2> QED
    BY <1>1, <1>4, <1>5, <2>2
<1> QED
  BY <1>7, <1>8 DEF RangesKept, ForkSays

\* What a range is called with does not change.
ArgumentsSay(f) ==
  LET passed == [i \in 1..Cardinality(Regular[f].dependents) |-> Regular[f + i].arg]
  IN \/ \E r \in load.indices : /\ Regular[f].arg = <<r[1], r[1] + r[2]>>
                                /\ passed = IndexArgs(r[1], r[2])
     \/ \E r \in load.subranges : /\ Regular[f].arg = <<r[1], r[1] + r[2]>>
                                  /\ passed = SubrangeArgs(r[1], r[2], r[3])

\* Arguments stay when entries keep theirs.
LEMMA ArgumentsStay ==
  ASSUME Kinds, NEW f \in DOMAIN Regular, ForkSays(f), load' = load,
         \A i \in DOMAIN Regular : Regular'[i].arg = Regular[i].arg /\ Regular'[i].dependents = Regular[i].dependents,
         ArgumentsSay(f)
  PROVE  ArgumentsSay(f)'
<1>1. Regular \in Seq(EntryType) /\ DOMAIN Regular = 1..Len(Regular) /\ Len(Regular) \in Nat
  BY DEF Kinds, Regular
<1> DEFINE n == Cardinality(Regular[f].dependents)
<1>2. n \in Nat /\ f + n + 1 \in DOMAIN Regular
  <2>1. Join(f) \in DOMAIN Regular /\ Regular[f].dependents = f + 1..Join(f) - 1
    BY DEF ForkSays
  <2>2. f + 1 \in Int /\ Join(f) - 1 \in Int
    BY <1>1, <2>1
  <2>3. n \in Nat
    BY <2>1, <2>2, FS_Interval, FS_CardinalityType
  <2> QED
    BY <2>1, <2>3 DEF Join
<1>3. \A i \in 1..n : f + i \in DOMAIN Regular
  <2> HIDE DEF n
  <2> QED
    BY <1>1, <1>2
<1>4. [i \in 1..n |-> Regular'[f + i].arg] = [i \in 1..n |-> Regular[f + i].arg]
  <2> HIDE DEF n
  <2> QED
    BY <1>3
<1>5. Cardinality(Regular'[f].dependents) = n /\ Regular'[f].arg = Regular[f].arg
  OBVIOUS
<1> DEFINE passed == [i \in 1..n |-> Regular[f + i].arg]
<1>6. \/ \E r \in load.indices : /\ Regular[f].arg = <<r[1], r[1] + r[2]>>
                                 /\ passed = IndexArgs(r[1], r[2])
      \/ \E r \in load.subranges : /\ Regular[f].arg = <<r[1], r[1] + r[2]>>
                                   /\ passed = SubrangeArgs(r[1], r[2], r[3])
  BY DEF ArgumentsSay
<1>7. [i \in 1..Cardinality(Regular'[f].dependents) |-> Regular'[f + i].arg] = passed
  BY <1>4, <1>5
<1> HIDE DEF n, passed
<1> QED
  BY <1>5, <1>6, <1>7 DEF ArgumentsSay

\* Arguments is kept.
LEMMA ScanKeepsArguments ==
  ASSUME Types, Kinds, RangesKept, Arguments, NEW t, NEW h, ScanView(t, h)
  PROVE  Arguments'
<1>1. /\ load' = load /\ DOMAIN Regular' = DOMAIN Regular
      /\ \A i \in DOMAIN Regular : Same(Regular[i], Regular'[i])
  BY ScanKeepsPlaces
<1>2. \A i \in DOMAIN Regular : Regular'[i].arg = Regular[i].arg /\ Regular'[i].dependents = Regular[i].dependents
                                /\ Regular'[i].kind = Regular[i].kind
  BY <1>1 DEF Same
<1>3. ASSUME NEW f \in DOMAIN Regular', Regular'[f].kind = "fork" PROVE ArgumentsSay(f)'
  <2>1. f \in DOMAIN Regular /\ Regular[f].kind = "fork"
    BY <1>1, <1>2, <1>3
  <2>2. ForkSays(f)
    BY <2>1, ForksSay
  <2>3. ArgumentsSay(f)
    BY <2>1 DEF Arguments, ArgumentsSay
  <2> QED
    BY <1>1, <1>2, <2>1, <2>2, <2>3, ArgumentsStay
<1> QED
  BY <1>3 DEF Arguments, ArgumentsSay

\* Taken is kept: what is counted in an entry was missing there.
LEMMA ScanKeepsTaken ==
  ASSUME Types, Kinds, RangesKept, Taken, Owners, NEW t \in Threads, NEW h, ScanView(t, h)
  PROVE  Taken'
<1>1. /\ Indices' = Indices
      /\ \A g \in Indices : Same(Entry(g), Entry(g)') /\ (HasCallable(g)' <=> HasCallable(g))
  BY ScanKeepsPlaces
<1>2. \A g \in Indices :
        /\ Entry(g)'.status = "Pending" <=> (Entry(g).status = "Pending" /\ h # g)
        /\ Entry(g).status = "Completed" => Entry(g)'.status = "Completed"
  BY ScanStatuses
<1>3. \A g \in Indices : calls'[g[1]][g[2]] = calls[g[1]][g[2]] + IF g = h /\ HasCallable(h) THEN 1 ELSE 0
  BY ScanCalls
<1>4. h # None => /\ h \in Indices /\ Entry(h).status = "Pending"
                  /\ Entry(h)'.satisfied = Entry(h).total
                  /\ \A d \in Entry(h).deps : tape'[d[1]][d[2]].status = "Completed"
  BY DEF ScanView, MayTake
<1>5. \A g \in Indices : Entry(g).deps \subseteq Indices
  BY DependOnEntries
<1>6. ASSUME NEW g \in Indices, Entry(g).status # "Pending" PROVE Entry(g)'.satisfied = Entry(g).satisfied
  <2>1. Regular = tape[0] /\ Heads = tape[1] /\ Regular' = tape'[0] /\ Heads' = tape'[1]
    BY DEF Regular, Heads
  <2>2. CASE g = <<0, g[2]>> /\ g[1] = 0 /\ g[2] \in DOMAIN Regular
    <3>1. Entry(g) = Regular[g[2]] /\ Entry(g)' = Regular'[g[2]]
      BY <2>1, <2>2 DEF Entry
    <3>2. Regular[g[2]].satisfied = Regular[g[2]].total
      BY <1>6, <3>1 DEF Taken, Same
    <3>3. ~(pending[t] # None /\ g[2] \in Regular[pending[t][2]].dependents)
      <4> SUFFICES ASSUME pending[t] # None, g[2] \in Regular[pending[t][2]].dependents PROVE FALSE
        OBVIOUS
      <4>1. PICK q \in DOMAIN Regular : pending[t] = <<0, q>> /\ pending[t][2] = q /\ Regular[q].status = "Busy"
        BY PendingIsBusy
      <4> QED
        BY <3>2, <4>1, DependentsWait
    <3>4. Regular'[g[2]].satisfied = Regular[g[2]].satisfied + 0
      BY <2>2, <3>3 DEF ScanView, TapesAfter
    <3>5. Regular[g[2]].satisfied \in Nat
      BY <3>1, EntryAt, EntryFields
    <3> QED
      BY <3>1, <3>4, <3>5
  <2>3. CASE g = <<1, g[2]>> /\ g[1] = 1 /\ g[2] \in DOMAIN Heads
    BY <2>1, <2>3 DEF Entry, ScanView, TapesAfter
  <2> QED
    BY <2>2, <2>3, EntryAt
<1>7. ASSUME NEW g \in Indices, Entry(g)'.status # "Pending"
      PROVE  /\ Entry(g)'.satisfied = Entry(g)'.total
             /\ \A d \in Entry(g)'.deps : Entry(d)'.status = "Completed"
  <2>1. Entry(g)'.total = Entry(g).total /\ Entry(g)'.deps = Entry(g).deps
    BY <1>1 DEF Same
  <2>2. CASE g = h
    <3>1. h # None
      BY <2>2, EntryAt
    <3>2. \A d \in Entry(h).deps : Entry(d)' = tape'[d[1]][d[2]]
      BY DEF Entry
    <3> QED
      BY <1>4, <2>1, <2>2, <3>1, <3>2
  <2>3. CASE g # h
    <3>1. Entry(g).status # "Pending"
      BY <1>2, <1>7, <2>3
    <3>2. Entry(g).satisfied = Entry(g).total /\ \A d \in Entry(g).deps : Entry(d).status = "Completed"
      BY <3>1 DEF Taken
    <3> QED
      BY <1>2, <1>5, <1>6, <2>1, <3>1, <3>2
  <2> QED
    BY <2>2, <2>3
<1>8. ASSUME NEW g \in Indices
      PROVE  calls'[g[1]][g[2]] = IF Entry(g)'.status # "Pending" /\ HasCallable(g)' THEN 1 ELSE 0
  <2>1. calls[g[1]][g[2]] = IF Entry(g).status # "Pending" /\ HasCallable(g) THEN 1 ELSE 0
    BY DEF Taken
  <2>2. CASE g = h
    <3>1. h # None
      BY <2>2, EntryAt
    <3> QED
      BY <1>1, <1>2, <1>3, <1>4, <2>1, <2>2, <3>1
  <2>3. CASE g # h
    BY <1>1, <1>2, <1>3, <2>1, <2>3
  <2> QED
    BY <2>2, <2>3
<1> QED
  BY <1>1, <1>7, <1>8 DEF Taken

\* What a scan does to the threads.
ScanThreads(t, h) ==
  /\ pc' \in [Threads -> {"idle", "submit", "parked", "scan", "run", "check", "leave", "arrive",
                          "barrier", "gone"}]
  /\ chosen' \in [Threads -> {None} \cup Places] /\ pending' \in [Threads -> {None} \cup Places]
  /\ \A u \in Threads \ {t} : pc'[u] = pc[u] /\ chosen'[u] = chosen[u] /\ pending'[u] = pending[u]
  /\ \/ h # None /\ HasCallable(h) /\ pc'[t] = "run" /\ chosen'[t] = h /\ pending'[t] = None
     \/ h # None /\ ~HasCallable(h) /\ pc'[t] = "scan" /\ chosen'[t] = None /\ pending'[t] = h
     \/ /\ h = None /\ chosen'[t] = None /\ pending'[t] = None
        /\ \/ pc'[t] = "scan"
           \/ /\ pc'[t] = IF t = Main THEN "leave" ELSE "check"
              /\ \A i \in startScan[0]..Len(Regular) : Regular[i].status # "Pending"
              /\ \A i \in startScan[1]..Len(Heads) : Heads[i].status = "Completed"

\* A scan moves its thread that way.
LEMMA ScanMovesThreads ==
  ASSUME Types, Kinds, Owners, NEW t \in Threads, NEW h, ScanView(t, h)
  PROVE  ScanThreads(t, h)
<1>1. pc[t] = "scan" /\ chosen[t] = None
  BY DEF ScanView, Owners
<1>2. h # None => h \in Places
  BY DEF ScanView, MayTake, Indices
<1>3. Continues(t, h)
  BY DEF ScanView
<1>4. CASE h # None /\ HasCallable(h)
  <2>1. pc' = [pc EXCEPT ![t] = "run"] /\ chosen' = [chosen EXCEPT ![t] = h] /\ pending' = [pending EXCEPT ![t] = None]
    BY <1>3, <1>4 DEF Continues
  <2> QED
    BY <1>2, <1>4, <2>1 DEF Types, ScanThreads
<1>5. CASE h # None /\ ~HasCallable(h)
  <2>1. pc' = pc /\ chosen' = chosen /\ pending' = [pending EXCEPT ![t] = h]
    BY <1>3, <1>5 DEF Continues
  <2> QED
    BY <1>1, <1>2, <1>5, <2>1 DEF Types, ScanThreads
<1>6. CASE h = None
  <2>1. chosen' = chosen /\ pending' = [pending EXCEPT ![t] = None]
    BY <1>3, <1>6 DEF Continues
  <2>2. CASE pc' = pc
    BY <1>1, <1>6, <2>1, <2>2 DEF Types, ScanThreads
  <2>3. CASE pc' # pc
    <3>1. /\ pc' = [pc EXCEPT ![t] = IF t = Main THEN "leave" ELSE "check"]
          /\ \A i \in startScan[0]..Len(Regular) : Regular[i].status # "Pending"
          /\ \A i \in startScan[1]..Len(Heads) : Heads[i].status = "Completed"
      BY <1>3, <1>6, <2>3 DEF Continues
    <3> QED
      BY <1>1, <1>6, <2>1, <3>1 DEF Types, ScanThreads
  <2> QED
    BY <2>2, <2>3
<1> QED
  BY <1>4, <1>5, <1>6

\* Types is kept.
LEMMA ScanKeepsTypes ==
  ASSUME Types, Kinds, Owners, NEW t \in Threads, NEW h, ScanView(t, h)
  PROVE  Types'
<1>1. ScanThreads(t, h)
  BY ScanMovesThreads
<1>2. startScan' \in [0..1 -> Nat] /\ turn' \in [Threads -> 0..1] /\ UNCHANGED syncVars
  BY DEF ScanView, StartsMove
<1>3. Places' = Places
  BY <1>2, SameLoad DEF syncVars
<1> QED
  BY <1>1, <1>2, <1>3 DEF Types, ScanThreads, syncVars

\* Entries that others are responsible for stay busy.
LEMMA OthersStayBusy ==
  ASSUME Types, Kinds, Owners, CoroutinesKept, NEW t \in Threads, NEW h, ScanView(t, h),
         NEW u \in Threads \ {t}
  PROVE  /\ pc[u] = "run" => Entry(chosen[u])'.status = "Busy"
         /\ pending[u] # None => Entry(pending[u])'.status = "Busy"
<1>1. h # None => h \in Indices /\ Entry(h).status = "Pending"
  BY DEF ScanView, MayTake
<1>2. Regular = tape[0] /\ Heads = tape[1] /\ Regular' = tape'[0] /\ Heads' = tape'[1]
  BY DEF Regular, Heads
<1>3. ASSUME NEW g \in Indices, Entry(g).status = "Busy", pending[t] # g,
             g[1] = 1 => g[2] \notin finished
      PROVE  tape'[g[1]][g[2]].status = "Busy"
  <2>1. g # h
    BY <1>1, <1>3, EntryAt
  <2>2. CASE g = <<0, g[2]>> /\ g[1] = 0 /\ g[2] \in DOMAIN Regular
    <3>1. h # <<0, g[2]>> /\ pending[t] # <<0, g[2]>>
      BY <1>3, <2>1, <2>2
    <3>2. Regular'[g[2]].status = Regular[g[2]].status
      BY <2>2, <3>1 DEF ScanView, TapesAfter
    <3> QED
      BY <1>2, <1>3, <2>2, <3>2 DEF Entry
  <2>3. CASE g = <<1, g[2]>> /\ g[1] = 1 /\ g[2] \in DOMAIN Heads
    BY <1>2, <1>3, <2>1, <2>3 DEF Entry, ScanView, TapesAfter
  <2> QED
    BY <2>2, <2>3, EntryAt
<1>4. ASSUME pc[u] = "run" PROVE tape'[chosen[u][1]][chosen[u][2]].status = "Busy"
  <2> DEFINE g == chosen[u]
  <2>1. g \in Indices /\ Entry(g).status = "Busy" /\ g # None
    BY <1>4, EntryAt DEF Owners
  <2>2. pending[t] # g
    BY <2>1 DEF Owners
  <2>3. ASSUME g[1] = 1 PROVE g[2] \notin finished
    <3>1. g[2] \in DOMAIN Heads /\ Entry(g) = Heads[g[2]]
      BY <2>1, <2>3, EntryAt
    <3>2. RunsIn(g[2], u)
      BY <1>4, <3>1 DEF RunsIn, Kinds
    <3> QED
      BY <3>1, <3>2 DEF CoroutinesKept
  <2> QED
    BY <1>3, <2>1, <2>2, <2>3
<1>5. ASSUME pending[u] # None PROVE tape'[pending[u][1]][pending[u][2]].status = "Busy"
  <2> DEFINE g == pending[u]
  <2>1. g \in Indices /\ Entry(g).status = "Busy" /\ g[1] = 0
    BY <1>5 DEF Owners
  <2>2. pending[t] # g
    BY <1>5 DEF Owners
  <2> QED
    BY <1>3, <2>1, <2>2
<1> QED
  <2>1. ASSUME pc[u] = "run" PROVE Entry(chosen[u])'.status = "Busy"
    <3>1. ScanThreads(t, h)
      BY ScanMovesThreads
    <3>2. chosen'[u] = chosen[u]
      BY <3>1 DEF ScanThreads
    <3> QED
      BY <1>4, <2>1, <3>2 DEF Entry
  <2>2. ASSUME pending[u] # None PROVE Entry(pending[u])'.status = "Busy"
    <3>1. ScanThreads(t, h)
      BY ScanMovesThreads
    <3>2. pending'[u] = pending[u]
      BY <3>1 DEF ScanThreads
    <3> QED
      BY <1>5, <2>2, <3>2 DEF Entry
  <2> QED
    BY <2>1, <2>2

\* Owners is kept.
LEMMA ScanKeepsOwners ==
  ASSUME Types, Kinds, Owners, CoroutinesKept, NEW t \in Threads, NEW h, ScanView(t, h)
  PROVE  Owners'
<1>1. ScanThreads(t, h)
  BY ScanMovesThreads
<1>2. /\ Indices' = Indices
      /\ \A g \in Indices : Same(Entry(g), tape'[g[1]][g[2]]) /\ (tape'[g[1]][g[2]].kind \notin {"fork", "join"} <=> HasCallable(g))
  <2>1. \A g \in Indices : Same(Entry(g), Entry(g)')
    BY ScanKeepsPlaces
  <2>2. \A g \in Indices : Entry(g)' = tape'[g[1]][g[2]]
    BY DEF Entry
  <2>3. \A g \in Indices : Same(Entry(g), tape'[g[1]][g[2]])
    BY <2>1, <2>2
  <2> QED
    BY <2>3, ScanKeepsPlaces DEF Same, HasCallable
<1>3. h # None => /\ h \in Indices /\ Entry(h).status = "Pending"
                  /\ Entry(h).affinity = "AnyThread" \/ t = Main
  BY DEF ScanView, MayTake
<1>4. h # None => tape'[h[1]][h[2]].status = "Busy"
  <2> HAVE h # None
  <2> QED
    BY <1>3, EntryAt DEF ScanView, TapesAfter, Regular, Heads
<1>5. h # None /\ ~HasCallable(h) => h[1] = 0
  <2> HAVE h # None /\ ~HasCallable(h)
  <2>1. Entry(h).kind \in {"fork", "join"}
    BY DEF HasCallable
  <2>2. \A i \in DOMAIN Heads : Heads[i].kind = "head"
    BY DEF Kinds
  <2> QED
    BY <1>3, <2>1, <2>2, EntryAt
<1>6. ASSUME NEW u \in Threads
      PROVE  /\ IF pc'[u] = "run"
                THEN /\ chosen'[u] \in Indices
                     /\ tape'[chosen'[u][1]][chosen'[u][2]].kind \notin {"fork", "join"}
                     /\ tape'[chosen'[u][1]][chosen'[u][2]].status = "Busy"
                     /\ u # Main => tape'[chosen'[u][1]][chosen'[u][2]].affinity = "AnyThread"
                ELSE chosen'[u] = None
             /\ pending'[u] # None => /\ pc'[u] = "scan" /\ pending'[u] \in Indices /\ pending'[u][1] = 0
                                      /\ tape'[pending'[u][1]][pending'[u][2]].status = "Busy"
  <2>1. CASE u = t
    <3>1. CASE h # None /\ HasCallable(h)
      BY <1>1, <1>2, <1>3, <1>4, <2>1, <3>1 DEF ScanThreads, Same
    <3>2. CASE h # None /\ ~HasCallable(h)
      BY <1>1, <1>3, <1>4, <1>5, <2>1, <3>2 DEF ScanThreads
    <3>3. CASE h = None
      BY <1>1, <2>1, <3>3 DEF ScanThreads
    <3> QED
      BY <3>1, <3>2, <3>3
  <2>2. CASE u # t
    <3>1. pc'[u] = pc[u] /\ chosen'[u] = chosen[u] /\ pending'[u] = pending[u]
      BY <1>1, <2>2 DEF ScanThreads
    <3>2. pc[u] = "run" => tape'[chosen[u][1]][chosen[u][2]].status = "Busy"
      BY <2>2, <3>1, OthersStayBusy DEF Entry
    <3>3. pending[u] # None => tape'[pending[u][1]][pending[u][2]].status = "Busy"
      BY <2>2, <3>1, OthersStayBusy DEF Entry
    <3>4. pc[u] = "run" => chosen[u] \in Indices /\ HasCallable(chosen[u]) /\ (u # Main => Entry(chosen[u]).affinity = "AnyThread")
      BY DEF Owners
    <3>5. pc[u] # "run" => chosen[u] = None
      BY DEF Owners
    <3>6. pending[u] # None => pc[u] = "scan" /\ pending[u] \in Indices /\ pending[u][1] = 0
      BY DEF Owners
    <3>7. pc[u] = "run" => /\ tape'[chosen[u][1]][chosen[u][2]].kind \notin {"fork", "join"}
                           /\ u # Main => tape'[chosen[u][1]][chosen[u][2]].affinity = "AnyThread"
      BY <1>2, <3>4 DEF Same
    <3> QED
      BY <3>1, <3>2, <3>3, <3>4, <3>5, <3>6, <3>7
  <2> QED
    BY <2>1, <2>2
<1>7. \A u \in Threads : chosen[u] # h \/ h = None
  BY <1>3 DEF Owners
<1>8. \A u \in Threads : pending[u] # h \/ h = None
  BY <1>3 DEF Owners
<1>9. ASSUME NEW u \in Threads, NEW v \in Threads
      PROVE  /\ chosen'[u] = chosen'[v] /\ chosen'[u] # None => u = v
             /\ pending'[u] = pending'[v] /\ pending'[u] # None => u = v
             /\ chosen'[u] = pending'[v] => chosen'[u] = None
  <2>1. /\ chosen[u] = chosen[v] /\ chosen[u] # None => u = v
        /\ pending[u] = pending[v] /\ pending[u] # None => u = v
        /\ chosen[u] = pending[v] => chosen[u] = None
    BY DEF Owners
  <2>2. /\ u # t => chosen'[u] = chosen[u] /\ pending'[u] = pending[u]
        /\ v # t => chosen'[v] = chosen[v] /\ pending'[v] = pending[v]
    BY <1>1 DEF ScanThreads
  <2>3. chosen'[t] \in {None, h} /\ pending'[t] \in {None, h} /\ (chosen'[t] = None \/ pending'[t] = None)
    BY <1>1 DEF ScanThreads
  <2> QED
    BY <1>7, <1>8, <2>1, <2>2, <2>3
<1> QED
  BY <1>2, <1>6, <1>9 DEF Owners, Entry, HasCallable

\* CoroutinesKept is kept: what is taken has waited.
LEMMA ScanKeepsCoroutines ==
  ASSUME Types, Kinds, Owners, CoroutinesKept, NEW t \in Threads, NEW h, ScanView(t, h)
  PROVE  CoroutinesKept'
<1>1. ScanThreads(t, h)
  BY ScanMovesThreads
<1>2. /\ Indices' = Indices /\ DOMAIN Heads' = DOMAIN Heads
      /\ \A g \in Indices : Same(Entry(g), tape'[g[1]][g[2]])
  <2>1. \A g \in Indices : Same(Entry(g), Entry(g)')
    BY ScanKeepsPlaces
  <2>2. \A g \in Indices : Entry(g)' = tape'[g[1]][g[2]]
    BY DEF Entry
  <2> QED
    BY <2>1, <2>2, ScanKeepsPlaces
<1>3. h # None => h \in Indices /\ Entry(h).status = "Pending"
  BY DEF ScanView, MayTake
<1>4. finished' = finished
  BY DEF ScanView
<1>5. \A i \in DOMAIN Heads : Heads'[i].status = "Completed" => Heads[i].status = "Completed" \/ i \in finished
  BY ScanStatuses
<1>6. ASSUME NEW c, NEW g \in Indices, Waits(c, g)' PROVE Waits(c, g) /\ g # h
  <2>1. Entry(g)'.status = "Pending" <=> (Entry(g).status = "Pending" /\ h # g)
    BY ScanStatuses
  <2>2. Entry(g)' = tape'[g[1]][g[2]] /\ Entry(g)'.coro = Entry(g).coro
    BY <1>2 DEF Entry, Same
  <2> QED
    BY <1>6, <2>1, <2>2 DEF Waits
<1>7. ASSUME NEW c, NEW u \in Threads, RunsIn(c, u)' PROVE IF u = t THEN h \in Indices /\ Waits(c, h) ELSE RunsIn(c, u)
  <2>1. pc'[u] = "run" /\ tape'[chosen'[u][1]][chosen'[u][2]].coro = c
    BY <1>7 DEF RunsIn, Entry
  <2>2. CASE u = t
    <3>1. h # None /\ chosen'[t] = h
      BY <1>1, <2>1, <2>2 DEF ScanThreads
    <3> QED
      BY <1>2, <1>3, <2>1, <2>2, <3>1 DEF Waits, Same
  <2>3. CASE u # t
    <3>1. pc[u] = "run" /\ chosen'[u] = chosen[u]
      BY <1>1, <2>1, <2>3 DEF ScanThreads
    <3>2. chosen[u] \in Indices
      BY <3>1 DEF Owners
    <3> QED
      BY <1>2, <2>1, <2>3, <3>1, <3>2 DEF RunsIn, Same
  <2> QED
    BY <2>2, <2>3
<1>8. ASSUME NEW c \in DOMAIN Heads
      PROVE  /\ \A g1, g2 \in Indices : Waits(c, g1)' /\ Waits(c, g2)' => g1 = g2
             /\ \A u, v \in Threads : RunsIn(c, u)' /\ RunsIn(c, v)' => u = v
             /\ \A g \in Indices, u \in Threads : ~(Waits(c, g)' /\ RunsIn(c, u)')
             /\ c \in finished => /\ \A g \in Indices : ~Waits(c, g)'
                                  /\ \A u \in Threads : ~RunsIn(c, u)'
             /\ Heads'[c].status = "Completed" => c \in finished
  <2>1. /\ \A g1, g2 \in Indices : Waits(c, g1) /\ Waits(c, g2) => g1 = g2
        /\ \A u, v \in Threads : RunsIn(c, u) /\ RunsIn(c, v) => u = v
        /\ \A g \in Indices, u \in Threads : ~(Waits(c, g) /\ RunsIn(c, u))
        /\ c \in finished => /\ \A g \in Indices : ~Waits(c, g)
                             /\ \A u \in Threads : ~RunsIn(c, u)
        /\ Heads[c].status = "Completed" => c \in finished
    BY DEF CoroutinesKept
  <2>2. \A g1, g2 \in Indices : Waits(c, g1)' /\ Waits(c, g2)' => g1 = g2
    BY <1>6, <2>1
  <2>3. \A u, v \in Threads : RunsIn(c, u)' /\ RunsIn(c, v)' => u = v
    BY <1>7, <2>1
  <2>4. \A g \in Indices, u \in Threads : ~(Waits(c, g)' /\ RunsIn(c, u)')
    BY <1>6, <1>7, <2>1
  <2>5. c \in finished => /\ \A g \in Indices : ~Waits(c, g)'
                          /\ \A u \in Threads : ~RunsIn(c, u)'
    BY <1>6, <1>7, <2>1
  <2>6. Heads'[c].status = "Completed" => c \in finished
    BY <1>5, <2>1
  <2> QED
    BY <2>2, <2>3, <2>4, <2>5, <2>6
<1>9. finished \subseteq DOMAIN Heads
  BY DEF CoroutinesKept
<1>10. Threads' = Threads
  BY DEF Threads
<1> QED
  BY <1>2, <1>4, <1>8, <1>9, <1>10 DEF CoroutinesKept

\* ScanStartSound is kept.
LEMMA ScanKeepsStart ==
  ASSUME Types, Kinds, Owners, ScanStartSound, NEW t \in Threads, NEW h, ScanView(t, h)
  PROVE  ScanStartSound'
<1>1. Indices' = Indices /\ Regular' \in Seq(EntryType) /\ DOMAIN Regular' = DOMAIN Regular
  BY ScanKeepsPlaces
<1>2. StartsMove
  BY DEF ScanView
<1>3. Regular = tape[0] /\ Heads = tape[1] /\ Regular' = tape'[0] /\ Heads' = tape'[1]
  BY DEF Regular, Heads
<1>4. \A k \in 0..1 : startScan[k] \in Nat /\ startScan'[k] \in Nat
  BY <1>2 DEF Types, StartsMove
<1>5. ASSUME NEW g \in Indices, g[2] < startScan'[g[1]]
      PROVE  tape'[g[1]][g[2]].status = "Completed" \/ (g[1] = 0 /\ tape'[g[1]][g[2]].status = "Busy")
  <2>1. CASE g = <<0, g[2]>> /\ g[1] = 0 /\ g[2] \in DOMAIN Regular
    <3>1. g[2] \in Nat /\ Regular[g[2]].status # "Pending"
      <4>1. g[2] \in Nat
        BY <1>3, <2>1 DEF Kinds
      <4>2. CASE g[2] < startScan[0]
        BY <1>3, <2>1, <4>1, <4>2 DEF ScanStartSound, Entry
      <4>3. CASE ~(g[2] < startScan[0])
        <5>1. g[2] \in startScan[0]..startScan'[0] - 1
          BY <1>4, <1>5, <2>1, <4>1, <4>3
        <5> QED
          BY <1>2, <4>1, <5>1 DEF StartsMove
      <4> QED
        BY <4>1, <4>2, <4>3
    <3>2. Regular'[g[2]].status # "Pending"
      BY <2>1, <3>1, ScanStatuses
    <3>3. Regular'[g[2]] \in EntryType
      BY <1>1, <2>1
    <3> QED
      BY <1>3, <2>1, <3>2, <3>3, EntryFields
  <2>2. CASE g = <<1, g[2]>> /\ g[1] = 1 /\ g[2] \in DOMAIN Heads
    <3>1. g[2] \in Nat
      BY <1>3, <2>2 DEF Kinds
    <3>2. Heads[g[2]].status = "Completed"
      <4>2. CASE g[2] < startScan[1]
        BY <1>3, <2>2, <3>1, <4>2 DEF ScanStartSound, Entry
      <4>3. CASE ~(g[2] < startScan[1])
        <5>1. g[2] \in startScan[1]..startScan'[1] - 1
          BY <1>4, <1>5, <2>2, <3>1, <4>3
        <5> QED
          BY <1>2, <3>1, <5>1 DEF StartsMove
      <4> QED
        BY <4>2, <4>3
    <3>3. Heads'[g[2]].status = "Completed"
      BY <2>2, <3>2, ScanStatuses
    <3> QED
      BY <1>3, <2>2, <3>3
  <2> QED
    BY <2>1, <2>2, EntryAt
<1> QED
  BY <1>1, <1>5 DEF ScanStartSound, Entry

\* A thread that has seen nothing open was right.
LEMMA NothingIsOpen ==
  ASSUME Types, Kinds, Owners, ScanStartSound, NEW t \in Threads, NEW h, ScanView(t, h),
         pc'[t] # "scan", pc'[t] # "run"
  PROVE  ~Unclosed'
<1>1. ScanThreads(t, h)
  BY ScanMovesThreads
<1>2. /\ h = None
      /\ \A i \in startScan[0]..Len(Regular) : Regular[i].status # "Pending"
      /\ \A i \in startScan[1]..Len(Heads) : Heads[i].status = "Completed"
  BY <1>1 DEF ScanThreads
<1>3. Regular = tape[0] /\ Heads = tape[1] /\ startScan[0] \in Nat /\ startScan[1] \in Nat
  BY DEF Regular, Heads, Types
<1>4. ASSUME NEW i \in DOMAIN Regular PROVE Regular[i].status # "Pending"
  <2>1. i \in Nat /\ i <= Len(Regular) /\ Len(Regular) \in Nat
    BY <1>3 DEF Kinds
  <2>2. CASE i < startScan[0]
    <3>1. <<0, i>> \in Indices /\ Entry(<<0, i>>) = Regular[i]
      BY EntryAt
    <3> QED
      BY <2>2, <3>1 DEF ScanStartSound
  <2>3. CASE ~(i < startScan[0])
    BY <1>2, <1>3, <2>1, <2>3
  <2> QED
    BY <2>2, <2>3
<1>5. ASSUME NEW i \in DOMAIN Heads PROVE Heads[i].status = "Completed"
  <2>1. i \in Nat /\ i <= Len(Heads) /\ Len(Heads) \in Nat
    BY <1>3 DEF Kinds
  <2>2. CASE i < startScan[1]
    <3>1. <<1, i>> \in Indices /\ Entry(<<1, i>>) = Heads[i]
      BY EntryAt
    <3> QED
      BY <2>2, <3>1 DEF ScanStartSound
  <2>3. CASE ~(i < startScan[1])
    BY <1>2, <1>3, <2>1, <2>3
  <2> QED
    BY <2>2, <2>3
<1>6. \A i \in DOMAIN Regular : Regular'[i].status # "Pending"
  BY <1>4, ScanStatuses
<1>7. \A i \in DOMAIN Heads : Heads'[i].status = "Completed"
  BY <1>5, ScanStatuses
<1> QED
  BY <1>6, <1>7, ScanKeepsPlaces DEF Unclosed

\* NothingLost is kept.
LEMMA ScanKeepsEverything ==
  ASSUME Types, Kinds, Owners, ScanStartSound, NothingLost, NEW t \in Threads, NEW h, ScanView(t, h)
  PROVE  NothingLost'
<1>1. ScanThreads(t, h)
  BY ScanMovesThreads
<1>2. status' = status /\ Threads' = Threads /\ Workers' = Workers
  BY DEF ScanView, syncVars, Threads
<1>3. Failed' = Failed
  BY <1>2 DEF Failed
<1>4. ASSUME ~Failed, NEW i \in DOMAIN Regular, Regular'[i].status = "Busy"
      PROVE  \E u \in Threads : <<0, i>> \in {chosen'[u], pending'[u]}
  <2>1. CASE h = <<0, i>>
    <3>1. h # None
      BY <2>1, EntryAt
    <3> QED
      BY <1>1, <2>1, <3>1 DEF ScanThreads
  <2>2. CASE h # <<0, i>>
    <3>1. Regular[i].status = "Busy" /\ pending[t] # <<0, i>>
      BY <1>4, <2>2 DEF ScanView, TapesAfter
    <3>2. PICK u \in Threads : <<0, i>> \in {chosen[u], pending[u]}
      BY <1>4, <3>1 DEF NothingLost
    <3>3. chosen[t] = None
      BY DEF Owners, ScanView
    <3>4. u # t
      BY <3>1, <3>2, <3>3, EntryAt
    <3> QED
      BY <1>1, <3>2, <3>4 DEF ScanThreads
  <2> QED
    BY <2>1, <2>2
<1>5. ASSUME ~Failed, pc'[Main] \in {"leave", "barrier"}, Unclosed'
      PROVE  \E w \in Workers : pc'[w] \in {"scan", "run"}
  <2>1. pc'[t] \in {"scan", "run"}
    BY <1>5, NothingIsOpen
  <2>2. t # Main
    BY <1>5, <2>1
  <2> QED
    BY <2>1, <2>2 DEF Threads
<1> QED
  BY <1>2, <1>3, <1>4, <1>5, ScanKeepsPlaces DEF NothingLost

\* Threads that work, and go on working or leave, keep to the protocol.
LEMMA WorkKeepsSync ==
  ASSUME Types, Sync, NEW t \in Threads, pc[t] \in {"submit", "scan", "run", "check"},
         \A u \in Threads \ {t} : pc'[u] = pc[u],
         t = Main => pc'[t] \in {"submit", "scan", "run", "leave"},
         t # Main => pc'[t] \in {"scan", "run", "check", "arrive"},
         UNCHANGED <<awaits, shutting, signaled, arrived, used>>,
         \A u \in Threads \ {t} : status'[u] = status[u],
         status'[t] = "failure" => status[t] = "failure" \/ pc[t] = "run"
  PROVE  Sync'
<1>1. Main \in Threads /\ Workers = Threads \ {Main} /\ Main \notin Workers
  BY ThreadsAssumption DEF Threads
<1>2. IsExecuting
  BY <1>1 DEF Sync, AtRest, IsExecuting
<1>3. Executing
  BY <1>2 DEF Sync
<1>4. pc'[Main] \in {"submit", "scan", "run", "leave", "barrier"} /\ (pc'[Main] = "barrier" <=> pc[Main] = "barrier")
  BY <1>1, <1>2 DEF IsExecuting
<1>5. Arrived' = Arrived
  <2>1. \A w \in Workers : pc'[w] = "parked" <=> pc[w] = "parked"
    BY <1>1
  <2>2. used \subseteq Workers
    BY <1>3 DEF Executing
  <2> QED
    BY <2>1, <2>2 DEF Arrived
<1>6. \A w \in Workers : /\ pc'[w] \in {"parked", "scan", "run", "check", "arrive"}
                         /\ w \notin used \/ w \in signaled => pc'[w] = "parked"
  <2> TAKE w \in Workers
  <2>1. /\ pc[w] \in {"parked", "scan", "run", "check", "arrive"}
        /\ w \notin used \/ w \in signaled => pc[w] = "parked"
    BY <1>3 DEF Executing
  <2> QED
    BY <1>1, <2>1
<1>7. ASSUME NEW u \in Threads, status'[u] = "failure" PROVE u = Main \/ u \in used
  <2>1. status[u] = "failure" => u = Main \/ u \in used
    BY <1>3 DEF Executing
  <2>2. t = Main \/ t \in used
    BY <1>1, <1>3 DEF Executing
  <2> QED
    BY <1>7, <2>1, <2>2
<1>8. Executing'
  BY <1>3, <1>4, <1>5, <1>6, <1>7 DEF Executing, Threads
<1>9. IsExecuting'
  BY <1>4 DEF IsExecuting
<1> QED
  BY <1>8, <1>9 DEF Sync

\* Sync is kept.
LEMMA ScanKeepsSync ==
  ASSUME Types, Kinds, Owners, Sync, NEW t \in Threads, NEW h, ScanView(t, h)
  PROVE  Sync'
<1>1. ScanThreads(t, h)
  BY ScanMovesThreads
<1>2. pc[t] = "scan" /\ UNCHANGED <<awaits, shutting, signaled, arrived, used, status>>
  BY DEF ScanView, syncVars
<1>3. \A u \in Threads \ {t} : pc'[u] = pc[u]
  BY <1>1 DEF ScanThreads
<1>4. /\ t = Main => pc'[t] \in {"submit", "scan", "run", "leave"}
      /\ t # Main => pc'[t] \in {"scan", "run", "check", "arrive"}
  BY <1>1 DEF ScanThreads
<1> QED
  BY <1>2, <1>3, <1>4, WorkKeepsSync

\* A scan keeps the invariant.
LEMMA ScanKeeps ==
  ASSUME IInv, NEW t \in Threads, Scan(t)
  PROVE  IInv'
<1>1. /\ Types /\ Kinds /\ RangesKept /\ Arguments /\ Taken /\ Owners /\ CoroutinesKept
      /\ ScanStartSound /\ Sync /\ NothingLost
  BY DEF IInv
<1>2. PICK h : ScanView(t, h)
  BY <1>1, ScanIsSeen
<1>3. Types' /\ Kinds' /\ RangesKept' /\ Arguments' /\ Taken'
  BY <1>1, <1>2, ScanKeepsTypes, ScanKeepsKinds, ScanKeepsRanges, ScanKeepsArguments, ScanKeepsTaken
<1>4. Owners' /\ CoroutinesKept' /\ ScanStartSound' /\ Sync' /\ NothingLost'
  BY <1>1, <1>2, ScanKeepsOwners, ScanKeepsCoroutines, ScanKeepsStart, ScanKeepsSync, ScanKeepsEverything
<1> QED
  BY <1>3, <1>4 DEF IInv

-----------------------------------------------------------------------------
(* Tapes that grow.                                                        *)

\* Entries es are put at the end of tape k, before any of them is called.
Grows(k, es) ==
  /\ k \in 0..1 /\ es \in Seq(EntryType)
  /\ load' = load /\ startScan' = startScan
  /\ tape' = [tape EXCEPT ![k] = @ \o es]
  /\ calls' = [calls EXCEPT ![k] = @ \o [i \in DOMAIN es |-> 0]]

\* The pair of sequences r has what the pair s has, and es at the end of one.
Extends(S, s, k, es, r) ==
  /\ r \in [0..1 -> Seq(S)]
  /\ Len(r[k]) = Len(s[k]) + Len(es) /\ \A l \in 0..1 : l # k => Len(r[l]) = Len(s[l])
  /\ \A l \in 0..1 : \A i \in 1..Len(s[l]) : i \in 1..Len(r[l]) /\ r[l][i] = s[l][i]
  /\ \A i \in 1..Len(es) : Len(s[k]) + i \in 1..Len(r[k]) /\ r[k][Len(s[k]) + i] = es[i]
  /\ \A l \in 0..1 : \A i \in 1..Len(r[l]) :
       i \in 1..Len(s[l]) \/ (l = k /\ \E j \in 1..Len(es) : i = Len(s[k]) + j)

\* Concatenation extends.
LEMMA Concatenation ==
  ASSUME NEW S, NEW s \in [0..1 -> Seq(S)], NEW k \in 0..1, NEW es \in Seq(S),
         NEW r, r = [s EXCEPT ![k] = s[k] \o es]
  PROVE  Extends(S, s, k, es, r)
<1>1. s[k] \in Seq(S) /\ r[k] = s[k] \o es /\ \A l \in 0..1 : l # k => r[l] = s[l]
  OBVIOUS
<1>2. r[k] \in Seq(S) /\ Len(r[k]) = Len(s[k]) + Len(es) /\ Len(s[k]) \in Nat /\ Len(es) \in Nat
  BY <1>1
<1>3. \A i \in 1..Len(s[k]) : i \in 1..Len(r[k]) /\ r[k][i] = s[k][i]
  BY <1>1, <1>2
<1>4. \A i \in 1..Len(es) : Len(s[k]) + i \in 1..Len(r[k]) /\ r[k][Len(s[k]) + i] = es[i]
  BY <1>1, <1>2
<1>5. ASSUME NEW i \in 1..Len(r[k]), i \notin 1..Len(s[k])
      PROVE  \E j \in 1..Len(es) : i = Len(s[k]) + j
  <2>1. i - Len(s[k]) \in 1..Len(es) /\ i = Len(s[k]) + (i - Len(s[k]))
    BY <1>2, <1>5
  <2> QED
    BY <2>1
<1>6. r \in [0..1 -> Seq(S)]
  BY <1>1, <1>2
<1>7. \A l \in 0..1 : l # k => Len(r[l]) = Len(s[l])
  BY <1>1
<1> QED
  BY <1>1, <1>2, <1>3, <1>4, <1>5, <1>6, <1>7 DEF Extends

\* Old entries stay, and new ones are pending places of their own.
Grown(k, es) ==
  /\ tape' \in [0..1 -> Seq(EntryType)] /\ calls' \in [0..1 -> Seq(Nat)]
  /\ Len(tape'[k]) = Len(tape[k]) + Len(es) /\ \A l \in 0..1 : l # k => Len(tape'[l]) = Len(tape[l])
  /\ \A l \in 0..1 : Len(calls'[l]) = Len(tape'[l])
  /\ DOMAIN Regular \subseteq DOMAIN Regular' /\ \A i \in DOMAIN Regular : Regular'[i] = Regular[i]
  /\ DOMAIN Heads \subseteq DOMAIN Heads' /\ \A i \in DOMAIN Heads : Heads'[i] = Heads[i]
  /\ \A i \in DOMAIN Regular' \ DOMAIN Regular : k = 0 /\ \E j \in DOMAIN es : i = Len(Regular) + j /\ Regular'[i] = es[j]
  /\ \A i \in DOMAIN Heads' \ DOMAIN Heads : k = 1 /\ \E j \in DOMAIN es : i = Len(Heads) + j /\ Heads'[i] = es[j]
  /\ Places' = Places /\ Indices \subseteq Indices'
  /\ \A g \in Indices : tape'[g[1]][g[2]] = Entry(g) /\ calls'[g[1]][g[2]] = calls[g[1]][g[2]]
  /\ \A g \in Indices' \ Indices : \E i \in DOMAIN es :
       g = <<k, Len(tape[k]) + i>> /\ tape'[g[1]][g[2]] = es[i] /\ calls'[g[1]][g[2]] = 0
  /\ \A i \in DOMAIN es : Len(tape[k]) + i \in DOMAIN tape'[k] /\ tape'[k][Len(tape[k]) + i] = es[i]

\* A tape that grows has grown.
LEMMA GrowsToGrown ==
  ASSUME Types, Kinds, NEW k, NEW es, Grows(k, es)
  PROVE  Grown(k, es)
<1>0. /\ k \in 0..1 /\ es \in Seq(EntryType) /\ load' = load
      /\ tape \in [0..1 -> Seq(EntryType)] /\ calls \in [0..1 -> Seq(Nat)]
      /\ tape' = [tape EXCEPT ![k] = @ \o es]
      /\ calls' = [calls EXCEPT ![k] = @ \o [i \in DOMAIN es |-> 0]]
      /\ \A l \in 0..1 : Len(calls[l]) = Len(tape[l])
  BY DEF Grows, Kinds
<1> DEFINE zs == [i \in DOMAIN es |-> 0]
<1>1. zs \in Seq(Nat) /\ Len(zs) = Len(es) /\ \A i \in 1..Len(es) : zs[i] = 0
  BY <1>0
<1> HIDE DEF zs
<1>2. /\ tape' \in [0..1 -> Seq(EntryType)]
      /\ Len(tape'[k]) = Len(tape[k]) + Len(es) /\ \A l \in 0..1 : l # k => Len(tape'[l]) = Len(tape[l])
      /\ \A l \in 0..1 : \A i \in 1..Len(tape[l]) : i \in 1..Len(tape'[l]) /\ tape'[l][i] = tape[l][i]
      /\ \A i \in 1..Len(es) : Len(tape[k]) + i \in 1..Len(tape'[k]) /\ tape'[k][Len(tape[k]) + i] = es[i]
      /\ \A l \in 0..1 : \A i \in 1..Len(tape'[l]) :
           i \in 1..Len(tape[l]) \/ (l = k /\ \E j \in 1..Len(es) : i = Len(tape[k]) + j)
  <2>1. tape' = [tape EXCEPT ![k] = tape[k] \o es]
    BY <1>0
  <2>2. k \in 0..1 /\ es \in Seq(EntryType) /\ tape \in [0..1 -> Seq(EntryType)]
    BY <1>0
  <2>3. Extends(EntryType, tape, k, es, tape')
    BY <2>1, <2>2, Concatenation
  <2> QED
    BY <2>3 DEF Extends
<1>3. /\ calls' \in [0..1 -> Seq(Nat)]
      /\ Len(calls'[k]) = Len(calls[k]) + Len(zs) /\ \A l \in 0..1 : l # k => Len(calls'[l]) = Len(calls[l])
      /\ \A l \in 0..1 : \A i \in 1..Len(calls[l]) : i \in 1..Len(calls'[l]) /\ calls'[l][i] = calls[l][i]
      /\ \A i \in 1..Len(zs) : Len(calls[k]) + i \in 1..Len(calls'[k]) /\ calls'[k][Len(calls[k]) + i] = zs[i]
  <2>1. calls' = [calls EXCEPT ![k] = calls[k] \o zs]
    BY <1>0 DEF zs
  <2>2. k \in 0..1 /\ zs \in Seq(Nat) /\ calls \in [0..1 -> Seq(Nat)]
    BY <1>0, <1>1
  <2>3. Extends(Nat, calls, k, zs, calls')
    BY <2>1, <2>2, Concatenation
  <2> QED
    BY <2>3 DEF Extends
<1>4. Places' = Places
  BY <1>0, SameLoad
<1>5. \A l \in 0..1 : /\ DOMAIN tape[l] = 1..Len(tape[l]) /\ DOMAIN tape'[l] = 1..Len(tape'[l])
                      /\ DOMAIN calls[l] = 1..Len(tape[l])
  BY <1>0, <1>2
<1>6. DOMAIN es = 1..Len(es)
  BY <1>0
<1>7. \A g \in Places : g = <<g[1], g[2]>> /\ g[1] \in 0..1
  BY DEF Places
<1> DEFINE In(g) == g[2] \in 1..Len(tape[g[1]])
           InNext(g) == g[2] \in 1..Len(tape'[g[1]])
<1>13. Indices = {g \in Places : In(g)} /\ Indices' = {g \in Places : InNext(g)}
  BY <1>4, <1>5, <1>7 DEF Indices
<1>8. ASSUME NEW g \in Indices
      PROVE  g \in Indices' /\ tape'[g[1]][g[2]] = tape[g[1]][g[2]] /\ calls'[g[1]][g[2]] = calls[g[1]][g[2]]
  <2>1. g \in Places /\ g[1] \in 0..1 /\ g[2] \in 1..Len(tape[g[1]])
    BY <1>7, <1>13
  <2>2. g[2] \in 1..Len(tape'[g[1]]) /\ tape'[g[1]][g[2]] = tape[g[1]][g[2]]
    BY <1>2, <2>1
  <2>3. calls'[g[1]][g[2]] = calls[g[1]][g[2]]
    BY <1>0, <1>3, <2>1
  <2> QED
    BY <1>13, <2>1, <2>2, <2>3
<1>9. ASSUME NEW g \in Indices', g \notin Indices
      PROVE  \E i \in DOMAIN es : g = <<k, Len(tape[k]) + i>> /\ tape'[g[1]][g[2]] = es[i] /\ calls'[g[1]][g[2]] = 0
  <2>1. /\ g \in Places /\ g = <<g[1], g[2]>> /\ g[1] \in 0..1
        /\ g[2] \in 1..Len(tape'[g[1]]) /\ g[2] \notin 1..Len(tape[g[1]])
    BY <1>7, <1>9, <1>13
  <2>2. PICK i \in 1..Len(es) : g[1] = k /\ g[2] = Len(tape[k]) + i
    BY <1>2, <2>1
  <2>3. calls'[k][Len(tape[k]) + i] = 0
    <3>1. i \in 1..Len(zs) /\ zs[i] = 0 /\ Len(calls[k]) = Len(tape[k])
      BY <1>0, <1>1, <2>2
    <3> QED
      BY <1>3, <3>1
  <2>4. tape'[k][Len(tape[k]) + i] = es[i]
    BY <1>2, <2>2
  <2>5. g = <<k, Len(tape[k]) + i>> /\ tape'[g[1]][g[2]] = es[i] /\ calls'[g[1]][g[2]] = 0
    BY <2>1, <2>2, <2>3, <2>4
  <2> QED
    BY <1>6, <2>2, <2>5
<1>10. Regular = tape[0] /\ Heads = tape[1] /\ Regular' = tape'[0] /\ Heads' = tape'[1]
  BY DEF Regular, Heads
<1>11. \A l \in 0..1 : Len(calls'[l]) = Len(tape'[l])
  BY <1>0, <1>1, <1>2, <1>3
<1>12. /\ DOMAIN Regular \subseteq DOMAIN Regular' /\ \A i \in DOMAIN Regular : Regular'[i] = Regular[i]
       /\ DOMAIN Heads \subseteq DOMAIN Heads' /\ \A i \in DOMAIN Heads : Heads'[i] = Heads[i]
  <2>1. DOMAIN tape[0] = 1..Len(tape[0]) /\ DOMAIN tape'[0] = 1..Len(tape'[0])
    BY <1>5
  <2>2. DOMAIN tape[1] = 1..Len(tape[1]) /\ DOMAIN tape'[1] = 1..Len(tape'[1])
    BY <1>5
  <2>3. \A i \in 1..Len(tape[0]) : i \in 1..Len(tape'[0]) /\ tape'[0][i] = tape[0][i]
    BY <1>2
  <2>4. \A i \in 1..Len(tape[1]) : i \in 1..Len(tape'[1]) /\ tape'[1][i] = tape[1][i]
    BY <1>2
  <2> QED
    BY <1>10, <2>1, <2>2, <2>3, <2>4
<1>14. \A i \in DOMAIN es : Len(tape[k]) + i \in DOMAIN tape'[k] /\ tape'[k][Len(tape[k]) + i] = es[i]
  <2>1. DOMAIN tape'[k] = 1..Len(tape'[k])
    BY <1>0, <1>5
  <2> QED
    BY <1>2, <1>6, <2>1
<1>15. /\ Indices \subseteq Indices'
       /\ \A g \in Indices : tape'[g[1]][g[2]] = Entry(g) /\ calls'[g[1]][g[2]] = calls[g[1]][g[2]]
  BY <1>8 DEF Entry
<1>16. ASSUME NEW l \in 0..1, NEW i \in DOMAIN tape'[l], i \notin DOMAIN tape[l]
       PROVE  l = k /\ \E j \in DOMAIN es : i = Len(tape[l]) + j /\ tape'[l][i] = es[j]
  <2>1. i \in 1..Len(tape'[l]) /\ i \notin 1..Len(tape[l])
    BY <1>5, <1>16
  <2>2. PICK j \in 1..Len(es) : l = k /\ i = Len(tape[k]) + j
    BY <1>2, <2>1
  <2>3. tape'[k][Len(tape[k]) + j] = es[j]
    BY <1>2
  <2> QED
    BY <1>6, <2>2, <2>3
<1>17. /\ \A i \in DOMAIN Regular' \ DOMAIN Regular : k = 0 /\ \E j \in DOMAIN es : i = Len(Regular) + j /\ Regular'[i] = es[j]
       /\ \A i \in DOMAIN Heads' \ DOMAIN Heads : k = 1 /\ \E j \in DOMAIN es : i = Len(Heads) + j /\ Heads'[i] = es[j]
  BY <1>10, <1>16
<1> HIDE DEF In, InNext
<1> QED
  BY <1>17, <1>2, <1>3, <1>4, <1>9, <1>11, <1>12, <1>14, <1>15 DEF Grown

\* The entries of a range, which follow the entries of the tape.
RangeAdded(es) ==
  \E n \in Nat :
    LET base == Len(Regular)
        passed == [i \in 1..n |-> es[i + 1].arg]
    IN /\ Len(es) = n + 2
       /\ es[1].kind = "fork" /\ es[1].dependents = base + 2..base + 1 + n
       /\ \A i \in 2..n + 1 : /\ es[i].kind = "parallel" /\ es[i].total = 1
                              /\ es[i].dependents = {base + 2 + n}
       /\ es[n + 2].kind = "join" /\ es[n + 2].total = n
       /\ \/ \E r \in load.indices : /\ es[1].arg = <<r[1], r[1] + r[2]>>
                                     /\ passed = IndexArgs(r[1], r[2])
          \/ \E r \in load.subranges : /\ es[1].arg = <<r[1], r[1] + r[2]>>
                                       /\ passed = SubrangeArgs(r[1], r[2], r[3])

\* What is added is nobody's, and depends on what there is.
Added(k, es) ==
  /\ k = 0 => Len(tape[0]) + Len(es) <= MaxEntries
  /\ k = 1 => Len(tape[1]) + Len(es) <= MaxCoros
  /\ \A i \in DOMAIN es : es[i].status = "Pending" /\ es[i].deps \subseteq Indices /\ es[i].satisfied = 0
  /\ k = 0 => \A i \in DOMAIN es :
       /\ es[i].kind # "head" /\ es[i].coro <= Len(Heads)
       /\ es[i].coro # 0 <=> es[i].kind = "resume"
       /\ es[i].kind \notin {"fork", "parallel"} => es[i].dependents = {}
       /\ es[i].kind \notin {"parallel", "join"} => es[i].total = 0
  /\ k = 1 => Len(es) = 1 /\ es[1].kind = "head" /\ es[1].coro = Len(Heads) + 1 /\ es[1].total = 0
  /\ \/ \A i \in DOMAIN es : es[i].kind \notin {"fork", "parallel", "join"}
     \/ k = 0 /\ RangeAdded(es)

\* Kinds is kept.
LEMMA GrowthKeepsKinds ==
  ASSUME Types, Kinds, NEW k, NEW es, Grows(k, es), Added(k, es)
  PROVE  Kinds'
<1>1. Grown(k, es)
  BY GrowsToGrown
<1>2. /\ k \in 0..1 /\ es \in Seq(EntryType) /\ load' = load /\ startScan' = startScan
      /\ EntryType' = EntryType /\ MaxEntries' = MaxEntries /\ MaxCoros' = MaxCoros
  BY SameLoad DEF Grows
<1>3. Regular = tape[0] /\ Heads = tape[1] /\ Regular' = tape'[0] /\ Heads' = tape'[1]
  BY DEF Regular, Heads
<1>4. /\ tape' \in [0..1 -> Seq(EntryType)] /\ calls' \in [0..1 -> Seq(Nat)]
      /\ \A l \in 0..1 : Len(calls'[l]) = Len(tape'[l])
      /\ Indices \subseteq Indices'
  BY <1>1 DEF Grown
<1>11. Len(tape'[k]) = Len(tape[k]) + Len(es) /\ \A l \in 0..1 : l # k => Len(tape'[l]) = Len(tape[l])
  BY <1>1 DEF Grown
<1>5. /\ \A l \in 0..1 : Len(tape[l]) \in Nat /\ Len(tape[l]) <= Len(tape'[l])
      /\ Len(es) \in Nat /\ DOMAIN es = 1..Len(es)
      /\ \A l \in 0..1 : DOMAIN tape[l] = 1..Len(tape[l]) /\ DOMAIN tape'[l] = 1..Len(tape'[l])
  <2>1. \A l \in 0..1 : Len(tape[l]) \in Nat /\ DOMAIN tape[l] = 1..Len(tape[l]) /\ DOMAIN tape'[l] = 1..Len(tape'[l])
    BY <1>4 DEF Kinds
  <2>2. Len(es) \in Nat /\ DOMAIN es = 1..Len(es)
    BY <1>2
  <2> QED
    BY <1>11, <2>1, <2>2
<1>6. ASSUME NEW l \in 0..1, NEW i \in DOMAIN tape'[l], i \notin DOMAIN tape[l]
      PROVE  l = k /\ \E j \in DOMAIN es : i = Len(tape[k]) + j /\ tape'[l][i] = es[j]
  <2>6. i \in 1..Len(tape'[l]) /\ i \notin 1..Len(tape[l]) /\ Len(tape[l]) \in Nat /\ Len(es) \in Nat
    BY <1>5, <1>6
  <2>1. l = k
    BY <1>11, <2>6
  <2>0. Len(tape'[k]) = Len(tape[k]) + Len(es)
    BY <1>11
  <2>2. i - Len(tape[k]) \in 1..Len(es) /\ i = Len(tape[k]) + (i - Len(tape[k]))
    <3>1. \A a \in Nat, b \in Nat : \A x \in 1..a + b : x \notin 1..a => x - a \in 1..b /\ x = a + (x - a)
      OBVIOUS
    <3>2. Len(tape[k]) \in Nat /\ Len(es) \in Nat /\ i \in 1..Len(tape[k]) + Len(es) /\ i \notin 1..Len(tape[k])
      BY <2>0, <2>1, <2>6, Zenon
    <3> QED
      BY <3>1, <3>2, Zenon
  <2>3. \A j \in DOMAIN es : tape'[k][Len(tape[k]) + j] = es[j]
    BY <1>1 DEF Grown
  <2>4. i - Len(tape[k]) \in DOMAIN es
    BY <1>5, <2>2
  <2>5. tape'[l][i] = es[i - Len(tape[k])]
    BY <2>1, <2>2, <2>3, <2>4
  <2> DEFINE j == i - Len(tape[k])
  <2>8. j \in DOMAIN es /\ i = Len(tape[k]) + j /\ tape'[l][i] = es[j]
    BY <2>2, <2>4, <2>5
  <2> HIDE DEF j
  <2> QED
    BY <2>1, <2>8
<1>7. \A l \in 0..1 : Len(calls'[l]) = Len(tape'[l]) /\ startScan'[l] \in 1..Len(tape'[l]) + 1
  BY <1>2, <1>4, <1>5 DEF Kinds
<1>8. Len(Regular') <= MaxEntries' /\ Len(Heads') <= MaxCoros'
  <2>1. MaxEntries \in Nat /\ MaxCoros \in Nat /\ Len(tape[0]) <= MaxEntries /\ Len(tape[1]) <= MaxCoros
    BY <1>3, Bounds DEF Kinds
  <2>2. /\ k = 0 => Len(tape[0]) + Len(es) <= MaxEntries
        /\ k = 1 => Len(tape[1]) + Len(es) <= MaxCoros
    BY DEF Added
  <2>3. Len(tape[0]) \in Nat /\ Len(tape[1]) \in Nat /\ Len(es) \in Nat
    BY <1>5
  <2>4. Len(tape'[0]) <= MaxEntries /\ Len(tape'[1]) <= MaxCoros
    <3>1. CASE k = 0
      BY <1>11, <2>1, <2>2, <2>3, <3>1
    <3>2. CASE k = 1
      BY <1>11, <2>1, <2>2, <2>3, <3>2
    <3> QED
      BY <1>2, <3>1, <3>2
  <2> QED
    BY <1>2, <1>3, <2>4
<1>9. ASSUME NEW i \in DOMAIN Regular'
      PROVE  LET e == Regular'[i] IN
               /\ e.kind # "head" /\ e.deps \subseteq Indices'
               /\ e.coro # 0 <=> e.kind = "resume"
               /\ e.coro <= Len(Heads')
               /\ e.kind \notin {"fork", "parallel"} => e.dependents = {}
               /\ e.kind \notin {"parallel", "join"} => e.total = 0 /\ e.satisfied = 0
  <2>0. Len(Heads) \in Nat /\ Len(Heads') \in Nat /\ Len(Heads) <= Len(Heads')
    BY <1>3, <1>4, <1>5
  <2>1. CASE i \in DOMAIN Regular
    <3>1. Regular'[i] = Regular[i] /\ Regular[i].coro \in Nat
      <4>1. Regular[i] \in EntryType
        BY <2>1, EntryAt
      <4>2. Regular[i].coro \in Nat
        BY <4>1, EntryFields, Bounds
      <4> QED
        BY <1>1, <2>1, <4>2 DEF Grown
    <3>2. LET e == Regular[i] IN
            /\ e.kind # "head" /\ e.deps \subseteq Indices
            /\ e.coro # 0 <=> e.kind = "resume"
            /\ e.coro <= Len(Heads)
            /\ e.kind \notin {"fork", "parallel"} => e.dependents = {}
            /\ e.kind \notin {"parallel", "join"} => e.total = 0 /\ e.satisfied = 0
      BY <2>1 DEF Kinds
    <3> QED
      BY <1>4, <2>0, <3>1, <3>2
  <2>2. CASE i \notin DOMAIN Regular
    <3>1. k = 0 /\ \E j \in DOMAIN es : Regular'[i] = es[j]
      BY <1>3, <1>6, <2>2
    <3>2. PICK j \in DOMAIN es : Regular'[i] = es[j]
      BY <3>1
    <3>3. es[j].coro \in Nat
      <4>1. es[j] \in EntryType
        BY <1>2, <3>2
      <4> QED
        BY <4>1, EntryFields, Bounds
    <3> QED
      BY <1>4, <2>0, <3>1, <3>2, <3>3 DEF Added
  <2> QED
    BY <2>1, <2>2
<1>10. ASSUME NEW i \in DOMAIN Heads'
       PROVE  LET e == Heads'[i] IN
                /\ e.kind = "head" /\ e.coro = i /\ e.deps \subseteq Indices'
                /\ e.total = 0 /\ e.satisfied = 0
  <2>1. CASE i \in DOMAIN Heads
    <3>1. Heads'[i] = Heads[i]
      BY <1>1, <2>1 DEF Grown
    <3>2. LET e == Heads[i] IN
            /\ e.kind = "head" /\ e.coro = i /\ e.deps \subseteq Indices
            /\ e.total = 0 /\ e.satisfied = 0
      BY <2>1 DEF Kinds
    <3> QED
      BY <1>4, <3>1, <3>2
  <2>2. CASE i \notin DOMAIN Heads
    <3>1. k = 1 /\ \E j \in DOMAIN es : i = Len(Heads) + j /\ Heads'[i] = es[j]
      BY <1>3, <1>6, <2>2
    <3>2. PICK j \in DOMAIN es : i = Len(Heads) + j /\ Heads'[i] = es[j]
      BY <3>1
    <3>3. Len(es) = 1 /\ es[1].kind = "head" /\ es[1].coro = Len(Heads) + 1 /\ es[1].total = 0
      BY <3>1 DEF Added
    <3>4. j = 1
      BY <1>5, <3>2, <3>3
    <3>5. es[j].deps \subseteq Indices /\ es[j].satisfied = 0
      BY <3>2 DEF Added
    <3> QED
      BY <1>4, <3>2, <3>3, <3>4, <3>5
  <2> QED
    BY <2>1, <2>2
<1> QED
  BY <1>2, <1>4, <1>7, <1>8, <1>9, <1>10 DEF Kinds

\* Taken is kept: nothing waits for what has been added.
LEMMA GrowthKeepsTaken ==
  ASSUME Types, Kinds, Taken, NEW k, NEW es, Grows(k, es), Added(k, es)
  PROVE  Taken'
<1>1. Grown(k, es)
  BY GrowsToGrown
<1>2. ASSUME NEW g \in Indices'
      PROVE  LET e == tape'[g[1]][g[2]] IN
             /\ e.status # "Pending" => /\ e.satisfied = e.total
                                        /\ \A d \in e.deps : tape'[d[1]][d[2]].status = "Completed"
             /\ calls'[g[1]][g[2]] = IF e.status # "Pending" /\ e.kind \notin {"fork", "join"} THEN 1 ELSE 0
  <2>1. CASE g \in Indices
    <3>1. tape'[g[1]][g[2]] = Entry(g) /\ calls'[g[1]][g[2]] = calls[g[1]][g[2]]
      BY <1>1, <2>1 DEF Grown
    <3>2. Entry(g).deps \subseteq Indices
      BY <2>1, DependOnEntries
    <3>3. \A d \in Entry(g).deps : tape'[d[1]][d[2]] = Entry(d)
      BY <1>1, <3>2 DEF Grown
    <3>4. /\ Entry(g).status # "Pending" => /\ Entry(g).satisfied = Entry(g).total
                                            /\ \A d \in Entry(g).deps : Entry(d).status = "Completed"
          /\ calls[g[1]][g[2]] = IF Entry(g).status # "Pending" /\ Entry(g).kind \notin {"fork", "join"} THEN 1 ELSE 0
      BY <2>1 DEF Taken, HasCallable
    <3> QED
      BY <3>1, <3>3, <3>4
  <2>2. CASE g \notin Indices
    <3>1. PICK i \in DOMAIN es : tape'[g[1]][g[2]] = es[i] /\ calls'[g[1]][g[2]] = 0
      BY <1>1, <2>2 DEF Grown
    <3>2. es[i].status = "Pending"
      BY DEF Added
    <3> QED
      BY <3>1, <3>2
  <2> QED
    BY <2>1, <2>2
<1> QED
  BY <1>2 DEF Taken, Entry, HasCallable

\* ScanStartSound is kept: what is added lies after the start.
LEMMA GrowthKeepsStart ==
  ASSUME Types, Kinds, ScanStartSound, NEW k, NEW es, Grows(k, es), Added(k, es)
  PROVE  ScanStartSound'
<1>1. Grown(k, es) /\ startScan' = startScan /\ k \in 0..1 /\ es \in Seq(EntryType)
  BY GrowsToGrown DEF Grows
<1>2. ASSUME NEW g \in Indices', g[2] < startScan'[g[1]]
      PROVE  tape'[g[1]][g[2]].status = "Completed" \/ (g[1] = 0 /\ tape'[g[1]][g[2]].status = "Busy")
  <2>1. g \in Indices
    <3>1. SUFFICES ASSUME g \notin Indices PROVE FALSE
      OBVIOUS
    <3>2. PICK i \in DOMAIN es : g = <<k, Len(tape[k]) + i>>
      BY <1>1, <3>1 DEF Grown
    <3>3. startScan[k] \in 1..Len(tape[k]) + 1 /\ Len(tape[k]) \in Nat /\ i \in Nat \ {0}
      BY <1>1 DEF Kinds
    <3> QED
      BY <1>1, <1>2, <3>2, <3>3
  <2>2. tape'[g[1]][g[2]] = Entry(g)
    BY <1>1, <2>1 DEF Grown
  <2> QED
    BY <1>1, <1>2, <2>1, <2>2 DEF ScanStartSound
<1> QED
  BY <1>2 DEF ScanStartSound, Entry

\* The forks that were there before say what they said.
LEMMA GrowthKeepsFork ==
  ASSUME Types, Kinds, NEW k, NEW es, Grown(k, es), NEW f \in DOMAIN Regular, ForkSays(f)
  PROVE  ForkSays(f)' /\ Join(f)' = Join(f) /\ Regular'[f] = Regular[f]
<1>1. DOMAIN Regular \subseteq DOMAIN Regular' /\ \A i \in DOMAIN Regular : Regular'[i] = Regular[i]
  BY DEF Grown
<1>2. Join(f)' = Join(f)
  BY <1>1 DEF Join
<1>3. Join(f) \in DOMAIN Regular /\ Regular[f].dependents = f + 1..Join(f) - 1
  BY DEF ForkSays
<1>4. f \in Nat /\ Join(f) \in Nat /\ DOMAIN Regular = 1..Len(Regular) /\ Len(Regular) \in Nat
  <2>1. Regular \in Seq(EntryType)
    BY DEF Kinds, Regular
  <2> QED
    BY <1>3, <2>1
<1>5. Regular[f].dependents \subseteq DOMAIN Regular
  BY <1>3, <1>4
<1>6. Done(Regular[f].dependents)' = Done(Regular[f].dependents)
  BY <1>1, <1>5 DEF Done
<1>7. \A p \in Regular[f].dependents \cup {f, Join(f)} : Regular'[p] = Regular[p]
  BY <1>1, <1>3, <1>5
<1> DEFINE join == Join(f)
           range == Regular[f].dependents
<1>8. /\ join \in DOMAIN Regular /\ range = f + 1..join - 1
      /\ \A p \in range :
           /\ Regular[p].kind = "parallel" /\ Regular[p].dependents = {join} /\ Regular[p].total = 1
           /\ Regular[p].satisfied = IF Regular[f].status = "Completed" THEN 1 ELSE 0
      /\ Regular[join].kind = "join" /\ Regular[join].total = Cardinality(range)
      /\ Regular[join].satisfied = Cardinality(Done(range))
  BY DEF ForkSays
<1>9. /\ join' = join /\ range' = range /\ Done(range)' = Done(range) /\ Regular'[f] = Regular[f]
      /\ \A p \in range : Regular'[p] = Regular[p]
      /\ Regular'[join] = Regular[join] /\ join \in DOMAIN Regular'
  BY <1>1, <1>2, <1>3, <1>6, <1>7
<1>10. /\ join' \in DOMAIN Regular' /\ range' = f + 1..join' - 1
       /\ \A p \in range' :
            /\ Regular'[p].kind = "parallel" /\ Regular'[p].dependents = {join'} /\ Regular'[p].total = 1
            /\ Regular'[p].satisfied = IF Regular'[f].status = "Completed" THEN 1 ELSE 0
       /\ Regular'[join'].kind = "join" /\ Regular'[join'].total = Cardinality(range')
       /\ Regular'[join'].satisfied = Cardinality(Done(range)')
  <2> HIDE DEF join, range
  <2> QED
    BY <1>8, <1>9
<1> QED
  BY <1>2, <1>9, <1>10 DEF ForkSays

\* The fork that has been added.
LEMMA GrowthAddsFork ==
  ASSUME Types, Kinds, NEW k, NEW es, Grows(k, es), Added(k, es), k = 0, RangeAdded(es),
         NEW f, f = Len(Regular) + 1
  PROVE  /\ f \in DOMAIN Regular' /\ Regular'[f].kind = "fork" /\ ForkSays(f)' /\ ArgumentsSay(f)'
         /\ \A i \in DOMAIN Regular' \ DOMAIN Regular :
              i = f \/ (Regular'[i].kind # "fork" /\ i \in Regular'[f].dependents \cup {Join(f)'})
<1>0. Grown(k, es) /\ es \in Seq(EntryType) /\ load' = load
  BY GrowsToGrown DEF Grows
<1> DEFINE base == Len(Regular)
<1>1. PICK n \in Nat :
        LET passed == [i \in 1..n |-> es[i + 1].arg] IN
        /\ Len(es) = n + 2
        /\ es[1].kind = "fork" /\ es[1].dependents = base + 2..base + 1 + n
        /\ \A i \in 2..n + 1 : /\ es[i].kind = "parallel" /\ es[i].total = 1
                               /\ es[i].dependents = {base + 2 + n}
        /\ es[n + 2].kind = "join" /\ es[n + 2].total = n
        /\ \/ \E r \in load.indices : /\ es[1].arg = <<r[1], r[1] + r[2]>>
                                      /\ passed = IndexArgs(r[1], r[2])
           \/ \E r \in load.subranges : /\ es[1].arg = <<r[1], r[1] + r[2]>>
                                        /\ passed = SubrangeArgs(r[1], r[2], r[3])
  BY DEF RangeAdded
<1>2. base \in Nat /\ DOMAIN Regular = 1..base /\ f = base + 1
  BY DEF Kinds, Regular
<1>3. DOMAIN es = 1..n + 2
  BY <1>0, <1>1
<1>4. DOMAIN Regular' = 1..base + n + 2
  <2>1. Regular' \in Seq(EntryType) /\ Len(Regular') = base + (n + 2)
    BY <1>0, <1>1 DEF Grown, Regular
  <2> QED
    BY <1>2, <2>1
<1> HIDE DEF base
<1>5. ASSUME NEW i \in 1..n + 2 PROVE Regular'[base + i] = es[i] /\ es[i].status = "Pending" /\ es[i].satisfied = 0
  <2>1. i \in DOMAIN es
    BY <1>3
  <2>2. Regular'[base + i] = es[i]
    BY <1>0, <2>1 DEF Grown, Regular, base
  <2> QED
    BY <2>1, <2>2 DEF Added
<1>6. /\ Regular'[f] = es[1] /\ f + n + 1 \in DOMAIN Regular' /\ Regular'[f + n + 1] = es[n + 2]
      /\ f \in DOMAIN Regular'
      /\ \A p \in f + 1..f + n : p \in DOMAIN Regular' /\ Regular'[p] = es[p - base] /\ p - base \in 2..n + 1
  <2>1. Regular'[base + 1] = es[1]
    BY <1>5
  <2>2. Regular'[base + (n + 2)] = es[n + 2]
    BY <1>5
  <2>3. base + (n + 2) = f + n + 1 /\ f + n + 1 \in 1..base + n + 2 /\ f \in 1..base + n + 2
    BY <1>2
  <2>4. ASSUME NEW p \in f + 1..f + n
        PROVE  p \in 1..base + n + 2 /\ Regular'[p] = es[p - base] /\ p - base \in 2..n + 1
    <3>1. p \in 1..base + n + 2 /\ p - base \in 2..n + 1 /\ p - base \in 1..n + 2 /\ base + (p - base) = p
      BY <1>2
    <3> QED
      BY <1>5, <3>1
  <2> QED
    BY <1>2, <1>4, <2>1, <2>2, <2>3, <2>4
<1>7. Regular'[f].dependents = f + 1..f + n
  <2>1. es[1].dependents = base + 2..base + 1 + n
    BY <1>1
  <2>2. base + 2 = f + 1 /\ base + 1 + n = f + n
    BY <1>2
  <2>3. Regular'[f] = es[1]
    BY <1>6
  <2> QED
    BY <2>1, <2>2, <2>3
<1>8. Cardinality(Regular'[f].dependents) = n
  <2>1. f + 1 \in Int /\ f + n \in Int /\ f + 1 <= f + n + 1
    BY <1>2
  <2>2. Cardinality(f + 1..f + n) = IF f + 1 > f + n THEN 0 ELSE (f + n) - (f + 1) + 1
    BY <2>1, FS_Interval
  <2>3. f \in Int
    BY <1>2
  <2> QED
    BY <1>7, <2>1, <2>2, <2>3
<1>9. Join(f)' = f + n + 1
  BY <1>8 DEF Join
<1>10. Done(Regular[f].dependents)' = {}
  <2>1. \A p \in f + 1..f + n : Regular'[p].status = "Pending"
    <3>1. \A p \in f + 1..f + n : p - base \in 1..n + 2 /\ Regular'[p] = es[p - base]
      BY <1>6
    <3> QED
      BY <1>5, <3>1
  <2> QED
    BY <1>7, <2>1 DEF Done
<1>11. \A p \in f + 1..f + n :
         /\ Regular'[p].kind = "parallel" /\ Regular'[p].dependents = {f + n + 1} /\ Regular'[p].total = 1
         /\ Regular'[p].satisfied = 0
  <2> TAKE p \in f + 1..f + n
  <2>1. p - base \in 2..n + 1 /\ Regular'[p] = es[p - base] /\ p - base \in 1..n + 2 /\ base + 2 + n = f + n + 1
    BY <1>2, <1>6
  <2>2. es[p - base].kind = "parallel" /\ es[p - base].total = 1 /\ es[p - base].dependents = {base + 2 + n}
    BY <1>1, <2>1
  <2>3. es[p - base].satisfied = 0
    BY <1>5, <2>1
  <2> QED
    BY <2>1, <2>2, <2>3
<1>12. /\ Regular'[f].kind = "fork" /\ Regular'[f].status = "Pending"
       /\ Regular'[f + n + 1].kind = "join" /\ Regular'[f + n + 1].total = n
       /\ Regular'[f + n + 1].satisfied = 0
  <2>1. 1 \in 1..n + 2 /\ n + 2 \in 1..n + 2
    OBVIOUS
  <2> QED
    BY <1>1, <1>5, <1>6, <2>1
<1>13. ForkSays(f)'
  <2>1. f + n + 1 - 1 = f + n
    BY <1>2
  <2>2. Cardinality(Done(Regular[f].dependents)') = 0
    BY <1>10, FS_EmptySet
  <2> QED
    BY <1>6, <1>7, <1>8, <1>9, <1>11, <1>12, <2>1, <2>2 DEF ForkSays
<1>14. ArgumentsSay(f)'
  <2> DEFINE passed == [i \in 1..n |-> es[i + 1].arg]
  <2>1. [i \in 1..n |-> Regular'[f + i].arg] = passed
    <3>1. \A i \in 1..n : Regular'[f + i] = es[i + 1]
      <4> TAKE i \in 1..n
      <4>1. f + i \in f + 1..f + n /\ (f + i) - base = i + 1
        BY <1>2
      <4>2. Regular'[f + i] = es[(f + i) - base]
        BY <1>6, <4>1
      <4> QED
        BY <4>1, <4>2
    <3> QED
      BY <3>1
  <2>2. \/ \E r \in load.indices : /\ Regular'[f].arg = <<r[1], r[1] + r[2]>>
                                   /\ passed = IndexArgs(r[1], r[2])
        \/ \E r \in load.subranges : /\ Regular'[f].arg = <<r[1], r[1] + r[2]>>
                                     /\ passed = SubrangeArgs(r[1], r[2], r[3])
    BY <1>1, <1>6
  <2>3. [i \in 1..Cardinality(Regular'[f].dependents) |-> Regular'[f + i].arg] = passed
    BY <1>8, <2>1
  <2> HIDE DEF passed
  <2> QED
    BY <1>0, <2>2, <2>3 DEF ArgumentsSay
<1>15. ASSUME NEW i \in DOMAIN Regular', i \notin DOMAIN Regular, i # f
       PROVE  Regular'[i].kind # "fork" /\ i \in Regular'[f].dependents \cup {Join(f)'}
  <2>1. i \in f + 1..f + n \/ i = f + n + 1
    BY <1>2, <1>4, <1>15
  <2> QED
    BY <1>7, <1>9, <1>11, <1>12, <2>1
<1> QED
  BY <1>6, <1>12, <1>13, <1>14, <1>15 DEF base

\* RangesKept is kept, and so is Arguments.
LEMMA GrowthKeepsRanges ==
  ASSUME Types, Kinds, RangesKept, Arguments, NEW k, NEW es, Grows(k, es), Added(k, es)
  PROVE  RangesKept' /\ Arguments'
<1>0. Grown(k, es) /\ es \in Seq(EntryType) /\ load' = load
  BY GrowsToGrown DEF Grows
<1>1. DOMAIN Regular \subseteq DOMAIN Regular' /\ \A i \in DOMAIN Regular : Regular'[i] = Regular[i]
  BY <1>0 DEF Grown
<1>2. ASSUME NEW i \in DOMAIN Regular', i \notin DOMAIN Regular
      PROVE  k = 0 /\ \E j \in DOMAIN es : Regular'[i] = es[j]
  BY <1>0, <1>2 DEF Grown
<1>3. ASSUME NEW f \in DOMAIN Regular', Regular'[f].kind = "fork" PROVE ForkSays(f)' /\ ArgumentsSay(f)'
  <2>1. CASE f \in DOMAIN Regular
    <3>1. Regular[f].kind = "fork" /\ ForkSays(f)
      BY <1>1, <1>3, <2>1, ForksSay
    <3>2. ForkSays(f)'
      BY <1>0, <2>1, <3>1, GrowthKeepsFork
    <3>3. ArgumentsSay(f)
      BY <2>1, <3>1 DEF Arguments, ArgumentsSay
    <3>4. \A i \in DOMAIN Regular : Regular'[i].arg = Regular[i].arg /\ Regular'[i].dependents = Regular[i].dependents
      BY <1>1
    <3> QED
      BY <1>0, <2>1, <3>1, <3>2, <3>3, <3>4, ArgumentsStay
  <2>2. CASE f \notin DOMAIN Regular
    <3>1. k = 0 /\ RangeAdded(es)
      BY <1>2, <1>3, <2>2 DEF Added
    <3>2. \A g : g = Len(Regular) + 1 =>
             /\ ForkSays(g)' /\ ArgumentsSay(g)'
             /\ \A i \in DOMAIN Regular' \ DOMAIN Regular : i = g \/ Regular'[i].kind # "fork"
      BY <3>1, GrowthAddsFork
    <3>3. f = Len(Regular) + 1
      BY <1>3, <2>2, <3>2
    <3> QED
      BY <3>2, <3>3
  <2> QED
    BY <2>1, <2>2
<1>4. ASSUME NEW i \in DOMAIN Regular', Regular'[i].kind \in {"parallel", "join"}
      PROVE  \E f \in DOMAIN Regular' : Regular'[f].kind = "fork" /\ i \in Regular'[f].dependents \cup {Join(f)'}
  <2>1. CASE i \in DOMAIN Regular
    <3>1. PICK f \in DOMAIN Regular : Regular[f].kind = "fork" /\ i \in Regular[f].dependents \cup {Join(f)}
      BY <1>1, <1>4, <2>1 DEF RangesKept
    <3>2. Join(f)' = Join(f)
      BY <1>1 DEF Join
    <3> QED
      BY <1>1, <3>1, <3>2
  <2>2. CASE i \notin DOMAIN Regular
    <3>1. k = 0 /\ RangeAdded(es)
      BY <1>2, <1>4, <2>2 DEF Added
    <3>3. PICK f : f = Len(Regular) + 1
      OBVIOUS
    <3>2. /\ f \in DOMAIN Regular' /\ Regular'[f].kind = "fork"
          /\ i = f \/ i \in Regular'[f].dependents \cup {Join(f)'}
      BY <2>2, <3>1, <3>3, GrowthAddsFork
    <3> QED
      BY <1>4, <3>2
  <2> QED
    BY <2>1, <2>2
<1>5. RangesKept'
  BY <1>3, <1>4 DEF RangesKept, ForkSays
<1>6. Arguments'
  BY <1>3 DEF Arguments, ArgumentsSay
<1> QED
  BY <1>5, <1>6

-----------------------------------------------------------------------------
(* Threads that yield.                                                     *)

\* At most the thread t moves, and it takes no entry: what it has, it keeps,
\* leaves or is to complete.
Yields(t) ==
  /\ \A u \in Threads \ {t} : pc'[u] = pc[u] /\ chosen'[u] = chosen[u] /\ pending'[u] = pending[u]
  /\ IF pc'[t] = "run" THEN pc[t] = "run" /\ chosen'[t] = chosen[t] ELSE chosen'[t] = None
  /\ pending'[t] # None => /\ pc'[t] = "scan"
                           /\ \/ pending'[t] = pending[t]
                              \/ pending'[t] = chosen[t] /\ chosen[t][1] = 0 /\ pc[t] = "run"

\* Owners is kept.
LEMMA YieldKeepsOwners ==
  ASSUME Types, Kinds, Owners, NEW k, NEW es, Grown(k, es), NEW t \in Threads, Yields(t)
  PROVE  Owners'
<1>1. Indices \subseteq Indices' /\ \A g \in Indices : tape'[g[1]][g[2]] = Entry(g)
  BY DEF Grown
<1>2. \A u \in Threads : /\ pc'[u] = "run" => pc[u] = "run" /\ chosen'[u] = chosen[u]
                         /\ pc'[u] # "run" => chosen'[u] = None
  BY DEF Yields, Owners
<1>3. \A u \in Threads : pending'[u] # None =>
        /\ pc'[u] = "scan"
        /\ \/ pending'[u] = pending[u]
           \/ pending'[u] = chosen[u] /\ chosen[u][1] = 0 /\ pc[u] = "run"
  BY DEF Yields, Owners
<1>4. ASSUME NEW u \in Threads
      PROVE  /\ IF pc'[u] = "run" THEN LET e == tape'[chosen'[u][1]][chosen'[u][2]] IN
                                       /\ chosen'[u] \in Indices' /\ e.kind \notin {"fork", "join"}
                                       /\ e.status = "Busy" /\ (u # Main => e.affinity = "AnyThread")
                                  ELSE chosen'[u] = None
             /\ pending'[u] # None => LET e == tape'[pending'[u][1]][pending'[u][2]] IN
                                      /\ pc'[u] = "scan" /\ pending'[u] \in Indices' /\ pending'[u][1] = 0
                                      /\ e.status = "Busy"
  <2>1. pc[u] = "run" => /\ chosen[u] \in Indices /\ Entry(chosen[u]).kind \notin {"fork", "join"}
                         /\ Entry(chosen[u]).status = "Busy"
                         /\ u # Main => Entry(chosen[u]).affinity = "AnyThread"
    BY DEF Owners, HasCallable
  <2>2. pending[u] # None => /\ pending[u] \in Indices /\ pending[u][1] = 0
                             /\ Entry(pending[u]).status = "Busy"
    BY DEF Owners
  <2>3. CASE pc'[u] = "run"
    BY <1>1, <1>2, <1>3, <2>1, <2>3
  <2>4. CASE pc'[u] # "run"
    <3>1. chosen'[u] = None
      BY <1>2, <2>4
    <3>2. ASSUME pending'[u] # None
          PROVE  /\ pc'[u] = "scan" /\ pending'[u] \in Indices /\ pending'[u][1] = 0
                 /\ Entry(pending'[u]).status = "Busy"
      <4>1. CASE pending'[u] = pending[u]
        BY <1>3, <2>2, <3>2, <4>1
      <4>2. CASE pending'[u] = chosen[u] /\ chosen[u][1] = 0 /\ pc[u] = "run"
        BY <1>3, <2>1, <3>2, <4>2
      <4> QED
        BY <1>3, <3>2, <4>1, <4>2
    <3> QED
      BY <1>1, <2>4, <3>1, <3>2
  <2> QED
    BY <2>3, <2>4
<1>5. ASSUME NEW u \in Threads, NEW v \in Threads
      PROVE  /\ chosen'[u] = chosen'[v] /\ chosen'[u] # None => u = v
             /\ pending'[u] = pending'[v] /\ pending'[u] # None => u = v
             /\ chosen'[u] = pending'[v] => chosen'[u] = None
  <2>1. /\ chosen[u] = chosen[v] /\ chosen[u] # None => u = v
        /\ pending[u] = pending[v] /\ pending[u] # None => u = v
        /\ chosen[u] = pending[v] => chosen[u] = None
        /\ chosen[v] = pending[u] => chosen[v] = None
    BY DEF Owners
  <2>2. /\ chosen'[u] \in {None, chosen[u]} /\ chosen'[v] \in {None, chosen[v]}
        /\ pending'[u] \in {None, pending[u], chosen[u]} /\ pending'[v] \in {None, pending[v], chosen[v]}
    BY <1>2, <1>3
  <2>3. chosen'[v] # None => pending'[v] = None
    BY <1>2, <1>3
  <2> QED
    BY <2>1, <2>2, <2>3
<1> QED
  BY <1>4, <1>5 DEF Owners, Entry, HasCallable

\* What CoroutinesKept says of a coroutine.
CoroutineKept(c) ==
  /\ \A g, h \in Indices : Waits(c, g) /\ Waits(c, h) => g = h
  /\ \A t, u \in Threads : RunsIn(c, t) /\ RunsIn(c, u) => t = u
  /\ \A h \in Indices, t \in Threads : ~(Waits(c, h) /\ RunsIn(c, t))
  /\ c \in finished => /\ \A h \in Indices : ~Waits(c, h)
                       /\ \A t \in Threads : ~RunsIn(c, t)
  /\ Heads[c].status = "Completed" => c \in finished

\* CoroutinesKept is that of all coroutines.
LEMMA CoroutinesAreKept ==
  CoroutinesKept <=> finished \subseteq DOMAIN Heads /\ \A c \in DOMAIN Heads : CoroutineKept(c)
BY DEF CoroutinesKept, CoroutineKept

\* Where a coroutine can be after threads have yielded and tapes have grown.
StaysOrIsAdded(c, k, es) ==
  /\ \A u \in Threads : RunsIn(c, u)' => RunsIn(c, u)
  /\ \A g \in Indices : g \in Indices' /\ (Waits(c, g)' <=> Waits(c, g))
  /\ \A g \in Indices' \ Indices : \E i \in DOMAIN es :
       g = <<k, Len(tape[k]) + i>> /\ (Waits(c, g)' => es[i].coro = c)

LEMMA WhereCoroutinesAre ==
  ASSUME Types, Kinds, Owners, NEW k, NEW es, Grown(k, es), NEW t \in Threads, Yields(t), NEW c
  PROVE  StaysOrIsAdded(c, k, es)
<1>1. Indices \subseteq Indices' /\ \A g \in Indices : tape'[g[1]][g[2]] = Entry(g)
  BY DEF Grown
<1>2. ASSUME NEW u \in Threads, RunsIn(c, u)' PROVE RunsIn(c, u)
  <2>1. pc'[u] = "run" /\ tape'[chosen'[u][1]][chosen'[u][2]].coro = c
    BY <1>2 DEF RunsIn, Entry
  <2>2. pc[u] = "run" /\ chosen'[u] = chosen[u]
    BY <2>1 DEF Yields
  <2>3. chosen[u] \in Indices
    BY <2>2 DEF Owners
  <2> QED
    BY <1>1, <2>1, <2>2, <2>3 DEF RunsIn
<1>3. \A g \in Indices : Waits(c, g)' <=> Waits(c, g)
  BY <1>1 DEF Waits, Entry
<1>4. \A g \in Indices' \ Indices : \E i \in DOMAIN es :
        g = <<k, Len(tape[k]) + i>> /\ tape'[g[1]][g[2]] = es[i]
  BY DEF Grown
<1> QED
  BY <1>1, <1>2, <1>3, <1>4 DEF StaysOrIsAdded, Waits, Entry

\* A coroutine that the step is not about.
LEMMA OtherCoroutines ==
  ASSUME Types, Kinds, Owners, NEW k, NEW es, Grown(k, es), NEW t \in Threads, Yields(t),
         NEW c \in DOMAIN Heads, CoroutineKept(c),
         \A i \in DOMAIN es : es[i].coro # c, c \in finished' <=> c \in finished
  PROVE  CoroutineKept(c)'
<1>1. /\ \A u \in Threads : RunsIn(c, u)' => RunsIn(c, u)
      /\ \A g \in Indices' : (g \in Indices /\ Waits(c, g)) \/ ~Waits(c, g)'
  <2>1. StaysOrIsAdded(c, k, es)
    BY WhereCoroutinesAre
  <2> QED
    BY <2>1 DEF StaysOrIsAdded
<1>2. Heads'[c] = Heads[c]
  BY DEF Grown
<1> DEFINE R(u) == RunsIn(c, u)
           W(g) == Waits(c, g)
<1>3. /\ \A g, h \in Indices : W(g) /\ W(h) => g = h
      /\ \A v, u \in Threads : R(v) /\ R(u) => v = u
      /\ \A h \in Indices, v \in Threads : ~(W(h) /\ R(v))
      /\ c \in finished => (\A h \in Indices : ~W(h)) /\ (\A v \in Threads : ~R(v))
      /\ Heads[c].status = "Completed" => c \in finished
  BY DEF CoroutineKept
<1>4. /\ \A u \in Threads : R(u)' => R(u)
      /\ \A g \in Indices' : W(g)' => g \in Indices /\ W(g)
  BY <1>1
<1>5. /\ \A g, h \in Indices' : W(g)' /\ W(h)' => g = h
      /\ \A v, u \in Threads : R(v)' /\ R(u)' => v = u
      /\ \A h \in Indices', v \in Threads : ~(W(h)' /\ R(v)')
      /\ c \in finished' => (\A h \in Indices' : ~W(h)') /\ (\A v \in Threads : ~R(v)')
      /\ Heads'[c].status = "Completed" => c \in finished'
  <2> HIDE DEF R, W
  <2> QED
    BY <1>2, <1>3, <1>4
<1> QED
  BY <1>5 DEF CoroutineKept

\* The coroutine that a thread has run, and does not run any more, is nowhere.
LEMMA YieldedCoroutine ==
  ASSUME Types, Kinds, Owners, NEW k, NEW es, Grown(k, es), NEW t \in Threads, Yields(t),
         NEW c, CoroutineKept(c), RunsIn(c, t), pc'[t] # "run"
  PROVE  /\ \A u \in Threads : ~RunsIn(c, u)'
         /\ \A g \in Indices : ~Waits(c, g)'
         /\ c \notin finished
<1>1. /\ \A u \in Threads : RunsIn(c, u)' => RunsIn(c, u)
      /\ \A g \in Indices : Waits(c, g)' => Waits(c, g)
  BY WhereCoroutinesAre DEF StaysOrIsAdded
<1>2. ~RunsIn(c, t)'
  BY DEF RunsIn
<1>3. \A u \in Threads : RunsIn(c, u) => u = t
  BY DEF CoroutineKept
<1>4. \A g \in Indices : ~Waits(c, g)
  BY DEF CoroutineKept
<1>5. c \notin finished
  BY DEF CoroutineKept
<1> QED
  BY <1>1, <1>2, <1>3, <1>4, <1>5

\* NothingLost is kept by who goes on working, and by who has not worked.
LEMMA YieldKeepsEverything ==
  ASSUME Types, Kinds, Owners, NothingLost, NEW k, NEW es, Grown(k, es),
         \A i \in DOMAIN es : es[i].status = "Pending",
         NEW t \in Threads, Yields(t), Failed => Failed',
         Failed' \/ (/\ chosen[t] # None /\ chosen[t][1] = 0 => chosen[t] \in {chosen'[t], pending'[t]}
                     /\ pending[t] # None => pending'[t] = pending[t]),
         \/ Failed'
         \/ pc'[t] \in {"scan", "run"} \/ (t = Main /\ pc'[t] = "submit")
         \/ /\ es = <<>> /\ pc[t] \notin {"scan", "run"}
            /\ pc'[Main] \in {"leave", "barrier"} => pc[Main] \in {"leave", "barrier"}
  PROVE  NothingLost'
<1>1. SUFFICES ASSUME ~Failed' PROVE NothingLost'
  BY DEF NothingLost
<1>2. /\ \A i \in DOMAIN Regular : Regular[i].status = "Busy" =>
           \E u \in Threads : <<0, i>> \in {chosen[u], pending[u]}
      /\ pc[Main] \in {"leave", "barrier"} /\ Unclosed => \E w \in Workers : pc[w] \in {"scan", "run"}
  BY <1>1 DEF NothingLost
<1>3. ASSUME NEW i \in DOMAIN Regular', Regular'[i].status = "Busy"
      PROVE  \E u \in Threads : <<0, i>> \in {chosen'[u], pending'[u]}
  <2>1. i \in DOMAIN Regular /\ Regular'[i] = Regular[i]
    <3>1. SUFFICES ASSUME i \notin DOMAIN Regular PROVE FALSE
      BY DEF Grown
    <3>2. PICK j \in DOMAIN es : Regular'[i] = es[j]
      BY <3>1 DEF Grown
    <3> QED
      BY <1>3, <3>2
  <2>2. PICK u \in Threads : <<0, i>> \in {chosen[u], pending[u]}
    BY <1>2, <1>3, <2>1
  <2>3. CASE u # t
    BY <2>2, <2>3 DEF Yields
  <2>4. CASE u = t
    <3>1. i # 0
      BY <2>1 DEF Kinds, Regular
    <3>2. <<0, i>> # None /\ <<0, i>>[1] = 0
      BY <3>1 DEF None
    <3>3. CASE chosen[t] = <<0, i>>
      <4>1. chosen[t] # None /\ chosen[t][1] = 0
        BY <3>2, <3>3
      <4> QED
        BY <1>1, <3>3, <4>1
    <3>4. CASE pending[t] = <<0, i>>
      <4>1. pending[t] # None
        BY <3>2, <3>4
      <4> QED
        BY <1>1, <3>4, <4>1
    <3> QED
      BY <2>2, <2>4, <3>3, <3>4
  <2> QED
    BY <2>3, <2>4
<1>4. ASSUME pc'[Main] \in {"leave", "barrier"}, Unclosed'
      PROVE  \E w \in Workers : pc'[w] \in {"scan", "run"}
  <2>1. Main \in Threads /\ Workers = Threads \ {Main}
    BY ThreadsAssumption DEF Threads
  <2>2. CASE pc'[t] \in {"scan", "run"}
    BY <1>4, <2>1, <2>2
  <2>3. CASE t = Main /\ pc'[t] = "submit"
    BY <1>4, <2>3
  <2>4. CASE /\ es = <<>> /\ pc[t] \notin {"scan", "run"}
             /\ pc'[Main] \in {"leave", "barrier"} => pc[Main] \in {"leave", "barrier"}
    <3>1. DOMAIN Regular' = DOMAIN Regular /\ DOMAIN Heads' = DOMAIN Heads
      <4>1. DOMAIN es = {}
        BY <2>4
      <4> QED
        BY <4>1 DEF Grown
    <3>2. /\ \A i \in DOMAIN Regular : Regular'[i] = Regular[i]
          /\ \A i \in DOMAIN Heads : Heads'[i] = Heads[i]
      BY DEF Grown
    <3>3. Unclosed
      BY <1>4, <3>1, <3>2 DEF Unclosed
    <3>4. PICK w \in Workers : pc[w] \in {"scan", "run"}
      BY <1>2, <1>4, <2>4, <3>3
    <3>5. w # t /\ w \in Threads
      BY <2>1, <2>4, <3>4
    <3> QED
      BY <3>4, <3>5 DEF Yields
  <2> QED
    BY <1>1, <2>2, <2>3, <2>4
<1> QED
  BY <1>3, <1>4 DEF NothingLost

-----------------------------------------------------------------------------
(* What is added.                                                          *)

\* The rank of dependencies is that of a coroutine.
LEMMA RankIsANumber ==
  ASSUME Types, Kinds, NEW d \in SUBSET Indices
  PROVE  Rank(d) \in 0..MaxCoros
<1>1. MaxCoros \in Nat
  BY Bounds
<1>2. CASE d = {}
  BY <1>1, <1>2 DEF Rank
<1>3. CASE d # {}
  <2> DEFINE ranks == {Entry(x).rank : x \in d}
  <2>1. \A x \in d : Entry(x).rank \in 0..MaxCoros
    BY EntryAt, EntryFields
  <2>2. ranks \in SUBSET (0..MaxCoros) /\ ranks # {}
    BY <1>3, <2>1
  <2>3. Rank(d) = CHOOSE r \in ranks : \A q \in ranks : q <= r
    BY <1>3 DEF Rank
  <2> HIDE DEF ranks
  <2>4. \E r \in ranks : \A q \in ranks : q <= r
    BY <1>1, <2>2, GreatestNumber
  <2>5. Rank(d) \in ranks
    BY <2>3, <2>4
  <2> QED
    BY <2>2, <2>5
<1> QED
  BY <1>2, <1>3

\* Clients may depend on entries.
LEMMA DependencySetsAre ==
  ASSUME NEW d \in DependencySets
  PROVE  d \in SUBSET Indices
BY DEF DependencySets, Handles

\* A new entry has its type, and nothing to its account.
LEMMA NewEntryIs ==
  ASSUME Types, Kinds, NEW kind \in {"task", "fork", "parallel", "join", "head", "resume"},
         NEW a \in {"AnyThread", "OnlyMainThread"}, NEW d \in SUBSET Indices, NEW e, e = NewEntry(kind, a, d)
  PROVE  /\ e \in EntryType
         /\ e.kind = kind /\ e.affinity = a /\ e.deps = d /\ e.status = "Pending"
         /\ e.coro = 0 /\ e.dependents = {} /\ e.satisfied = 0 /\ e.total = 0
<1>1. Rank(d) \in 0..MaxCoros /\ MaxCoros \in Nat
  BY RankIsANumber, Bounds
<1>2. d \in SUBSET Places
  BY DEF Indices
<1> QED
  BY <1>1, <1>2 DEF NewEntry, EntryType

\* Affinities that a submitter gives.
LEMMA AffinitiesAre ==
  ASSUME NEW t, NEW a \in Affinities(t)
  PROVE  a \in {"AnyThread", "OnlyMainThread"}
BY DEF Affinities

\* One entry without dependents at the end of tape 0.
LEMMA OneIsAdded ==
  ASSUME Types, Kinds, NEW e \in EntryType, e.kind \in {"task", "resume"}, e.status = "Pending",
         e.deps \subseteq Indices, e.coro <= Len(Heads), e.coro # 0 <=> e.kind = "resume",
         e.dependents = {}, e.satisfied = 0, e.total = 0,
         Fits(1), Append0(<<e>>), load' = load, startScan' = startScan
  PROVE  Grows(0, <<e>>) /\ Added(0, <<e>>)
<1>1. <<e>> \in Seq(EntryType) /\ Len(<<e>>) = 1 /\ DOMAIN <<e>> = {1} /\ <<e>>[1] = e
  OBVIOUS
<1>2. Grows(0, <<e>>)
  BY <1>1 DEF Grows, Append0
<1>3. Len(tape[0]) + 1 <= MaxEntries
  BY DEF Fits
<1> QED
  BY <1>1, <1>2, <1>3 DEF Added

\* Tapes that stay have grown by nothing.
LEMMA NothingIsAdded ==
  ASSUME Types, Kinds, UNCHANGED <<tape, calls, startScan, load>>
  PROVE  Grows(0, <<>>) /\ Added(0, <<>>) /\ DOMAIN <<>> = {}
<1>1. tape \in [0..1 -> Seq(EntryType)] /\ calls \in [0..1 -> Seq(Nat)]
  BY DEF Kinds
<1>2. <<>> \in Seq(EntryType) /\ DOMAIN <<>> = {} /\ Len(<<>>) = 0
  OBVIOUS
<1>3. [i \in DOMAIN <<>> |-> 0] = <<>>
  BY <1>2
<1>4. tape[0] \o <<>> = tape[0] /\ calls[0] \o <<>> = calls[0]
  BY <1>1
<1>5. Grows(0, <<>>)
  <2>1. tape = [tape EXCEPT ![0] = tape[0] \o <<>>] /\ calls = [calls EXCEPT ![0] = calls[0] \o <<>>]
    BY <1>1, <1>4
  <2> QED
    BY <1>2, <1>3, <2>1 DEF Grows
<1>6. Len(tape[0]) + 0 <= MaxEntries
  <2>1. Len(tape[0]) \in Nat /\ Len(tape[0]) <= MaxEntries
    BY <1>1 DEF Kinds, Regular
  <2> QED
    BY <2>1
<1> QED
  BY <1>2, <1>5, <1>6 DEF Added

\* What does not depend on the threads is kept when tapes grow.
LEMMA GrowthKeepsTapes ==
  ASSUME IInv, NEW k, NEW es, Grows(k, es), Added(k, es)
  PROVE  /\ Kinds' /\ RangesKept' /\ Arguments' /\ Taken' /\ ScanStartSound'
         /\ Grown(k, es) /\ \A i \in DOMAIN es : es[i].status = "Pending"
<1>1. Types /\ Kinds /\ RangesKept /\ Arguments /\ Taken /\ ScanStartSound
  BY DEF IInv
<1>2. \A i \in DOMAIN es : es[i].status = "Pending"
  BY DEF Added
<1> QED
  BY <1>1, <1>2, GrowsToGrown, GrowthKeepsKinds, GrowthKeepsRanges, GrowthKeepsTaken, GrowthKeepsStart

\* Whatever is added by somebody who may, the invariant is kept.
LEMMA AdditionKeeps ==
  ASSUME IInv, NEW t \in Threads, Submits(t), NEW k, NEW es, Grows(k, es), Added(k, es),
         k = 0 => \A i \in DOMAIN es : es[i].coro = 0,
         UNCHANGED <<startScan, finished, syncVars, threadVars>>
  PROVE  IInv'
<1>1. /\ Types /\ Kinds /\ RangesKept /\ Arguments /\ Taken /\ Owners /\ CoroutinesKept
      /\ ScanStartSound /\ Sync /\ NothingLost
  BY DEF IInv
<1>2. /\ Kinds' /\ RangesKept' /\ Arguments' /\ Taken' /\ ScanStartSound'
      /\ Grown(k, es) /\ \A i \in DOMAIN es : es[i].status = "Pending"
  BY GrowthKeepsTapes
<1>3. /\ finished' = finished /\ awaits' = awaits /\ shutting' = shutting /\ signaled' = signaled
      /\ arrived' = arrived /\ used' = used /\ status' = status /\ rounds' = rounds /\ load' = load
      /\ pc' = pc /\ chosen' = chosen /\ pending' = pending /\ turn' = turn /\ startScan' = startScan
  BY DEF syncVars, threadVars
<1>4. Yields(t)
  <2>1. pc[t] # "run" => chosen[t] = None
    BY <1>1 DEF Owners
  <2>2. pending[t] # None => pc[t] = "scan"
    BY <1>1 DEF Owners
  <2> QED
    BY <1>3, <2>1, <2>2 DEF Yields
<1>5. pc[t] = "run" \/ (t = Main /\ pc[t] = "submit")
  BY DEF Submits
<1>6. Types'
  BY <1>1, <1>2, <1>3 DEF Types, Grown
<1>7. Owners'
  BY <1>1, <1>2, <1>4, YieldKeepsOwners
<1>8. Sync'
  <2>1. pc'[t] = pc[t] /\ \A u \in Threads \ {t} : pc'[u] = pc[u] /\ status'[u] = status[u]
    BY <1>3
  <2>2. /\ t = Main => pc'[t] \in {"submit", "scan", "run", "leave"}
        /\ t # Main => pc'[t] \in {"scan", "run", "check", "arrive"}
    BY <1>5, <2>1
  <2> QED
    BY <1>1, <1>3, <1>5, <2>1, <2>2, WorkKeepsSync
<1>9. NothingLost'
  <2>1. Failed => Failed'
    BY <1>3 DEF Failed
  <2> QED
    BY <1>1, <1>2, <1>3, <1>4, <1>5, <2>1, YieldKeepsEverything
<1>10. finished \subseteq DOMAIN Heads /\ \A c \in DOMAIN Heads : CoroutineKept(c)
  BY <1>1, CoroutinesAreKept
<1>13. Grown(k, es)
  BY <1>2
<1>11. CASE k = 0
  <2>1. DOMAIN Heads' = DOMAIN Heads
    <3>1. \A i \in DOMAIN Heads' : i \in DOMAIN Heads
      BY <1>11, <1>13 DEF Grown
    <3>2. \A i \in DOMAIN Heads : i \in DOMAIN Heads'
      BY <1>13 DEF Grown
    <3> QED
      BY <3>1, <3>2
  <2>2. ASSUME NEW c \in DOMAIN Heads PROVE CoroutineKept(c)'
    <3>1. c # 0
      BY <1>1 DEF Kinds, Heads
    <3>2. \A i \in DOMAIN es : es[i].coro # c
      BY <1>11, <3>1
    <3> QED
      BY <1>1, <1>2, <1>3, <1>4, <1>10, <3>2, OtherCoroutines
  <2>3. CoroutinesKept'
    BY <1>3, <1>10, <2>1, <2>2 DEF CoroutinesKept, CoroutineKept
  <2> QED
    BY <1>2, <1>6, <1>7, <1>8, <1>9, <2>3 DEF IInv
<1>12. CASE k = 1
  <2>1. Len(es) = 1 /\ es[1].coro = Len(Heads) + 1 /\ DOMAIN es = {1}
    BY <1>12 DEF Added, Grows
  <2>2. Len(Heads) \in Nat /\ DOMAIN Heads = 1..Len(Heads)
    BY <1>1 DEF Kinds, Heads
  <2>3. ASSUME NEW c \in DOMAIN Heads PROVE CoroutineKept(c)'
    <3>1. \A i \in DOMAIN es : es[i].coro # c
      BY <2>1, <2>2
    <3> QED
      BY <1>1, <1>2, <1>3, <1>4, <1>10, <3>1, OtherCoroutines
  <2>4. ASSUME NEW c \in DOMAIN Heads', c \notin DOMAIN Heads PROVE CoroutineKept(c)'
    <3>1. Heads'[c].status = "Pending" /\ c = Len(Heads) + 1
      BY <1>2, <2>1, <2>4 DEF Grown
    <3>2. ASSUME NEW g \in Indices PROVE Entry(g).coro # c
      <4>1. CASE g = <<0, g[2]>> /\ g[1] = 0 /\ g[2] \in DOMAIN Regular
        <5>1. Entry(g) = Regular[g[2]]
          BY <4>1 DEF Entry, Regular
        <5>2. Regular[g[2]].coro <= Len(Heads)
          BY <1>1, <4>1 DEF Kinds
        <5>3. Entry(g).coro \in Nat
          BY <1>1, EntryAt, EntryFields, Bounds
        <5> QED
          BY <2>2, <3>1, <5>1, <5>2, <5>3
      <4>2. CASE g = <<1, g[2]>> /\ g[1] = 1 /\ g[2] \in DOMAIN Heads
        <5>1. Entry(g) = Heads[g[2]]
          BY <4>2 DEF Entry, Heads
        <5>2. Heads[g[2]].coro = g[2]
          BY <1>1, <4>2 DEF Kinds
        <5> QED
          BY <2>2, <3>1, <4>2, <5>1, <5>2
      <4> QED
        BY <1>1, <4>1, <4>2, EntryAt
    <3>3. \A u \in Threads : ~RunsIn(c, u)
      BY <1>1, <3>2 DEF RunsIn, Owners
    <3>4. \A g \in Indices : ~Waits(c, g)
      BY <3>2 DEF Waits
    <3>5. c \notin finished'
      BY <1>3, <1>10, <2>4
    <3>6. /\ \A u \in Threads : RunsIn(c, u)' => RunsIn(c, u)
          /\ \A g \in Indices : g \in Indices' /\ (Waits(c, g)' <=> Waits(c, g))
          /\ \A g \in Indices' \ Indices : \E i \in DOMAIN es :
               g = <<k, Len(tape[k]) + i>> /\ (Waits(c, g)' => es[i].coro = c)
      <4>1. Types /\ Kinds /\ Owners
        BY <1>1
      <4>2. StaysOrIsAdded(c, k, es)
        BY <1>4, <1>13, <4>1, WhereCoroutinesAre, Zenon
      <4> QED
        BY <4>2, Zenon DEF StaysOrIsAdded
    <3>7. \A g \in Indices' : Waits(c, g)' => g = <<k, Len(tape[k]) + 1>>
      BY <2>1, <3>4, <3>6
    <3>8. \A u \in Threads : ~RunsIn(c, u)'
      BY <3>3, <3>6
    <3> QED
      BY <3>1, <3>5, <3>7, <3>8 DEF CoroutineKept
  <2>5. finished' \subseteq DOMAIN Heads'
    BY <1>2, <1>3, <1>10 DEF Grown
  <2>6. CoroutinesKept'
    BY <2>3, <2>4, <2>5 DEF CoroutinesKept, CoroutineKept
  <2> QED
    BY <1>2, <1>6, <1>7, <1>8, <1>9, <2>6 DEF IInv
<1> QED
  BY <1>11, <1>12 DEF Grows

-----------------------------------------------------------------------------
(* Additions.                                                              *)

\* A sequence between two elements.
Frames(S, first, mid, last, r) ==
  /\ r \in Seq(S) /\ Len(r) = Len(mid) + 2 /\ r[1] = first /\ r[Len(mid) + 2] = last
  /\ \A i \in 2..Len(mid) + 1 : i - 1 \in 1..Len(mid) /\ r[i] = mid[i - 1]

\* Concatenation frames.
LEMMA Between ==
  ASSUME NEW S, NEW first \in S, NEW last \in S, NEW mid \in Seq(S), NEW r, r = <<first>> \o mid \o <<last>>
  PROVE  Frames(S, first, mid, last, r)
<1>1. <<first>> \in Seq(S) /\ <<last>> \in Seq(S) /\ Len(<<first>>) = 1 /\ Len(<<last>>) = 1 /\ Len(mid) \in Nat
  OBVIOUS
<1> DEFINE s == <<first>> \o mid
<1>2. s \in Seq(S) /\ Len(s) = Len(mid) + 1 /\ s[1] = first
  BY <1>1
<1>3. \A i \in 2..Len(mid) + 1 : i - 1 \in 1..Len(mid) /\ s[i] = mid[i - 1]
  BY <1>1
<1> HIDE DEF s
<1>4. r = s \o <<last>>
  BY DEF s
<1>5. r \in Seq(S) /\ Len(r) = Len(mid) + 2 /\ \A i \in 1..Len(mid) + 1 : r[i] = s[i]
  BY <1>1, <1>2, <1>4
<1>6. r[Len(mid) + 2] = last
  BY <1>1, <1>2, <1>4
<1>7. \A i \in 2..Len(mid) + 1 : i - 1 \in 1..Len(mid) /\ r[i] = mid[i - 1]
  BY <1>1, <1>3, <1>5
<1> QED
  BY <1>1, <1>2, <1>5, <1>6, <1>7 DEF Frames

\* The arguments of a range are pairs of numbers.
LEMMA ArgumentsAreNumbers ==
  ASSUME NEW begin \in Nat, NEW workload \in Nat
  PROVE  /\ IndexArgs(begin, workload) \in Seq(Nat \X Nat)
         /\ \A length \in Nat \ {0} : SubrangeArgs(begin, workload, length) \in Seq(Nat \X Nat)
<1>1. IndexArgs(begin, workload) \in Seq(Nat \X Nat)
  <2>1. \A i \in 1..workload : <<begin + i - 1, begin + i>> \in Nat \X Nat
    OBVIOUS
  <2>2. IndexArgs(begin, workload) \in [1..workload -> Nat \X Nat]
    BY <2>1 DEF IndexArgs
  <2> QED
    BY <2>2
<1>2. ASSUME NEW length \in Nat \ {0} PROVE SubrangeArgs(begin, workload, length) \in Seq(Nat \X Nat)
  <2>1. NumTasks(workload, length) \in Nat
    BY DEF NumTasks
  <2>2. \A start, end \in Nat : Packed(start, end) \in Nat \X Nat
    BY DEF Packed
  <2>3. ASSUME NEW i \in 1..NumTasks(workload, length)
        PROVE  LET end == begin + i * length
               IN Packed(begin + (i - 1) * length, IF end > workload + begin THEN workload + begin ELSE end) \in Nat \X Nat
    <3>1. i \in Nat /\ i - 1 \in Nat
      BY <2>1
    <3>2. i * length \in Nat /\ (i - 1) * length \in Nat
      BY <3>1
    <3>3. begin + (i - 1) * length \in Nat /\ begin + i * length \in Nat /\ workload + begin \in Nat
      BY <3>2
    <3> DEFINE start == begin + (i - 1) * length
               end == begin + i * length
               last == workload + begin
    <3>4. start \in Nat /\ (IF end > last THEN last ELSE end) \in Nat
      BY <3>3
    <3> HIDE DEF start, end, last
    <3>5. Packed(start, IF end > last THEN last ELSE end) \in Nat \X Nat
      BY <2>2, <3>4
    <3> QED
      BY <3>5 DEF start, end, last
  <2>4. SubrangeArgs(begin, workload, length) \in [1..NumTasks(workload, length) -> Nat \X Nat]
    BY <2>3 DEF SubrangeArgs
  <2> QED
    BY <2>1, <2>4
<1> QED
  BY <1>1, <1>2

\* What clients call for is a range of the arguments.
CalledFor(begin, workload, args) ==
  \/ \E r \in load.indices : begin = r[1] /\ workload = r[2] /\ args = IndexArgs(r[1], r[2])
  \/ \E r \in load.subranges : begin = r[1] /\ workload = r[2] /\ args = SubrangeArgs(r[1], r[2], r[3])

\* The entries of a fork are a range that is added.
LEMMA ForkIsAdded ==
  ASSUME Types, Kinds, NEW begin, NEW workload, NEW args, CalledFor(begin, workload, args),
         NEW a \in {"AnyThread", "OnlyMainThread"}, NEW d \in SUBSET Indices, Fits(Len(args) + 2),
         NEW es, es = ForkEntries(Len(tape[0]), a, d, <<begin, begin + workload>>, args),
         Append0(es), load' = load, startScan' = startScan
  PROVE  Grows(0, es) /\ Added(0, es) /\ \A i \in DOMAIN es : es[i].coro = 0
<1>1. begin \in Nat /\ workload \in Nat /\ args \in Seq(Nat \X Nat)
  <2>1. /\ \A r \in load.indices : r[1] \in Nat /\ r[2] \in Nat
        /\ \A r \in load.subranges : r[1] \in Nat /\ r[2] \in Nat /\ r[3] \in Nat \ {0}
    BY Bounds
  <2> QED
    BY <2>1, ArgumentsAreNumbers DEF CalledFor
<1> DEFINE n == Len(args)
           base == Len(tape[0])
           par == base + 2..base + 1 + n
           range == <<begin, begin + workload>>
           first == [NewEntry("fork", a, d) EXCEPT !.dependents = par, !.arg = range,
                                                   !.jump = ScanJump(range[2] - range[1])]
           mid == [i \in 1..n |-> [NewEntry("parallel", a, {}) EXCEPT !.total = 1, !.rank = Rank(d),
                                     !.dependents = {base + 2 + n}, !.arg = args[i]]]
           last == [NewEntry("join", a, {}) EXCEPT !.total = JoinTotal(n), !.rank = Rank(d)]
<1>2. es = <<first>> \o mid \o <<last>>
  BY DEF ForkEntries
<1>3. n \in Nat /\ base \in Nat /\ base + n + 2 <= MaxEntries /\ MaxEntries \in Nat
  BY <1>1, Bounds DEF Kinds, Fits
<1>4. Rank(d) \in 0..MaxCoros
  BY RankIsANumber
<1>5. /\ first \in EntryType /\ first.kind = "fork" /\ first.dependents = par /\ first.arg = range
      /\ first.status = "Pending" /\ first.deps = d /\ first.satisfied = 0 /\ first.coro = 0 /\ first.total = 0
  <2> DEFINE e == NewEntry("fork", a, d)
  <2>1. /\ e \in EntryType /\ e.kind = "fork" /\ e.deps = d /\ e.status = "Pending"
        /\ e.coro = 0 /\ e.satisfied = 0 /\ e.total = 0
    BY NewEntryIs
  <2>2. par \in SUBSET (1..MaxEntries)
    BY <1>3
  <2>3. range \in Nat \X Nat /\ ScanJump(range[2] - range[1]) \in Nat
    BY <1>1 DEF ScanJump
  <2>4. first = [e EXCEPT !.dependents = par, !.arg = range, !.jump = ScanJump(range[2] - range[1])]
    OBVIOUS
  <2> HIDE DEF e, par, range, first
  <2> QED
    BY <2>1, <2>2, <2>3, <2>4 DEF EntryType
<1>6. ASSUME NEW i \in 1..n
      PROVE  /\ mid[i] \in EntryType /\ mid[i].kind = "parallel" /\ mid[i].dependents = {base + 2 + n}
             /\ mid[i].arg = args[i] /\ mid[i].total = 1
             /\ mid[i].status = "Pending" /\ mid[i].deps = {} /\ mid[i].satisfied = 0 /\ mid[i].coro = 0
  <2> DEFINE e == NewEntry("parallel", a, {})
  <2>1. /\ e \in EntryType /\ e.kind = "parallel" /\ e.deps = {} /\ e.status = "Pending"
        /\ e.coro = 0 /\ e.satisfied = 0 /\ e.total = 0
    <3>1. {} \in SUBSET Indices
      OBVIOUS
    <3> QED
      BY <3>1, NewEntryIs
  <2>2. {base + 2 + n} \in SUBSET (1..MaxEntries)
    BY <1>3
  <2>3. args[i] \in Nat \X Nat
    BY <1>1
  <2>4. mid[i] = [e EXCEPT !.total = 1, !.rank = Rank(d), !.dependents = {base + 2 + n}, !.arg = args[i]]
    OBVIOUS
  <2>5. PICK rank, deps, arg : rank = Rank(d) /\ deps = {base + 2 + n} /\ arg = args[i]
    OBVIOUS
  <2>6. rank \in 0..MaxCoros /\ deps \in SUBSET (1..MaxEntries) /\ arg \in Nat \X Nat
    BY <1>4, <2>2, <2>3, <2>5
  <2> HIDE DEF e, mid, n, base
  <2>7. PICK m : m = [e EXCEPT !.total = 1, !.rank = rank, !.dependents = deps, !.arg = arg]
    OBVIOUS
  <2>8. /\ m \in EntryType /\ m.kind = "parallel" /\ m.dependents = deps /\ m.arg = arg /\ m.total = 1
        /\ m.status = "Pending" /\ m.deps = {} /\ m.satisfied = 0 /\ m.coro = 0
    BY <2>1, <2>6, <2>7 DEF EntryType
  <2>9. mid[i] = m
    BY <2>4, <2>5, <2>7
  <2> QED
    BY <2>5, <2>8, <2>9
<1>7. /\ last \in EntryType /\ last.kind = "join" /\ last.dependents = {} /\ last.total = n
      /\ last.status = "Pending" /\ last.deps = {} /\ last.satisfied = 0 /\ last.coro = 0
  <2> DEFINE e == NewEntry("join", a, {})
  <2>1. /\ e \in EntryType /\ e.kind = "join" /\ e.deps = {} /\ e.status = "Pending"
        /\ e.coro = 0 /\ e.satisfied = 0 /\ e.total = 0 /\ e.dependents = {}
    <3>1. {} \in SUBSET Indices
      OBVIOUS
    <3> QED
      BY <3>1, NewEntryIs
  <2>2. last = [e EXCEPT !.total = n, !.rank = Rank(d)]
    BY DEF JoinTotal
  <2> HIDE DEF e, last, n
  <2> QED
    BY <1>3, <1>4, <2>1, <2>2 DEF EntryType
<1>8. mid \in Seq(EntryType) /\ Len(mid) = n
  <2>1. mid = [i \in 1..n |-> mid[i]]
    OBVIOUS
  <2> HIDE DEF mid, n
  <2>2. mid \in [1..n -> EntryType]
    BY <1>6, <2>1
  <2> QED
    BY <1>3, <2>2, Numbered
<1> HIDE DEF first, mid, last
<1>9. /\ es \in Seq(EntryType) /\ Len(es) = n + 2 /\ es[1] = first /\ es[n + 2] = last
      /\ \A i \in 2..n + 1 : i - 1 \in 1..n /\ es[i] = mid[i - 1]
  <2> HIDE DEF n
  <2>1. first \in EntryType /\ last \in EntryType /\ mid \in Seq(EntryType)
    BY <1>5, <1>7, <1>8
  <2>2. /\ es \in Seq(EntryType) /\ Len(es) = Len(mid) + 2 /\ es[1] = first /\ es[Len(mid) + 2] = last
        /\ \A i \in 2..Len(mid) + 1 : i - 1 \in 1..Len(mid) /\ es[i] = mid[i - 1]
    <3>1. Frames(EntryType, first, mid, last, es)
      BY <1>2, <2>1, Between
    <3> QED
      BY <3>1 DEF Frames
  <2> QED
    BY <1>8, <2>2
<1> HIDE DEF n, base
<1>10. ASSUME NEW i \in DOMAIN es
       PROVE  \/ es[i] = first
              \/ \E j \in 1..n : es[i] = mid[j]
              \/ es[i] = last
  <2>1. i \in 1..n + 2
    BY <1>9
  <2>2. i = 1 \/ i = n + 2 \/ i \in 2..n + 1
    BY <1>3, <2>1
  <2> QED
    BY <1>9, <2>2
<1>11. RangeAdded(es)
  <2> DEFINE passed == [i \in 1..n |-> es[i + 1].arg]
  <2>1. passed = args
    <3>1. \A i \in 1..n : es[i + 1].arg = args[i]
      <4> TAKE i \in 1..n
      <4>1. i + 1 \in 2..n + 1 /\ (i + 1) - 1 = i
        BY <1>3
      <4>2. es[i + 1] = mid[(i + 1) - 1]
        BY <1>9, <4>1
      <4> QED
        BY <1>6, <4>1, <4>2
    <3>2. args = [i \in 1..n |-> args[i]]
      BY <1>1 DEF n
    <3> QED
      BY <3>1, <3>2
  <2>2. \/ \E r \in load.indices : es[1].arg = <<r[1], r[1] + r[2]>> /\ passed = IndexArgs(r[1], r[2])
        \/ \E r \in load.subranges : es[1].arg = <<r[1], r[1] + r[2]>> /\ passed = SubrangeArgs(r[1], r[2], r[3])
    BY <1>5, <1>9, <2>1 DEF CalledFor
  <2>3. \A i \in 2..n + 1 : /\ es[i].kind = "parallel" /\ es[i].total = 1
                            /\ es[i].dependents = {base + 2 + n}
    <3> TAKE i \in 2..n + 1
    <3>1. i - 1 \in 1..n /\ es[i] = mid[i - 1]
      BY <1>9
    <3> QED
      BY <1>6, <3>1
  <2>4. base = Len(Regular)
    BY DEF base, Regular
  <2>5. es[1].kind = "fork" /\ es[1].dependents = base + 2..base + 1 + n /\ es[n + 2].kind = "join" /\ es[n + 2].total = n
    BY <1>5, <1>7, <1>9
  <2> HIDE DEF passed
  <2>6. \/ \E r \in load.indices : /\ es[1].arg = <<r[1], r[1] + r[2]>>
                                   /\ [i \in 1..n |-> es[i + 1].arg] = IndexArgs(r[1], r[2])
        \/ \E r \in load.subranges : /\ es[1].arg = <<r[1], r[1] + r[2]>>
                                     /\ [i \in 1..n |-> es[i + 1].arg] = SubrangeArgs(r[1], r[2], r[3])
    BY <2>2 DEF passed
  <2> QED
    BY <1>3, <1>9, <2>3, <2>4, <2>5, <2>6 DEF RangeAdded
<1>12. ASSUME NEW i \in DOMAIN es
       PROVE  /\ es[i].status = "Pending" /\ es[i].deps \subseteq Indices /\ es[i].satisfied = 0 /\ es[i].coro = 0
              /\ es[i].kind \in {"fork", "parallel", "join"}
              /\ es[i].kind = "join" => es[i].dependents = {}
              /\ es[i].kind = "fork" => es[i].total = 0
  BY <1>5, <1>6, <1>7, <1>10
<1>13. Grows(0, es)
  BY <1>9 DEF Grows, Append0
<1>14. Added(0, es)
  <2>1. Len(tape[0]) + Len(es) <= MaxEntries
    <3>1. Len(tape[0]) = base
      BY DEF base
    <3>2. Len(es) = n + 2
      BY <1>9
    <3> QED
      BY <1>3, <3>1, <3>2
  <2>2. Len(Heads) \in Nat
    BY DEF Kinds, Heads
  <2>3. \A i \in DOMAIN es :
          /\ es[i].kind # "head" /\ es[i].coro <= Len(Heads)
          /\ es[i].coro # 0 <=> es[i].kind = "resume"
          /\ es[i].kind \notin {"fork", "parallel"} => es[i].dependents = {}
          /\ es[i].kind \notin {"parallel", "join"} => es[i].total = 0
    BY <1>12, <2>2
  <2>4. \A i \in DOMAIN es : es[i].status = "Pending" /\ es[i].deps \subseteq Indices /\ es[i].satisfied = 0
    BY <1>12
  <2>5. PICK k : k = 0
    OBVIOUS
  <2>6. k # 1
    BY <2>5
  <2>7. Added(k, es)
    BY <1>11, <2>1, <2>3, <2>4, <2>5, <2>6, Zenon DEF Added
  <2> QED
    BY <2>5, <2>7
<1> QED
  BY <1>12, <1>13, <1>14

\* Adding a task keeps the invariant.
LEMMA AddKeeps ==
  ASSUME IInv, NEW t \in Threads, Add(t)
  PROVE  IInv'
<1>1. PICK a \in Affinities(t), d \in DependencySets : Append0(<<NewEntry("task", a, d)>>)
  BY DEF Add
<1>2. Types /\ Kinds
  BY DEF IInv
<1>3. d \in SUBSET Indices /\ a \in {"AnyThread", "OnlyMainThread"}
  BY DependencySetsAre, AffinitiesAre
<1>4. PICK e : e = NewEntry("task", a, d)
  OBVIOUS
<1>5. /\ e \in EntryType /\ e.kind = "task" /\ e.deps = d /\ e.status = "Pending"
      /\ e.coro = 0 /\ e.dependents = {} /\ e.satisfied = 0 /\ e.total = 0
  BY <1>2, <1>3, <1>4, NewEntryIs
<1>6. /\ Submits(t) /\ Fits(1) /\ UNCHANGED <<startScan, finished, syncVars, threadVars>>
      /\ load' = load /\ startScan' = startScan
  BY DEF Add, syncVars
<1>7. e.coro <= Len(Heads)
  BY <1>2, <1>5 DEF Kinds, Heads
<1>8. Grows(0, <<e>>) /\ Added(0, <<e>>)
  BY <1>1, <1>2, <1>3, <1>4, <1>5, <1>6, <1>7, OneIsAdded
<1>9. \A i \in DOMAIN <<e>> : <<e>>[i].coro = 0
  BY <1>5
<1> QED
  BY <1>6, <1>8, <1>9, AdditionKeeps

\* Adding a range keeps the invariant.
LEMMA AddForRangeKeeps ==
  ASSUME IInv, NEW t \in Threads, AddForIndicesInRange(t) \/ AddForSubrangesInRange(t)
  PROVE  IInv'
<1>1. PICK begin, workload, args : AddForRange(t, begin, workload, args) /\ CalledFor(begin, workload, args)
  BY DEF AddForIndicesInRange, AddForSubrangesInRange, CalledFor
<1>2. PICK a \in Affinities(t), d \in DependencySets :
        Append0(ForkEntries(Len(tape[0]), a, d, <<begin, begin + workload>>, args))
  BY <1>1 DEF AddForRange
<1>3. Types /\ Kinds
  BY DEF IInv
<1>4. d \in SUBSET Indices /\ a \in {"AnyThread", "OnlyMainThread"}
  BY DependencySetsAre, AffinitiesAre
<1>5. PICK es : es = ForkEntries(Len(tape[0]), a, d, <<begin, begin + workload>>, args)
  OBVIOUS
<1>6. /\ Submits(t) /\ Fits(Len(args) + 2) /\ UNCHANGED <<startScan, finished, syncVars, threadVars>>
      /\ load' = load /\ startScan' = startScan
  BY <1>1 DEF AddForRange, syncVars
<1>7. Grows(0, es) /\ Added(0, es) /\ \A i \in DOMAIN es : es[i].coro = 0
  BY <1>1, <1>2, <1>3, <1>4, <1>5, <1>6, ForkIsAdded
<1> QED
  BY <1>6, <1>7, AdditionKeeps

\* Adding a coroutine keeps the invariant.
LEMMA AddCoroKeeps ==
  ASSUME IInv, NEW t \in Threads, AddCoro(t)
  PROVE  IInv'
<1>1. Types /\ Kinds
  BY DEF IInv
<1> DEFINE c == Len(tape[1]) + 1
<1>2. PICK a \in Affinities(t), d \in DependencySets :
        tape' = [tape EXCEPT ![1] = Append(@, [NewEntry("head", a, d) EXCEPT !.coro = c, !.rank = c])]
  BY DEF AddCoro
<1>3. d \in SUBSET Indices /\ a \in {"AnyThread", "OnlyMainThread"}
  BY DependencySetsAre, AffinitiesAre
<1>4. /\ Submits(t) /\ UNCHANGED <<startScan, finished, syncVars, threadVars>> /\ Len(tape[1]) < MaxCoros
      /\ load' = load /\ startScan' = startScan /\ calls' = [calls EXCEPT ![1] = Append(@, 0)]
  BY DEF AddCoro, syncVars
<1>5. c \in 0..MaxCoros /\ Len(tape[1]) \in Nat /\ MaxCoros \in Nat /\ c = Len(Heads) + 1
  BY <1>1, <1>4, Bounds DEF Kinds, Heads
<1> HIDE DEF c
<1>6. PICK e : e = [NewEntry("head", a, d) EXCEPT !.coro = c, !.rank = c]
  OBVIOUS
<1>7. /\ e \in EntryType /\ e.kind = "head" /\ e.deps = d /\ e.status = "Pending"
      /\ e.coro = c /\ e.satisfied = 0 /\ e.total = 0
  <2> DEFINE f == NewEntry("head", a, d)
  <2>1. /\ f \in EntryType /\ f.kind = "head" /\ f.deps = d /\ f.status = "Pending"
        /\ f.satisfied = 0 /\ f.total = 0
    BY <1>1, <1>3, NewEntryIs
  <2> HIDE DEF f
  <2>2. e = [f EXCEPT !.coro = c, !.rank = c]
    BY <1>6 DEF f
  <2> QED
    BY <1>5, <2>1, <2>2 DEF EntryType
<1>8. <<e>> \in Seq(EntryType) /\ Len(<<e>>) = 1 /\ DOMAIN <<e>> = {1} /\ <<e>>[1] = e
  BY <1>7
<1>9. Grows(1, <<e>>)
  <2>1. tape[1] \in Seq(EntryType) /\ calls[1] \in Seq(Nat)
    BY <1>1 DEF Kinds
  <2>2. Append(tape[1], e) = tape[1] \o <<e>>
    BY <1>7, <2>1
  <2>3. Append(calls[1], 0) = calls[1] \o [i \in DOMAIN <<e>> |-> 0]
    <3>1. [i \in DOMAIN <<e>> |-> 0] = <<0>>
      BY <1>8
    <3> QED
      BY <2>1, <3>1
  <2>4. tape' = [tape EXCEPT ![1] = tape[1] \o <<e>>]
    BY <1>2, <1>6, <2>2
  <2>5. calls' = [calls EXCEPT ![1] = calls[1] \o [i \in DOMAIN <<e>> |-> 0]]
    BY <1>4, <2>3
  <2>6. PICK es : es = <<e>>
    OBVIOUS
  <2>7. /\ es \in Seq(EntryType) /\ tape' = [tape EXCEPT ![1] = tape[1] \o es]
        /\ calls' = [calls EXCEPT ![1] = calls[1] \o [i \in DOMAIN es |-> 0]]
    BY <1>8, <2>4, <2>5, <2>6
  <2>9. PICK k : k = 1
    OBVIOUS
  <2>10. /\ k \in 0..1 /\ tape' = [tape EXCEPT ![k] = tape[k] \o es]
         /\ calls' = [calls EXCEPT ![k] = calls[k] \o [i \in DOMAIN es |-> 0]]
    BY <2>7, <2>9
  <2>8. Grows(1, es)
    BY <1>4, <2>7, <2>9, <2>10 DEF Grows
  <2> QED
    BY <2>6, <2>8
<1>10. Added(1, <<e>>)
  <2>1. Len(tape[1]) + 1 <= MaxCoros
    BY <1>4, <1>5
  <2> QED
    BY <1>3, <1>5, <1>7, <1>8, <2>1 DEF Added
<1> QED
  BY <1>4, <1>9, <1>10, AdditionKeeps

-----------------------------------------------------------------------------
(* Tasks that end.                                                         *)

\* Whoever leaves what it has run, the invariant is kept, but for coroutines.
LEMMA LeavingKeeps ==
  ASSUME IInv, NEW t \in Threads, pc[t] = "run", Leaves(t), NEW es, Grows(0, es), Added(0, es)
  PROVE  /\ Types' /\ Kinds' /\ RangesKept' /\ Arguments' /\ Taken' /\ ScanStartSound'
         /\ Owners' /\ Sync' /\ NothingLost'
         /\ Grown(0, es) /\ Yields(t) /\ pc'[t] # "run" /\ DOMAIN Heads' = DOMAIN Heads
<1>1. /\ Types /\ Kinds /\ RangesKept /\ Arguments /\ Taken /\ Owners /\ CoroutinesKept
      /\ ScanStartSound /\ Sync /\ NothingLost
  BY DEF IInv
<1>2. /\ Kinds' /\ RangesKept' /\ Arguments' /\ Taken' /\ ScanStartSound'
      /\ Grown(0, es) /\ \A i \in DOMAIN es : es[i].status = "Pending"
  BY GrowthKeepsTapes
<1>3. /\ awaits' = awaits /\ shutting' = shutting /\ signaled' = signaled
      /\ arrived' = arrived /\ used' = used /\ status' = status /\ rounds' = rounds /\ load' = load
      /\ turn' = turn /\ startScan' = startScan
      /\ pc' = [pc EXCEPT ![t] = "scan"] /\ chosen' = [chosen EXCEPT ![t] = None]
      /\ pending' = [pending EXCEPT ![t] = IF chosen[t][1] = 0 THEN chosen[t] ELSE None]
  BY DEF Leaves, syncVars
<1>4. /\ pc \in [Threads -> {"idle", "submit", "parked", "scan", "run", "check", "leave", "arrive", "barrier", "gone"}]
      /\ chosen \in [Threads -> {None} \cup Places] /\ pending \in [Threads -> {None} \cup Places]
  BY <1>1 DEF Types
<1>5. /\ pc'[t] = "scan" /\ chosen'[t] = None
      /\ pending'[t] = IF chosen[t][1] = 0 THEN chosen[t] ELSE None
      /\ \A u \in Threads \ {t} : pc'[u] = pc[u] /\ chosen'[u] = chosen[u] /\ pending'[u] = pending[u]
  BY <1>3, <1>4
<1>6. Yields(t)
  BY <1>5 DEF Yields
<1>7. Types'
  <2>1. Places' = Places
    BY <1>2 DEF Grown
  <2>2. /\ pc' \in [Threads -> {"idle", "submit", "parked", "scan", "run", "check", "leave", "arrive", "barrier", "gone"}]
        /\ chosen' \in [Threads -> {None} \cup Places] /\ pending' \in [Threads -> {None} \cup Places]
    BY <1>3, <1>4
  <2> QED
    BY <1>1, <1>3, <2>1, <2>2 DEF Types
<1>8. Owners'
  BY <1>1, <1>2, <1>6, YieldKeepsOwners
<1>9. Sync'
  BY <1>1, <1>3, <1>5, WorkKeepsSync
<1>10. NothingLost'
  <2>1. Failed => Failed'
    BY <1>3 DEF Failed
  <2>2. pending[t] = None
    BY <1>1 DEF Owners
  <2>3. chosen[t] # None /\ chosen[t][1] = 0 => chosen[t] \in {chosen'[t], pending'[t]}
    BY <1>5
  <2> QED
    BY <1>1, <1>2, <1>5, <1>6, <2>1, <2>2, <2>3, YieldKeepsEverything
<1>11. DOMAIN Heads' = DOMAIN Heads
  <2>1. Grown(0, es)
    BY <1>2
  <2>2. \A i \in DOMAIN Heads' : i \in DOMAIN Heads
    BY <2>1 DEF Grown
  <2>3. \A i \in DOMAIN Heads : i \in DOMAIN Heads'
    BY <2>1 DEF Grown
  <2> QED
    BY <2>2, <2>3
<1> QED
  BY <1>2, <1>5, <1>6, <1>7, <1>8, <1>9, <1>10, <1>11

\* The coroutine of an entry has a head.
LEMMA CoroutineHasHead ==
  ASSUME Types, Kinds, NEW g \in Indices, Entry(g).coro # 0
  PROVE  Entry(g).coro \in DOMAIN Heads
<1>1. Len(Heads) \in Nat /\ DOMAIN Heads = 1..Len(Heads)
  BY DEF Kinds, Heads
<1>2. Entry(g).coro \in Nat
  BY EntryAt, EntryFields, Bounds
<1>3. CASE g = <<0, g[2]>> /\ g[1] = 0 /\ g[2] \in DOMAIN Regular
  <2>1. Entry(g) = Regular[g[2]]
    BY <1>3 DEF Entry, Regular
  <2>2. Regular[g[2]].coro <= Len(Heads)
    BY <1>3 DEF Kinds
  <2> QED
    BY <1>1, <1>2, <2>1, <2>2
<1>4. CASE g = <<1, g[2]>> /\ g[1] = 1 /\ g[2] \in DOMAIN Heads
  <2>1. Entry(g) = Heads[g[2]]
    BY <1>4 DEF Entry, Heads
  <2> QED
    BY <1>4, <2>1 DEF Kinds
<1> QED
  BY <1>3, <1>4, EntryAt

\* The end of a task keeps the invariant.
LEMMA TaskReturnsKeeps ==
  ASSUME IInv, NEW t \in Threads, TaskReturns(t)
  PROVE  IInv'
<1>1. Types /\ Kinds /\ Owners /\ CoroutinesKept
  BY DEF IInv
<1>2. pc[t] = "run" /\ Leaves(t) /\ UNCHANGED <<tape, finished, calls>> /\ UNCHANGED <<tape, calls, startScan, load>>
  BY DEF TaskReturns, Leaves, syncVars
<1>3. PICK es : es = <<>> /\ Grows(0, es) /\ Added(0, es) /\ DOMAIN es = {}
  BY <1>1, <1>2, NothingIsAdded
<1>4. /\ Types' /\ Kinds' /\ RangesKept' /\ Arguments' /\ Taken' /\ ScanStartSound'
      /\ Owners' /\ Sync' /\ NothingLost'
      /\ Grown(0, es) /\ Yields(t) /\ pc'[t] # "run" /\ DOMAIN Heads' = DOMAIN Heads
  BY <1>2, <1>3, LeavingKeeps
<1>5. finished \subseteq DOMAIN Heads /\ \A c \in DOMAIN Heads : CoroutineKept(c)
  BY <1>1, CoroutinesAreKept
<1>6. ASSUME NEW c \in DOMAIN Heads PROVE CoroutineKept(c)'
  BY <1>1, <1>2, <1>3, <1>4, <1>5, OtherCoroutines
<1>7. CoroutinesKept'
  BY <1>2, <1>4, <1>5, <1>6 DEF CoroutinesKept, CoroutineKept
<1> QED
  BY <1>4, <1>7 DEF IInv

\* The end of a coroutine keeps the invariant.
LEMMA CoroFinishesKeeps ==
  ASSUME IInv, NEW t \in Threads, CoroFinishes(t)
  PROVE  IInv'
<1>1. Types /\ Kinds /\ Owners /\ CoroutinesKept
  BY DEF IInv
<1>2. /\ pc[t] = "run" /\ Leaves(t) /\ UNCHANGED <<tape, calls, startScan, load>>
      /\ Entry(chosen[t]).coro # 0 /\ finished' = finished \cup {Entry(chosen[t]).coro}
  BY DEF CoroFinishes, Leaves, syncVars
<1>3. PICK es : es = <<>> /\ Grows(0, es) /\ Added(0, es) /\ DOMAIN es = {}
  BY <1>1, <1>2, NothingIsAdded
<1>4. /\ Types' /\ Kinds' /\ RangesKept' /\ Arguments' /\ Taken' /\ ScanStartSound'
      /\ Owners' /\ Sync' /\ NothingLost'
      /\ Grown(0, es) /\ Yields(t) /\ pc'[t] # "run" /\ DOMAIN Heads' = DOMAIN Heads
  BY <1>2, <1>3, LeavingKeeps
<1>5. finished \subseteq DOMAIN Heads /\ \A c \in DOMAIN Heads : CoroutineKept(c)
  BY <1>1, CoroutinesAreKept
<1>6. PICK c : c = Entry(chosen[t]).coro
  OBVIOUS
<1>7. c \in DOMAIN Heads /\ RunsIn(c, t)
  <2>1. chosen[t] \in Indices
    BY <1>1, <1>2 DEF Owners
  <2> QED
    BY <1>1, <1>2, <1>6, <2>1, CoroutineHasHead DEF RunsIn
<1>8. ASSUME NEW b \in DOMAIN Heads, b # c PROVE CoroutineKept(b)'
  <2>1. b \in finished' <=> b \in finished
    BY <1>2, <1>6, <1>8
  <2> QED
    BY <1>1, <1>3, <1>4, <1>5, <2>1, OtherCoroutines
<1>9. CoroutineKept(c)'
  <2>1. /\ \A u \in Threads : ~RunsIn(c, u)'
        /\ \A g \in Indices : ~Waits(c, g)'
    <3>1. CoroutineKept(c)
      BY <1>5, <1>7
    <3>2. Grown(0, es) /\ Yields(t) /\ pc'[t] # "run"
      BY <1>4
    <3> QED
      BY <1>1, <1>7, <3>1, <3>2, YieldedCoroutine
  <2>2. Indices' \subseteq Indices
    BY <1>3, <1>4 DEF Grown
  <2>3. c \in finished'
    BY <1>2, <1>6
  <2> QED
    BY <2>1, <2>2, <2>3 DEF CoroutineKept
<1>10. finished' \subseteq DOMAIN Heads'
  BY <1>2, <1>4, <1>5, <1>6, <1>7
<1>11. CoroutinesKept'
  BY <1>4, <1>8, <1>9, <1>10 DEF CoroutinesKept, CoroutineKept
<1> QED
  BY <1>4, <1>11 DEF IInv

\* The suspension of a coroutine keeps the invariant.
LEMMA CoroAwaitsKeeps ==
  ASSUME IInv, NEW t \in Threads, CoroAwaits(t)
  PROVE  IInv'
<1>1. Types /\ Kinds /\ Owners /\ CoroutinesKept
  BY DEF IInv
<1>2. /\ pc[t] = "run" /\ Leaves(t) /\ finished' = finished /\ Entry(chosen[t]).coro # 0 /\ Fits(1)
      /\ load' = load /\ startScan' = startScan
  BY DEF CoroAwaits, Leaves, syncVars
<1>3. PICK c, a : c = Entry(chosen[t]).coro /\ a = Entry(chosen[t]).affinity
  OBVIOUS
<1>4. PICK d \in DependencySets : Append0(<<[NewEntry("resume", a, d) EXCEPT !.coro = c]>>)
  BY <1>3 DEF CoroAwaits
<1>5. c \in DOMAIN Heads /\ RunsIn(c, t) /\ a \in {"AnyThread", "OnlyMainThread"} /\ c \in 0..MaxCoros
  <2>1. chosen[t] \in Indices
    BY <1>1, <1>2 DEF Owners
  <2>2. Entry(chosen[t]) \in EntryType
    BY <1>1, <2>1, EntryAt
  <2> QED
    BY <1>1, <1>2, <1>3, <2>1, <2>2, CoroutineHasHead, EntryFields DEF RunsIn
<1>6. PICK e : e = [NewEntry("resume", a, d) EXCEPT !.coro = c]
  OBVIOUS
<1>7. d \in SUBSET Indices
  BY DependencySetsAre
<1>8. /\ e \in EntryType /\ e.kind = "resume" /\ e.deps = d /\ e.status = "Pending"
      /\ e.coro = c /\ e.dependents = {} /\ e.satisfied = 0 /\ e.total = 0
  <2> DEFINE f == NewEntry("resume", a, d)
  <2>1. /\ f \in EntryType /\ f.kind = "resume" /\ f.deps = d /\ f.status = "Pending"
        /\ f.dependents = {} /\ f.satisfied = 0 /\ f.total = 0
    BY <1>1, <1>5, <1>7, NewEntryIs
  <2> HIDE DEF f
  <2>2. e = [f EXCEPT !.coro = c]
    BY <1>6 DEF f
  <2> QED
    BY <1>5, <2>1, <2>2 DEF EntryType
<1>9. e.coro <= Len(Heads) /\ e.coro # 0 /\ c # 0
  BY <1>1, <1>5, <1>8 DEF Kinds, Heads
<1>10. PICK es : es = <<e>>
  OBVIOUS
<1>11. Grows(0, es) /\ Added(0, es) /\ DOMAIN es = {1} /\ es[1] = e
  <2>1. Append0(<<e>>)
    BY <1>4, <1>6
  <2>2. /\ e.kind \in {"task", "resume"} /\ e.deps \subseteq Indices /\ e.coro <= Len(Heads)
        /\ e.coro # 0 <=> e.kind = "resume"
    BY <1>7, <1>8, <1>9
  <2>3. Grows(0, <<e>>) /\ Added(0, <<e>>)
    BY <1>1, <1>2, <1>8, <2>1, <2>2, OneIsAdded
  <2> QED
    BY <1>10, <2>3
<1>12. /\ Types' /\ Kinds' /\ RangesKept' /\ Arguments' /\ Taken' /\ ScanStartSound'
       /\ Owners' /\ Sync' /\ NothingLost'
       /\ Grown(0, es) /\ Yields(t) /\ pc'[t] # "run" /\ DOMAIN Heads' = DOMAIN Heads
  BY <1>2, <1>11, LeavingKeeps
<1>13. finished \subseteq DOMAIN Heads /\ \A b \in DOMAIN Heads : CoroutineKept(b)
  BY <1>1, CoroutinesAreKept
<1>14. ASSUME NEW b \in DOMAIN Heads, b # c PROVE CoroutineKept(b)'
  <2>1. b \in finished' <=> b \in finished
    BY <1>2
  <2>2. \A i \in DOMAIN es : es[i].coro # b
    BY <1>8, <1>11, <1>14
  <2> QED
    BY <1>1, <1>12, <1>13, <2>1, <2>2, OtherCoroutines
<1>15. CoroutineKept(c)'
  <2>1. CoroutineKept(c)
    BY <1>5, <1>13
  <2>2. Grown(0, es) /\ Yields(t) /\ pc'[t] # "run"
    BY <1>12
  <2>3. /\ \A u \in Threads : ~RunsIn(c, u)'
        /\ \A g \in Indices : ~Waits(c, g)'
        /\ c \notin finished
    BY <1>1, <1>5, <2>1, <2>2, YieldedCoroutine
  <2>4. \A g \in Indices' \ Indices : g = <<0, Len(tape[0]) + 1>>
    BY <1>11, <2>2 DEF Grown
  <2>5. Heads'[c] = Heads[c] /\ Heads[c].status # "Completed"
    BY <1>5, <2>1, <2>2, <2>3 DEF Grown, CoroutineKept
  <2>6. \A g, h \in Indices' : Waits(c, g)' /\ Waits(c, h)' => g = h
    BY <2>3, <2>4
  <2> QED
    BY <1>2, <2>3, <2>5, <2>6 DEF CoroutineKept
<1>16. CoroutinesKept'
  BY <1>2, <1>12, <1>13, <1>14, <1>15 DEF CoroutinesKept, CoroutineKept
<1> QED
  BY <1>12, <1>16 DEF IInv

-----------------------------------------------------------------------------
(* Steps that leave the tapes.                                             *)

\* What does not depend on an execution is kept by who leaves the tapes alone.
LEMMA LeavingTapesKeeps ==
  ASSUME IInv, NEW t \in Threads, Yields(t), UNCHANGED taskVars, load' = load
  PROVE  /\ Kinds' /\ RangesKept' /\ Arguments' /\ Taken' /\ ScanStartSound' /\ Owners' /\ CoroutinesKept'
         /\ Places' = Places
<1>1. Types /\ Kinds /\ Owners /\ CoroutinesKept
  BY DEF IInv
<1>2. UNCHANGED <<tape, calls, startScan, load>> /\ finished' = finished
  BY DEF taskVars
<1>3. PICK es : es = <<>> /\ Grows(0, es) /\ Added(0, es) /\ DOMAIN es = {}
  BY <1>1, <1>2, NothingIsAdded
<1>4. /\ Kinds' /\ RangesKept' /\ Arguments' /\ Taken' /\ ScanStartSound'
      /\ Grown(0, es)
  BY <1>3, GrowthKeepsTapes
<1>5. Owners'
  BY <1>1, <1>4, YieldKeepsOwners
<1>6. finished \subseteq DOMAIN Heads /\ \A c \in DOMAIN Heads : CoroutineKept(c)
  BY <1>1, CoroutinesAreKept
<1>7. ASSUME NEW c \in DOMAIN Heads PROVE CoroutineKept(c)'
  BY <1>1, <1>2, <1>3, <1>4, <1>6, OtherCoroutines
<1>8. DOMAIN Heads' = DOMAIN Heads
  BY <1>2 DEF Heads
<1>9. CoroutinesKept'
  BY <1>2, <1>6, <1>7, <1>8 DEF CoroutinesKept, CoroutineKept
<1> QED
  BY <1>2, <1>4, <1>5, <1>9, SameLoad

\* NothingLost is kept by who has not worked and leaves the tapes alone.
LEMMA IdleKeepsEverything ==
  ASSUME Types, Kinds, Owners, NothingLost, NEW t \in Threads, Yields(t), UNCHANGED taskVars, load' = load,
         Failed => Failed', pc[t] \notin {"scan", "run"},
         pc'[Main] \in {"leave", "barrier"} => pc[Main] \in {"leave", "barrier"}
  PROVE  NothingLost'
<1>1. UNCHANGED <<tape, calls, startScan, load>>
  BY DEF taskVars
<1>2. PICK es : es = <<>> /\ Grows(0, es) /\ DOMAIN es = {}
  BY <1>1, NothingIsAdded
<1>3. Grown(0, es)
  BY <1>2, GrowsToGrown
<1>4. chosen[t] = None /\ pending[t] = None
  BY DEF Owners
<1>5. \A i \in DOMAIN es : es[i].status = "Pending"
  BY <1>2
<1>6. es = <<>>
  BY <1>2
<1> QED
  BY <1>3, <1>4, <1>5, <1>6, YieldKeepsEverything

\* Who does not run anything yields by changing its place only.
LEMMA MovingYields ==
  ASSUME Types, Owners, NEW t \in Threads, pc[t] \notin {"scan", "run"}, NEW p, p # "run",
         pc' = [pc EXCEPT ![t] = p], UNCHANGED <<chosen, pending>>
  PROVE  Yields(t) /\ pc'[t] = p /\ \A u \in Threads \ {t} : pc'[u] = pc[u]
<1>1. chosen[t] = None /\ pending[t] = None
  BY DEF Owners
<1>2. pc'[t] = p /\ \A u \in Threads \ {t} : pc'[u] = pc[u]
  BY DEF Types
<1> QED
  BY <1>1, <1>2 DEF Yields

\* Main is a thread, but no worker.
LEMMA WhoIsMain == Main \in Threads /\ Workers = Threads \ {Main} /\ Main \notin Workers
BY ThreadsAssumption DEF Threads

\* An exception keeps the invariant: from then on the execution has failed.
LEMMA TaskThrowsKeeps ==
  ASSUME IInv, NEW t \in Threads, TaskThrows(t)
  PROVE  IInv'
<1>1. /\ Types /\ Kinds /\ RangesKept /\ Arguments /\ Taken /\ Owners /\ CoroutinesKept
      /\ ScanStartSound /\ Sync /\ NothingLost
  BY DEF IInv
<1>2. /\ pc[t] = "run" /\ pc' = [pc EXCEPT ![t] = IF t = Main THEN "leave" ELSE "arrive"]
      /\ status' = [status EXCEPT ![t] = "failure"] /\ chosen' = [chosen EXCEPT ![t] = None]
      /\ UNCHANGED <<taskVars, pending, turn, awaits, shutting, signaled, arrived, used, rounds, load>>
      /\ startScan' = startScan
  BY DEF TaskThrows, taskVars
<1>3. pending[t] = None
  BY <1>1, <1>2 DEF Owners
<1>4. /\ pc'[t] = IF t = Main THEN "leave" ELSE "arrive"
      /\ chosen'[t] = None /\ status'[t] = "failure"
      /\ \A u \in Threads \ {t} : pc'[u] = pc[u] /\ chosen'[u] = chosen[u] /\ status'[u] = status[u]
  BY <1>1, <1>2 DEF Types
<1>5. Yields(t)
  BY <1>2, <1>3, <1>4 DEF Yields
<1>6. /\ Kinds' /\ RangesKept' /\ Arguments' /\ Taken' /\ ScanStartSound' /\ Owners' /\ CoroutinesKept'
      /\ Places' = Places
  BY <1>2, <1>5, LeavingTapesKeeps
<1>7. Types'
  BY <1>1, <1>2, <1>6 DEF Types
<1>8. Sync'
  BY <1>1, <1>2, <1>4, WorkKeepsSync
<1>9. NothingLost'
  BY <1>4 DEF NothingLost, Failed
<1> QED
  BY <1>6, <1>7, <1>8, <1>9 DEF IInv

\* A worker that looks at awaitsCompletion keeps the invariant.
LEMMA CheckAwaitsKeeps ==
  ASSUME IInv, NEW w \in Workers, CheckAwaits(w)
  PROVE  IInv'
<1>1. /\ Types /\ Kinds /\ RangesKept /\ Arguments /\ Taken /\ Owners /\ CoroutinesKept
      /\ ScanStartSound /\ Sync /\ NothingLost
  BY DEF IInv
<1>2. w \in Threads /\ w # Main /\ Main \in Threads
  BY WhoIsMain
<1>3. /\ pc[w] = "check" /\ pc' = [pc EXCEPT ![w] = IF awaits THEN "arrive" ELSE "scan"]
      /\ UNCHANGED <<taskVars, syncVars, chosen, pending, turn>>
      /\ UNCHANGED <<awaits, shutting, signaled, arrived, used, status, rounds, load, startScan>>
  BY DEF CheckAwaits, syncVars, taskVars
<1>4. PICK p : p = IF awaits THEN "arrive" ELSE "scan"
  OBVIOUS
<1>5. Yields(w) /\ pc'[w] = p /\ \A u \in Threads \ {w} : pc'[u] = pc[u]
  BY <1>1, <1>2, <1>3, <1>4, MovingYields
<1>6. /\ Kinds' /\ RangesKept' /\ Arguments' /\ Taken' /\ ScanStartSound' /\ Owners' /\ CoroutinesKept'
      /\ Places' = Places
  BY <1>2, <1>3, <1>5, LeavingTapesKeeps
<1>7. Types'
  BY <1>1, <1>2, <1>3, <1>6 DEF Types
<1>8. Sync'
  BY <1>1, <1>2, <1>3, <1>4, <1>5, WorkKeepsSync
<1>9. NothingLost'
  <2>1. Failed => Failed'
    BY <1>3 DEF Failed
  <2> QED
    BY <1>1, <1>2, <1>3, <1>5, <2>1, IdleKeepsEverything
<1> QED
  BY <1>6, <1>7, <1>8, <1>9 DEF IInv

\* Main begins to work.
LEMMA AwaitCompletionKeeps ==
  ASSUME IInv, AwaitCompletion
  PROVE  IInv'
<1>1. /\ Types /\ Kinds /\ RangesKept /\ Arguments /\ Taken /\ Owners /\ CoroutinesKept
      /\ ScanStartSound /\ Sync /\ NothingLost
  BY DEF IInv
<1>2. Main \in Threads
  BY WhoIsMain
<1>3. /\ pc[Main] = "submit" /\ pc' = [pc EXCEPT ![Main] = "scan"] /\ turn' = [turn EXCEPT ![Main] = 0]
      /\ UNCHANGED <<taskVars, syncVars, chosen, pending>>
      /\ UNCHANGED <<awaits, shutting, signaled, arrived, used, status, rounds, load, startScan>>
  BY DEF AwaitCompletion, syncVars, taskVars
<1>4. Yields(Main) /\ pc'[Main] = "scan" /\ \A u \in Threads \ {Main} : pc'[u] = pc[u]
  BY <1>1, <1>2, <1>3, MovingYields
<1>5. /\ Kinds' /\ RangesKept' /\ Arguments' /\ Taken' /\ ScanStartSound' /\ Owners' /\ CoroutinesKept'
      /\ Places' = Places
  BY <1>2, <1>3, <1>4, LeavingTapesKeeps
<1>6. Types'
  BY <1>1, <1>2, <1>3, <1>5 DEF Types
<1>7. Sync'
  BY <1>1, <1>2, <1>3, <1>4, WorkKeepsSync
<1>8. NothingLost'
  <2>1. Failed => Failed'
    BY <1>3 DEF Failed
  <2> QED
    BY <1>1, <1>2, <1>3, <1>4, <2>1, IdleKeepsEverything
<1> QED
  BY <1>5, <1>6, <1>7, <1>8 DEF IInv

-----------------------------------------------------------------------------
(* Executions.                                                             *)

\* The workers are finitely many.
LEMMA WorkersAreFinite ==
  ASSUME NEW S \in SUBSET Workers
  PROVE  /\ IsFiniteSet(S) /\ Cardinality(S) \in Nat
         /\ Cardinality(Workers) = Cardinality(S) + Cardinality(Workers \ S)
         /\ Cardinality(Workers \ S) \in Nat
<1>1. IsFiniteSet(Workers)
  BY ThreadsAssumption
<1>2. IsFiniteSet(S) /\ IsFiniteSet(Workers \ S)
  BY <1>1, FS_Subset
<1>3. Cardinality(S) \in Nat /\ Cardinality(Workers \ S) \in Nat
  BY <1>2, FS_CardinalityType
<1>4. Cardinality(S \cup (Workers \ S)) = Cardinality(S) + Cardinality(Workers \ S) - Cardinality(S \cap (Workers \ S))
  BY <1>2, FS_Union
<1>5. S \cup (Workers \ S) = Workers /\ S \cap (Workers \ S) = {}
  OBVIOUS
<1>6. Cardinality({}) = 0
  BY FS_EmptySet
<1>7. Cardinality(Workers) = Cardinality(S) + Cardinality(Workers \ S) - 0
  BY <1>4, <1>5, <1>6
<1> QED
  BY <1>2, <1>3, <1>7

\* The start of an execution keeps the invariant.
LEMMA StartExecutionKeeps ==
  ASSUME IInv, StartExecution
  PROVE  IInv'
<1>1. /\ Types /\ Kinds /\ RangesKept /\ Arguments /\ Taken /\ Owners /\ CoroutinesKept
      /\ ScanStartSound /\ Sync /\ NothingLost
  BY DEF IInv
<1>2. Main \in Threads /\ Workers = Threads \ {Main} /\ Main \notin Workers
  BY WhoIsMain
<1>3. /\ pc[Main] = "idle" /\ ~shutting /\ pc' = [pc EXCEPT ![Main] = "submit"]
      /\ status' = [t \in Threads |-> "pending"] /\ rounds' = rounds + 1
      /\ UNCHANGED <<taskVars, awaits, shutting, arrived, load, chosen, pending, turn, startScan>>
      /\ used' = signaled' /\ signaled' \subseteq Workers
  BY DEF StartExecution, taskVars
<1>4. Yields(Main) /\ pc'[Main] = "submit" /\ \A u \in Threads \ {Main} : pc'[u] = pc[u]
  BY <1>1, <1>2, <1>3, MovingYields
<1>5. /\ Kinds' /\ RangesKept' /\ Arguments' /\ Taken' /\ ScanStartSound' /\ Owners' /\ CoroutinesKept'
      /\ Places' = Places
  BY <1>2, <1>3, <1>4, LeavingTapesKeeps
<1>6. Types'
  BY <1>1, <1>2, <1>3, <1>5 DEF Types
<1>7. AtRest
  BY <1>1, <1>3 DEF Sync, IsExecuting
<1>8. Executing'
  <2>1. Arrived' = {}
    BY <1>3 DEF Arrived
  <2>2. Cardinality({}) = 0
    BY FS_EmptySet
  <2>3. \A w \in Workers : pc'[w] = "parked"
    BY <1>2, <1>3, <1>4, <1>7 DEF AtRest
  <2>4. arrived' = 0 /\ ~awaits'
    BY <1>3, <1>7 DEF AtRest
  <2>5. \A t \in Threads : status'[t] = "pending"
    BY <1>3
  <2> QED
    BY <1>3, <1>4, <2>1, <2>2, <2>3, <2>4, <2>5 DEF Executing
<1>9. Sync'
  BY <1>4, <1>8 DEF Sync, IsExecuting
<1>10. NothingLost'
  <2>1. Regular' = <<>>
    BY <1>3, <1>7 DEF AtRest, EmptyTapes, Regular, taskVars
  <2>2. DOMAIN Regular' = {}
    BY <2>1
  <2> QED
    BY <1>4, <2>2 DEF NothingLost
<1> QED
  BY <1>5, <1>6, <1>9, <1>10 DEF IInv

\* A worker that wakes keeps the invariant.
LEMMA WorkerWakesKeeps ==
  ASSUME IInv, NEW w \in Workers, WorkerWakes(w)
  PROVE  IInv'
<1>1. /\ Types /\ Kinds /\ RangesKept /\ Arguments /\ Taken /\ Owners /\ CoroutinesKept
      /\ ScanStartSound /\ Sync /\ NothingLost
  BY DEF IInv
<1>2. /\ Main \in Threads /\ Workers = Threads \ {Main} /\ Main \notin Workers
      /\ w \in Threads /\ w # Main
  BY WhoIsMain
<1>3. /\ pc[w] = "parked" /\ w \in signaled /\ signaled' = signaled \ {w}
      /\ pc' = [pc EXCEPT ![w] = IF shutting THEN "gone" ELSE "scan"] /\ turn' = [turn EXCEPT ![w] = 0]
      /\ UNCHANGED <<taskVars, awaits, shutting, arrived, used, status, rounds, load, chosen, pending, startScan>>
  BY DEF WorkerWakes, taskVars
<1>4. PICK p : p = IF shutting THEN "gone" ELSE "scan"
  OBVIOUS
<1>5. Yields(w) /\ pc'[w] = p /\ \A u \in Threads \ {w} : pc'[u] = pc[u]
  BY <1>1, <1>2, <1>3, <1>4, MovingYields
<1>6. /\ Kinds' /\ RangesKept' /\ Arguments' /\ Taken' /\ ScanStartSound' /\ Owners' /\ CoroutinesKept'
      /\ Places' = Places
  BY <1>2, <1>3, <1>5, LeavingTapesKeeps
<1>7. Types'
  BY <1>1, <1>2, <1>3, <1>6 DEF Types
<1>8. ASSUME IsExecuting PROVE Sync'
  <2>1. Executing
    BY <1>1, <1>8 DEF Sync
  <2>2. p = "scan"
    BY <1>4, <2>1 DEF Executing
  <2>3. Arrived' = Arrived
    <3>1. \A v \in used : v \in Threads
      BY <1>2, <2>1 DEF Executing
    <3>2. w \notin Arrived /\ w \notin Arrived'
      BY <1>3, <1>5, <2>2 DEF Arrived
    <3>3. \A v \in used \ {w} : v \in Arrived' <=> v \in Arrived
      BY <1>3, <1>5, <3>1 DEF Arrived
    <3>4. Arrived \subseteq used /\ Arrived' \subseteq used
      BY <1>3 DEF Arrived
    <3> QED
      BY <3>2, <3>3, <3>4
  <2>4. w \in used
    BY <1>3, <2>1 DEF Executing
  <2>5. \A v \in Workers : /\ pc'[v] \in {"parked", "scan", "run", "check", "arrive"}
                           /\ v \notin used' \/ v \in signaled' => pc'[v] = "parked"
    <3> TAKE v \in Workers
    <3>1. CASE v = w
      BY <1>3, <1>5, <2>2, <2>4, <3>1
    <3>2. CASE v # w
      BY <1>2, <1>3, <1>5, <2>1, <3>2 DEF Executing
    <3> QED
      BY <3>1, <3>2
  <2>6. pc'[Main] = pc[Main]
    BY <1>2, <1>5
  <2>7. Executing'
    BY <1>3, <2>1, <2>3, <2>5, <2>6 DEF Executing
  <2> QED
    BY <1>8, <2>6, <2>7 DEF Sync, IsExecuting
<1>9. ASSUME ~IsExecuting PROVE Sync'
  <2>1. AtRest
    BY <1>1, <1>9 DEF Sync
  <2>2. shutting /\ p = "gone"
    BY <1>3, <1>4, <2>1 DEF AtRest
  <2>3. pc'[Main] = pc[Main]
    BY <1>2, <1>5
  <2>4. \A v \in Workers : pc'[v] \in {"parked", "gone"}
    <3> TAKE v \in Workers
    <3>1. CASE v = w
      BY <1>5, <2>2, <3>1
    <3>2. CASE v # w
      BY <1>2, <1>5, <2>1, <3>2 DEF AtRest
    <3> QED
      BY <3>1, <3>2
  <2>5. AtRest'
    <3>1. tape' = tape /\ finished' = finished /\ EmptyTapes' = EmptyTapes /\ signaled' \subseteq signaled
      BY <1>3 DEF EmptyTapes, taskVars
    <3>2. shutting' /\ ~awaits' /\ arrived' = 0 /\ used' = {}
      BY <1>3, <2>1, <2>2 DEF AtRest
    <3> QED
      BY <2>1, <2>3, <2>4, <3>1, <3>2 DEF AtRest
  <2> QED
    BY <1>9, <2>3, <2>5 DEF Sync, IsExecuting
<1>10. Sync'
  BY <1>8, <1>9
<1>11. NothingLost'
  <2>1. Failed => Failed'
    BY <1>3 DEF Failed
  <2>2. pc'[Main] = pc[Main]
    BY <1>2, <1>5
  <2> QED
    BY <1>1, <1>2, <1>3, <1>5, <2>1, <2>2, IdleKeepsEverything
<1> QED
  BY <1>6, <1>7, <1>10, <1>11 DEF IInv

\* A worker that arrives is counted.
LEMMA WorkerArrivesKeeps ==
  ASSUME IInv, NEW w \in Workers, WorkerArrives(w)
  PROVE  IInv'
<1>1. /\ Types /\ Kinds /\ RangesKept /\ Arguments /\ Taken /\ Owners /\ CoroutinesKept
      /\ ScanStartSound /\ Sync /\ NothingLost
  BY DEF IInv
<1>2. /\ Main \in Threads /\ Workers = Threads \ {Main} /\ Main \notin Workers
      /\ w \in Threads /\ w # Main
  BY WhoIsMain
<1>3. /\ pc[w] = "arrive" /\ arrived' = arrived + 1 /\ pc' = [pc EXCEPT ![w] = "parked"]
      /\ status' = [status EXCEPT ![w] = IF status[w] = "failure" THEN "failure" ELSE "success"]
      /\ UNCHANGED <<taskVars, awaits, shutting, signaled, used, rounds, load, chosen, pending, turn, startScan>>
  BY DEF WorkerArrives, taskVars
<1>4. Yields(w) /\ pc'[w] = "parked" /\ \A u \in Threads \ {w} : pc'[u] = pc[u]
  BY <1>1, <1>2, <1>3, MovingYields
<1>5. /\ Kinds' /\ RangesKept' /\ Arguments' /\ Taken' /\ ScanStartSound' /\ Owners' /\ CoroutinesKept'
      /\ Places' = Places
  BY <1>2, <1>3, <1>4, LeavingTapesKeeps
<1>6. status \in [Threads -> {"pending", "success", "failure"}]
  BY <1>1 DEF Types
<1>7. \A t \in Threads : status'[t] = "failure" <=> status[t] = "failure"
  BY <1>3, <1>6
<1>8. Types'
  <2>1. status' \in [Threads -> {"pending", "success", "failure"}]
    BY <1>3, <1>6
  <2> QED
    BY <1>1, <1>2, <1>3, <1>5, <2>1 DEF Types
<1>9. Executing /\ IsExecuting
  BY <1>1, <1>2, <1>3 DEF Sync, AtRest
<1>10. pc'[Main] = pc[Main]
  BY <1>2, <1>4
<1>11. w \in used /\ w \notin signaled /\ used \subseteq Workers
  BY <1>3, <1>9 DEF Executing
<1>12. Arrived' = Arrived \cup {w} /\ w \notin Arrived
  <2>1. \A v \in used : v \in Threads
    BY <1>2, <1>11
  <2>2. w \notin Arrived /\ w \in Arrived'
    BY <1>3, <1>4, <1>11 DEF Arrived
  <2>3. \A v \in used \ {w} : v \in Arrived' <=> v \in Arrived
    BY <1>3, <1>4, <2>1 DEF Arrived
  <2>4. Arrived \subseteq used /\ Arrived' \subseteq used
    BY <1>3 DEF Arrived
  <2> QED
    BY <2>2, <2>3, <2>4
<1>13. Cardinality(Arrived') = Cardinality(Arrived) + 1 /\ Cardinality(Arrived) \in Nat
  <2>1. Arrived \in SUBSET Workers
    BY <1>11 DEF Arrived
  <2>2. IsFiniteSet(Arrived) /\ Cardinality(Arrived) \in Nat
    BY <2>1, WorkersAreFinite
  <2> QED
    BY <1>12, <2>2, FS_AddElement
<1>14. Executing'
  <2>1. \A v \in Workers : /\ pc'[v] \in {"parked", "scan", "run", "check", "arrive"}
                           /\ v \notin used' \/ v \in signaled' => pc'[v] = "parked"
    BY <1>2, <1>3, <1>4, <1>9 DEF Executing
  <2>2. arrived' = Cardinality(Arrived') + IF awaits' THEN 1 + Cardinality(Workers \ used') ELSE 0
    <3>1. arrived = Cardinality(Arrived) + IF awaits THEN 1 + Cardinality(Workers \ used) ELSE 0
      BY <1>9 DEF Executing
    <3>2. Cardinality(Workers \ used) \in Nat
      BY <1>11, WorkersAreFinite
    <3>3. arrived' = arrived + 1 /\ awaits' = awaits /\ used' = used
      BY <1>3
    <3>4. CASE awaits
      BY <1>13, <3>1, <3>2, <3>3, <3>4
    <3>5. CASE ~awaits
      BY <1>13, <3>1, <3>2, <3>3, <3>5
    <3> QED
      BY <3>4, <3>5
  <2> QED
    BY <1>3, <1>7, <1>9, <1>10, <2>1, <2>2 DEF Executing
<1>15. Sync'
  BY <1>9, <1>10, <1>14 DEF Sync, IsExecuting
<1>16. NothingLost'
  <2>1. Failed => Failed'
    BY <1>7 DEF Failed
  <2> QED
    BY <1>1, <1>2, <1>3, <1>4, <1>10, <2>1, IdleKeepsEverything
<1> QED
  BY <1>5, <1>8, <1>15, <1>16 DEF IInv

\* Main leaves, and arrives for those that stay parked.
LEMMA MainLeavesKeeps ==
  ASSUME IInv, MainLeaves
  PROVE  IInv'
<1>1. /\ Types /\ Kinds /\ RangesKept /\ Arguments /\ Taken /\ Owners /\ CoroutinesKept
      /\ ScanStartSound /\ Sync /\ NothingLost
  BY DEF IInv
<1>2. Main \in Threads /\ Workers = Threads \ {Main} /\ Main \notin Workers
  BY WhoIsMain
<1>3. /\ pc[Main] = "leave" /\ awaits' = TRUE /\ arrived' = arrived + 1 + Cardinality(Workers \ used)
      /\ pc' = [pc EXCEPT ![Main] = "barrier"]
      /\ UNCHANGED <<taskVars, shutting, signaled, used, status, rounds, load, chosen, pending, turn, startScan>>
  BY DEF MainLeaves, taskVars
<1>4. Yields(Main) /\ pc'[Main] = "barrier" /\ \A u \in Threads \ {Main} : pc'[u] = pc[u]
  BY <1>1, <1>2, <1>3, MovingYields
<1>5. /\ Kinds' /\ RangesKept' /\ Arguments' /\ Taken' /\ ScanStartSound' /\ Owners' /\ CoroutinesKept'
      /\ Places' = Places
  BY <1>2, <1>3, <1>4, LeavingTapesKeeps
<1>6. Types'
  BY <1>1, <1>2, <1>3, <1>5 DEF Types
<1>7. Executing
  BY <1>1, <1>3 DEF Sync, AtRest
<1>8. used \subseteq Workers /\ ~awaits
  BY <1>3, <1>7 DEF Executing
<1>9. Arrived' = Arrived
  <2>1. \A v \in used : pc'[v] = pc[v]
    BY <1>2, <1>4, <1>8
  <2> QED
    BY <1>3, <2>1 DEF Arrived
<1>10. arrived' = Cardinality(Arrived') + IF awaits' THEN 1 + Cardinality(Workers \ used') ELSE 0
  <2>1. arrived = Cardinality(Arrived) + 0
    BY <1>7, <1>8 DEF Executing
  <2>2. Cardinality(Workers \ used) \in Nat
    BY <1>8, WorkersAreFinite
  <2>3. Cardinality(Arrived) \in Nat
    <3>1. Arrived \in SUBSET Workers
      BY <1>8 DEF Arrived
    <3> QED
      BY <3>1, WorkersAreFinite
  <2>4. arrived' = Cardinality(Arrived) + (1 + Cardinality(Workers \ used))
    BY <1>3, <2>1, <2>2, <2>3
  <2> QED
    BY <1>3, <1>9, <2>4
<1>11. \A v \in Workers : /\ pc'[v] \in {"parked", "scan", "run", "check", "arrive"}
                          /\ v \notin used' \/ v \in signaled' => pc'[v] = "parked"
  BY <1>2, <1>3, <1>4, <1>7 DEF Executing
<1>12. Executing'
  BY <1>3, <1>4, <1>7, <1>10, <1>11 DEF Executing
<1>13. Sync'
  BY <1>4, <1>12 DEF Sync, IsExecuting
<1>14. NothingLost'
  <2>1. Failed => Failed'
    BY <1>3 DEF Failed
  <2> QED
    BY <1>1, <1>2, <1>3, <1>4, <2>1, IdleKeepsEverything
<1> QED
  BY <1>5, <1>6, <1>13, <1>14 DEF IInv

\* No entries, and nobody who has one.
Empty ==
  /\ Types /\ tape = EmptyTapes /\ startScan = [k \in 0..1 |-> 1] /\ finished = {}
  /\ calls = [k \in 0..1 |-> <<>>]
  /\ \A t \in Threads : pc[t] # "run" /\ chosen[t] = None /\ pending[t] = None

\* Of no entries, everything holds.
LEMMA EmptyIsSound ==
  Empty => Kinds /\ RangesKept /\ Arguments /\ Taken /\ Owners /\ CoroutinesKept /\ ScanStartSound
<1> SUFFICES ASSUME Empty
             PROVE  Kinds /\ RangesKept /\ Arguments /\ Taken /\ Owners /\ CoroutinesKept /\ ScanStartSound
  OBVIOUS
<1>1. /\ tape = [k \in 0..1 |-> <<>>] /\ calls = [k \in 0..1 |-> <<>>] /\ startScan = [k \in 0..1 |-> 1]
      /\ finished = {} /\ \A t \in Threads : pc[t] # "run" /\ chosen[t] = None /\ pending[t] = None
      /\ Types
  BY DEF Empty, EmptyTapes
<1>2. DOMAIN <<>> = {} /\ Len(<<>>) = 0 /\ <<>> \in Seq(EntryType) /\ <<>> \in Seq(Nat)
  OBVIOUS
<1>3. Regular = <<>> /\ Heads = <<>> /\ DOMAIN Regular = {} /\ DOMAIN Heads = {} /\ Len(Regular) = 0 /\ Len(Heads) = 0
  BY <1>1, <1>2 DEF Regular, Heads
<1>4. \A k \in 0..1 : tape[k] = <<>> /\ calls[k] = <<>> /\ startScan[k] = 1
  BY <1>1
<1>5. Indices = {}
  <2>1. \A h \in Places : h[1] \in 0..1
    BY DEF Places
  <2>2. \A h \in Places : h[2] \notin DOMAIN tape[h[1]]
    BY <1>2, <1>4, <2>1
  <2> QED
    BY <2>2 DEF Indices
<1>6. MaxEntries \in Nat /\ MaxCoros \in Nat
  BY <1>1, Bounds
<1>7. Kinds
  <2>1. tape \in [0..1 -> Seq(EntryType)] /\ calls \in [0..1 -> Seq(Nat)]
    BY <1>1, <1>2
  <2>2. \A k \in 0..1 : Len(calls[k]) = Len(tape[k]) /\ startScan[k] \in 1..Len(tape[k]) + 1
    BY <1>2, <1>4
  <2> QED
    BY <1>3, <1>6, <2>1, <2>2 DEF Kinds
<1>8. RangesKept /\ Arguments
  BY <1>3 DEF RangesKept, Arguments
<1>9. Taken /\ ScanStartSound
  BY <1>5 DEF Taken, ScanStartSound
<1>10. Owners
  BY <1>1 DEF Owners
<1>11. CoroutinesKept
  BY <1>1, <1>3 DEF CoroutinesKept
<1> QED
  BY <1>7, <1>8, <1>9, <1>10, <1>11

\* The invariant holds at the beginning.
LEMMA InitHolds == Init => IInv
<1> SUFFICES ASSUME Init PROVE IInv
  OBVIOUS
<1>1. Main \in Threads /\ Workers = Threads \ {Main} /\ Main \notin Workers
  BY WhoIsMain
<1>2. Types
  <2>1. /\ load \in Loads /\ rounds = 0 /\ awaits = FALSE /\ shutting = FALSE
        /\ startScan = [k \in 0..1 |-> 1] /\ status = [t \in Threads |-> "pending"]
        /\ pc = [t \in Threads |-> IF t = Main THEN "idle" ELSE "parked"]
        /\ chosen = [t \in Threads |-> None] /\ pending = [t \in Threads |-> None]
        /\ turn = [t \in Threads |-> 0]
    BY DEF Init
  <2>2. rounds \in Nat /\ startScan \in [0..1 -> Nat] /\ turn \in [Threads -> 0..1]
    BY <2>1
  <2>3. status \in [Threads -> {"pending", "success", "failure"}]
    BY <2>1
  <2>4. pc \in [Threads -> {"idle", "submit", "parked", "scan", "run", "check", "leave", "arrive",
                           "barrier", "gone"}]
    BY <2>1
  <2>5. chosen \in [Threads -> {None} \cup Places] /\ pending \in [Threads -> {None} \cup Places]
    BY <2>1
  <2>6. {awaits, shutting} \subseteq BOOLEAN
    BY <2>1
  <2> QED
    BY <2>1, <2>2, <2>3, <2>4, <2>5, <2>6 DEF Types
<1>3. \A t \in Threads : pc[t] # "run" /\ chosen[t] = None /\ pending[t] = None
  BY DEF Init
<1>4. Empty
  BY <1>2, <1>3 DEF Init, Empty
<1>5. pc[Main] = "idle" /\ \A w \in Workers : pc[w] = "parked"
  BY <1>1 DEF Init
<1>6. Sync
  BY <1>5 DEF Init, Sync, IsExecuting, AtRest
<1>7. NothingLost
  <2>1. DOMAIN Regular = {}
    BY DEF Init, EmptyTapes, Regular
  <2> QED
    BY <1>5, <2>1 DEF NothingLost
<1> QED
  BY <1>2, <1>4, <1>6, <1>7, EmptyIsSound DEF IInv

\* When all have arrived, no worker is anywhere but parked.
LEMMA AllHaveArrived ==
  ASSUME Sync, pc[Main] = "barrier", arrived = Cardinality(Threads)
  PROVE  /\ ~shutting /\ signaled = {} /\ used \subseteq Workers
         /\ \A w \in Workers : pc[w] = "parked"
<1>1. Executing
  BY DEF Sync, IsExecuting
<1>2. used \subseteq Workers /\ signaled \subseteq used /\ ~shutting
  BY <1>1 DEF Executing
<1>3. arrived = Cardinality(Arrived) + (1 + Cardinality(Workers \ used))
  BY <1>1 DEF Executing
<1>4. Cardinality(Threads) = Cardinality(Workers) + 1
  BY ThreadsAssumption, FS_AddElement DEF Threads
<1>5. Arrived \subseteq used
  BY DEF Arrived
<1>6. /\ IsFiniteSet(used) /\ Cardinality(used) \in Nat /\ Cardinality(Workers \ used) \in Nat
      /\ Cardinality(Workers) = Cardinality(used) + Cardinality(Workers \ used)
  BY <1>2, WorkersAreFinite
<1>7. Cardinality(Arrived) \in Nat
  BY <1>2, <1>5, WorkersAreFinite
<1>8. Cardinality(Arrived) = Cardinality(used)
  <2> DEFINE a == Cardinality(Arrived)
             u == Cardinality(used)
             r == Cardinality(Workers \ used)
             w == Cardinality(Workers)
  <2>1. arrived = a + (1 + r) /\ arrived = w + 1 /\ w = u + r
    BY <1>3, <1>4, <1>6
  <2>2. a \in Nat /\ u \in Nat /\ r \in Nat
    BY <1>6, <1>7
  <2> HIDE DEF a, u, r, w
  <2>3. a = u
    BY <2>1, <2>2
  <2> QED
    BY <2>3 DEF a, u
<1>9. Arrived = used
  BY <1>5, <1>6, <1>8, FS_Subset
<1>10. \A w \in used : w \notin signaled /\ pc[w] = "parked"
  BY <1>9 DEF Arrived
<1>11. \A w \in Workers \ used : pc[w] = "parked"
  BY <1>1 DEF Executing
<1> QED
  BY <1>2, <1>10, <1>11

\* The end of an execution keeps the invariant: nobody uses what is cleared.
LEMMA AwaitReturnsKeeps ==
  ASSUME IInv, AwaitReturns
  PROVE  IInv'
<1>1. Types /\ Owners /\ Sync
  BY DEF IInv
<1>2. Main \in Threads /\ Workers = Threads \ {Main} /\ Main \notin Workers
  BY WhoIsMain
<1>3. /\ pc[Main] = "barrier" /\ arrived = Cardinality(Threads)
      /\ arrived' = 0 /\ awaits' = FALSE /\ used' = {} /\ pc' = [pc EXCEPT ![Main] = "idle"]
      /\ tape' = EmptyTapes /\ startScan' = [k \in 0..1 |-> 1] /\ finished' = {}
      /\ calls' = [k \in 0..1 |-> <<>>]
      /\ UNCHANGED <<shutting, signaled, status, rounds, load, chosen, pending, turn>>
  BY DEF AwaitReturns
<1>4. /\ ~shutting /\ signaled = {} /\ \A w \in Workers : pc[w] = "parked"
  BY <1>1, <1>3, AllHaveArrived
<1>5. pc'[Main] = "idle" /\ \A w \in Workers : pc'[w] = "parked"
  BY <1>1, <1>2, <1>3, <1>4 DEF Types
<1>6. Types'
  <2>1. Places' = Places
    BY <1>3, SameLoad
  <2>2. pc' \in [Threads -> {"idle", "submit", "parked", "scan", "run", "check", "leave", "arrive", "barrier", "gone"}]
    BY <1>1, <1>3 DEF Types
  <2>3. startScan' \in [0..1 -> Nat]
    BY <1>3
  <2> QED
    BY <1>1, <1>3, <2>1, <2>2, <2>3 DEF Types
<1>7. \A t \in Threads : pc'[t] # "run" /\ chosen'[t] = None /\ pending'[t] = None
  BY <1>1, <1>2, <1>3, <1>4, <1>5 DEF Owners
<1>8. Empty'
  BY <1>3, <1>6, <1>7 DEF Empty, EmptyTapes
<1>9. (Kinds /\ RangesKept /\ Arguments /\ Taken /\ Owners /\ CoroutinesKept /\ ScanStartSound)'
  <2>1. Empty' => (Kinds /\ RangesKept /\ Arguments /\ Taken /\ Owners /\ CoroutinesKept /\ ScanStartSound)'
    BY EmptyIsSound, PTL
  <2> QED
    BY <1>8, <2>1
<1>10. Sync'
  <2>1. tape' = EmptyTapes'
    BY <1>3 DEF EmptyTapes
  <2>2. AtRest'
    BY <1>3, <1>4, <1>5, <2>1 DEF AtRest
  <2> QED
    BY <1>5, <2>2 DEF Sync, IsExecuting
<1>11. NothingLost'
  <2>1. DOMAIN Regular' = {}
    BY <1>3 DEF EmptyTapes, Regular
  <2> QED
    BY <1>5, <2>1 DEF NothingLost
<1> QED
  BY <1>6, <1>9, <1>10, <1>11 DEF IInv

\* Shutting down keeps the invariant.
LEMMA DestroyKeeps ==
  ASSUME IInv, Destroy \/ Destroyed
  PROVE  IInv'
<1>1. /\ Types /\ Kinds /\ RangesKept /\ Arguments /\ Taken /\ Owners /\ CoroutinesKept
      /\ ScanStartSound /\ Sync /\ NothingLost
  BY DEF IInv
<1>2. Main \in Threads /\ Workers = Threads \ {Main} /\ Main \notin Workers
  BY WhoIsMain
<1>3. /\ pc[Main] = "idle"
      /\ UNCHANGED <<taskVars, awaits, arrived, used, status, rounds, load, chosen, pending, turn, startScan>>
      /\ shutting' = TRUE /\ signaled' \subseteq Workers
      /\ pc' = pc \/ pc' = [pc EXCEPT ![Main] = "gone"]
  <2>1. CASE Destroy
    BY <2>1 DEF Destroy, threadVars, taskVars
  <2>2. CASE Destroyed
    <3>1. /\ pc[Main] = "idle" /\ shutting /\ pc' = [pc EXCEPT ![Main] = "gone"]
          /\ UNCHANGED <<taskVars, awaits, arrived, used, status, rounds, load, chosen, pending, turn, startScan>>
          /\ shutting' = shutting /\ signaled' = signaled
      BY <2>2 DEF Destroyed, syncVars, taskVars
    <3>2. AtRest
      BY <1>1, <3>1 DEF Sync, IsExecuting
    <3> QED
      BY <1>1, <3>1, <3>2 DEF AtRest, Types
  <2> QED
    BY <2>1, <2>2
<1>4. pc'[Main] \in {"idle", "gone"} /\ \A u \in Threads \ {Main} : pc'[u] = pc[u]
  BY <1>1, <1>2, <1>3 DEF Types
<1>5. Yields(Main)
  <2>1. chosen[Main] = None /\ pending[Main] = None
    BY <1>1, <1>2, <1>3 DEF Owners
  <2> QED
    BY <1>3, <1>4, <2>1 DEF Yields
<1>6. /\ Kinds' /\ RangesKept' /\ Arguments' /\ Taken' /\ ScanStartSound' /\ Owners' /\ CoroutinesKept'
      /\ Places' = Places
  BY <1>2, <1>3, <1>5, LeavingTapesKeeps
<1>7. Types'
  <2>1. pc' \in [Threads -> {"idle", "submit", "parked", "scan", "run", "check", "leave", "arrive", "barrier", "gone"}]
    BY <1>1, <1>2, <1>3 DEF Types
  <2> QED
    BY <1>1, <1>3, <1>6, <2>1 DEF Types
<1>8. AtRest
  BY <1>1, <1>3 DEF Sync, IsExecuting
<1>9. AtRest'
  <2>1. tape' = tape /\ finished' = finished /\ EmptyTapes' = EmptyTapes
    BY <1>3 DEF EmptyTapes, taskVars
  <2>2. \A w \in Workers : pc'[w] \in {"parked", "gone"}
    BY <1>2, <1>4, <1>8 DEF AtRest
  <2> QED
    BY <1>3, <1>4, <1>8, <2>1, <2>2 DEF AtRest
<1>10. Sync'
  BY <1>4, <1>9 DEF Sync, IsExecuting
<1>11. NothingLost'
  <2>1. Failed => Failed'
    BY <1>3 DEF Failed
  <2> QED
    BY <1>1, <1>2, <1>3, <1>4, <1>5, <2>1, IdleKeepsEverything
<1> QED
  BY <1>6, <1>7, <1>10, <1>11 DEF IInv

-----------------------------------------------------------------------------
(* The invariant.                                                          *)

\* Every step keeps it.
LEMMA StepKeeps == IInv /\ [Next]_vars => IInv'
<1> SUFFICES ASSUME IInv, [Next]_vars PROVE IInv'
  OBVIOUS
<1>1. CASE MainCalls
  BY <1>1, StartExecutionKeeps, AwaitCompletionKeeps, DestroyKeeps DEF MainCalls
<1>2. CASE MainStep
  BY <1>2, MainLeavesKeeps, AwaitReturnsKeeps, DestroyKeeps DEF MainStep
<1>3. ASSUME NEW t \in Threads, Client(t) \/ Scan(t) PROVE IInv'
  <2>1. CASE AddsTask(t)
    BY <2>1, AddKeeps, AddForRangeKeeps, AddCoroKeeps DEF AddsTask
  <2>2. CASE TaskEnds(t)
    BY <2>2, TaskReturnsKeeps, CoroFinishesKeeps DEF TaskEnds
  <2> QED
    BY <1>3, <2>1, <2>2, CoroAwaitsKeeps, TaskThrowsKeeps, ScanKeeps DEF Client
<1>4. ASSUME NEW w \in Workers, Worker(w) PROVE IInv'
  BY <1>4, WorkerWakesKeeps, CheckAwaitsKeeps, WorkerArrivesKeeps DEF Worker
<1>5. CASE UNCHANGED vars
  <2>1. Yields(Main) /\ Main \in Threads
    <3>1. Types /\ Owners /\ Main \in Threads
      BY WhoIsMain DEF IInv
    <3> QED
      BY <1>5, <3>1 DEF vars, threadVars, Yields, Owners
  <2>2. /\ UNCHANGED taskVars /\ load' = load /\ UNCHANGED threadVars /\ UNCHANGED syncVars
    BY <1>5 DEF vars, syncVars
  <2>3. /\ Kinds' /\ RangesKept' /\ Arguments' /\ Taken' /\ ScanStartSound' /\ Owners' /\ CoroutinesKept'
        /\ Places' = Places
    BY <2>1, <2>2, LeavingTapesKeeps
  <2>4. Types' /\ Sync' /\ NothingLost'
    <3>1. Types /\ Sync /\ NothingLost
      BY DEF IInv
    <3>2. UNCHANGED <<tape, startScan, finished, calls, awaits, shutting, signaled, arrived, used,
                      status, rounds, load, pc, chosen, pending, turn>>
      BY <2>2 DEF taskVars, syncVars, threadVars
    <3>3. Types'
      BY <2>3, <3>1, <3>2 DEF Types
    <3>4. Sync'
      <4>1. (Executing' <=> Executing) /\ (AtRest' <=> AtRest) /\ (IsExecuting' <=> IsExecuting)
        BY <3>2 DEF Executing, Arrived, AtRest, IsExecuting, EmptyTapes
      <4> QED
        BY <3>1, <4>1 DEF Sync
    <3>5. NothingLost'
      BY <3>1, <3>2 DEF NothingLost, Failed, Unclosed, Regular, Heads
    <3> QED
      BY <3>3, <3>4, <3>5
  <2> QED
    BY <2>3, <2>4 DEF IInv
<1> QED
  BY <1>1, <1>2, <1>3, <1>4, <1>5 DEF Next

\* The inductive invariant: what is taken had all that it depends on completed
\* and is called once; it is one thread's, a thread's that may run it; a
\* coroutine is in one place; startScanFrom passes over nothing; and nobody but
\* Main is there when tapes are cleared.
THEOREM Invariant == Spec => []IInv
BY InitHolds, StepKeeps, PTL DEF Spec

-----------------------------------------------------------------------------
(* What the invariant says.                                                *)

\* A coroutine is run by one thread at a time, not when it is finished, and by a
\* thread that may run it.
THEOREM CoroutinesAreSound == Spec => []CoroutinesSound
<1>1. ASSUME IInv PROVE CoroutinesSound
  <2>1. Types /\ Kinds /\ Owners /\ CoroutinesKept
    BY <1>1 DEF IInv
  <2>2. AffinityRespected
    BY <2>1, WhoIsMain DEF Owners, AffinityRespected
  <2>3. ASSUME NEW t \in Threads, pc[t] = "run", Entry(chosen[t]).coro # 0
        PROVE  /\ Entry(chosen[t]).coro \notin finished
               /\ \A u \in Threads \ {t} : pc[u] = "run" => Entry(chosen[u]).coro # Entry(chosen[t]).coro
    <3>1. PICK c : c = Entry(chosen[t]).coro
      OBVIOUS
    <3>2. c \in DOMAIN Heads
      <4>1. chosen[t] \in Indices
        BY <2>1, <2>3 DEF Owners
      <4> QED
        BY <2>1, <2>3, <3>1, <4>1, CoroutineHasHead
    <3>3. RunsIn(c, t)
      BY <2>3, <3>1 DEF RunsIn
    <3>4. c \notin finished /\ \A u \in Threads : RunsIn(c, u) => t = u
      BY <2>1, <3>2, <3>3 DEF CoroutinesKept
    <3> QED
      BY <3>1, <3>4 DEF RunsIn
  <2>4. OneThreadPerCoroutine
    BY <2>3 DEF OneThreadPerCoroutine
  <2> QED
    BY <2>2, <2>4 DEF CoroutinesSound
<1> QED
  BY <1>1, Invariant, PTL

\* Nothing that has still to be done lies before startScanFrom, and no worker uses
\* the tapes when they get cleared.
THEOREM TapesAreSound == Spec => []TapesSound
<1>1. ASSUME IInv PROVE TapesSound
  <2>1. ScanStartSound /\ Sync
    BY <1>1 DEF IInv
  <2>2. ClearIsAlone
    BY <2>1 DEF ClearIsAlone, Sync, AtRest
  <2> QED
    BY <2>1, <2>2 DEF TapesSound
<1> QED
  BY <1>1, Invariant, PTL

\* What has been taken had its dependencies completed, and what has a callable
\* was called once then; a coroutine is completed when nothing of it waits.
LEMMA CallsAreSound ==
  ASSUME IInv
  PROVE  CalledOnce /\ DependenciesRespected
<1>1. Types /\ Kinds /\ Taken /\ CoroutinesKept
  BY DEF IInv
<1>2. CalledOnce
  BY <1>1 DEF Taken, CalledOnce
<1>3. ASSUME NEW h \in Indices, Entry(h).status # "Pending"
      PROVE  \A d \in Entry(h).deps : Entry(d).status = "Completed"
  BY <1>1, <1>3 DEF Taken
<1>4. ASSUME NEW h \in Indices, h[1] = 1, Entry(h).status = "Completed"
      PROVE  /\ h[2] \in finished
             /\ \A r \in Indices : Entry(r).coro = h[2] => Entry(r).status # "Pending"
  <2>1. h[2] \in DOMAIN Heads /\ Heads[h[2]].status = "Completed"
    BY <1>1, <1>4, EntryAt
  <2>2. h[2] \in finished /\ \A r \in Indices : ~Waits(h[2], r)
    BY <1>1, <2>1 DEF CoroutinesKept
  <2> QED
    BY <2>2 DEF Waits
<1>5. DependenciesRespected
  BY <1>3, <1>4 DEF DependenciesRespected
<1> QED
  BY <1>2, <1>5

\* Ranges are finite, and Done counts what it says.
LEMMA DoneIsCounted ==
  ASSUME Kinds, RangesKept, NEW f \in DOMAIN Regular, Regular[f].kind = "fork"
  PROVE  /\ IsFiniteSet(Regular[f].dependents) /\ Cardinality(Regular[f].dependents) \in Nat
         /\ Cardinality(Done(Regular[f].dependents)) \in 0..Cardinality(Regular[f].dependents)
         /\ Cardinality(Done(Regular[f].dependents)) = Cardinality(Regular[f].dependents)
              => \A p \in Regular[f].dependents : Regular[p].status = "Completed"
<1>1. PICK range : range = Regular[f].dependents
  OBVIOUS
<1>2. range = f + 1..Join(f) - 1 /\ Join(f) \in DOMAIN Regular
  BY <1>1 DEF RangesKept
<1>3. DOMAIN Regular \subseteq Nat
  <2>1. Regular \in Seq(EntryType)
    BY DEF Kinds, Regular
  <2> QED
    BY <2>1
<1>4. IsFiniteSet(range)
  BY <1>2, <1>3, FS_Interval
<1>5. Done(range) \in SUBSET range
  BY DEF Done
<1>6. /\ IsFiniteSet(Done(range)) /\ Cardinality(Done(range)) <= Cardinality(range)
      /\ Cardinality(range) = Cardinality(Done(range)) => range = Done(range)
  BY <1>4, <1>5, FS_Subset
<1>7. Cardinality(range) \in Nat /\ Cardinality(Done(range)) \in Nat
  BY <1>4, <1>6, FS_CardinalityType
<1>8. range = Done(range) => \A p \in range : Regular[p].status = "Completed"
  BY DEF Done
<1> QED
  BY <1>1, <1>4, <1>6, <1>7, <1>8

\* The types, and the bounds of the counters.
LEMMA TypesAreSound ==
  ASSUME IInv
  PROVE  TypeOK
<1>1. Types /\ Kinds /\ RangesKept /\ CoroutinesKept /\ Sync
  BY DEF IInv
<1>2. ASSUME NEW i \in DOMAIN Regular PROVE Regular[i] \in EntryType /\ Regular[i].satisfied <= Regular[i].total
  <2>1. Regular[i] \in EntryType
    <3>1. Regular \in Seq(EntryType)
      BY <1>1 DEF Kinds, Regular
    <3> QED
      BY <3>1
  <2>2. CASE Regular[i].kind \notin {"parallel", "join"}
    <3>1. Regular[i].total = 0 /\ Regular[i].satisfied = 0
      BY <1>1, <2>2 DEF Kinds
    <3> QED
      BY <2>1, <3>1
  <2>3. CASE Regular[i].kind \in {"parallel", "join"}
    <3>1. PICK f \in DOMAIN Regular : Regular[f].kind = "fork" /\ i \in Regular[f].dependents \cup {Join(f)}
      BY <1>1, <2>3 DEF RangesKept
    <3>2. CASE i \in Regular[f].dependents
      <4>1. Regular[i].total = 1 /\ Regular[i].satisfied \in {0, 1}
        BY <1>1, <3>1, <3>2 DEF RangesKept
      <4> QED
        BY <2>1, <4>1
    <3>3. CASE i = Join(f)
      <4>1. /\ Regular[i].total = Cardinality(Regular[f].dependents)
            /\ Regular[i].satisfied = Cardinality(Done(Regular[f].dependents))
        BY <1>1, <3>1, <3>3 DEF RangesKept
      <4>2. Cardinality(Done(Regular[f].dependents)) <= Cardinality(Regular[f].dependents)
        BY <1>1, <3>1, DoneIsCounted
      <4> QED
        BY <2>1, <4>1, <4>2
    <3> QED
      BY <3>1, <3>2, <3>3
  <2> QED
    BY <2>1, <2>2, <2>3
<1>3. ASSUME NEW i \in DOMAIN Heads PROVE Heads[i] \in EntryType /\ Heads[i].satisfied <= Heads[i].total
  <2>1. Heads \in Seq(EntryType)
    BY <1>1 DEF Kinds, Heads
  <2>2. Heads[i].total = 0 /\ Heads[i].satisfied = 0
    BY <1>1 DEF Kinds
  <2> QED
    BY <2>1, <2>2
<1>4. ASSUME NEW k \in 0..1
      PROVE  /\ startScan[k] \in 1..Len(tape[k]) + 1 /\ DOMAIN calls[k] = DOMAIN tape[k]
             /\ \A i \in DOMAIN tape[k] : tape[k][i] \in EntryType /\ tape[k][i].satisfied <= tape[k][i].total
  <2>1. startScan[k] \in 1..Len(tape[k]) + 1 /\ DOMAIN calls[k] = DOMAIN tape[k]
    <3>1. /\ tape[k] \in Seq(EntryType) /\ calls[k] \in Seq(Nat)
          /\ Len(calls[k]) = Len(tape[k]) /\ startScan[k] \in 1..Len(tape[k]) + 1
      BY <1>1 DEF Kinds
    <3> QED
      BY <3>1
  <2>2. k = 0 \/ k = 1
    OBVIOUS
  <2> QED
    BY <1>2, <1>3, <2>1, <2>2 DEF Regular, Heads
<1>5. finished \subseteq 1..MaxCoros
  <2>1. finished \subseteq DOMAIN Heads /\ Heads \in Seq(EntryType) /\ Len(Heads) <= MaxCoros
    BY <1>1 DEF CoroutinesKept, Kinds, Heads
  <2>2. MaxCoros \in Nat
    BY <1>1, Bounds
  <2> QED
    BY <2>1, <2>2
<1>6. Cardinality(Threads) = Cardinality(Workers) + 1 /\ Cardinality(Workers) \in Nat
  <2>1. IsFiniteSet(Workers) /\ Main \notin Workers
    BY ThreadsAssumption
  <2> QED
    BY <2>1, FS_AddElement, FS_CardinalityType DEF Threads
<1>7. signaled \subseteq Workers /\ used \subseteq Workers /\ arrived \in 0..Cardinality(Threads)
  <2>1. CASE ~IsExecuting
    <3>1. signaled \subseteq Workers /\ used = {} /\ arrived = 0
      BY <1>1, <2>1 DEF Sync, AtRest
    <3> QED
      BY <1>6, <3>1
  <2>2. CASE IsExecuting
    <3>1. /\ signaled \subseteq used /\ used \subseteq Workers
          /\ arrived = Cardinality(Arrived) + IF awaits THEN 1 + Cardinality(Workers \ used) ELSE 0
      BY <1>1, <2>2 DEF Sync, Executing
    <3>2. Arrived \in SUBSET used /\ used \in SUBSET Workers
      BY <3>1 DEF Arrived
    <3>3. /\ IsFiniteSet(used) /\ Cardinality(used) \in Nat /\ Cardinality(Workers \ used) \in Nat
          /\ Cardinality(Workers) = Cardinality(used) + Cardinality(Workers \ used)
      BY <3>2, WorkersAreFinite
    <3>4. Cardinality(Arrived) \in Nat /\ Cardinality(Arrived) <= Cardinality(used)
      <4>1. Arrived \in SUBSET Workers
        BY <3>2
      <4> QED
        BY <3>2, <3>3, <4>1, WorkersAreFinite, FS_Subset
    <3>5. arrived \in 0..Cardinality(Threads)
      <4>1. PICK a \in Nat, u \in Nat, r \in Nat, w \in Nat :
              a = Cardinality(Arrived) /\ u = Cardinality(used) /\ r = Cardinality(Workers \ used) /\ w = Cardinality(Workers)
        BY <1>6, <3>3, <3>4
      <4>2. arrived = a + (1 + r) \/ arrived = a
        BY <3>1, <4>1
      <4>3. a <= u /\ w = u + r /\ Cardinality(Threads) = w + 1
        BY <1>6, <3>3, <3>4, <4>1
      <4> QED
        BY <4>2, <4>3
    <3> QED
      BY <3>1, <3>5
  <2> QED
    BY <2>1, <2>2
<1>8. \A t \in Threads : {chosen[t], pending[t]} \subseteq {None} \cup Places
  BY <1>1 DEF Types
<1>9. /\ {awaits, shutting} \subseteq BOOLEAN /\ turn \in [Threads -> 0..1]
      /\ status \in [Threads -> {"pending", "success", "failure"}]
      /\ pc \in [Threads -> {"idle", "submit", "parked", "scan", "run", "check", "leave", "arrive",
                             "barrier", "gone"}]
  BY <1>1 DEF Types
<1> QED
  BY <1>4, <1>5, <1>7, <1>8, <1>9 DEF TypeOK

-----------------------------------------------------------------------------
(* Ranges.                                                                 *)

\* Products are monotonic, and quotients are what they should be.
LEMMA Quotient ==
  /\ \A a \in Nat, d \in Nat \ {0} : (a \div d) \in Nat /\ (a \div d) * d <= a /\ a < (a \div d) * d + d
  /\ \A i, j, d \in Nat : i <= j => i * d <= j * d
OBVIOUS

\* Each index from begin to end is in one part of a range, and others are in none.
InPart(args, i, x)       == args[i][1] <= x /\ x < args[i][2]
Divides(args, n, begin, end) ==
  /\ \A x \in Int : begin <= x /\ x < end => \E i \in 1..n : InPart(args, i, x)
  /\ \A x \in Int : \A i \in 1..n : InPart(args, i, x) => begin <= x /\ x < end
  /\ \A x \in Int : \A i, j \in 1..n : InPart(args, i, x) /\ InPart(args, j, x) => i = j

\* Tasks for single indices divide their range.
LEMMA IndicesDivide ==
  ASSUME NEW begin \in Nat, NEW workload \in Nat
  PROVE  Divides(IndexArgs(begin, workload), workload, begin, begin + workload)
<1>1. ASSUME NEW x \in Int, NEW i \in 1..workload
      PROVE  InPart(IndexArgs(begin, workload), i, x) <=> x = begin + i - 1
  BY DEF IndexArgs, InPart
<1>2. ASSUME NEW x \in Int, begin <= x, x < begin + workload
      PROVE  \E i \in 1..workload : InPart(IndexArgs(begin, workload), i, x)
  <2>1. x - begin + 1 \in 1..workload /\ x = begin + (x - begin + 1) - 1
    BY <1>2
  <2> QED
    BY <1>1, <2>1
<1>3. ASSUME NEW x \in Int, NEW i \in 1..workload, InPart(IndexArgs(begin, workload), i, x)
      PROVE  begin <= x /\ x < begin + workload
  BY <1>1, <1>3
<1>4. ASSUME NEW x \in Int, NEW i \in 1..workload, NEW j \in 1..workload,
             InPart(IndexArgs(begin, workload), i, x), InPart(IndexArgs(begin, workload), j, x)
      PROVE  i = j
  <2>1. x = begin + i - 1 /\ x = begin + j - 1
    BY <1>1, <1>4
  <2> QED
    BY <2>1
<1> QED
  BY <1>2, <1>3, <1>4 DEF Divides

\* Tasks for subranges divide their range, if its end has 16 bits.
LEMMA SubrangesDivide ==
  ASSUME NEW begin \in Nat, NEW workload \in Nat \ {0}, NEW length \in Nat \ {0}, begin + workload < 2^16
  PROVE  /\ NumTasks(workload, length) \in Nat
         /\ Divides(SubrangeArgs(begin, workload, length), NumTasks(workload, length), begin, begin + workload)
<1>0. 2^16 = 65536
  OBVIOUS
<1>1. PICK n : n = NumTasks(workload, length)
  OBVIOUS
<1>2. n \in Nat /\ n * length <= workload + length - 1 /\ workload + length - 1 < n * length + length
  <2>1. workload + length - 1 \in Nat
    OBVIOUS
  <2> QED
    BY <1>1, <2>1, Quotient DEF NumTasks
<1>3. ASSUME NEW i \in 1..n
      PROVE  /\ i * length \in Nat /\ (i - 1) * length \in Nat /\ i * length = (i - 1) * length + length
             /\ (i - 1) * length < workload
  <2>1. i \in Nat /\ i - 1 \in Nat /\ i <= n
    BY <1>2
  <2>2. i * length \in Nat /\ (i - 1) * length \in Nat /\ n * length \in Nat
    BY <1>2, <2>1
  <2>3. i * length = (i - 1) * length + length
    BY <2>1
  <2>4. i * length <= n * length
    BY <1>2, <2>1, Quotient
  <2> QED
    BY <1>2, <2>2, <2>3, <2>4
<1>4. ASSUME NEW i \in 1..n, NEW x \in Int
      PROVE  InPart(SubrangeArgs(begin, workload, length), i, x)
               <=> begin + (i - 1) * length <= x /\ x < begin + i * length /\ x < begin + workload
  <2>1. PICK low \in Nat, up \in Nat : low = (i - 1) * length /\ up = i * length
    BY <1>3
  <2>2. up = low + length /\ low < workload
    BY <1>3, <2>1
  <2>3. PICK start, end : /\ start = begin + low
                          /\ end = IF begin + up > workload + begin THEN workload + begin ELSE begin + up
    OBVIOUS
  <2>4. start \in Nat /\ end \in Nat /\ start < 65536 /\ end < 65536
    BY <1>0, <2>2, <2>3
  <2>5. start % 65536 = start /\ end % 65536 = end
    BY <2>4
  <2>6. Packed(start, end) = <<start, end>>
    BY <1>0, <2>4, <2>5 DEF Packed
  <2>7. SubrangeArgs(begin, workload, length)[i] = Packed(start, end)
    BY <1>1, <2>1, <2>3 DEF SubrangeArgs
  <2>8. InPart(SubrangeArgs(begin, workload, length), i, x) <=> start <= x /\ x < end
    BY <2>6, <2>7 DEF InPart
  <2>9. x < end <=> x < begin + up /\ x < begin + workload
    BY <2>3
  <2> QED
    BY <2>1, <2>3, <2>8, <2>9
<1>5. ASSUME NEW x \in Int, begin <= x, x < begin + workload
      PROVE  \E i \in 1..n : InPart(SubrangeArgs(begin, workload, length), i, x)
  <2>1. PICK q \in Nat : q * length <= x - begin /\ x - begin < q * length + length
    <3>1. x - begin \in Nat
      BY <1>5
    <3> QED
      BY <3>1, Quotient
  <2>2. q + 1 <= n
    <3>1. SUFFICES ASSUME n <= q PROVE FALSE
      BY <1>2
    <3>2. n * length <= q * length
      BY <1>2, <3>1, Quotient
    <3>3. PICK nl \in Nat, ql \in Nat : nl = n * length /\ ql = q * length
      BY <1>2
    <3> QED
      BY <1>2, <1>5, <2>1, <3>2, <3>3
  <2>3. q + 1 \in 1..n /\ (q + 1) - 1 = q /\ (q + 1) * length = q * length + length
    BY <1>2, <2>2
  <2>4. begin + ((q + 1) - 1) * length <= x /\ x < begin + (q + 1) * length
    <3>1. PICK ql \in Nat : ql = q * length
      OBVIOUS
    <3>2. begin + ql <= x /\ x < begin + (ql + length)
      BY <2>1, <3>1
    <3> QED
      BY <2>3, <3>1, <3>2
  <2>5. InPart(SubrangeArgs(begin, workload, length), q + 1, x)
    BY <1>4, <1>5, <2>3, <2>4
  <2> QED
    BY <2>3, <2>5
<1>6. ASSUME NEW x \in Int, NEW i \in 1..n, InPart(SubrangeArgs(begin, workload, length), i, x)
      PROVE  begin <= x /\ x < begin + workload
  <2>1. begin + (i - 1) * length <= x /\ x < begin + workload
    BY <1>4, <1>6
  <2>2. PICK low \in Nat : low = (i - 1) * length
    BY <1>3
  <2> QED
    BY <2>1, <2>2
<1>7. ASSUME NEW x \in Int, NEW i \in 1..n, NEW j \in 1..n, i < j,
             InPart(SubrangeArgs(begin, workload, length), i, x),
             InPart(SubrangeArgs(begin, workload, length), j, x)
      PROVE  FALSE
  <2>1. x < begin + i * length /\ begin + (j - 1) * length <= x
    BY <1>4, <1>7
  <2>2. i * length <= (j - 1) * length
    <3>1. i \in Nat /\ j - 1 \in Nat /\ i <= j - 1
      BY <1>2, <1>7
    <3> QED
      BY <3>1, Quotient
  <2>3. PICK up \in Nat, low \in Nat : up = i * length /\ low = (j - 1) * length
    BY <1>3
  <2> QED
    BY <2>1, <2>2, <2>3
<1>8. ASSUME NEW x \in Int, NEW i \in 1..n, NEW j \in 1..n,
             InPart(SubrangeArgs(begin, workload, length), i, x),
             InPart(SubrangeArgs(begin, workload, length), j, x)
      PROVE  i = j
  <2>1. i < j \/ j < i \/ i = j
    BY <1>2
  <2> QED
    BY <1>7, <1>8, <2>1
<1> QED
  BY <1>1, <1>2, <1>5, <1>6, <1>8 DEF Divides

\* The assertions of setupIotaInstanceArgs and setupRangeInstanceArgs: ranges are
\* not empty, and the end of one that is split into subranges has 16 bits.
RangesAreValid ==
  \A l \in Loads : /\ \A r \in l.indices : r[2] # 0
                   /\ \A r \in l.subranges : r[2] # 0 /\ r[1] + r[2] < 2^16

\* What a fork has been added for divides its range, and is not empty.
LEMMA ForkDivides ==
  ASSUME RangesAreValid, IInv, NEW f \in DOMAIN Regular, Regular[f].kind = "fork",
         NEW n, n = Cardinality(Regular[f].dependents), NEW args, args = [i \in 1..n |-> Regular[f + i].arg]
  PROVE  n # 0 /\ Divides(args, n, Regular[f].arg[1], Regular[f].arg[2])
<1>1. Types /\ Kinds /\ RangesKept /\ Arguments
  BY DEF IInv
<1>2. n \in Nat
  BY <1>1, DoneIsCounted
<1>3. \/ \E r \in load.indices : Regular[f].arg = <<r[1], r[1] + r[2]>> /\ args = IndexArgs(r[1], r[2])
      \/ \E r \in load.subranges : Regular[f].arg = <<r[1], r[1] + r[2]>> /\ args = SubrangeArgs(r[1], r[2], r[3])
  BY <1>1 DEF Arguments
<1>4. DOMAIN args = 1..n
  OBVIOUS
<1>5. \A m \in Nat : 1..n = 1..m => n = m
  BY <1>2
<1>6. load \in Loads /\ load.indices \in SUBSET (Nat \X Nat) /\ load.subranges \in SUBSET (Nat \X Nat \X (Nat \ {0}))
  BY <1>1, Bounds DEF Types
<1>7. CASE \E r \in load.indices : Regular[f].arg = <<r[1], r[1] + r[2]>> /\ args = IndexArgs(r[1], r[2])
  <2>1. PICK r \in load.indices : Regular[f].arg = <<r[1], r[1] + r[2]>> /\ args = IndexArgs(r[1], r[2])
    BY <1>7
  <2>2. PICK b \in Nat, w \in Nat \ {0} : b = r[1] /\ w = r[2]
    <3>1. r \in Nat \X Nat /\ r[2] # 0
      BY <1>6 DEF RangesAreValid
    <3> QED
      BY <3>1
  <2>3. args = IndexArgs(b, w) /\ Regular[f].arg[1] = b /\ Regular[f].arg[2] = b + w
    <3>1. args = IndexArgs(b, w)
      BY <2>1, <2>2
    <3>2. PICK arg : arg = Regular[f].arg
      OBVIOUS
    <3>3. arg = <<b, b + w>>
      BY <2>1, <2>2, <3>2
    <3> QED
      BY <3>1, <3>2, <3>3
  <2>4. DOMAIN args = 1..w
    BY <2>3 DEF IndexArgs
  <2>5. n = w
    BY <1>4, <1>5, <2>4
  <2> QED
    BY <2>2, <2>3, <2>5, IndicesDivide
<1>8. CASE \E r \in load.subranges : Regular[f].arg = <<r[1], r[1] + r[2]>> /\ args = SubrangeArgs(r[1], r[2], r[3])
  <2>1. PICK r \in load.subranges : Regular[f].arg = <<r[1], r[1] + r[2]>> /\ args = SubrangeArgs(r[1], r[2], r[3])
    BY <1>8
  <2>2. PICK b \in Nat, w \in Nat \ {0}, l \in Nat \ {0} : b = r[1] /\ w = r[2] /\ l = r[3] /\ b + w < 2^16
    <3>1. r \in Nat \X Nat \X (Nat \ {0}) /\ r[2] # 0 /\ r[1] + r[2] < 2^16
      BY <1>6 DEF RangesAreValid
    <3> QED
      BY <3>1
  <2>3. args = SubrangeArgs(b, w, l) /\ Regular[f].arg[1] = b /\ Regular[f].arg[2] = b + w
    <3>1. args = SubrangeArgs(b, w, l)
      BY <2>1, <2>2
    <3>2. PICK arg : arg = Regular[f].arg
      OBVIOUS
    <3>3. arg = <<b, b + w>>
      BY <2>1, <2>2, <3>2
    <3> QED
      BY <3>1, <3>2, <3>3
  <2>4. DOMAIN args = 1..NumTasks(w, l)
    BY <2>3 DEF SubrangeArgs
  <2>5. NumTasks(w, l) \in Nat /\ Divides(SubrangeArgs(b, w, l), NumTasks(w, l), b, b + w)
    BY <2>2, SubrangesDivide
  <2>6. n = NumTasks(w, l)
    BY <1>4, <1>5, <2>4, <2>5
  <2>7. NumTasks(w, l) # 0
    <3>1. w + l - 1 \in Nat /\ w + l - 1 >= l
      OBVIOUS
    <3>2. w + l - 1 < NumTasks(w, l) * l + l
      BY <3>1, Quotient DEF NumTasks
    <3> QED
      BY <3>1, <3>2
  <2> QED
    BY <2>3, <2>5, <2>6, <2>7
<1> QED
  BY <1>3, <1>7, <1>8

\* The join of a range is not taken before the fork and all its tasks are
\* completed.
LEMMA JoinsWait ==
  ASSUME RangesAreValid, IInv
  PROVE  JoinWaitsForRange
<1>1. Types /\ Kinds /\ RangesKept /\ Taken
  BY DEF IInv
<1>2. ASSUME NEW f \in DOMAIN Regular, Regular[f].kind = "fork", Regular[Join(f)].status # "Pending",
             NEW i \in f..Join(f) - 1
      PROVE  Regular[i].status = "Completed"
  <2>1. PICK range : range = Regular[f].dependents
    OBVIOUS
  <2>2. /\ Join(f) \in DOMAIN Regular /\ range = f + 1..Join(f) - 1
        /\ \A p \in range : /\ Regular[p].total = 1
                            /\ Regular[p].satisfied = IF Regular[f].status = "Completed" THEN 1 ELSE 0
        /\ Regular[Join(f)].total = Cardinality(range) /\ Regular[Join(f)].satisfied = Cardinality(Done(range))
    BY <1>1, <1>2, <2>1 DEF RangesKept
  <2>3. \A j \in DOMAIN Regular : Regular[j].status # "Pending" => Regular[j].satisfied = Regular[j].total
    <3>1. \A j \in DOMAIN Regular : <<0, j>> \in Indices /\ Entry(<<0, j>>) = Regular[j]
      BY <1>1, EntryAt
    <3>2. \A h \in Indices : Entry(h).status # "Pending" => Entry(h).satisfied = Entry(h).total
      BY <1>1 DEF Taken
    <3> TAKE j \in DOMAIN Regular
    <3>3. PICK h \in Indices : Entry(h) = Regular[j]
      BY <3>1
    <3> QED
      BY <3>2, <3>3
  <2>4. \A p \in range : Regular[p].status = "Completed"
    BY <1>1, <1>2, <2>1, <2>2, <2>3, DoneIsCounted
  <2>5. DOMAIN Regular \subseteq Nat /\ range \subseteq DOMAIN Regular
    <3>1. Regular \in Seq(EntryType)
      BY <1>1 DEF Kinds, Regular
    <3>2. DOMAIN Regular = 1..Len(Regular) /\ Len(Regular) \in Nat
      BY <3>1
    <3> QED
      BY <2>2, <3>2
  <2>6. range # {}
    <3>1. Cardinality(range) # 0
      BY <1>2, <2>1, ForkDivides
    <3> QED
      BY <3>1, FS_EmptySet
  <2>7. Regular[f].status = "Completed"
    <3>1. PICK p \in range : p \in DOMAIN Regular
      BY <2>5, <2>6
    <3>2. Regular[p].satisfied = 1
      BY <2>2, <2>3, <2>4, <3>1
    <3> QED
      BY <2>2, <3>2
  <2>8. i = f \/ i \in range
    BY <2>2, <2>5
  <2> QED
    BY <2>4, <2>7, <2>8
<1> QED
  BY <1>2 DEF JoinWaitsForRange, Join, Regular

\* The tasks of a range get each of its indices once.
LEMMA IndicesAreCovered ==
  ASSUME RangesAreValid, IInv
  PROVE  IndicesCoveredOnce
<1>1. Types /\ Kinds /\ RangesKept
  BY DEF IInv
<1>2. ASSUME NEW f \in DOMAIN Regular, Regular[f].kind = "fork"
      PROVE  LET bounds == [i \in Regular[f].dependents |-> Regular[i].arg]
                 range  == Regular[f].arg
                 covers(i, x) == bounds[i][1] <= x /\ x < bounds[i][2]
             IN \A x \in {range[1], range[2] - 1} \cup UNION {{bounds[i][1], bounds[i][2] - 1, bounds[i][2]} : i \in DOMAIN bounds} :
                   Cardinality({i \in DOMAIN bounds : covers(i, x)}) = IF range[1] <= x /\ x < range[2] THEN 1 ELSE 0
  <2> DEFINE S      == Regular[f].dependents
             bounds == [i \in S |-> Regular[i].arg]
             range  == Regular[f].arg
  <2>1. S = Regular[f].dependents
    OBVIOUS
  <2>2. bounds = [i \in S |-> Regular[i].arg]
    OBVIOUS
  <2>3. range = Regular[f].arg
    OBVIOUS
  <2> HIDE DEF S, bounds, range
  <2>4. PICK n : n = Cardinality(S)
    OBVIOUS
  <2>5. PICK args : args = [i \in 1..n |-> Regular[f + i].arg]
    OBVIOUS
  <2>6. n \in Nat /\ f \in Nat /\ S = f + 1..f + n /\ S \subseteq DOMAIN Regular
    <3>1. Regular \in Seq(EntryType)
      BY <1>1 DEF Kinds, Regular
    <3>2. n \in Nat
      BY <1>1, <1>2, <2>1, <2>4, DoneIsCounted
    <3>3. Join(f) \in DOMAIN Regular /\ S = f + 1..Join(f) - 1 /\ Join(f) = f + n + 1
      BY <1>1, <1>2, <2>1, <2>4 DEF RangesKept, Join
    <3>4. DOMAIN Regular = 1..Len(Regular) /\ Len(Regular) \in Nat
      BY <3>1
    <3> QED
      BY <3>2, <3>3, <3>4
  <2>7. Divides(args, n, range[1], range[2])
    BY <1>2, <2>1, <2>4, <2>5, <2>3, ForkDivides
  <2>8. range \in Nat \X Nat /\ \A i \in S : bounds[i] \in Nat \X Nat
    <3>1. \A i \in DOMAIN Regular : Regular[i].arg \in Nat \X Nat
      <4>1. Regular \in Seq(EntryType)
        BY <1>1 DEF Kinds, Regular
      <4>2. \A i \in DOMAIN Regular : Regular[i] \in EntryType
        BY <4>1
      <4> QED
        BY <4>2, EntryFields
    <3> QED
      BY <2>2, <2>3, <2>6, <3>1
  <2>9. \A i \in 1..n : f + i \in S /\ args[i] = bounds[f + i]
    BY <2>5, <2>2, <2>6
  <2>10. \A i \in S : i - f \in 1..n /\ f + (i - f) = i
    BY <2>6
  <2>11. ASSUME NEW x \in Int
         PROVE  Cardinality({i \in S : bounds[i][1] <= x /\ x < bounds[i][2]}) = IF range[1] <= x /\ x < range[2] THEN 1 ELSE 0
    <3>1. PICK C : C = {i \in S : bounds[i][1] <= x /\ x < bounds[i][2]}
      OBVIOUS
    <3>2. \A i \in S : i \in C <=> InPart(args, i - f, x)
      BY <2>9, <2>10, <3>1 DEF InPart
    <3>3. CASE range[1] <= x /\ x < range[2]
      <4>1. PICK i \in 1..n : InPart(args, i, x)
        BY <2>7, <3>3 DEF Divides
      <4>2. f + i \in C
        BY <2>6, <2>9, <3>1, <4>1 DEF InPart
      <4>3. \A j \in C : j - f = i
        BY <2>7, <2>10, <3>1, <3>2, <4>1 DEF Divides
      <4>4. C = {f + i}
        BY <2>10, <3>1, <4>2, <4>3
      <4>5. Cardinality(C) = 1
        BY <4>4, FS_Singleton
      <4> QED
        BY <3>1, <3>3, <4>5
    <3>4. CASE ~(range[1] <= x /\ x < range[2])
      <4>1. C = {}
        BY <2>7, <2>10, <3>1, <3>2, <3>4 DEF Divides
      <4>2. Cardinality(C) = 0
        BY <4>1, FS_EmptySet
      <4> QED
        BY <3>1, <3>4, <4>2
    <3> QED
      BY <3>3, <3>4
  <2>12. \A x \in {range[1], range[2] - 1} \cup UNION {{bounds[i][1], bounds[i][2] - 1, bounds[i][2]} : i \in S} : x \in Int
    BY <2>8
  <2>13. \A x \in {range[1], range[2] - 1} \cup UNION {{bounds[i][1], bounds[i][2] - 1, bounds[i][2]} : i \in DOMAIN bounds} :
            Cardinality({i \in DOMAIN bounds : bounds[i][1] <= x /\ x < bounds[i][2]})
              = IF range[1] <= x /\ x < range[2] THEN 1 ELSE 0
    <3>1. DOMAIN bounds = S
      BY <2>2
    <3> QED
      BY <2>11, <2>12, <3>1
  <2> QED
    BY <2>13 DEF S, bounds, range
<1> QED
  BY <1>2 DEF IndicesCoveredOnce, Regular

\* Tasks are called once, when all that they depend on is completed; and, if
\* ranges are as the assertions say, the join of a range stands for all of it,
\* and the tasks of a range get each of its indices once.
THEOREM TasksAreSound ==
  /\ Spec => [](TypeOK /\ CalledOnce /\ DependenciesRespected)
  /\ RangesAreValid => (Spec => []TasksSound)
<1>1. IInv => TypeOK /\ CalledOnce /\ DependenciesRespected
  BY CallsAreSound, TypesAreSound
<1>2. ASSUME RangesAreValid PROVE Spec => []TasksSound
  <2>1. IInv => TasksSound
    BY <1>1, <1>2, JoinsWait, IndicesAreCovered DEF TasksSound
  <2> QED
    BY <2>1, Invariant, PTL
<1>3. Spec => [](TypeOK /\ CalledOnce /\ DependenciesRespected)
  BY <1>1, Invariant, PTL
<1> QED
  BY <1>2, <1>3

-----------------------------------------------------------------------------
(* Success.                                                                *)

\* awaitCompletion returns true only when all tasks are completed: all workers
\* have arrived then, so nobody is left who holds a busy entry, or who would have
\* to look at an open one.
THEOREM SuccessIsCompletion == Spec => SuccessMeansDone
<1>1. ASSUME IInv, AwaitReturns, Succeeded, NEW h \in Indices
      PROVE  Entry(h).status = "Completed"
  <2>1. Types /\ Kinds /\ Owners /\ Sync /\ NothingLost
    BY <1>1 DEF IInv
  <2>2. pc[Main] = "barrier" /\ arrived = Cardinality(Threads)
    BY <1>1 DEF AwaitReturns
  <2>3. Executing
    BY <2>1, <2>2 DEF Sync, IsExecuting
  <2>4. \A w \in Workers : pc[w] = "parked"
    BY <2>1, <2>2, AllHaveArrived
  <2>5. ~Failed
    BY <1>1, <2>3 DEF Failed, Executing, Succeeded
  <2>6. ~Unclosed
    BY <2>1, <2>2, <2>4, <2>5 DEF NothingLost
  <2>7. \A t \in Threads : chosen[t] = None /\ pending[t] = None
    BY <2>1, <2>2, <2>4, WhoIsMain DEF Owners
  <2>8. \A i \in DOMAIN Regular : Regular[i].status # "Busy"
    <3>1. \A i \in DOMAIN Regular : <<0, i>> # None
      BY <2>1, EntryAt
    <3>2. \A i \in DOMAIN Regular : Regular[i].status = "Busy" =>
             \E t \in Threads : <<0, i>> \in {chosen[t], pending[t]}
      BY <2>1, <2>5 DEF NothingLost
    <3> QED
      BY <2>7, <3>1, <3>2
  <2>9. Entry(h).status \in {"Pending", "Busy", "Completed"}
    BY <2>1, EntryAt, EntryFields
  <2>10. CASE h[1] = 0
    <3>1. h[2] \in DOMAIN Regular /\ Entry(h) = Regular[h[2]]
      BY <2>1, <2>10, EntryAt
    <3>2. Entry(h).status # "Pending"
      BY <2>6, <3>1 DEF Unclosed
    <3>3. Entry(h).status # "Busy"
      BY <2>8, <3>1
    <3> QED
      BY <2>9, <3>2, <3>3
  <2>11. CASE h[1] = 1
    <3>1. h[2] \in DOMAIN Heads /\ Entry(h) = Heads[h[2]]
      BY <2>1, <2>11, EntryAt
    <3> QED
      BY <2>6, <3>1 DEF Unclosed
  <2> QED
    BY <2>1, <2>10, <2>11, EntryAt
<1>2. IInv /\ [Next]_vars => [AwaitReturns /\ Succeeded => \A h \in Indices : Entry(h).status = "Completed"]_vars
  BY <1>1
<1> QED
  BY <1>2, Invariant, PTL DEF Spec, SuccessMeansDone

=============================================================================
