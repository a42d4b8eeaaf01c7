----------------------------- MODULE TaskSystem ------------------------------
(***************************************************************************)
(* The task system of src/source/common/tasksystem.cpp.  Tasks live on two *)
(* tapes: tape 0 holds regular entries, tape 1 the heads of coroutines.    *)
(* Every thread repeatedly locks one mutex, completes the task it has run, *)
(* and scans the tapes for a task that can be run; tasks run outside the   *)
(* lock and may add tasks.  The main thread leaves when it sees nothing    *)
(* left to choose, and meets the workers at a barrier.                     *)
(*                                                                         *)
(* Everything done under the mutex is one step.  What a task computes is   *)
(* left out; what it does to the task system is not.                       *)
(***************************************************************************)
EXTENDS Integers, Sequences, FiniteSets

CONSTANTS Main, Workers,    \* the threads
          Loads             \* what the clients of the system may be, see below

AllFeatures == {"task", "coro",
                "mainonly",  \* tasks with the affinity OnlyMainThread
                "dynamic",   \* running tasks add tasks
                "throw"}     \* running tasks throw exceptions

\* indices are the ranges, a begin and a length, of addForIndicesInRange, subranges
\* those of addForSubrangesInRange, with the length of the subranges.  Bounds:
\* maxEntries of tape 0, maxCoros of tape 1, maxDeps of a task, maxRounds of executions.
LoadType == [features : SUBSET AllFeatures, indices : SUBSET (Nat \X Nat),
             subranges : SUBSET (Nat \X Nat \X (Nat \ {0})), maxEntries : Nat, maxCoros : Nat, maxDeps : Nat, maxRounds : Nat]

ASSUME ThreadsAssumption == Main \notin Workers /\ IsFiniteSet(Workers)
ASSUME LoadsAssumption   == /\ Loads \subseteq LoadType
                            /\ \A l \in Loads : \A r \in l.indices \cup l.subranges : r[1] + r[2] < 2^17

VARIABLES
  tape,        \* the entries of both tapes
  startScan,   \* startScanFrom of both tapes
  finished,    \* the coroutines whose m_completed is set
  awaits,      \* awaitsCompletion
  shutting,    \* isShuttingDown
  signaled,    \* signalingFlags
  arrived,     \* threads that have arrived at the barrier
  used,        \* the workers of this execution
  status,      \* completionStatuses, and what threadExecTasks returned to Main
  pc, chosen,  \* what a thread does, and the handle of the entry it has chosen
  pending,     \* pendingCompletionIndex of each thread
  turn,        \* startFromTapeIndex of each thread
  calls,       \* history: how often the entries of tape 0 and 1 were called
  rounds,      \* bound: calls of startExecution so far
  load         \* the clients of this behaviour

taskVars   == <<tape, startScan, finished, calls>>
syncVars   == <<awaits, shutting, signaled, arrived, used, status, rounds, load>>
threadVars == <<pc, chosen, pending, turn>>
vars       == <<taskVars, syncVars, threadVars>>

Threads    == {Main} \cup Workers
None       == <<0, 0>>
MaxEntries == load.maxEntries
MaxCoros   == load.maxCoros
Features   == load.features
EmptyTapes == [k \in 0..1 |-> <<>>]

Init ==
  /\ tape = EmptyTapes /\ startScan = [k \in 0..1 |-> 1] /\ finished = {}
  /\ calls = [k \in 0..1 |-> <<>>]
  /\ awaits = FALSE /\ shutting = FALSE /\ signaled = {} /\ arrived = 0 /\ used = {}
  /\ status = [t \in Threads |-> "pending"]
  /\ rounds = 0 /\ load \in Loads
  /\ pc = [t \in Threads |-> IF t = Main THEN "idle" ELSE "parked"]
  /\ chosen = [t \in Threads |-> None] /\ pending = [t \in Threads |-> None]
  /\ turn = [t \in Threads |-> 0]

IsExecuting == pc[Main] \in {"submit", "scan", "run", "leave", "barrier"}

-----------------------------------------------------------------------------
(* Adding entries.                                                         *)

Entry(h) == tape[h[1]][h[2]]

\* The places of the tapes, and those that have entries.
Places  == ({0} \X (1..MaxEntries)) \cup ({1} \X (1..MaxCoros))
Indices == {h \in Places : h[2] \in DOMAIN tape[h[1]]}

\* The handles that clients get to see.
Handles == {h \in Indices : Entry(h).kind \in {"task", "join", "head"}}

DependencySets == {d \in SUBSET Handles : Cardinality(d) <= load.maxDeps}

\* The last coroutine that has to end before the entries do.  Clients do not
\* build cycles: a coroutine waits for what depends on earlier ones at most.
Rank(deps) == IF deps = {} THEN 0
              ELSE LET ranks == {Entry(d).rank : d \in deps} IN CHOOSE r \in ranks : \A q \in ranks : q <= r

NewEntry(kind, affinity, deps) ==
  [kind |-> kind, affinity |-> affinity, deps |-> deps, status |-> "Pending", rank |-> Rank(deps),
   coro |-> 0, dependents |-> {}, satisfied |-> 0, total |-> 0, jump |-> 0, arg |-> <<0, 0>>]

\* Who may add tasks now: Main after startExecution, or a running task.
Submits(t) == \/ t = Main /\ pc[t] = "submit"
              \/ pc[t] = "run" /\ "dynamic" \in Features

Affinities(t) == IF "mainonly" \in Features /\ t = Main THEN {"AnyThread", "OnlyMainThread"}
                 ELSE {"AnyThread"}

Fits(n) == Len(tape[0]) + n <= MaxEntries

Append0(entries) ==
  /\ tape' = [tape EXCEPT ![0] = @ \o entries]
  /\ calls' = [calls EXCEPT ![0] = @ \o [i \in DOMAIN entries |-> 0]]

Add(t) ==
  /\ "task" \in Features /\ Submits(t) /\ Fits(1)
  /\ \E a \in Affinities(t), d \in DependencySets : Append0(<<NewEntry("task", a, d)>>)
  /\ UNCHANGED <<startScan, finished, syncVars, threadVars>>

\* The fork, parallel and join entries of a range, to be put after the first
\* base entries of the tape.  args are the parts of the range, as they are passed
\* to the callable: begin and end of the indices.  (The arg of a fork is history.)
JoinTotal_None(n) == 0
JoinTotal(n)      == n

\* extraScanJump of the fork.
ScanJump_TooFar(workload) == workload + 2
ScanJump(workload)        == workload

ForkEntries(base, a, d, range, args) ==
  LET n == Len(args)
      par == base + 2 .. base + 1 + n
  IN <<[NewEntry("fork", a, d) EXCEPT !.dependents = par, !.arg = range,
                                      !.jump = ScanJump(range[2] - range[1])]>>
     \o [i \in 1..n |-> [NewEntry("parallel", a, {}) EXCEPT !.total = 1, !.rank = Rank(d),
                           !.dependents = {base + 2 + n}, !.arg = args[i]]]
     \o <<[NewEntry("join", a, {}) EXCEPT !.total = JoinTotal(n), !.rank = Rank(d)]>>

AddForRange(t, begin, workload, args) ==
  /\ Submits(t) /\ Fits(Len(args) + 2)
  /\ \E a \in Affinities(t), d \in DependencySets :
        Append0(ForkEntries(Len(tape[0]), a, d, <<begin, begin + workload>>, args))
  /\ UNCHANGED <<startScan, finished, syncVars, threadVars>>

\* One task for each index.
IndexArgs(begin, workload) == [i \in 1..workload |-> <<begin + i - 1, begin + i>>]

AddForIndicesInRange(t) ==
  \E r \in load.indices : AddForRange(t, r[1], r[2], IndexArgs(r[1], r[2]))

\* One task for each subrange, the last of which may be shorter.
NumTasks(workload, length) == (workload + length - 1) \div length

\* The bounds share one word of 32 bits, which is taken apart at the call: start
\* is shifted by 16 bits, and a 17th bit of end gets to its lowest bit.
Packed(start, end) ==
  LET high == start % 2^16
  IN <<IF end >= 2^16 /\ high % 2 = 0 THEN high + 1 ELSE high, end % 2^16>>

SubrangeArgs_NoClamp(begin, workload, length) ==
  [i \in 1..NumTasks(workload, length) |-> Packed(begin + (i - 1) * length, begin + i * length)]

SubrangeArgs(begin, workload, length) ==
  [i \in 1..NumTasks(workload, length) |->
     LET end == begin + i * length
     IN Packed(begin + (i - 1) * length, IF end > workload + begin THEN workload + begin ELSE end)]

AddForSubrangesInRange(t) ==
  \E r \in load.subranges : AddForRange(t, r[1], r[2], SubrangeArgs(r[1], r[2], r[3]))

\* The coroutine is created suspended, with its head entry on tape 1.
AddCoro(t) ==
  /\ "coro" \in Features /\ Submits(t) /\ Len(tape[1]) < MaxCoros
  /\ LET c == Len(tape[1]) + 1
     IN \E a \in Affinities(t), d \in DependencySets :
          tape' = [tape EXCEPT ![1] = Append(@, [NewEntry("head", a, d) EXCEPT !.coro = c, !.rank = c])]
  /\ calls' = [calls EXCEPT ![1] = Append(@, 0)]
  /\ UNCHANGED <<startScan, finished, syncVars, threadVars>>

-----------------------------------------------------------------------------
(* threadExecTasks.                                                        *)

\* completeEntry.
CompleteEntry(entries, i) ==
  [j \in DOMAIN entries |->
     IF j = i THEN [entries[j] EXCEPT !.status = "Completed"]
     ELSE IF j \in entries[i].dependents THEN [entries[j] EXCEPT !.satisfied = @ + 1]
     ELSE entries[j]]

\* checkSatisfiedDependencies.
Satisfied_NoSignaled(t0, t1, e) ==
  /\ \A d \in e.deps : d[1] = 0 => t0[d[2]].status = "Completed"
  /\ e.satisfied = e.total

Satisfied(t0, t1, e) ==
  /\ \A d \in e.deps : IF d[1] = 0 THEN t0[d[2]].status = "Completed"
                                   ELSE t1[d[2]].status = "Completed"
  /\ e.satisfied = e.total

Eligible_AnyThread(t, e) == e.status = "Pending"

Eligible(t, e) == e.status = "Pending" /\ (e.affinity = "AnyThread" \/ t = Main)

Least(S) == IF S = {} THEN 0 ELSE CHOOSE i \in S : \A j \in S : i <= j

\* The entries that stop the advance of startScanFrom.
Open_SkipsBusy(k, entries) ==
  {i \in startScan[k]..Len(entries) : entries[i].status = "Pending"}

Open(k, entries) ==
  {i \in startScan[k]..Len(entries) :
     \/ entries[i].status = "Pending"
     \/ k = 1 /\ entries[i].status = "Busy"}

\* The entry that a scan of tape 0 chooses: it jumps over the dependents of a
\* fork whose dependencies are not satisfied.
Choose0(t, t0, t1) ==
  LET Reached[i \in 1..Len(t0)] ==
        /\ i >= startScan[0]
        /\ \A j \in startScan[0]..(i - 1) :
              t0[j].jump + j >= i /\ Eligible(t, t0[j]) /\ ~Satisfied(t0, t1, t0[j]) => ~Reached[j]
  IN Least({i \in DOMAIN t0 : Eligible(t, t0[i]) /\ Satisfied(t0, t1, t0[i]) /\ Reached[i]})

\* A scan of tape 1 completes the entries of finished coroutines on its way,
Completes1(t1, end) ==
  [i \in DOMAIN t1 |-> IF i >= startScan[1] /\ i < end /\ t1[i].status = "Busy" /\ i \in finished
                         THEN [t1[i] EXCEPT !.status = "Completed"] ELSE t1[i]]

\* so that those after them may depend on them.
Choose1(t, t0, t1) ==
  Least({i \in startScan[1]..Len(t1) : Eligible(t, t1[i]) /\ Satisfied(t0, Completes1(t1, i), t1[i])})

\* The scan of both tapes, beginning with the given one: the chosen entry, the
\* tapes after it, and the tape whose startScanFrom moves (2 if none does).
ScanResult(t, first, t0) ==
  LET c1 == Choose1(t, t0, tape[1])
      after1 == Completes1(tape[1], IF c1 = 0 THEN Len(tape[1]) + 1 ELSE c1)
      c0 == Choose0(t, t0, IF first = 0 THEN tape[1] ELSE after1)
      c == IF first = 0 THEN (IF c0 # 0 THEN <<0, c0>> ELSE IF c1 # 0 THEN <<1, c1>> ELSE None)
                        ELSE (IF c1 # 0 THEN <<1, c1>> ELSE IF c0 # 0 THEN <<0, c0>> ELSE None)
      scanned1 == first = 1 \/ c[1] = 1 \/ c = None
      open == [k \in 0..1 |-> Open(k, IF k = 0 THEN t0 ELSE tape[1])]
  IN [chosen |-> c,
      entries |-> [k \in 0..1 |-> IF k = 0 THEN t0 ELSE IF scanned1 THEN after1 ELSE tape[1]],
      moved |-> IF open[first] # {} THEN first ELSE IF open[1 - first] # {} THEN 1 - first ELSE 2,
      to |-> IF open[first] # {} THEN Least(open[first]) ELSE Least(open[1 - first])]

\* The chosen entry is taken from the other threads.
TakeEntry_Not(entries, h) == entries
TakeEntry(entries, h)     == [entries EXCEPT ![h[1]][h[2]].status = "Busy"]

HasCallable(h) == Entry(h).kind \notin {"fork", "join"}

\* One pass through the loop with the mutex held.
Scan(t) ==
  /\ pc[t] = "scan"
  /\ LET first == 1 - turn[t]
         t0 == IF pending[t] = None THEN tape[0] ELSE CompleteEntry(tape[0], pending[t][2])
         r == ScanResult(t, first, t0)
         h == r.chosen
     IN /\ turn' = [turn EXCEPT ![t] = first]
        /\ startScan' = IF r.moved = 2 THEN startScan ELSE [startScan EXCEPT ![r.moved] = r.to]
        /\ IF h # None
             THEN /\ tape' = TakeEntry(r.entries, h)
                  /\ IF HasCallable(h)
                       THEN /\ pc' = [pc EXCEPT ![t] = "run"]
                            /\ chosen' = [chosen EXCEPT ![t] = h]
                            /\ calls' = [calls EXCEPT ![h[1]][h[2]] = @ + 1]
                            /\ pending' = [pending EXCEPT ![t] = None]
                       ELSE /\ pending' = [pending EXCEPT ![t] = h]
                            /\ UNCHANGED <<pc, chosen, calls>>
             ELSE /\ tape' = r.entries
                  /\ pc' = [pc EXCEPT ![t] = IF r.moved # 2 THEN "scan"
                                             ELSE IF t = Main THEN "leave" ELSE "check"]
                  /\ pending' = [pending EXCEPT ![t] = None]
                  /\ UNCHANGED <<chosen, calls>>
  /\ UNCHANGED <<finished, syncVars>>

\* The task returns; a head entry is not completed by that.
Leaves(t) == /\ pc' = [pc EXCEPT ![t] = "scan"]
             /\ pending' = [pending EXCEPT ![t] = IF chosen[t][1] = 0 THEN chosen[t] ELSE None]
             /\ chosen' = [chosen EXCEPT ![t] = None]
             /\ UNCHANGED <<turn, syncVars, startScan>>

TaskReturns(t) ==
  /\ pc[t] = "run" /\ Entry(chosen[t]).coro = 0
  /\ Leaves(t)
  /\ UNCHANGED <<tape, finished, calls>>

\* FinalSuspend.
CoroFinishes(t) ==
  /\ pc[t] = "run" /\ Entry(chosen[t]).coro # 0
  /\ finished' = finished \cup {Entry(chosen[t]).coro}
  /\ Leaves(t)
  /\ UNCHANGED <<tape, calls>>

\* TaskAwaiter: the coroutine is suspended and will be resumed as a task.
CoroAwaits_RunsOn(t) ==
  /\ pc[t] = "run" /\ Entry(chosen[t]).coro # 0 /\ Fits(1)
  /\ LET e == Entry(chosen[t])
     IN \E d \in DependencySets :
          /\ Rank(d) < e.coro
          /\ Append0(<<[NewEntry("resume", e.affinity, d) EXCEPT !.coro = e.coro]>>)
  /\ UNCHANGED <<threadVars, syncVars, startScan, finished>>

CoroAwaits(t) ==
  /\ pc[t] = "run" /\ Entry(chosen[t]).coro # 0 /\ Fits(1)
  /\ LET e == Entry(chosen[t])
     IN \E d \in DependencySets :
          /\ Rank(d) < e.coro
          /\ Append0(<<[NewEntry("resume", e.affinity, d) EXCEPT !.coro = e.coro]>>)
  /\ Leaves(t)
  /\ UNCHANGED finished

\* An exception leaves threadExecTasks; the entry stays busy.
TaskThrows(t) ==
  /\ "throw" \in Features
  /\ pc[t] = "run" /\ Entry(chosen[t]).coro = 0
  /\ pc' = [pc EXCEPT ![t] = IF t = Main THEN "leave" ELSE "arrive"]
  /\ status' = [status EXCEPT ![t] = "failure"]
  /\ chosen' = [chosen EXCEPT ![t] = None]
  /\ UNCHANGED <<taskVars, pending, turn, awaits, shutting, signaled, arrived, used, rounds, load>>

\* A worker that has seen nothing to do leaves if Main has left.
CheckAwaits(t) ==
  /\ pc[t] = "check"
  /\ pc' = [pc EXCEPT ![t] = IF awaits THEN "arrive" ELSE "scan"]
  /\ UNCHANGED <<taskVars, syncVars, chosen, pending, turn>>

-----------------------------------------------------------------------------
(* Executions.                                                             *)

StartExecution ==
  /\ pc[Main] = "idle" /\ ~shutting /\ rounds < load.maxRounds
  /\ \E U \in SUBSET Workers : used' = U /\ signaled' = U
  /\ status' = [t \in Threads |-> "pending"]
  /\ pc' = [pc EXCEPT ![Main] = "submit"]
  /\ rounds' = rounds + 1
  /\ UNCHANGED <<taskVars, awaits, shutting, arrived, load, chosen, pending, turn>>

\* threadLoopFunc.
WorkerWakes(w) ==
  /\ pc[w] = "parked" /\ w \in signaled
  /\ signaled' = signaled \ {w}
  /\ pc' = [pc EXCEPT ![w] = IF shutting THEN "gone" ELSE "scan"]
  /\ turn' = [turn EXCEPT ![w] = 0]
  /\ UNCHANGED <<taskVars, awaits, shutting, arrived, used, status, rounds, load, chosen, pending>>

WorkerArrives_KeepsStatus(w) ==
  /\ pc[w] = "arrive"
  /\ status' = [status EXCEPT ![w] = "success"]
  /\ arrived' = arrived + 1
  /\ pc' = [pc EXCEPT ![w] = "parked"]
  /\ UNCHANGED <<taskVars, awaits, shutting, signaled, used, rounds, load, chosen, pending, turn>>

WorkerArrives(w) ==
  /\ pc[w] = "arrive"
  /\ status' = [status EXCEPT ![w] = IF @ = "failure" THEN "failure" ELSE "success"]
  /\ arrived' = arrived + 1
  /\ pc' = [pc EXCEPT ![w] = "parked"]
  /\ UNCHANGED <<taskVars, awaits, shutting, signaled, used, rounds, load, chosen, pending, turn>>

\* awaitCompletion: Main works too,
AwaitCompletion ==
  /\ pc[Main] = "submit"
  /\ pc' = [pc EXCEPT ![Main] = "scan"] /\ turn' = [turn EXCEPT ![Main] = 0]
  /\ UNCHANGED <<taskVars, syncVars, chosen, pending>>

\* then releases the workers and arrives for those that stay parked,
MainLeaves_NoBalance ==
  /\ pc[Main] = "leave"
  /\ awaits' = TRUE
  /\ arrived' = arrived + 1
  /\ pc' = [pc EXCEPT ![Main] = "barrier"]
  /\ UNCHANGED <<taskVars, shutting, signaled, used, status, rounds, load, chosen, pending, turn>>

MainLeaves ==
  /\ pc[Main] = "leave"
  /\ awaits' = TRUE
  /\ arrived' = arrived + 1 + Cardinality(Workers \ used)
  /\ pc' = [pc EXCEPT ![Main] = "barrier"]
  /\ UNCHANGED <<taskVars, shutting, signaled, used, status, rounds, load, chosen, pending, turn>>

\* and returns when all have arrived.
Succeeded == status[Main] # "failure" /\ \A w \in used : status[w] = "success"

AwaitReturns_NoWait ==
  /\ pc[Main] = "barrier"
  /\ arrived' = 0 /\ awaits' = FALSE /\ used' = {}
  /\ pc' = [pc EXCEPT ![Main] = "idle"]
  /\ tape' = EmptyTapes /\ startScan' = [k \in 0..1 |-> 1] /\ finished' = {}
  /\ calls' = [k \in 0..1 |-> <<>>]
  /\ UNCHANGED <<shutting, signaled, status, rounds, load, chosen, pending, turn>>

AwaitReturns ==
  /\ pc[Main] = "barrier" /\ arrived = Cardinality(Threads)
  /\ arrived' = 0 /\ awaits' = FALSE /\ used' = {}
  /\ pc' = [pc EXCEPT ![Main] = "idle"]
  /\ tape' = EmptyTapes /\ startScan' = [k \in 0..1 |-> 1] /\ finished' = {}
  /\ calls' = [k \in 0..1 |-> <<>>]
  /\ UNCHANGED <<shutting, signaled, status, rounds, load, chosen, pending, turn>>

\* The destructor.
Destroy ==
  /\ pc[Main] = "idle" /\ ~shutting
  /\ shutting' = TRUE /\ signaled' = Workers
  /\ UNCHANGED <<taskVars, threadVars, awaits, arrived, used, status, rounds, load>>

Destroyed ==
  /\ pc[Main] = "idle" /\ shutting /\ \A w \in Workers : pc[w] = "gone"
  /\ pc' = [pc EXCEPT ![Main] = "gone"]
  /\ UNCHANGED <<taskVars, syncVars, chosen, pending, turn>>

-----------------------------------------------------------------------------

AddsTask(t)  == Add(t) \/ AddForIndicesInRange(t) \/ AddForSubrangesInRange(t) \/ AddCoro(t)
TaskEnds(t)  == TaskReturns(t) \/ CoroFinishes(t)
Client(t)    == AddsTask(t) \/ TaskEnds(t) \/ CoroAwaits(t) \/ TaskThrows(t)
Worker(w)    == WorkerWakes(w) \/ CheckAwaits(w) \/ WorkerArrives(w)
MainStep     == MainLeaves \/ AwaitReturns \/ Destroyed
MainCalls    == StartExecution \/ AwaitCompletion \/ Destroy

Next == \/ MainCalls \/ MainStep
        \/ \E t \in Threads : Client(t) \/ Scan(t)
        \/ \E w \in Workers : Worker(w)

\* Threads run, get the mutex, and tasks end.
Fairness == /\ WF_vars(MainStep)
            /\ \A t \in Threads : WF_vars(Scan(t)) /\ WF_vars(TaskEnds(t))
            /\ \A w \in Workers : WF_vars(Worker(w))

Spec     == Init /\ [][Next]_vars
FairSpec == Spec /\ Fairness

-----------------------------------------------------------------------------
(* Properties.                                                             *)

EntryType == [kind : {"task", "fork", "parallel", "join", "head", "resume"},
              affinity : {"AnyThread", "OnlyMainThread"},
              deps : SUBSET Places, status : {"Pending", "Busy", "Completed"},
              rank : 0..MaxCoros, coro : 0..MaxCoros, dependents : SUBSET (1..MaxEntries),
              satisfied : Nat, total : Nat, jump : Nat, arg : Nat \X Nat]

\* The types, and the assertions on the counters of pushed dependencies and
\* of the barrier.
TypeOK ==
  /\ \A k \in 0..1 : /\ startScan[k] \in 1..Len(tape[k]) + 1
                      /\ DOMAIN calls[k] = DOMAIN tape[k]
                      /\ \A i \in DOMAIN tape[k] : /\ tape[k][i] \in EntryType
                                                   /\ tape[k][i].satisfied <= tape[k][i].total
  /\ finished \subseteq 1..MaxCoros
  /\ {awaits, shutting} \subseteq BOOLEAN
  /\ signaled \subseteq Workers /\ used \subseteq Workers
  /\ arrived \in 0..Cardinality(Threads)
  /\ status \in [Threads -> {"pending", "success", "failure"}]
  /\ pc \in [Threads -> {"idle", "submit", "parked", "scan", "run", "check", "leave", "arrive",
                         "barrier", "gone"}]
  /\ turn \in [Threads -> 0..1]
  /\ \A t \in Threads : {chosen[t], pending[t]} \subseteq {None} \cup Places

\* Whatever is started has all its dependencies completed, and a coroutine is
\* completed only after its last resumption.
DependenciesRespected ==
  \A h \in Indices :
     /\ Entry(h).status # "Pending" => \A d \in Entry(h).deps : Entry(d).status = "Completed"
     /\ h[1] = 1 /\ Entry(h).status = "Completed" =>
          /\ h[2] \in finished
          /\ \A r \in Indices : Entry(r).coro = h[2] => Entry(r).status # "Pending"

\* "add dependencies between parallel and join tasks": the handle of a range
\* stands for all of it, so it is not completed before the range is.
JoinWaitsForRange ==
  \A f \in DOMAIN tape[0] :
     tape[0][f].kind = "fork" =>
        LET join == f + Cardinality(tape[0][f].dependents) + 1
        IN tape[0][join].status # "Pending" => \A i \in f..(join - 1) : tape[0][i].status = "Completed"

\* The tasks of a range are called with every index of it once, also in the last
\* subrange and next to the largest index that 16 bits hold.
IndicesCoveredOnce ==
  \A f \in DOMAIN tape[0] :
     tape[0][f].kind = "fork" =>
        LET bounds == [i \in tape[0][f].dependents |-> tape[0][i].arg]
            range  == tape[0][f].arg
            covers(i, x) == bounds[i][1] <= x /\ x < bounds[i][2]
        IN \A x \in {range[1], range[2] - 1} \cup UNION {{bounds[i][1], bounds[i][2] - 1, bounds[i][2]} : i \in DOMAIN bounds} :
              Cardinality({i \in DOMAIN bounds : covers(i, x)}) = IF range[1] <= x /\ x < range[2] THEN 1 ELSE 0

\* No task is called twice, and none is completed without a call.
CalledOnce ==
  \A h \in Indices : /\ calls[h[1]][h[2]] <= 1
                     /\ Entry(h).status # "Pending" /\ HasCallable(h) => calls[h[1]][h[2]] = 1

\* A coroutine is never run by two threads at once, nor when it is finished.
OneThreadPerCoroutine ==
  \A t \in Threads : pc[t] = "run" /\ Entry(chosen[t]).coro # 0 =>
     /\ Entry(chosen[t]).coro \notin finished
     /\ \A u \in Threads \ {t} : pc[u] = "run" => Entry(chosen[u]).coro # Entry(chosen[t]).coro

\* OnlyMainThread tasks, the resumptions of such coroutines too, run in Main.
AffinityRespected ==
  \A t \in Workers : pc[t] = "run" => Entry(chosen[t]).affinity = "AnyThread"

\* What lies before startScanFrom will never have to be looked at again.
ScanStartSound ==
  \A h \in Indices : h[2] < startScan[h[1]] =>
     Entry(h).status = "Completed" \/ (h[1] = 0 /\ Entry(h).status = "Busy")

\* Outside of an execution, when the tapes get cleared, no worker uses them.
ClearIsAlone == ~IsExecuting => \A w \in Workers : pc[w] \in {"parked", "gone"}

\* awaitCompletion returns true only when all tasks are completed.
SuccessMeansDone ==
  [][AwaitReturns /\ Succeeded => \A h \in Indices : Entry(h).status = "Completed"]_vars

\* Tasks are called once, when all that they depend on is completed, and ranges
\* stand for all of their indices.
TasksSound ==
  TypeOK /\ CalledOnce /\ DependenciesRespected /\ JoinWaitsForRange /\ IndicesCoveredOnce

\* A coroutine is run by one thread at a time, and by one that it may run on.
CoroutinesSound == OneThreadPerCoroutine /\ AffinityRespected

\* Nobody passes over work on the tapes, or uses them when they get cleared.
TapesSound == ScanStartSound /\ ClearIsAlone

\* awaitCompletion returns.
AwaitEnds == (pc[Main] = "scan") ~> (pc[Main] = "idle")

\* A task whose dependencies are satisfied is started: a scan may jump over
\* "subsequent dependents" of a fork only.
Ready(i) == /\ i \in DOMAIN tape[0]
            /\ Eligible(Main, tape[0][i]) /\ Satisfied(tape[0], tape[1], tape[0][i])
ReadyTasksRun == \A i \in UNION {1..l.maxEntries : l \in Loads} : (pc[Main] # "submit" /\ Ready(i)) ~> ~Ready(i)

\* The comment on awaitsCompletion: "Interrupt workers which may spin on this
\* variable".
WorkersAreInterrupted == awaits ~> ~awaits
=============================================================================
