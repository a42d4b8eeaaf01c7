------------------------- MODULE TaskSystemInvariant -------------------------
(***************************************************************************)
(* The inductive invariant of TaskSystem: what the entries of the tapes    *)
(* say of each other, who is responsible for an entry that is busy, and    *)
(* what the threads know of each other between a start and a return.       *)
(***************************************************************************)
EXTENDS TaskSystem

Regular  == tape[0]
Heads    == tape[1]
Join(f)  == f + Cardinality(Regular[f].dependents) + 1
Done(S)  == {i \in S : Regular[i].status = "Completed"}

\* Tape 0 has everything but heads, and tape 1 the head of each coroutine at its
\* number.  Dependencies are entries.
Kinds ==
  /\ tape \in [0..1 -> Seq(EntryType)] /\ calls \in [0..1 -> Seq(Nat)]
  /\ \A k \in 0..1 : Len(calls[k]) = Len(tape[k]) /\ startScan[k] \in 1..Len(tape[k]) + 1
  /\ Len(Regular) <= MaxEntries /\ Len(Heads) <= MaxCoros
  /\ \A i \in DOMAIN Regular : LET e == Regular[i] IN
       /\ e.kind # "head" /\ e.deps \subseteq Indices
       /\ e.coro # 0 <=> e.kind = "resume"
       /\ e.coro <= Len(Heads)
       /\ e.kind \notin {"fork", "parallel"} => e.dependents = {}
       /\ e.kind \notin {"parallel", "join"} => e.total = 0 /\ e.satisfied = 0
  /\ \A i \in DOMAIN Heads : LET e == Heads[i] IN
       /\ e.kind = "head" /\ e.coro = i /\ e.deps \subseteq Indices
       /\ e.total = 0 /\ e.satisfied = 0

\* A fork is followed by the entries of its range and their join, which count
\* what has been completed of that which they wait for.
RangesKept ==
  /\ \A f \in DOMAIN Regular : Regular[f].kind = "fork" =>
       LET join == Join(f)
           range == Regular[f].dependents
       IN /\ join \in DOMAIN Regular /\ range = f + 1..join - 1
          /\ \A p \in range :
               /\ Regular[p].kind = "parallel" /\ Regular[p].dependents = {join} /\ Regular[p].total = 1
               /\ Regular[p].satisfied = IF Regular[f].status = "Completed" THEN 1 ELSE 0
          /\ Regular[join].kind = "join" /\ Regular[join].total = Cardinality(range)
          /\ Regular[join].satisfied = Cardinality(Done(range))
  /\ \A i \in DOMAIN Regular : Regular[i].kind \in {"parallel", "join"} =>
       \E f \in DOMAIN Regular : Regular[f].kind = "fork" /\ i \in Regular[f].dependents \cup {Join(f)}

\* Their arguments are those of one of the calls that clients make.
Arguments ==
  \A f \in DOMAIN Regular : Regular[f].kind = "fork" =>
    LET passed == [i \in 1..Cardinality(Regular[f].dependents) |-> Regular[f + i].arg]
    IN \/ \E r \in load.indices : /\ Regular[f].arg = <<r[1], r[1] + r[2]>>
                                  /\ passed = IndexArgs(r[1], r[2])
       \/ \E r \in load.subranges : /\ Regular[f].arg = <<r[1], r[1] + r[2]>>
                                    /\ passed = SubrangeArgs(r[1], r[2], r[3])

\* What has been taken could be taken, and was called then.
Taken ==
  \A h \in Indices :
     /\ Entry(h).status # "Pending" => /\ Entry(h).satisfied = Entry(h).total
                                       /\ \A d \in Entry(h).deps : Entry(d).status = "Completed"
     /\ calls[h[1]][h[2]] = IF Entry(h).status # "Pending" /\ HasCallable(h) THEN 1 ELSE 0

\* Each thread has taken at most one entry that is not completed, another one each.
Owners ==
  /\ \A t \in Threads :
       /\ IF pc[t] = "run" THEN /\ chosen[t] \in Indices /\ HasCallable(chosen[t])
                                /\ Entry(chosen[t]).status = "Busy"
                                /\ t # Main => Entry(chosen[t]).affinity = "AnyThread"
                           ELSE chosen[t] = None
       /\ pending[t] # None => /\ pc[t] = "scan" /\ pending[t] \in Indices /\ pending[t][1] = 0
                               /\ Entry(pending[t]).status = "Busy"
  /\ \A t, u \in Threads :
       /\ chosen[t] = chosen[u] /\ chosen[t] # None => t = u
       /\ pending[t] = pending[u] /\ pending[t] # None => t = u
       /\ chosen[t] = pending[u] => chosen[t] = None

\* A coroutine is in one place: it waits in an entry, it runs, or it is finished.
Waits(c, h)  == Entry(h).coro = c /\ Entry(h).status = "Pending"
RunsIn(c, t) == pc[t] = "run" /\ Entry(chosen[t]).coro = c

CoroutinesKept ==
  /\ finished \subseteq DOMAIN Heads
  /\ \A c \in DOMAIN Heads :
       /\ \A g, h \in Indices : Waits(c, g) /\ Waits(c, h) => g = h
       /\ \A t, u \in Threads : RunsIn(c, t) /\ RunsIn(c, u) => t = u
       /\ \A h \in Indices, t \in Threads : ~(Waits(c, h) /\ RunsIn(c, t))
       /\ c \in finished => /\ \A h \in Indices : ~Waits(c, h)
                            /\ \A t \in Threads : ~RunsIn(c, t)
       /\ Heads[c].status = "Completed" => c \in finished

\* An execution.  A worker that takes no part in it, or has not woken up, is
\* parked, like those that have arrived.
Arrived == {w \in used \ signaled : pc[w] = "parked"}

Executing ==
  /\ ~shutting /\ signaled \subseteq used /\ used \subseteq Workers
  /\ \A w \in Workers : /\ pc[w] \in {"parked", "scan", "run", "check", "arrive"}
                        /\ w \notin used \/ w \in signaled => pc[w] = "parked"
  /\ awaits <=> pc[Main] = "barrier"
  /\ arrived = Cardinality(Arrived) + IF awaits THEN 1 + Cardinality(Workers \ used) ELSE 0
  /\ \A t \in Threads : status[t] = "failure" => t = Main \/ t \in used

AtRest ==
  /\ pc[Main] \in {"idle", "gone"}
  /\ arrived = 0 /\ used = {} /\ ~awaits /\ tape = EmptyTapes /\ finished = {}
  /\ signaled \subseteq Workers
  /\ \A w \in Workers : pc[w] \in {"parked", "gone"}
  /\ ~shutting => signaled = {} /\ \A w \in Workers : pc[w] = "parked"

Sync == IF IsExecuting THEN Executing ELSE AtRest

\* Busy entries are somebody's, or were left by an exception; and who sees that
\* Main has left with nothing to do, and that there is something, may rely on a
\* worker that has not looked again.
Failed   == \E t \in Threads : status[t] = "failure"
Unclosed == \/ \E i \in DOMAIN Regular : Regular[i].status = "Pending"
            \/ \E i \in DOMAIN Heads : Heads[i].status # "Completed"

NothingLost ==
  Failed \/ /\ \A i \in DOMAIN Regular : Regular[i].status = "Busy" =>
                 \E t \in Threads : <<0, i>> \in {chosen[t], pending[t]}
            /\ pc[Main] \in {"leave", "barrier"} /\ Unclosed =>
                 \E w \in Workers : pc[w] \in {"scan", "run"}

Types ==
  /\ load \in Loads /\ rounds \in Nat
  /\ startScan \in [0..1 -> Nat]
  /\ {awaits, shutting} \subseteq BOOLEAN
  /\ status \in [Threads -> {"pending", "success", "failure"}]
  /\ pc \in [Threads -> {"idle", "submit", "parked", "scan", "run", "check", "leave", "arrive",
                         "barrier", "gone"}]
  /\ turn \in [Threads -> 0..1]
  /\ chosen \in [Threads -> {None} \cup Places] /\ pending \in [Threads -> {None} \cup Places]

IInv ==
  /\ Types /\ Kinds /\ RangesKept /\ Arguments /\ Taken /\ Owners /\ CoroutinesKept
  /\ ScanStartSound /\ Sync /\ NothingLost
=============================================================================
