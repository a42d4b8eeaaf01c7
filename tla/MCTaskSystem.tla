----------------------------- MODULE MCTaskSystem ----------------------------
(* Instances of TaskSystem.  The clients' tasks are arbitrary within the     *)
(* bounds: whatever is added, when and by whom, with whatever dependencies.  *)
EXTENDS TaskSystemInvariant, TLC

Symmetry == Permutations(Workers)

Load(features, indices, subranges, entries, coros, executions) ==
  [features |-> features, indices |-> indices, subranges |-> subranges, maxEntries |-> entries,
   maxCoros |-> coros, maxDeps |-> 1, maxRounds |-> executions]

Ranges     == Load({"task", "throw", "dynamic"}, {<<0, 1>>, <<1, 2>>}, {}, 4, 0, 2)
Subranges  == Load({}, {}, {<<1, 65534, 40000>>, <<0, 4, 2>>}, 4, 0, 1)
Coroutines == Load({"coro", "mainonly"}, {}, {}, 3, 2, 1)
Safety     == {Ranges, Subranges, Coroutines}
Live       == {Load({"coro"}, {}, {<<0, 1, 1>>}, 4, 1, 1)}
LongRange  == {Load({"coro"}, {}, {<<0, 4, 4>>}, 4, 1, 1)}
EmptyRange == {Load({"task"}, {}, {<<0, 0, 1>>}, 4, 0, 1)}
WideRange  == {Load({}, {}, {<<1, 65536, 40000>>}, 4, 0, 1)}
=============================================================================
