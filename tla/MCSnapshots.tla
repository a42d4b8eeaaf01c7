----------------------------- MODULE MCSnapshots -----------------------------
(* Instances of Snapshots for TLC. *)
EXTENDS Snapshots

MCEnts      == {1, 2}
MCBaselines == <<1, 2>>

\* Entities change, come and go.
MCWorlds == <<<<3, 0>>, <<1, 4>>, <<1, 0>>, <<0, 4>>, <<3, 4>>, <<3, 2>>, <<0, 2>>, <<1, 2>>>>

Scenario(frames, losses, commands, moves, records, inFlight) ==
  [frames |-> frames, losses |-> losses, commands |-> commands, moves |-> moves, records |-> records,
   inFlight |-> inFlight, worlds |-> MCWorlds]

\* Snapshots that are lost, game commands, user commands, a demo.
MCScenarios == {Scenario(5, 3, 0, 0, 0, 2), Scenario(4, 1, 2, 0, 0, 2), Scenario(2, 1, 0, 5, 0, 1),
                Scenario(5, 1, 0, 0, 1, 1)}
===============================================================================
