--------------------------- MODULE MCBuiltinServer ---------------------------
(* Instances of BuiltinServer: each scenario names the inputs that may happen, *)
(* in any order and at any moment.                                             *)
EXTENDS BuiltinServerInvariant

MCScenarios == {AllInputs, {"map", "gamemap", "quit"}}
MCLeaving   == {{"map", "connect", "disconnect"}}
=============================================================================
