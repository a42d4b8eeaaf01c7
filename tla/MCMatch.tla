------------------------------- MODULE MCMatch -------------------------------
(* Instances of Match for TLC. *)
EXTENDS Match

Rules(teamBased, challengers, maxPerTeam, warmupLimit, slots, clients, bots, idles, votes, voteChanges, votePercent, operators) ==
  [teamBased |-> teamBased, challengers |-> challengers, maxPerTeam |-> maxPerTeam,
   warmupLimit |-> warmupLimit, slots |-> slots, clients |-> clients, bots |-> bots, idles |-> idles,
   votes |-> votes, voteChanges |-> voteChanges,
   votePercent |-> votePercent, operators |-> operators]

\* Everybody for himself, with a bot; two teams; duels with challengers; votes to
\* kick or remove, of two clients or of an operator; votes for the start of the
\* match that a single client can carry, if it does not change its mind.
MCScenarios == {Rules(FALSE, FALSE, 0, TRUE, 3, 3, 1, TRUE, {}, 2, 55, FALSE),
                Rules(TRUE, FALSE, 0, FALSE, 3, 3, 0, FALSE, {}, 2, 55, FALSE),
                Rules(TRUE, TRUE, 1, TRUE, 3, 3, 0, FALSE, {}, 2, 55, FALSE),
                Rules(FALSE, FALSE, 0, FALSE, 2, 2, 0, FALSE, {"kick", "remove"}, 1, 55, FALSE),
                Rules(FALSE, FALSE, 0, FALSE, 2, 1, 0, TRUE, {"kick"}, 2, 55, TRUE),
                Rules(TRUE, FALSE, 0, FALSE, 2, 2, 0, FALSE, {"allready", "lock", "unlock"}, 1, 40, FALSE)}
===============================================================================
