--------------------------- MODULE MCOobConnection ---------------------------
(* Instances of OobConnection for TLC, with two clients. *)
EXTENDS OobConnectionInvariant

OneHost  == [c \in Clients |-> "h1"]
TwoHosts == [c \in Clients |-> IF c = "c1" THEN "h1" ELSE "h2"]

Attempts(n1, n2) == [c \in Clients |-> IF c = "c1" THEN n1 ELSE n2]

Scenario(hostOf, ipLimit, refuses, answers, resends, attempts, inFlight, bots, kicks, losses, delays, rebinds) ==
  [hostOf |-> hostOf, ipLimit |-> ipLimit, refuses |-> refuses, answers |-> answers,
   resends |-> resends, attempts |-> attempts, inFlight |-> inFlight, bots |-> bots, kicks |-> kicks,
   losses |-> losses, delays |-> delays, rebinds |-> rebinds]

\* A client that connects again and again; clients of one host; clients of
\* two hosts and one challenge; bots; no server.
MCScenarios == {Scenario(OneHost, 0, FALSE, TRUE, 1, Attempts(2, 0), 2, 0, 0, 1, 1, 0),
                Scenario(OneHost, 2, FALSE, TRUE, 1, Attempts(2, 0), 2, 0, 1, 1, 0, 1),
                Scenario(OneHost, 1, FALSE, TRUE, 0, Attempts(1, 1), 1, 0, 0, 1, 0, 0),
                Scenario(TwoHosts, 0, FALSE, TRUE, 0, Attempts(1, 1), 1, 0, 0, 0, 0, 0),
                Scenario(TwoHosts, 0, TRUE, TRUE, 0, Attempts(1, 1), 1, 2, 0, 0, 0, 0),
                Scenario(OneHost, 0, FALSE, FALSE, 2, Attempts(2, 0), 2, 0, 0, 0, 0, 0)}
===============================================================================
