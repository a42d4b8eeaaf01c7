---------------------- MODULE OobConnectionInvariant -------------------------
(***************************************************************************)
(* The inductive invariant of OobConnection: a challenge is for one host   *)
(* and is spent by the slot that it got, and the packets on their way to   *)
(* and from a client that has been answered cannot get it another one.     *)
(***************************************************************************)
EXTENDS OobConnection

\* The challenges that are not used yet, of which a host has one.
ChallengesSound ==
  /\ IsFiniteSet(server.challenges)
  /\ \A e \in server.challenges : e.challenge \in 1..server.issued
  /\ \A e, f \in server.challenges : e.host = f.host \/ e.challenge = f.challenge => e = f

\* A challenge has got one slot at most, and can get no other one.
ChallengesSpent ==
  \A i \in Slots : server.slots[i].client \in Clients =>
    /\ server.slots[i].challenge \in 1..server.issued
    /\ \A e \in server.challenges : e.challenge # server.slots[i].challenge
    /\ \A j \in Slots \ {i} : server.slots[j].client \in Clients =>
                                server.slots[j].challenge # server.slots[i].challenge

\* Packets know of no challenge that is still to be issued.
PacketsSound ==
  \A c \in Clients :
    /\ \A k \in 1..Len(server.net[c]) : server.net[c][k].content <= server.issued
    /\ \A k \in 1..Len(clients[c].net) : clients[c].net[k].content <= server.issued

Heard(c) == \A i \in Slots : IsLive(server.slots[i]) /\ server.slots[i].client = c => server.slots[i].heard

\* The client has been answered, or the answer is on its way.
Answered(c) == \/ HasConnection(clients[c])
               \/ \E k \in 1..Len(server.net[c]) : server.net[c][k].kind = "client_connect"

\* As long as packets come in order: no connect that follows an answer is
\* accepted, so what the server says of a level after its answer it says in the
\* connection that it has.
NothingFollowsAnAnswer(c) ==
  /\ Answered(c) => \A k \in 1..Len(clients[c].net) :
                      clients[c].net[k].kind = "connect" => ~ChallengeIsValid(server, c, clients[c].net[k].content)
  /\ \A k \in 1..Len(server.net[c]) : server.net[c][k].kind = "client_connect" =>
       \A j \in 1..(k - 1) :
         server.net[c][j].kind = "challenge" => ~ChallengeIsValid(server, c, server.net[c][j].content)
  /\ \A k \in 1..Len(server.net[c]) :
       /\ server.net[c][k].kind = "serverdata"
       /\ \/ clients[c].state = "CA_HANDSHAKE"
          \/ \E j \in 1..(k - 1) : server.net[c][j].kind = "client_connect"
       => Heard(c)
  /\ clients[c].state = "CA_CONNECTED" => Heard(c)

AnswersSound == counts.delays = 0 => \A c \in Clients : NothingFollowsAnAnswer(c)

IInv == /\ TypeOK /\ ChallengesSound /\ ChallengesSpent /\ PacketsSound /\ OneSlotPerClient
        /\ HostLimitKept /\ AnswersSound
===============================================================================
