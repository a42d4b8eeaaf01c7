---------------------------- MODULE OobConnection ----------------------------
(***************************************************************************)
(* How clients get a slot of the server and lose it (server/sv_main.cpp,   *)
(* client/cl_main.cpp): challenges and the out of band messages connect,   *)
(* client_connect and reject, the choice of a slot, bots that make room,   *)
(* the limit of clients per host, disconnecting, kicks, zombies and        *)
(* timeouts.                                                               *)
(*                                                                         *)
(* The network may lose a packet, and may deliver a copy of one later than *)
(* packets that were sent after it.  Time passes in steps that no packet   *)
(* is compared with: the 3 seconds of a client that asks again and of the  *)
(* reconnect limit may end at any time, while a timeout of the connection  *)
(* takes longer than any packet.  What follows once both ends have a       *)
(* connection is Connection's subject: it is two steps here.  A client's   *)
(* game port is its own, so the client stands for it.                      *)
(***************************************************************************)
EXTENDS Naturals, Sequences, FiniteSets

CONSTANTS
  Clients,
  NumSlots,      \* sv_maxclients
  MaxChallenges, \* MAX_CHALLENGES
  Scenarios      \* bounds, and settings that may be one or the other

ASSUME CountsAssumption  == {NumSlots, MaxChallenges} \subseteq Nat \ {0}
ASSUME ClientsAssumption == {"bot", "none"} \cap Clients = {}

\* hostOf gives the host of each client, its address without the port; ipLimit
\* is sv_iplimit; refuses, whether the game module may refuse a client; answers,
\* whether there is a server at the address; resends, how often a client asks for
\* a challenge again (3 times); attempts, how many times each client is told to
\* connect; inFlight, how many packets are on their way to or from a client; the
\* others, how many bots join, clients are kicked, packets are lost, late copies
\* arrive, and routers change a port.
ASSUME ScenariosAssumption ==
  Scenarios \subseteq [hostOf: [Clients -> STRING], ipLimit: Nat, refuses: BOOLEAN, answers: BOOLEAN,
                      resends: Nat, attempts: [Clients -> Nat], inFlight: Nat, bots: Nat, kicks: Nat,
                      losses: Nat, delays: Nat, rebinds: Nat]

Slots == 1..NumSlots
Bot   == "bot"

VARIABLES
  server,  \* the slots, the players of the game module, the challenges, and the packets sent
  clients, \* for each client its state and the packets it has sent
  counts,  \* counted against the bounds
  bounds   \* the scenario

vars == <<server, clients, counts, bounds>>

\* client_t after memset.  heard: it has executed new; recent: the time
\* since lastconnect is below sv_reconnectlimit.
FreeSlot == [state |-> "CS_FREE", client |-> "none", port |-> 0, challenge |-> 0,
             heard |-> FALSE, recent |-> FALSE]

Init ==
  /\ bounds \in Scenarios
  /\ server = [slots |-> [i \in Slots |-> FreeSlot], inGame |-> [i \in Slots |-> FALSE],
               challenges |-> {}, issued |-> 0, net |-> [c \in Clients |-> <<>>]]
  /\ clients = [c \in Clients |-> [state |-> "CA_DISCONNECTED", connectCount |-> 0, port |-> 1,
                                   attempts |-> 0, net |-> <<>>]]
  /\ counts = [bots |-> 0, kicks |-> 0, losses |-> 0, delays |-> 0, rebinds |-> 0]

-----------------------------------------------------------------------------
(* The server.                                                             *)

IsLive(slot)         == slot.state \in {"CS_CONNECTING", "CS_CONNECTED"}
IsInUse(slot)        == slot.state # "CS_FREE"
IsFakeClient(s, i)   == s.slots[i].client = Bot /\ s.inGame[i]

\* A packet for a port that the client does not have any more goes nowhere.
Send(s, c, port, kind, content) ==
  IF port = clients[c].port THEN [s EXCEPT !.net[c] = Append(@, [kind |-> kind, content |-> content])] ELSE s

Reject(s, c, port) == Send(s, c, port, "reject", 0)

\* SV_DropClient.  The game module is not told of a client that has not got
\* past CS_CONNECTING.
DropClient(s, i) ==
  LET slot    == s.slots[i]
      told    == IF slot.client = Bot THEN s ELSE Send(s, slot.client, slot.port, "disconnect", 0)
      leaves  == IsFakeClient(s, i) \/ slot.state = "CS_CONNECTED"
  IN [told EXCEPT !.slots[i].state = "CS_ZOMBIE", !.inGame[i] = @ /\ ~leaves]

\* One challenge for each host; the random number is a new one.  A challenge that
\* is used is reset and so is the oldest to be overwritten.
ChallengesOf(s, c) == {e.challenge : e \in {f \in s.challenges : f.host = bounds.hostOf[c]}}

Oldest(challenges) == CHOOSE e \in challenges : \A f \in challenges : e.challenge <= f.challenge

MakeRoom_Never(s) == s.challenges
MakeRoom(s) == IF Cardinality(s.challenges) = MaxChallenges THEN s.challenges \ {Oldest(s.challenges)}
               ELSE s.challenges

GetChallenge(s, c, port) ==
  IF ChallengesOf(s, c) # {} THEN Send(s, c, port, "challenge", CHOOSE x \in ChallengesOf(s, c) : TRUE)
  ELSE Send([s EXCEPT !.challenges = MakeRoom(s) \cup {[host |-> bounds.hostOf[c], challenge |-> s.issued + 1]},
                      !.issued = @ + 1],
            c, port, "challenge", s.issued + 1)

ChallengeIsValid(s, c, challenge) == challenge \in ChallengesOf(s, c)

UseChallenge_Keeps(s, c) == s
UseChallenge(s, c) == [s EXCEPT !.challenges = {e \in @ : e.host # bounds.hostOf[c]}]

\* Zombies count half.
SameHost(s, c) == {i \in Slots : s.slots[i].client \in Clients /\ bounds.hostOf[s.slots[i].client] = bounds.hostOf[c]}

IPConnectionLimitPassed_CountsOnce(s, c) ==
  \/ bounds.ipLimit = 0
  \/ Cardinality({i \in SameHost(s, c) : IsInUse(s.slots[i])}) < 2 * bounds.ipLimit
IPConnectionLimitPassed(s, c) ==
  \/ bounds.ipLimit = 0
  \/ Cardinality({i \in SameHost(s, c) : s.slots[i].state = "CS_ZOMBIE"})
       + 2 * Cardinality({i \in SameHost(s, c) : IsLive(s.slots[i])}) < 2 * bounds.ipLimit

\* The first slot with the client's address, or with its host and game port;
\* 0 if there is none.
FirstSlot(S) == IF S = {} THEN 0 ELSE CHOOSE i \in S : \A j \in S : i <= j

FindExistingClientSlot_ByAddress(s, c, port) ==
  FirstSlot({i \in SameHost(s, c) : IsInUse(s.slots[i]) /\ s.slots[i].client = c /\ s.slots[i].port = port})
FindExistingClientSlot(s, c, port) ==
  FirstSlot({i \in SameHost(s, c) : IsInUse(s.slots[i]) /\ s.slots[i].client = c})

FreeSlots(s) == {i \in Slots : ~IsInUse(s.slots[i])}
BotSlots(s)  == {i \in Slots : IsInUse(s.slots[i]) /\ IsFakeClient(s, i)}

\* SV_ClientConnect: the slot is cleared even if the game refuses the client.
ClientConnect(s, i, c, port, challenge, accepts) ==
  IF ~accepts THEN [s EXCEPT !.slots[i] = FreeSlot]
  ELSE [s EXCEPT !.slots[i] = [FreeSlot EXCEPT !.state = "CS_CONNECTING", !.client = c, !.port = port,
                                               !.challenge = challenge, !.recent = TRUE],
                 !.inGame[i] = TRUE]

ConnectInto(s, i, c, port, challenge, accepts) ==
  LET connected == ClientConnect(s, i, c, port, challenge, accepts)
  IN IF accepts THEN Send(connected, c, port, "client_connect", 0) ELSE Reject(connected, c, port)

\* A free slot, or else the last bot's.
AssignSlot_AnyFake(s, c, port, challenge, accepts) ==
  IF FreeSlots(s) # {} THEN ConnectInto(s, FirstSlot(FreeSlots(s)), c, port, challenge, accepts)
  ELSE ConnectInto(DropClient(s, NumSlots), NumSlots, c, port, challenge, accepts)
AssignSlot(s, c, port, challenge, accepts) ==
  IF FreeSlots(s) # {} THEN ConnectInto(s, FirstSlot(FreeSlots(s)), c, port, challenge, accepts)
  ELSE IF BotSlots(s) # {}
  THEN LET i == CHOOSE j \in BotSlots(s) : \A k \in BotSlots(s) : k <= j
       IN ConnectInto(DropClient(s, i), i, c, port, challenge, accepts)
  ELSE Reject(s, c, port)

\* HandleOobCommand_Connect.  There is no answer to a client that is too soon,
\* and its challenge is used up.
ConnectRequest(s, c, port, challenge, accepts) ==
  IF ~ChallengeIsValid(s, c, challenge) THEN Reject(s, c, port)
  ELSE LET used     == UseChallenge(s, c)
           existing == FindExistingClientSlot(used, c, port)
       IN IF ~IPConnectionLimitPassed(used, c) THEN Reject(used, c, port)
          ELSE IF existing = 0 THEN AssignSlot(used, c, port, challenge, accepts)
          ELSE IF used.slots[existing].recent THEN used
          ELSE ConnectInto(used, existing, c, port, challenge, accepts)

\* SV_ParseClientMessage, as far as this module goes.
ParseClientMessage(s, i, command) ==
  CASE command = "new"           -> Send([s EXCEPT !.slots[i].heard = TRUE, !.slots[i].state = "CS_CONNECTING"],
                                         s.slots[i].client, s.slots[i].port, "serverdata", 0)
    [] command = "configstrings" -> [s EXCEPT !.slots[i].state = "CS_CONNECTED"]
    [] command = "disconnect"    -> DropClient(s, i)

Sequenced == {"new", "configstrings", "disconnect"}

\* A packet of a connection, for the slot that has the sender's host and game
\* port.  The slot's port is the packet's from then on.
SequencedPacket(s, c, port, command) ==
  LET i == FirstSlot({j \in Slots : IsLive(s.slots[j]) /\ s.slots[j].client = c})
  IN IF i = 0 THEN s ELSE ParseClientMessage([s EXCEPT !.slots[i].port = port], i, command)

ServerReceives(c) ==
  /\ clients[c].net # <<>> /\ Len(server.net[c]) < bounds.inFlight
  /\ clients' = [clients EXCEPT ![c].net = Tail(@)]
  /\ LET p == Head(clients[c].net)
     IN \/ ~bounds.answers /\ UNCHANGED server
        \/ bounds.answers /\ p.kind = "getchallenge" /\ server' = GetChallenge(server, c, p.port)
        \/ /\ bounds.answers /\ p.kind = "connect"
           /\ \E accepts \in {TRUE, ~bounds.refuses} : server' = ConnectRequest(server, c, p.port, p.content, accepts)
        \/ bounds.answers /\ p.kind \in Sequenced /\ server' = SequencedPacket(server, c, p.port, p.kind)
  /\ UNCHANGED <<counts, bounds>>

\* SVC_FakeConnect, and a bot or a player that the game removes.
FakeConnect ==
  /\ counts.bots < bounds.bots /\ FreeSlots(server) # {}
  /\ \E accepts \in {TRUE, ~bounds.refuses} :
       LET i         == FirstSlot(FreeSlots(server))
           connected == ClientConnect(server, i, Bot, 0, 0, accepts)
       IN server' = IF accepts THEN [connected EXCEPT !.slots[i].state = "CS_CONNECTED"] ELSE connected
  /\ counts' = [counts EXCEPT !.bots = @ + 1]
  /\ UNCHANGED <<clients, bounds>>

Kick(i) ==
  /\ counts.kicks < bounds.kicks /\ server.slots[i].state = "CS_CONNECTED"
  /\ server' = DropClient(server, i)
  /\ counts' = [counts EXCEPT !.kicks = @ + 1]
  /\ UNCHANGED <<clients, bounds>>

-----------------------------------------------------------------------------
(* Time passes for the server.                                             *)

\* Nothing has come from the client for long, and nothing will.
IsSilent(c) ==
  /\ clients[c].state \in {"CA_DISCONNECTED", "CA_CONNECTING"}
  /\ clients[c].net = <<>> /\ server.net[c] = <<>>

ReconnectLimitPasses(i) ==
  /\ server.slots[i].recent
  /\ server' = [server EXCEPT !.slots[i].recent = FALSE]
  /\ UNCHANGED <<clients, counts, bounds>>

\* SV_CheckTimeouts: zombies become free, and so do clients that are silent.
TimesOut_ConnectedOnly(slot) == slot.state = "CS_CONNECTED" /\ slot.client # Bot
TimesOut(slot)               == IsLive(slot) /\ slot.client # Bot

CheckTimeouts(i) ==
  /\ \/ /\ server.slots[i].state = "CS_ZOMBIE"
        /\ server' = [server EXCEPT !.slots[i].state = "CS_FREE"]
     \/ /\ TimesOut(server.slots[i]) /\ IsSilent(server.slots[i].client)
        /\ server' = [DropClient(server, i) EXCEPT !.slots[i].state = "CS_FREE"]
  /\ UNCHANGED <<clients, counts, bounds>>

-----------------------------------------------------------------------------
(* The client.                                                             *)

HasConnection(client) == client.state \in {"CA_HANDSHAKE", "CA_CONNECTED"}

SendToServer(client, kind, content) ==
  [client EXCEPT !.net = Append(@, [kind |-> kind, port |-> client.port, content |-> content])]

\* CL_Disconnect: the server is told three times, if there is a connection.
Disconnected(client) ==
  LET told(d) == SendToServer(d, "disconnect", 0)
  IN [IF HasConnection(client) THEN told(told(told(client))) ELSE client
        EXCEPT !.state = "CA_DISCONNECTED", !.connectCount = 0]

Connect(c) ==
  /\ clients[c].attempts < bounds.attempts[c] /\ Len(clients[c].net) < bounds.inFlight
  /\ clients' = [clients EXCEPT ![c] = [Disconnected(clients[c]) EXCEPT !.state = "CA_CONNECTING",
                                                                     !.attempts = clients[c].attempts + 1]]
  /\ UNCHANGED <<server, counts, bounds>>

Disconnect(c) ==
  /\ clients[c].state # "CA_DISCONNECTED" /\ Len(clients[c].net) < bounds.inFlight
  /\ clients' = [clients EXCEPT ![c] = Disconnected(@)]
  /\ UNCHANGED <<server, counts, bounds>>

CountResend_Forgets(client) == client
CountResend(client)         == [client EXCEPT !.connectCount = @ + 1]

CheckForResend(c) ==
  /\ clients[c].state = "CA_CONNECTING" /\ Len(clients[c].net) < bounds.inFlight
  /\ clients' = [clients EXCEPT ![c] =
                   IF @.connectCount > bounds.resends THEN Disconnected(@)
                   ELSE SendToServer(CountResend(@), "getchallenge", 0)]
  /\ UNCHANGED <<server, counts, bounds>>

\* The answer to getchallenge.
Challenge_InAnyState(client, challenge) == SendToServer(client, "connect", challenge)
Challenge(client, challenge) ==
  IF client.state # "CA_CONNECTING" THEN client ELSE SendToServer(client, "connect", challenge)

ClientConnected(client) == IF client.state # "CA_CONNECTING" THEN client ELSE [client EXCEPT !.state = "CA_HANDSHAKE"]
Rejected(client)        == IF client.state # "CA_CONNECTING" THEN client ELSE Disconnected(client)

\* CL_ParseServerMessage, as far as this module goes.
ParseServerMessage(client, kind) ==
  IF ~HasConnection(client) THEN client
  ELSE IF kind = "disconnect" THEN [Disconnected(client) EXCEPT !.net = client.net]
  ELSE IF client.state = "CA_HANDSHAKE" THEN [client EXCEPT !.state = "CA_CONNECTED"] ELSE client

ClientReceives(c) ==
  /\ server.net[c] # <<>>
  /\ server' = [server EXCEPT !.net[c] = Tail(@)]
  /\ LET p == Head(server.net[c])
         client == clients[c]
     IN \/ p.kind = "challenge"      /\ clients' = [clients EXCEPT ![c] = Challenge(client, p.content)]
        \/ p.kind = "client_connect" /\ clients' = [clients EXCEPT ![c] = ClientConnected(client)]
        \/ p.kind = "reject"         /\ clients' = [clients EXCEPT ![c] = Rejected(client)]
        \/ /\ p.kind \in {"serverdata", "disconnect"}
           /\ clients' = [clients EXCEPT ![c] = ParseServerMessage(client, p.kind)]
  /\ UNCHANGED <<counts, bounds>>

\* CL_SendMessagesToServer, with the command that is not acknowledged yet.
ClientSends(c) ==
  /\ HasConnection(clients[c]) /\ clients[c].net = <<>>
  /\ LET command == IF clients[c].state = "CA_HANDSHAKE" THEN "new" ELSE "configstrings"
     IN clients' = [clients EXCEPT ![c] = SendToServer(@, command, 0)]
  /\ UNCHANGED <<server, counts, bounds>>

\* CL_ReadPackets: nothing has come from the server for long, and nothing will.
ClientTimesOut(c) ==
  /\ HasConnection(clients[c]) /\ server.net[c] = <<>>
  /\ ~ \E i \in Slots : IsLive(server.slots[i]) /\ server.slots[i].client = c
  /\ clients' = [clients EXCEPT ![c] = Disconnected(@)]
  /\ UNCHANGED <<server, counts, bounds>>

-----------------------------------------------------------------------------
(* The network.                                                            *)

Lose(c) ==
  /\ counts.losses < bounds.losses
  /\ counts' = [counts EXCEPT !.losses = @ + 1] /\ UNCHANGED bounds
  /\ \/ /\ clients[c].net # <<>>
        /\ clients' = [clients EXCEPT ![c].net = Tail(@)] /\ UNCHANGED server
     \/ /\ server.net[c] # <<>>
        /\ server' = [server EXCEPT !.net[c] = Tail(@)] /\ UNCHANGED clients

\* A copy of a packet comes after those that were sent later.
Delay(c) ==
  /\ counts.delays < bounds.delays
  /\ counts' = [counts EXCEPT !.delays = @ + 1] /\ UNCHANGED bounds
  /\ \/ /\ clients[c].net # <<>> /\ Len(clients[c].net) < bounds.inFlight
        /\ clients' = [clients EXCEPT ![c].net = Append(@, Head(@))] /\ UNCHANGED server
     \/ /\ server.net[c] # <<>> /\ Len(server.net[c]) < bounds.inFlight
        /\ server' = [server EXCEPT !.net[c] = Append(@, Head(@))] /\ UNCHANGED clients

\* The router gives the client a port that it has not given before.
Rebind(c) ==
  /\ counts.rebinds < bounds.rebinds
  /\ counts' = [counts EXCEPT !.rebinds = @ + 1] /\ UNCHANGED bounds
  /\ clients' = [clients EXCEPT ![c].port = @ + 1]
  /\ server' = [server EXCEPT !.net[c] = <<>>]

ClientNext(c) == \/ Connect(c) \/ Disconnect(c) \/ CheckForResend(c) \/ ClientReceives(c)
                 \/ ClientSends(c) \/ ClientTimesOut(c) \/ ServerReceives(c)
                 \/ Lose(c) \/ Delay(c) \/ Rebind(c)

SlotNext(i) == Kick(i) \/ ReconnectLimitPasses(i) \/ CheckTimeouts(i)

Next == FakeConnect \/ (\E c \in Clients : ClientNext(c)) \/ (\E i \in Slots : SlotNext(i))

Spec == Init /\ [][Next]_vars

\* Both ends run frames and read the network, time passes; nobody has to
\* connect, and nothing has to be lost.
Fairness ==
  /\ \A c \in Clients : WF_vars(CheckForResend(c)) /\ WF_vars(ServerReceives(c)) /\ WF_vars(ClientReceives(c))
  /\ \A i \in Slots : WF_vars(CheckTimeouts(i))

FairSpec == Spec /\ Fairness

-----------------------------------------------------------------------------
(* Properties.                                                             *)

SlotType == [state : {"CS_FREE", "CS_ZOMBIE", "CS_CONNECTING", "CS_CONNECTED"},
             client : Clients \cup {Bot, "none"}, port : Nat, challenge : Nat, heard : BOOLEAN, recent : BOOLEAN]
ToClient == [kind : {"challenge", "client_connect", "reject", "serverdata", "disconnect"}, content : Nat]
ToServer == [kind : {"getchallenge", "connect"} \cup Sequenced, port : Nat, content : Nat]
ServerType == [slots : [Slots -> SlotType], inGame : [Slots -> BOOLEAN], issued : Nat,
               challenges : SUBSET [host : STRING, challenge : Nat], net : [Clients -> Seq(ToClient)]]
ClientType == [state : {"CA_DISCONNECTED", "CA_CONNECTING", "CA_HANDSHAKE", "CA_CONNECTED"},
               connectCount : Nat, port : Nat, attempts : Nat, net : Seq(ToServer)]

\* The types; who has a live slot is in the game.
TypeOK ==
  /\ server \in ServerType /\ clients \in [Clients -> ClientType]
  /\ bounds \in Scenarios /\ counts \in [{"bots", "kicks", "losses", "delays", "rebinds"} -> Nat]
  /\ \A i \in Slots : IsLive(server.slots[i]) => server.slots[i].client # "none" /\ server.inGame[i]
  /\ Cardinality(server.challenges) <= MaxChallenges

\* A client has one slot, whatever it and the network repeat and whichever port
\* its packets come from: the packets of its connection belong to that one.
OneSlotPerClient ==
  \A i, j \in Slots :
    /\ IsInUse(server.slots[i]) /\ IsInUse(server.slots[j])
    /\ server.slots[i].client = server.slots[j].client /\ server.slots[i].client \in Clients
    => i = j

\* "reset challenge": no packet that the network or the client repeats makes
\* the server set up a connection once more.
ChallengeUsedOnce ==
  [][\A i, j \in Slots :
       LET old == server.slots[i]  new == server'.slots[j]
       IN /\ IsLive(new) /\ new.client \in Clients
          /\ old.challenge = new.challenge /\ old.client \in Clients
          => i = j /\ IsLive(old) /\ (new.recent => old.recent)]_vars

\* sv_iplimit clients of a host at most have a slot.
HostLimitKept ==
  bounds.ipLimit # 0 =>
    \A c \in Clients : Cardinality({i \in SameHost(server, c) : IsLive(server.slots[i])}) <= bounds.ipLimit

\* A client loses its place only to itself, to a kick or to silence: not to
\* another client's connect, for which only a bot makes room.
PlaceIsNotTaken ==
  [][\A i \in Slots :
       IsLive(server.slots[i]) /\ server.slots[i].client \in Clients /\ IsLive(server'.slots[i])
         => server'.slots[i].client = server.slots[i].client]_vars

\* A client that has been answered is not set up anew under its feet, as long
\* as packets come in the order they were sent in: it would wait for answers
\* in a connection the server does not know of.
NotStranded ==
  counts.delays = 0 =>
    \A c \in Clients, i \in Slots :
      clients[c].state = "CA_CONNECTED" /\ IsLive(server.slots[i]) /\ server.slots[i].client = c
        => server.slots[i].heard

\* Connecting ends, in a connection or back in the menu.
ConnectingEnds == \A c \in Clients : clients[c].state = "CA_CONNECTING" ~> clients[c].state # "CA_CONNECTING"

\* The slot of a client that has gone is free again, whatever the server has
\* heard of its going and in whatever state the slot was.
SlotsAreRecovered ==
  \A c \in Clients :
    <>[](clients[c].state = "CA_DISCONNECTED")
      => <>[](\A i \in Slots : server.slots[i].client = c => server.slots[i].state = "CS_FREE")

\* "Called when a player drops from the server": a slot without a client has no
\* player in the game.
GoneAreNotInGame == \A i \in Slots : ~IsLive(server.slots[i]) => ~server.inGame[i]

\* The types, and that a client has one slot, within the limit for its host, and
\* is not set up anew under its feet.
SlotsSound == TypeOK /\ OneSlotPerClient /\ HostLimitKept /\ NotStranded

\* Whatever is lost, clients do not connect for ever and slots come free.
NobodyIsStuck == ConnectingEnds /\ SlotsAreRecovered
===============================================================================
