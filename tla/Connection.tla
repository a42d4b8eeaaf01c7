------------------------------ MODULE Connection ------------------------------
(***************************************************************************)
(* How a client gets into a level and from one level into the next one     *)
(* (server/sv_main.cpp, client/cl_main.cpp): new, serverdata,              *)
(* configstrings, baselines, precache, begin, and changing and reconnect   *)
(* when the level changes.  The commands are reliable: numbered, and sent  *)
(* again with every message until they are acknowledged.  Both ends start  *)
(* counting anew in mid-connection, the server when it answers new and the *)
(* client when it gets that answer, which is not sent reliably.            *)
(*                                                                         *)
(* The network is a pair of MessageChannels: messages are lost, but not    *)
(* reordered.  The queues of commands do not overflow here; that is what   *)
(* ReliableCommands is about.                                              *)
(***************************************************************************)
EXTENDS Naturals, Sequences, SequencesExt, Functions

CONSTANTS
  NumStrings,   \* the number of configstrings
  MapStates,    \* bound: states of the client's slot in which the level changes
  ChangeStates, \* bound: states of the client's slot in which a configstring changes
  Losable,      \* bound: the kinds of messages that are lost
  Downloads,    \* whether a level may have to be downloaded
  MaxMaps, MaxChanges, MaxLosses, \* bounds: changes of the level, changes of configstrings, losses
  MaxInFlight   \* bound: messages on their way, each way

ASSUME NumStringsAssumption == NumStrings \in Nat \ {0}
ASSUME StatesAssumption ==
  MapStates \cup ChangeStates \subseteq {"CS_CONNECTING", "CS_CONNECTED", "CS_SPAWNED"}
ASSUME LosableAssumption == Losable \subseteq {"serverdata", "baselines", "snapshot", "other"} /\ Downloads \in BOOLEAN

Strings == 1..NumStrings

VARIABLES
  server,  \* the client's slot, the level and its configstrings, and the messages sent
  client,  \* the client and the messages it has sent
  changes, \* counted against its bound
  losses   \* the same, for each kind of messages

vars == <<server, client, changes, losses>>

None      == <<0, 0>>  \* an empty configstring; others have a level and a version
NoStrings == [i \in Strings |-> None]

\* The client has got client_connect and added "new".
Init ==
  /\ server = [state |-> "CS_CONNECTING", spawncount |-> 1,
               configStrings |-> [i \in Strings |-> <<1, 0>>],
               commands |-> <<>>, sent |-> 0, acknowledged |-> 0, executed |-> 0, net |-> <<>>]
  /\ client = [state |-> "CA_HANDSHAKE", servercount |-> 0, configStrings |-> NoStrings,
               commands |-> <<<<"new">>>>, acknowledged |-> 0, executed |-> 0,
               baselines |-> 0, downloading |-> FALSE, pendingReconnect |-> FALSE, precacheSpawncount |-> 0,
               cge |-> FALSE, net |-> <<>>]
  /\ changes = 0 /\ losses = [kind \in Losable |-> 0]

\* The reliable commands of an end that it has not seen acknowledged, with
\* their numbers; none, if more are acknowledged than there are.
Unacknowledged(end) ==
  [i \in 1..(IF Len(end.commands) > end.acknowledged THEN Len(end.commands) - end.acknowledged ELSE 0)
     |-> [number |-> end.acknowledged + i, command |-> end.commands[end.acknowledged + i]]]

Add(end, command) == [end EXCEPT !.commands = Append(@, command)]

-----------------------------------------------------------------------------
(* The server.                                                             *)

\* SV_InitClientMessage and SV_AddReliableCommandsToMessage, then send.
Message(s, kind, content) ==
  [s EXCEPT !.net = Append(@, [kind |-> kind, clcack |-> s.executed, content |-> content,
                               commands |-> Unacknowledged(s)]),
            !.sent = Len(s.commands)]

SendMessage(s) == Message(s, "other", 0)

SendServerCommand(s, command) == IF s.state = "CS_ZOMBIE" THEN s ELSE Add(s, command)

\* SV_SendServerCommand to all clients.
Broadcast_ToSpawned(s, command) == IF s.state = "CS_SPAWNED" THEN Add(s, command) ELSE s
Broadcast(s, command)           == SendServerCommand(s, command)

DropClient(s) ==
  [SendMessage(SendServerCommand(s, <<"disconnect">>)) EXCEPT !.state = "CS_ZOMBIE"]

ClientResetCommandBuffers_KeepsExecuted(s) ==
  [s EXCEPT !.commands = <<>>, !.sent = 0, !.acknowledged = 0]
ClientResetCommandBuffers_KeepsAcknowledged(s) ==
  [s EXCEPT !.commands = <<>>, !.sent = 0, !.executed = 0]
ClientResetCommandBuffers(s) ==
  [s EXCEPT !.commands = <<>>, !.sent = 0, !.acknowledged = 0, !.executed = 0]

\* Answer with serverdata.  What the message acknowledges is written before
\* the buffers are reset.
New(s) ==
  IF s.state = "CS_SPAWNED" THEN s
  ELSE [ClientResetCommandBuffers(s) EXCEPT
          !.net = Append(@, [kind |-> "serverdata", clcack |-> s.executed,
                             content |-> s.spawncount, commands |-> <<>>]),
          !.state = "CS_CONNECTING"]

NextConfigstring_SkipsOne(i) == i + 2
NextConfigstring(i)          == i + 1

\* A batch of configstrings, one here, and what the client is to ask for next.
ConfigstringsReply(s, spawncount, i) ==
  LET next == IF NextConfigstring(i) \in Strings
              THEN <<"configstrings", spawncount, NextConfigstring(i)>>
              ELSE <<"baselines", spawncount>>
  IN SendServerCommand(SendServerCommand(s, <<"cs", i, s.configStrings[i]>>), <<"cmd", next>>)

Configstrings(s, spawncount, start) ==
  IF s.state = "CS_SPAWNED" THEN s
  ELSE LET connected == [s EXCEPT !.state = "CS_CONNECTED"]
       IN IF spawncount # s.spawncount THEN SendServerCommand(connected, <<"reconnect">>)
          ELSE ConfigstringsReply(connected, spawncount, start)

\* The baselines, and at once the last of the commands.  Only the commands are
\* sent again.
Baselines_PrecacheOnly(s, spawncount) ==
  IF s.state # "CS_CONNECTED" THEN s
  ELSE IF spawncount # s.spawncount THEN New(s)
  ELSE SendServerCommand(s, <<"precache", spawncount>>)
Baselines(s, spawncount) ==
  IF s.state # "CS_CONNECTED" THEN s
  ELSE IF spawncount # s.spawncount THEN New(s)
  ELSE Message(SendServerCommand(s, <<"precache", spawncount>>), "baselines", spawncount)

Begin_InAnyState(s, spawncount) == [s EXCEPT !.state = "CS_SPAWNED"]
Begin(s, spawncount) ==
  IF s.state # "CS_CONNECTED" THEN DropClient(s)
  ELSE IF spawncount # s.spawncount
       THEN SendServerCommand(SendServerCommand(s, <<"changing">>), <<"reconnect">>)
  ELSE [s EXCEPT !.state = "CS_SPAWNED"]

ExecuteUserCommand(s, c) ==
  CASE c[1] = "new"           -> New(s)
    [] c[1] = "configstrings" -> Configstrings(s, c[2], c[3])
    [] c[1] = "baselines"     -> Baselines(s, c[2])
    [] c[1] = "begin"         -> Begin(s, c[2])

IsPossibleAck(s, ack) == ack >= s.acknowledged /\ ack <= s.sent

\* SV_ParseClientMessage.  An impossible acknowledgement ends the parsing; a
\* command is executed once.
ParseClientMessage(s, m) ==
  IF ~IsPossibleAck(s, m.svcack) THEN s
  ELSE FoldLeft(LAMBDA t, c : IF t.state = "CS_ZOMBIE" \/ c.number <= t.executed THEN t
                              ELSE ExecuteUserCommand([t EXCEPT !.executed = c.number], c.command),
                [s EXCEPT !.acknowledged = m.svcack], m.commands)

\* SV_ReadPackets.  The slot of a client that was dropped is not looked at.
ServerCanReceive == client.net # <<>> /\ Len(server.net) <= MaxInFlight

ServerReceives ==
  /\ ServerCanReceive
  /\ client' = [client EXCEPT !.net = Tail(@)]
  /\ server' = IF server.state = "CS_ZOMBIE" THEN server
               ELSE ParseClientMessage(server, Head(client.net))
  /\ UNCHANGED <<changes, losses>>

\* SV_SendClientMessages: a snapshot, or pending commands, or, at times,
\* nothing but the acknowledgement.
ServerSends ==
  /\ server.state # "CS_ZOMBIE" /\ Len(server.net) < MaxInFlight
  /\ server' = IF server.state = "CS_SPAWNED" THEN Message(server, "snapshot", server.spawncount)
               ELSE SendMessage(server)
  /\ UNCHANGED <<client, changes, losses>>

\* SV_Map, which sends "changing" but leaves "reconnect" to the next frame.
Map ==
  /\ server.state \in MapStates /\ server.spawncount <= MaxMaps /\ Len(server.net) < MaxInFlight
  /\ LET called  == SendMessage(Broadcast([server EXCEPT !.state = "CS_CONNECTING"], <<"changing">>))
         spawned == [called EXCEPT !.spawncount = @ + 1,
                       !.configStrings = [i \in Strings |-> <<server.spawncount + 1, 0>>]]
     IN server' = Broadcast(spawned, <<"reconnect">>)
  /\ UNCHANGED <<client, changes, losses>>

\* SV_SetConfigString, by the game.
SetConfigString ==
  /\ server.state \in ChangeStates /\ changes < MaxChanges
  /\ changes' = changes + 1
  /\ \E i \in Strings :
       LET set == [server EXCEPT !.configStrings[i] = <<@[1], changes + 1>>]
       IN server' = Broadcast(set, <<"cs", i, set.configStrings[i]>>)
  /\ UNCHANGED <<client, losses>>

-----------------------------------------------------------------------------
(* The client.                                                             *)

\* CL_ServerReconnect_f.  The number of the last executed command stays.
ServerReconnect(c) ==
  IF c.downloading THEN [c EXCEPT !.pendingReconnect = TRUE]
  ELSE IF c.state = "CA_HANDSHAKE" THEN c
  ELSE Add([c EXCEPT !.state = "CA_HANDSHAKE", !.configStrings = NoStrings, !.cge = FALSE], <<"new">>)

\* CL_Changing_f.
Changing(c) ==
  IF ~c.downloading THEN c
  ELSE [c EXCEPT !.configStrings = NoStrings, !.state = "CA_CONNECTED"]

\* CL_RequestNextDownload: there is one to do, or the level is loaded.
RequestNextDownload(c, download) ==
  IF c.state # "CA_CONNECTED" THEN c
  ELSE IF download THEN [c EXCEPT !.downloading = TRUE]
  ELSE Add([c EXCEPT !.cge = TRUE], <<"begin", c.precacheSpawncount>>)

Precache(c, spawncount, download) ==
  RequestNextDownload([c EXCEPT !.precacheSpawncount = spawncount], download)

\* CL_ForwardToServer_f.
ForwardToServer(c, command) ==
  IF c.state \in {"CA_CONNECTED", "CA_ACTIVE"} THEN Add(c, command) ELSE c

ParseServerCommand(c, command, download) ==
  CASE command[1] = "cs"         -> [c EXCEPT !.configStrings[command[2]] = command[3]]
    [] command[1] = "cmd"        -> ForwardToServer(c, command[2])
    [] command[1] = "precache"   -> Precache(c, command[2], download)
    [] command[1] = "changing"   -> Changing(c)
    [] command[1] = "reconnect"  -> ServerReconnect(c)
    [] command[1] = "disconnect" -> [c EXCEPT !.state = "CA_DISCONNECTED"]

\* CL_ParseServerData, with CL_ClearState.
ParseServerData(c, spawncount) ==
  IF c.state # "CA_HANDSHAKE" THEN c
  ELSE [c EXCEPT !.state = "CA_CONNECTED", !.servercount = spawncount, !.configStrings = NoStrings,
                 !.executed = 0, !.acknowledged = 0, !.baselines = 0,
                 !.commands = <<<<"configstrings", spawncount, 1>>>>]

\* CL_ParseServerCommand for every command of the message that is new.
ExecuteServerCommands(c, commands, download) ==
  FoldLeft(LAMBDA d, n : IF d.state = "CA_DISCONNECTED" \/ n.number <= d.executed THEN d
                         ELSE ParseServerCommand([d EXCEPT !.executed = n.number], n.command, download),
           c, commands)

\* The first snapshot that the game module takes ends the connection process.
ParseFrame(c) == IF c.state = "CA_CONNECTED" /\ c.cge THEN [c EXCEPT !.state = "CA_ACTIVE"] ELSE c

ParseBaselines(c, spawncount) == [c EXCEPT !.baselines = spawncount]

\* CL_ParseServerMessage.  The acknowledgement is not checked.  Baselines come
\* before the commands of their message, a snapshot after them.
ParseServerMessage(c, m, download) ==
  LET acked == [c EXCEPT !.acknowledged = m.clcack]
      told  == ExecuteServerCommands(acked, m.commands, download)
  IN CASE m.kind = "serverdata" -> ParseServerData(acked, m.content)
       [] m.kind = "baselines"  -> ExecuteServerCommands(ParseBaselines(acked, m.content), m.commands, download)
       [] m.kind = "snapshot"   -> ParseFrame(told)
       [] m.kind = "other"      -> told

\* CL_ReadPackets.
ClientCanReceive == server.net # <<>>

ClientReceives ==
  /\ ClientCanReceive
  /\ server' = [server EXCEPT !.net = Tail(@)]
  /\ \E download \in {FALSE, Downloads} :
       client' = IF client.state = "CA_DISCONNECTED" THEN client
                 ELSE ParseServerMessage(client, Head(server.net), download)
  /\ UNCHANGED <<changes, losses>>

\* CL_SendMessagesToServer.
ClientSends ==
  /\ client.state # "CA_DISCONNECTED" /\ Len(client.net) < MaxInFlight
  /\ client' = [client EXCEPT !.net =
                  Append(@, [svcack |-> client.executed, commands |-> Unacknowledged(client)])]
  /\ UNCHANGED <<server, changes, losses>>

\* CL_DownloadDone, then the reconnection that was put off, or on.
DownloadDone ==
  /\ client.downloading /\ client.state # "CA_DISCONNECTED"
  /\ LET done == [client EXCEPT !.downloading = FALSE, !.pendingReconnect = FALSE]
     IN client' = IF client.pendingReconnect THEN ServerReconnect(done) ELSE RequestNextDownload(done, FALSE)
  /\ UNCHANGED <<server, changes, losses>>

-----------------------------------------------------------------------------

\* The network loses a message.
Lose ==
  /\ SumFunction(losses) < MaxLosses
  /\ \/ \E i \in DOMAIN server.net :
          /\ server.net[i].kind \in Losable
          /\ losses' = [losses EXCEPT ![server.net[i].kind] = @ + 1]
          /\ server' = [server EXCEPT !.net = RemoveAt(@, i)]
          /\ UNCHANGED client
     \/ \E i \in DOMAIN client.net :
          /\ "other" \in Losable
          /\ losses' = [losses EXCEPT !["other"] = @ + 1]
          /\ client' = [client EXCEPT !.net = RemoveAt(@, i)]
          /\ UNCHANGED server
  /\ UNCHANGED changes

Next == \/ ServerReceives \/ ServerSends \/ Map \/ SetConfigString
        \/ ClientReceives \/ ClientSends \/ DownloadDone \/ Lose

Spec == Init /\ [][Next]_vars

\* Both ends run frames, which read the network and send at times; what is
\* not lost arrives; a download ends.  The receiving actions are weakly fair
\* too; what enables them is written out because it takes TLC too long to
\* compute it.
Fairness == /\ WF_vars(ServerSends) /\ WF_vars(ClientSends) /\ WF_vars(DownloadDone)
            /\ <>[]ServerCanReceive => []<><<ServerReceives>>_vars
            /\ <>[]ClientCanReceive => []<><<ClientReceives>>_vars

FairSpec == Spec /\ Fairness

-----------------------------------------------------------------------------
(* Properties.                                                             *)

ServerCommands == {"cs", "cmd", "precache", "changing", "reconnect", "disconnect"}

\* The types.  Nothing is acknowledged to the server that it has not sent.
TypeOK ==
  /\ server.state \in {"CS_ZOMBIE", "CS_CONNECTING", "CS_CONNECTED", "CS_SPAWNED"}
  /\ server.acknowledged <= server.sent /\ server.sent <= Len(server.commands)
  /\ \A i \in DOMAIN server.commands : server.commands[i][1] \in ServerCommands
  /\ client.state \in {"CA_DISCONNECTED", "CA_HANDSHAKE", "CA_CONNECTED", "CA_ACTIVE"}
  /\ client.servercount \in 0..server.spawncount
  /\ client.pendingReconnect => client.downloading

\* A client that the server takes to be in the level is in that level, or has
\* left; it is not asking for it anew.
SpawnedClientIsInLevel ==
  server.state = "CS_SPAWNED" =>
     /\ client.state \in {"CA_CONNECTED", "CA_ACTIVE"}
     /\ client.servercount = server.spawncount /\ client.cge

\* A client in the level that has executed all commands has the configstrings
\* of the server, with whatever changed while they were being sent.
ConfigstringsAgree ==
  /\ server.state = "CS_SPAWNED"
  /\ client.executed = Len(server.commands)
  => client.configStrings = server.configStrings

\* A client becomes active with a complete set of configstrings.
ActiveIsComplete ==
  [][client.state # "CA_ACTIVE" /\ client'.state = "CA_ACTIVE" =>
       \A i \in Strings : client'.configStrings[i][1] = client'.servercount]_vars

\* The client gets into the level the server is running, and stays.
Joins == <>[](/\ client.state = "CA_ACTIVE" /\ server.state = "CS_SPAWNED"
              /\ client.servercount = server.spawncount)

Lost(kind) == kind \in Losable /\ losses[kind] > 0

\* It does unless an answer to new is lost or the server drops it: all else is
\* sent again until it has arrived, and nobody waits for the other one forever.
JoinsUnlessExcused == <>(server.state = "CS_ZOMBIE" \/ Lost("serverdata")) \/ Joins

\* A client that takes snapshots has got the baselines they are encoded against,
\* unless the message with them is lost: precache is sent again, they are not.
ActiveHasBaselines ==
  client.state = "CA_ACTIVE" /\ ~Lost("baselines") => client.baselines = client.servercount

\* "handle the case of a level changing while a client was connecting": the
\* client is called back, not dropped.
NotDropped == server.state # "CS_ZOMBIE"

\* "if we are downloading, we don't change!"
ChangingLeavesDownloadAlone ==
  [][client.downloading /\ client'.downloading /\ client'.servercount = client.servercount =>
       \A i \in Strings : client'.configStrings[i] = None => client.configStrings[i] = None]_vars

\* The types, and that client and server agree on the level.
LevelsAgree == TypeOK /\ SpawnedClientIsInLevel

\* The client knows what the server believes it to know.
DataAgrees == ConfigstringsAgree /\ ActiveHasBaselines
=============================================================================
