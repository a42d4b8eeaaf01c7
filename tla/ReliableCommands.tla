--------------------------- MODULE ReliableCommands ---------------------------
(***************************************************************************)
(* The queues of reliable commands of a client and of its slot on the      *)
(* server (SV_AddServerCommand, CL_AddReliableCommand and what surrounds   *)
(* them).  Each end numbers its commands, keeps the latest in a ring and   *)
(* sends all that are not acknowledged with every message.  The server     *)
(* adds a configstring to a command that is not sent yet, if there is      *)
(* room, and sends long ones in fragments.  A full queue ends the          *)
(* connection.                                                             *)
(*                                                                         *)
(* This begins when the client has got serverdata and asks for the         *)
(* configstrings; Connection tells how it gets there.  Messages are lost,  *)
(* but not reordered, as MessageChannel promises.                          *)
(***************************************************************************)
EXTENDS Naturals, Sequences, SequencesExt, FiniteSetsExt

CONSTANTS
  RingSize,      \* MAX_RELIABLE_COMMANDS
  Reserve,       \* what Configstrings leaves free of it
  Capacity,      \* the length of the longest command
  MessageSize,   \* MAX_MSGLEN
  InitialSizes,  \* the lengths of the configstrings of the level
  Changeable,    \* bound: the configstrings that the game changes
  ChangeSizes,   \* bound: the lengths of their new values
  MaxChanges, MaxPrints, MaxSays, MaxLosses, \* bounds: events of each kind
  MaxPending,    \* bound: commands that a client has unacknowledged
  MaxInFlight    \* bound: messages on their way, each way

NumStrings == Len(InitialSizes)
Strings    == 0..(NumStrings - 1)

ASSUME RingAssumption == RingSize \in Nat /\ Reserve \in 1..RingSize /\ MessageSize \in Nat
ASSUME SizesAssumption ==
  /\ Capacity \in Nat \ {0, 1} /\ InitialSizes \in Seq(Nat \ {0}) /\ InitialSizes # <<>>
  /\ Changeable \subseteq Strings /\ ChangeSizes \subseteq 1..(Capacity - 1)

VARIABLES
  server,  \* the slot of the client, the configstrings, and the messages sent
  client,  \* the client, and the messages sent
  changes, prints, says, losses  \* counted against their bounds

counters == <<changes, prints, says, losses>>
vars     == <<server, client, counters>>

Empty == <<"empty">>

\* Both ends begin with nothing in their rings.  log and heard are histories:
\* the commands an end has added, and those of the other one that it has
\* executed; upto is the latest command of the other end when it sent the last
\* message that has arrived.
EmptyRing == [n \in 0..(RingSize - 1) |-> Empty]

-----------------------------------------------------------------------------
(* Both ends.                                                              *)

Slot(end, n) == end.ring[n % RingSize]

Pending(end) == end.sequence - end.acknowledged

Put(end, command) ==
  [end EXCEPT !.sequence = @ + 1, !.ring[(end.sequence + 1) % RingSize] = command,
              !.log = Append(@, command)]

\* All that is not acknowledged.
Unacknowledged_ButTheLast(end) ==
  [k \in 1..(IF Pending(end) > 0 THEN Pending(end) - 1 ELSE 0) |->
     [number |-> end.acknowledged + k, command |-> Slot(end, end.acknowledged + k)]]
Unacknowledged(end) ==
  [k \in 1..(IF Pending(end) > 0 THEN Pending(end) ELSE 0) |->
     [number |-> end.acknowledged + k, command |-> Slot(end, end.acknowledged + k)]]

\* The acknowledgement and the commands; a snapshot, or the user's moves, go
\* into the message behind them.
Send(end) ==
  [end EXCEPT !.net = Append(@, [ack |-> end.executed, commands |-> Unacknowledged(end),
                                 upto |-> end.sequence]),
              !.sent = end.sequence]

\* A command is executed once.
Executed_AlwaysAnew(end, number) == FALSE
Executed(end, number)            == number <= end.executed

Execute_Unnumbered(end, c) == [end EXCEPT !.heard = Append(@, c.command)]
Execute(end, c)            == [end EXCEPT !.executed = c.number, !.heard = Append(@, c.command)]

-----------------------------------------------------------------------------
(* The server.                                                             *)

\* A value of a configstring is a version and a length.  The commands are
\* <<"cs", pairs>>, <<"csf", i, number, count, value>>, <<"cmd", command>>,
\* <<"precache">>, <<"print">> and <<"disconnect">>.
IsCs(command) == command[1] = "cs"

Length(pairs) == FoldLeft(LAMBDA a, b : a + b, 0, [k \in DOMAIN pairs |-> pairs[k][2][2]])

\* The commands not sent yet that have room for more pairs.
HasRoom_EvenIfSent(s, pairs) ==
  {n \in (s.acknowledged + 1)..s.sequence :
     IsCs(Slot(s, n)) /\ Length(Slot(s, n)[2] \o pairs) <= Capacity}
HasRoom(s, pairs) ==
  {n \in (s.sent + 1)..s.sequence :
     IsCs(Slot(s, n)) /\ Length(Slot(s, n)[2] \o pairs) <= Capacity}

Batched_InFront(command, pairs) == <<"cs", pairs \o command[2]>>
Batched(command, pairs)         == <<"cs", command[2] \o pairs>>

Amend(s, n, pairs) ==
  LET command == Batched(Slot(s, n), pairs)
  IN [s EXCEPT !.ring[n % RingSize] = command, !.log[n] = command]

Overflows_Late(s) == Pending(s) = RingSize + 1
Overflows(s)      == Pending(s) = RingSize

\* SV_DropClient: the notice goes out at once.
Drop(s) == [Send(Put(s, <<"disconnect">>)) EXCEPT !.state = "CS_ZOMBIE"]

\* SV_AddServerCommand.  One command too many drops the client: its number is
\* used up, though nothing is stored, and the notice gets the next one.  What
\* is added to a zombie is not looked at.
AddServerCommand(s, command) ==
  LET room == IF IsCs(command) THEN HasRoom(s, command[2]) ELSE {}
  IN CASE s.state = "CS_ZOMBIE" -> s
       [] s.state # "CS_ZOMBIE" /\ room # {} -> Amend(s, Max(room), command[2])
       [] s.state # "CS_ZOMBIE" /\ room = {} /\ Overflows(s) ->
            Drop([s EXCEPT !.sequence = @ + 1])
       [] OTHER -> Put(s, command)

\* A value that is too long is sent in fragments.
FragmentLength == Capacity - 1

NumFragments(length) == (length + FragmentLength - 1) \div FragmentLength

Fragment(i, v, k) == <<"csf", i, k, NumFragments(v[2]), v>>

\* SV_AddFragmentedConfigString.
AddFragmentedConfigString(s, i, v) ==
  LET added[k \in 0..NumFragments(v[2])] ==
        IF k = 0 THEN s ELSE AddServerCommand(added[k - 1], Fragment(i, v, k - 1))
  IN added[NumFragments(v[2])]

\* SV_SendConfigString.
SendConfigString(s, i, v) ==
  IF v[2] < Capacity THEN AddServerCommand(s, <<"cs", <<<<i, v>>>>>>)
  ELSE AddFragmentedConfigString(s, i, v)

NoSpaceLeft_Ignored(s) == FALSE
NoSpaceLeft(s)         == Pending(s) >= RingSize - Reserve

\* Configstrings from the given one on while there is space, and what the
\* client is to ask for next.
SendNext(batch, i) ==
  IF NoSpaceLeft(batch.s) THEN batch
  ELSE [s |-> SendConfigString(batch.s, i, batch.s.configStrings[i]), start |-> i + 1]

AskAgain(s, start) ==
  AddServerCommand(s, <<"cmd", IF start = NumStrings THEN <<"baselines">> ELSE <<"configstrings", start>>>>)

Configstrings(s, start) ==
  LET batch[k \in 0..(NumStrings - start)] ==
        IF k = 0 THEN [s |-> [s EXCEPT !.state = "CS_CONNECTED"], start |-> start]
        ELSE SendNext(batch[k - 1], start + k - 1)
      sent == batch[NumStrings - start]
  IN AskAgain(sent.s, sent.start)

\* SV_ExecuteUserCommand.  The rest, such as what the user says, goes to the
\* game.
ExecuteUserCommand(s, c) ==
  CASE c[1] = "configstrings" /\ s.state \in {"CS_CONNECTING", "CS_CONNECTED"} -> Configstrings(s, c[2])
    [] c[1] = "baselines" /\ s.state = "CS_CONNECTED" -> Send(AddServerCommand(s, <<"precache">>))
    [] c[1] = "begin" /\ s.state = "CS_CONNECTED"     -> [s EXCEPT !.state = "CS_SPAWNED"]
    [] c[1] = "begin" /\ s.state # "CS_CONNECTED"     -> Drop(s)
    [] OTHER -> s

IsPossibleAck_Newer(s, ack) == ack > s.acknowledged /\ ack <= s.sent
IsPossibleAck(s, ack)       == ack >= s.acknowledged /\ ack <= s.sent

\* SV_ParseClientMessage.  An impossible acknowledgement ends the parsing.
ServerExecutes(s, c) ==
  IF s.state = "CS_ZOMBIE" \/ Executed(s, c.number) THEN s
  ELSE ExecuteUserCommand(Execute(s, c), c.command)

ParseClientMessage(s, m) ==
  LET parsed[k \in 0..Len(m.commands)] ==
        IF k = 0 THEN [s EXCEPT !.acknowledged = m.ack, !.upto = m.upto]
        ELSE ServerExecutes(parsed[k - 1], m.commands[k])
  IN IF IsPossibleAck(s, m.ack) THEN parsed[Len(m.commands)] ELSE s

\* SV_ReadPackets.  The slot of a client that was dropped is not looked at.
ServerCanReceive == client.net # <<>> /\ Len(server.net) <= MaxInFlight

ServerReceives ==
  /\ ServerCanReceive
  /\ client' = [client EXCEPT !.net = Tail(@)]
  /\ server' = IF server.state = "CS_ZOMBIE" THEN server
               ELSE ParseClientMessage(server, Head(client.net))
  /\ UNCHANGED counters

\* SV_SendClientMessages: a snapshot, or pending commands, or, at times,
\* nothing but the acknowledgement.
ServerSends ==
  /\ server.state # "CS_ZOMBIE" /\ Len(server.net) < MaxInFlight
  /\ server' = Send(server)
  /\ UNCHANGED <<client, counters>>

\* The game prints something to all.
Broadcast ==
  /\ prints < MaxPrints /\ prints' = prints + 1 /\ server.state # "CS_ZOMBIE"
  /\ server' = AddServerCommand(server, <<"print">>)
  /\ UNCHANGED <<client, changes, says, losses>>

\* SV_SetConfigString, by the game.  It does not use fragments.
SetConfigString ==
  /\ changes < MaxChanges /\ changes' = changes + 1 /\ server.state # "CS_ZOMBIE"
  /\ \E i \in Changeable, size \in ChangeSizes :
       LET v == <<changes + 1, size>>
       IN server' = AddServerCommand([server EXCEPT !.configStrings[i] = v], <<"cs", <<<<i, v>>>>>>)
  /\ UNCHANGED <<client, prints, says, losses>>

-----------------------------------------------------------------------------
(* The client.                                                             *)

\* An error, or the notice of the server: the client disconnects.
Fail(c)       == [c EXCEPT !.state = "CA_DISCONNECTED", !.failed = TRUE]
Disconnect(c) == [c EXCEPT !.state = "CA_DISCONNECTED"]

\* CL_AddReliableCommand.  The test admits one command more than the ring has
\* slots.
AddReliableCommand(c, command) ==
  IF c.sequence > c.acknowledged + RingSize THEN Fail([c EXCEPT !.acknowledged = c.sequence])
  ELSE Put(c, command)

\* CL_ParseConfigstringCommand.
ParseConfigstrings(c, pairs) ==
  LET strings[k \in 0..Len(pairs)] ==
        IF k = 0 THEN c.strings ELSE [strings[k - 1] EXCEPT ![pairs[k][1]] = pairs[k][2]]
  IN [c EXCEPT !.strings = strings[Len(pairs)]]

\* A fragment is out of place if another string is being put together, or if
\* it is not the next one.  For both "nothing yet" is zero, which is also the
\* first string, and the first fragment.
IsOutOfPlace(c, i, k) ==
  \/ c.fragmentIndex # 0 /\ c.fragmentIndex # i
  \/ c.fragmentNum # 0 /\ c.fragmentNum + 1 # k

Garbage == <<0, 0>>

\* CL_AddConfigStringFragment.
AddFragment_KeepsIndex(c, i, k, count, v) ==
  LET buffer == [c.buffer EXCEPT ![k] = v]
  IN IF IsOutOfPlace(c, i, k) THEN Fail(c)
     ELSE IF k + 1 # count
     THEN [c EXCEPT !.buffer = buffer, !.fragmentIndex = i, !.fragmentNum = k]
     ELSE [c EXCEPT !.buffer = buffer, !.fragmentNum = 0,
             !.strings[i] = IF \A j \in 0..k : buffer[j] = v THEN v ELSE Garbage]
AddFragment(c, i, k, count, v) ==
  LET buffer == [c.buffer EXCEPT ![k] = v]
  IN IF IsOutOfPlace(c, i, k) THEN Fail(c)
     ELSE IF k + 1 # count
     THEN [c EXCEPT !.buffer = buffer, !.fragmentIndex = i, !.fragmentNum = k]
     ELSE [c EXCEPT !.buffer = buffer, !.fragmentIndex = 0, !.fragmentNum = 0,
             !.strings[i] = IF \A j \in 0..k : buffer[j] = v THEN v ELSE Garbage]

\* CL_ParseServerCommand.
ParseServerCommand(c, command) ==
  CASE command[1] = "cs"         -> ParseConfigstrings(c, command[2])
    [] command[1] = "csf"        -> AddFragment(c, command[2], command[3], command[4], command[5])
    [] command[1] = "cmd"        -> AddReliableCommand(c, command[2])
    [] command[1] = "precache"   -> AddReliableCommand(c, <<"begin">>)
    [] command[1] = "disconnect" -> Disconnect(c)
    [] OTHER -> c

\* CL_ParseServerMessage.  The acknowledgement is not checked.
ClientExecutes(c, n) ==
  IF c.state = "CA_DISCONNECTED" \/ Executed(c, n.number) THEN c
  ELSE ParseServerCommand(Execute(c, n), n.command)

ParseServerMessage(c, m) ==
  LET parsed[k \in 0..Len(m.commands)] ==
        IF k = 0 THEN [c EXCEPT !.acknowledged = m.ack, !.upto = m.upto]
        ELSE ClientExecutes(parsed[k - 1], m.commands[k])
  IN parsed[Len(m.commands)]

\* CL_ReadPackets.
ClientCanReceive == server.net # <<>>

ClientReceives ==
  /\ ClientCanReceive
  /\ server' = [server EXCEPT !.net = Tail(@)]
  /\ client' = IF client.state = "CA_DISCONNECTED" THEN client
               ELSE ParseServerMessage(client, Head(server.net))
  /\ UNCHANGED counters

\* CL_SendMessagesToServer.
ClientSends ==
  /\ client.state # "CA_DISCONNECTED" /\ Len(client.net) < MaxInFlight
  /\ client' = Send(client)
  /\ UNCHANGED <<server, counters>>

\* The user, or the game module, adds a command.
Say ==
  /\ says < MaxSays /\ says' = says + 1
  /\ client.state # "CA_DISCONNECTED" /\ Pending(client) < MaxPending
  /\ client' = AddReliableCommand(client, <<"say">>)
  /\ UNCHANGED <<server, changes, prints, losses>>

-----------------------------------------------------------------------------

\* The network loses a message.
Lose ==
  /\ losses < MaxLosses /\ losses' = losses + 1
  /\ \/ \E i \in DOMAIN server.net :
          server' = [server EXCEPT !.net = RemoveAt(@, i)] /\ UNCHANGED client
     \/ \E i \in DOMAIN client.net :
          client' = [client EXCEPT !.net = RemoveAt(@, i)] /\ UNCHANGED server
  /\ UNCHANGED <<changes, prints, says>>

MaxFragments == Max({NumFragments(InitialSizes[i + 1]) : i \in Strings})

FirstServer ==
  [ring |-> EmptyRing, sequence |-> 0, acknowledged |-> 0, sent |-> 0, executed |-> 0,
   net |-> <<>>, log |-> <<>>, heard |-> <<>>, upto |-> 0,
   state |-> "CS_CONNECTING", configStrings |-> [i \in Strings |-> <<0, InitialSizes[i + 1]>>]]

FirstClient ==
  [ring |-> EmptyRing, sequence |-> 0, acknowledged |-> 0, sent |-> 0, executed |-> 0,
   net |-> <<>>, log |-> <<>>, heard |-> <<>>, upto |-> 0,
   state |-> "CA_CONNECTED", failed |-> FALSE, strings |-> [i \in Strings |-> Garbage],
   fragmentIndex |-> 0, fragmentNum |-> 0, buffer |-> [k \in 0..(MaxFragments - 1) |-> Garbage]]

\* The client asks for the first configstrings.
Init ==
  /\ server = FirstServer /\ client = Put(FirstClient, <<"configstrings", 0>>)
  /\ changes = 0 /\ prints = 0 /\ says = 0 /\ losses = 0

Next == \/ ServerReceives \/ ServerSends \/ Broadcast \/ SetConfigString
        \/ ClientReceives \/ ClientSends \/ Say \/ Lose

\* Both ends run frames, which read the network and send at times; what is
\* not lost arrives.  The receiving actions are weakly fair too; what enables
\* them is written out because it takes TLC too long to compute it.
Fairness == /\ WF_vars(ServerSends) /\ WF_vars(ClientSends)
            /\ <>[]ServerCanReceive => []<><<ServerReceives>>_vars
            /\ <>[]ClientCanReceive => []<><<ClientReceives>>_vars

Spec     == Init /\ [][Next]_vars
FairSpec == Spec /\ Fairness

-----------------------------------------------------------------------------
(* Properties.                                                             *)

Connected == server.state # "CS_ZOMBIE" /\ client.state # "CA_DISCONNECTED"

\* The types.  Of both ends the numbers of the commands are in order: those
\* acknowledged, those sent, those added.
TypeOK ==
  /\ server.state \in {"CS_ZOMBIE", "CS_CONNECTING", "CS_CONNECTED", "CS_SPAWNED"}
  /\ client.state \in {"CA_DISCONNECTED", "CA_CONNECTED"} /\ client.failed \in BOOLEAN
  /\ \A end \in {server, client} :
       Connected => /\ end.acknowledged <= end.sent /\ end.sent <= end.sequence
                    /\ end.sequence = Len(end.log) /\ end.executed = Len(end.heard)
  /\ client.fragmentNum < MaxFragments

\* SV_AddServerCommand, SV_AddReliableCommandsToMessage and the client's
\* clc_svcack: the client executes the commands of the server in order, each
\* once and as they were sent, until the connection ends.
ServerStream == INSTANCE ReliableStream
  WITH log <- server.log, frozen <- server.sent, delivered <- client.heard, open <- Connected
ServerStreamSpec == ServerStream!Spec

\* CL_AddReliableCommand and CL_UpdateClientCommandsToServer: the same of the
\* commands of the client.
ClientStream == INSTANCE ReliableStream
  WITH log <- client.log, frozen <- client.sent, delivered <- server.heard, open <- Connected
ClientStreamSpec == ClientStream!Spec

\* The comments of SV_AddServerCommand and CL_AddReliableCommand: a command is
\* executed before any snapshot, or any move of the user, that is made after
\* it was added.
CommandsBeforeFrames ==
  Connected => client.upto <= client.executed /\ server.upto <= server.executed

\* What Configstrings tells a client over several batches, what is broadcast
\* between them, and the fragments add up to the strings of the server.
ConfigstringsAgree ==
  /\ Connected /\ server.state = "CS_SPAWNED" /\ client.executed = server.sequence
  => client.strings = server.configStrings

\* The server does not run a client into one of its errors: the fragments of a
\* string are never mixed with those of another one.
NoClientError == server.state # "CS_ZOMBIE" => ~client.failed

\* The client gets into the level and each end gets to know all that the other
\* one has told it, whatever is lost, unless the connection ends.
Settles ==
  <>[](\/ ~Connected
       \/ /\ server.state = "CS_SPAWNED"
          /\ client.executed = server.sequence /\ server.executed = client.sequence)

\* "To avoid overflow of messages from excessive amount of configstrings we
\* batch them here": the commands of a message fit into it.
MessageFits ==
  \A i \in DOMAIN server.net :
    FoldLeft(LAMBDA n, c : n + IF IsCs(c.command) THEN Length(c.command[2]) ELSE 1,
             0, server.net[i].commands) <= MessageSize

\* Of the values of a configstring the client gets the newer one later.
NoOldValueLater ==
  [][\A i \in Strings : client'.strings[i][1] >= client.strings[i][1]]_vars

\* The types, and that no snapshot or move gets ahead of the commands before it.
Inv == TypeOK /\ CommandsBeforeFrames

\* Configstrings arrive as they are, in fragments too.
StringsAgree == ConfigstringsAgree /\ NoClientError

\* Both directions are reliable streams.
Streams == ServerStreamSpec /\ ClientStreamSpec
===============================================================================
