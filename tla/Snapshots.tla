------------------------------ MODULE Snapshots ------------------------------
(***************************************************************************)
(* Snapshots and user commands: what a spawned client and the server tell  *)
(* each other in a level.  The server sends a snapshot of the visible      *)
(* entities each frame, as a delta from the latest one that the client has *)
(* told it about, with the game commands (prints, awards, ...) that the    *)
(* client has not got.  The client fires the newest snapshot when its time *)
(* has come, and sends the user's commands until they are acknowledged.    *)
(* It may record a demo, for which it asks for a snapshot that is no delta. *)
(*                                                                         *)
(* The state of the game, the scoreboard and the players are deltas from   *)
(* the same snapshot as the entities, and are not told apart from them.    *)
(* Messages are lost, but not reordered, as MessageChannel promises.       *)
(***************************************************************************)
EXTENDS Integers, Sequences, SequencesExt, FiniteSetsExt

CONSTANTS
  UpdateBackup,   \* UPDATE_BACKUP, the snapshots that each end keeps
  CmdBackup,      \* CMD_BACKUP, the user commands that each end keeps
  CommandRing,    \* MAX_RELIABLE_COMMANDS, the game commands that are kept
  CommandWindow,  \* the frames for which a game command is sent
  EntityRing,     \* svs.client_entities.num_entities
  OtherEntities,  \* those that the other clients put there in a frame
  Ents,           \* the entities
  Baselines,      \* their baselines
  ClockSteps,     \* bound: how far the client's clock gets between user commands
  Scenarios       \* bound: how many events of each kind there may be, and the
                  \* states of the entities in each frame, 0 if not visible;
                  \* how many messages may be on their way, each way

ASSUME BackupAssumption == UpdateBackup \in Nat \ {0, 1} /\ CmdBackup \in Nat /\ CmdBackup > 3
ASSUME EntitiesAssumption ==
  /\ IsFiniteSet(Ents) /\ Ents \subseteq Nat \ {0} /\ Baselines \in [Ents -> Nat \ {0}]
  /\ OtherEntities \in Nat /\ EntityRing \in Nat \ {0}
  /\ EntityRing >= UpdateBackup * (Cardinality(Ents) + OtherEntities)
ASSUME ScenariosAssumption ==
  /\ CommandRing \in Nat /\ CommandWindow \in Nat /\ ClockSteps \subseteq Nat
  /\ \A b \in Scenarios :
       /\ b \in [frames : Nat, losses : Nat, commands : Nat, moves : Nat, records : Nat, inFlight : Nat,
                 worlds : Seq([Ents -> Nat])]
       /\ b.frames <= Len(b.worlds)

VARIABLES
  server,  \* the slot of the client, what is common to all, and the messages sent
  client,  \* the client, and the messages sent
  budget   \* the events that may still happen

vars == <<server, client, budget>>

Nothing == [e \in Ents |-> 0]

Spend(kind) == budget[kind] > 0 /\ budget' = [budget EXCEPT ![kind] = @ - 1]

-----------------------------------------------------------------------------
(* The server.                                                             *)

\* SNAP_BuildClientFrameSnap: the visible entities go to the ring that all
\* clients share, and the snapshot tells where they are.  They are sorted by
\* their numbers there; here, where nobody merges lists, the order is left open.
Visible(world) == SetToSeq({e \in Ents : world[e] # 0})

BuildFrame(s) ==
  LET world == budget.worlds[s.framenum]
      list  == Visible(world)
      Put(i) == LET k == (i - s.next) % EntityRing
                 IN CASE k < Len(list) -> <<list[k + 1], world[list[k + 1]]>>
                      [] k >= Len(list) /\ k < Len(list) + OtherEntities -> <<0, 0>>
                      [] OTHER -> s.entities[i]
  IN [s EXCEPT !.entities = [i \in DOMAIN @ |-> Put(i)],
               !.next = (@ + Len(list) + OtherEntities) % EntityRing,
               !.snapShots[s.framenum % UpdateBackup] = [first |-> s.next, num |-> Len(list)]]

\* What a snapshot holds now.
Entities(s, frame) ==
  LET snap == s.snapShots[frame % UpdateBackup]
      list == {s.entities[(snap.first + k) % EntityRing] : k \in 0..(snap.num - 1)}
  IN [e \in Ents |-> IF \E p \in list : p[1] = e THEN (CHOOSE p \in list : p[1] = e)[2] ELSE 0]

\* After "nodelta" no deltas are sent until a snapshot sent since is acknowledged.
AnswerNoDelta_OnceOnly(s) ==
  IF s.nodelta /\ s.nodelta_frame = 0 THEN [s EXCEPT !.nodelta_frame = s.framenum]
  ELSE [s EXCEPT !.nodelta = FALSE]
AnswerNoDelta(s) ==
  CASE s.nodelta /\ s.nodelta_frame = 0 -> [s EXCEPT !.nodelta_frame = s.framenum]
    [] s.nodelta /\ s.nodelta_frame # 0 /\ s.lastframe >= s.nodelta_frame -> [s EXCEPT !.nodelta = FALSE]
    [] OTHER -> s

\* Is there no snapshot to send the difference from?
IsFull_Late(s) == s.lastframe <= 0 \/ s.lastframe > s.framenum \/ s.nodelta
IsFull(s) == \/ s.lastframe <= 0 \/ s.lastframe > s.framenum \/ s.nodelta
             \/ s.framenum >= s.lastframe + UpdateBackup - 1

\* SNAP_EmitPacketEntities: what has changed, each from the state that the
\* client should have, and from its baseline if it should have none.
Removed == <<"remove">>

EmitEntities_NoRemove(from, to) ==
  [e \in {e \in Ents : from[e] # to[e] /\ to[e] # 0} |->
     <<IF from[e] = 0 THEN Baselines[e] ELSE from[e], to[e]>>]
EmitEntities(from, to) ==
  [e \in {e \in Ents : from[e] # to[e]} |->
     IF to[e] = 0 THEN Removed ELSE <<IF from[e] = 0 THEN Baselines[e] ELSE from[e], to[e]>>]

\* SV_AddGameCommand.  Of a command its frame number matters.
AddGameCommand(s) ==
  [s EXCEPT !.gameCommands =
     Append(@, IF s.lastSentFrameNum # 0 THEN s.lastSentFrameNum + 1 ELSE s.framenum)]

IsValidPendingCommand_Once(s, framenum) == s.lastframe >= 0 /\ framenum = s.framenum
IsValidPendingCommand(s, framenum) ==
  /\ framenum + CommandWindow >= s.framenum /\ framenum <= s.framenum
  /\ s.lastframe >= 0 /\ framenum > s.lastframe

\* The commands of one snapshot are a set: they come in the order of their numbers.
PendingCommands(s) ==
  LET count   == Len(s.gameCommands)
      pending == {n \in 1..count : n > count - CommandRing /\ IsValidPendingCommand(s, s.gameCommands[n])}
  IN {[number |-> n, diff |-> s.framenum - s.gameCommands[n]] : n \in pending}

\* SNAP_WriteFrameSnapToClient.  truth is a history: what the client should see.
WriteFrame(s) ==
  LET t    == AnswerNoDelta(s)
      from == IF IsFull(t) THEN Nothing ELSE Entities(t, t.lastframe)
      snap == [serverFrame |-> t.framenum, deltaFrameNum |-> t.lastframe, delta |-> ~IsFull(t),
               commands |-> PendingCommands(t), truth |-> budget.worlds[t.framenum],
               updates |-> EmitEntities(from, Entities(t, t.framenum))]
  IN [t EXCEPT !.lastSentFrameNum = t.framenum,
               !.net = Append(@, [executed |-> t.executed, ucmdAck |-> t.UcmdReceived, snap |-> snap])]

\* SV_ExecuteClientThinks: the user commands that have arrived, in the order of
\* their times, one of each time.  thoughts is a history of what is executed.
Times(s) == {s.ucmds[n % CmdBackup].time : n \in (s.UcmdExecuted + 1)..s.UcmdReceived}

FirstOf(s, time) ==
  Min({n \in (s.UcmdExecuted + 1)..s.UcmdReceived : s.ucmds[n % CmdBackup].time = time})

Execute(s, times) ==
  [s EXCEPT !.thoughts = @ \o [k \in DOMAIN times |-> s.ucmds[FirstOf(s, times[k]) % CmdBackup].number],
            !.UcmdTime = Max({@} \cup Times(s)), !.UcmdExecuted = s.UcmdReceived]

ExecuteClientThinks_Again(s) == Execute(s, SetToSortSeq(Times(s), <))
ExecuteClientThinks(s)       == Execute(s, SetToSortSeq({t \in Times(s) : t > s.UcmdTime}, <))

\* SV_ParseMoveCommand.
ParseMoveCommand(s, move) ==
  LET count == Len(move.cmds)
  IN [s EXCEPT !.UcmdReceived = move.head - 1, !.lastframe = move.lastframe,
        !.ucmds = [i \in DOMAIN @ |->
                     LET of == {k \in 1..count : (move.head - 1 - count + k) % CmdBackup = i}
                     IN IF of = {} THEN @[i] ELSE move.cmds[Max(of)]]]

\* HandleClientCommand_NoDelta.
NoDelta(s) == [s EXCEPT !.nodelta = TRUE, !.nodelta_frame = 0, !.lastframe = -1, !.executed = TRUE]

\* SV_ParseClientMessage: the client's command, unless it is done, and its move.
ParseClientMessage(s, m) ==
  LET t == IF m.asks /\ ~s.executed THEN NoDelta(s) ELSE s
  IN IF m.moves = <<>> THEN t ELSE ParseMoveCommand(t, m.moves[1])

\* SV_Frame: packets are read, the game runs, and if it is time for a snapshot
\* the client is told.
ServerFrame(count, snaps) ==
  LET parsed[k \in 0..count] ==
        IF k = 0 THEN server ELSE ParseClientMessage(parsed[k - 1], client.net[k])
      s == ExecuteClientThinks(parsed[count])
  IN /\ server' = IF snaps THEN WriteFrame(BuildFrame([s EXCEPT !.framenum = @ + 1])) ELSE s
     /\ client' = [client EXCEPT !.net = SubSeq(@, count + 1, Len(@))]

ServerReads == \E count \in 1..Len(client.net) : ServerFrame(count, FALSE) /\ UNCHANGED budget

ServerSnaps ==
  /\ Spend("frames") /\ Len(server.net) < budget.inFlight
  /\ \E count \in 0..Len(client.net) : ServerFrame(count, TRUE)

\* The game tells the client something.
GameCommand ==
  /\ Spend("commands") /\ server' = AddGameCommand(server) /\ UNCHANGED client

-----------------------------------------------------------------------------
(* The client.                                                             *)

Slot(c, frame) == c.snapShots[frame % UpdateBackup]

\* A delta from the wrong state gives garbage.
Garbage == -1

\* SNAP_ParsePacketEntities.
ParseEntities(old, updates) ==
  [e \in Ents |->
     CASE e \notin DOMAIN updates                         -> old[e]
       [] e \in DOMAIN updates /\ updates[e] = Removed    -> 0
       [] e \in DOMAIN updates /\ updates[e] # Removed    ->
            IF updates[e][1] = (IF old[e] # 0 THEN old[e] ELSE Baselines[e]) THEN updates[e][2]
            ELSE Garbage]

IsUsable(c, snap) ==
  \/ ~snap.delta
  \/ /\ snap.deltaFrameNum > 0 /\ Slot(c, snap.deltaFrameNum).valid
     /\ Slot(c, snap.deltaFrameNum).serverFrame = snap.deltaFrameNum

\* SNAP_ParseFrame.  The slot is cleared first, so that the last snapshot and
\* the one that this is a delta from are what is left of them.
Header(c, snap) ==
  [c EXCEPT !.snapShots[snap.serverFrame % UpdateBackup] =
     [serverFrame |-> snap.serverFrame, valid |-> FALSE, entities |-> Nothing, truth |-> snap.truth,
      commands |-> {}]]

Takes_All(last, snap, diff) == TRUE
Takes(last, snap, diff) == ~last.valid \/ snap.serverFrame > last.serverFrame + diff

ParseFrame(c, snap) ==
  LET h     == Header(c, snap)
      valid == IsUsable(h, snap)
      v     == [h EXCEPT !.snapShots[snap.serverFrame % UpdateBackup].valid = valid]
      takes == {g \in snap.commands :
                  valid /\ (c.receivedSnapNum <= 0 \/ Takes(Slot(v, c.receivedSnapNum), snap, g.diff))}
      old   == IF snap.delta /\ snap.deltaFrameNum > 0 THEN Slot(v, snap.deltaFrameNum).entities
               ELSE Nothing
  IN [v EXCEPT
        !.snapShots[snap.serverFrame % UpdateBackup].entities = ParseEntities(old, snap.updates),
        !.snapShots[snap.serverFrame % UpdateBackup].commands = {g.number : g \in takes},
        !.receivedSnapNum = IF valid THEN snap.serverFrame ELSE @]

\* CL_ParseFrame, and the end of CL_ParseServerMessage: recording begins with
\* a snapshot that is no delta.
Record(c, snap) ==
  IF \/ c.recorder = "recording"
     \/ c.recorder = "waiting" /\ ~snap.delta /\ c.receivedSnapNum = snap.serverFrame
  THEN [c EXCEPT !.recorder = "recording",
                 !.recorded = Append(@, [frame |-> snap.serverFrame, delta |-> snap.delta,
                                         from |-> snap.deltaFrameNum])]
  ELSE c

\* Histories of a message: the game commands taken, and whether so many
\* snapshots are missing that one which is not fired yet, or the last one
\* received, is overwritten.
AppendSome(batches, numbers) == IF numbers = {} THEN batches ELSE Append(batches, numbers)

Oldest(c) == IF c.pendingSnapNum # 0 THEN c.pendingSnapNum ELSE c.receivedSnapNum

ParseServerMessage(c, m) ==
  LET late == c.late \/ (c.receivedSnapNum > 0 /\ m.snap.serverFrame >= Oldest(c) + UpdateBackup)
      p    == ParseFrame([c EXCEPT !.ucmdAcknowledged = m.ucmdAck, !.asks = @ /\ ~m.executed,
                                   !.late = late], m.snap)
  IN Record([p EXCEPT !.taken = AppendSome(@, Slot(p, m.snap.serverFrame).commands)], m.snap)

\* CL_UpdateSnapshot: the newest snapshot received is fired next.  Those
\* between are skipped, and the game commands in them.
Newer(c, first) ==
  {i \in first..c.receivedSnapNum : Slot(c, i).valid /\ Slot(c, i).serverFrame > c.currentSnapNum}

UpdateSnapshot_Again(c) ==
  IF c.pendingSnapNum # 0 \/ c.receivedSnapNum = 0 THEN c
  ELSE [c EXCEPT !.pendingSnapNum = Slot(c, c.receivedSnapNum).serverFrame]
UpdateSnapshot_SkipsNext(c) ==
  LET newer == Newer(c, c.currentSnapNum + 2)
  IN IF c.pendingSnapNum # 0 \/ newer = {} THEN c
     ELSE [c EXCEPT !.pendingSnapNum = Slot(c, Max(newer)).serverFrame]
UpdateSnapshot(c) ==
  LET newer == Newer(c, c.currentSnapNum + 1)
  IN IF c.pendingSnapNum # 0 \/ newer = {} THEN c
     ELSE [c EXCEPT !.pendingSnapNum = Slot(c, Max(newer)).serverFrame]

\* CL_AdjustServerTime, when the time of the current snapshot is reached, and
\* CG_NewFrameSnap, which executes the game commands.
Fire(c) ==
  LET snap == Slot(c, c.pendingSnapNum)
  IN IF c.pendingSnapNum = 0 \/ ~snap.valid THEN c
     ELSE [c EXCEPT !.currentSnapNum = c.pendingSnapNum, !.pendingSnapNum = 0,
                    !.executed = AppendSome(@, snap.commands)]

\* The first snapshot makes the client active.
IsActive(c) == c.currentSnapNum # 0

\* CL_CreateNewUserCommand.  The first one, number 0, is never sent.
NewUserCommand ==
  /\ IsActive(client) /\ Spend("moves")
  /\ \E step \in ClockSteps :
       client' = [client EXCEPT
         !.cmds[client.ucmdHead % CmdBackup] = [number |-> client.ucmdHead, time |-> client.time + step],
         !.time = @ + step, !.times = Append(@, client.time + step),
         !.cmdNum = client.ucmdHead, !.ucmdHead = @ + 1]
  /\ UNCHANGED server

\* CL_Record_f.
StartRecording ==
  /\ IsActive(client) /\ client.recorder = "off" /\ Spend("records")
  /\ client' = [client EXCEPT !.recorder = "waiting", !.asks = TRUE]
  /\ UNCHANGED server

\* CL_WriteUcmdsToMessage: what is not acknowledged, or, of too many, the
\* latest three.
UcmdFirst_AfterSent(c) == Max({c.ucmdSent, 1})
UcmdFirst(c) ==
  LET head  == c.cmdNum + 1
      first == Min({c.ucmdAcknowledged + 1, head})
  IN IF head - first > CmdBackup - 1 THEN head - 3 ELSE first

Move(c) ==
  LET first == UcmdFirst(c)
  IN [lastframe |-> IF c.receivedSnapNum <= 0 THEN -1 ELSE Slot(c, c.receivedSnapNum).serverFrame,
      head      |-> c.cmdNum + 1,
      cmds      |-> [k \in 1..(c.cmdNum + 1 - first) |-> c.cmds[(first + k - 1) % CmdBackup]]]

Send(c) ==
  LET skips == IsActive(c) /\ c.cmdNum - c.ucmdAcknowledged > CmdBackup - 1
      m     == [asks |-> c.asks, moves |-> IF IsActive(c) THEN <<Move(c)>> ELSE <<>>]
  IN [c EXCEPT !.net = Append(@, m), !.skips = @ \/ skips,
               !.ucmdSent = IF IsActive(c) THEN c.cmdNum + 1 ELSE @]

\* CL_Frame.
ClientFrame(count, due, sends) ==
  LET c == IF due THEN Fire(UpdateSnapshot(client)) ELSE UpdateSnapshot(client)
      parsed[k \in 0..count] ==
        IF k = 0 THEN c ELSE ParseServerMessage(parsed[k - 1], server.net[k])
      d == parsed[count]
  IN /\ sends => Len(client.net) < budget.inFlight
     /\ client' = IF sends THEN Send(d) ELSE d
     /\ server' = [server EXCEPT !.net = SubSeq(@, count + 1, Len(@))]
     /\ UNCHANGED budget

ClientRuns ==
  \E count \in 0..Len(server.net), due \in BOOLEAN, sends \in BOOLEAN : ClientFrame(count, due, sends)

-----------------------------------------------------------------------------

\* The network loses the next message to one end.
Lose ==
  /\ Spend("losses")
  /\ \/ server.net # <<>> /\ server' = [server EXCEPT !.net = Tail(@)] /\ UNCHANGED client
     \/ client.net # <<>> /\ client' = [client EXCEPT !.net = Tail(@)] /\ UNCHANGED server

Init ==
  /\ budget \in Scenarios
  /\ server = [framenum |-> 0, next |-> 0,
               entities |-> [i \in 0..(EntityRing - 1) |-> <<0, 0>>],
               snapShots |-> [i \in 0..(UpdateBackup - 1) |-> [first |-> 0, num |-> 0]],
               lastframe |-> -1, lastSentFrameNum |-> 0, nodelta |-> FALSE, nodelta_frame |-> 0,
               gameCommands |-> <<>>, executed |-> FALSE,
               ucmds |-> [i \in 0..(CmdBackup - 1) |-> [number |-> 0, time |-> 0]],
               UcmdReceived |-> 0, UcmdExecuted |-> 0, UcmdTime |-> 0, thoughts |-> <<>>, net |-> <<>>]
  /\ client = [snapShots |-> [i \in 0..(UpdateBackup - 1) |->
                                [serverFrame |-> 0, valid |-> FALSE, entities |-> Nothing,
                                 truth |-> Nothing, commands |-> {}]],
               receivedSnapNum |-> 0, pendingSnapNum |-> 0, currentSnapNum |-> 0,
               cmds |-> [i \in 0..(CmdBackup - 1) |-> [number |-> 0, time |-> 0]],
               cmdNum |-> 0, ucmdHead |-> 0, ucmdAcknowledged |-> 0, ucmdSent |-> 0, time |-> 1,
               times |-> <<>>, recorder |-> "off", asks |-> FALSE, recorded |-> <<>>,
               taken |-> <<>>, executed |-> <<>>, late |-> FALSE, skips |-> FALSE, net |-> <<>>]

Next == \/ ServerReads \/ ServerSnaps \/ GameCommand
        \/ ClientRuns \/ NewUserCommand \/ StartRecording \/ Lose

\* The client runs frames, which read what has arrived, and time goes on.
\* This is weakly fair; what enables it is written out for TLC.
CanRun == server.net # <<>> \/ client.currentSnapNum # client.receivedSnapNum

Fairness == <>[]CanRun => []<><<\E sends \in BOOLEAN : ClientFrame(Len(server.net), TRUE, sends)>>_vars

Spec == Init /\ [][Next]_vars /\ Fairness

-----------------------------------------------------------------------------
(* Properties.                                                             *)

\* The types.  The snapshot fired, the next one and the last one received are
\* in order.
TypeOK ==
  /\ server.framenum \in Nat
  /\ server.lastframe \in -1..server.framenum /\ server.nodelta_frame \in 0..server.framenum
  /\ server.UcmdExecuted <= server.UcmdReceived /\ server.UcmdReceived <= client.cmdNum
  /\ client.recorder \in {"off", "waiting", "recording"}
  /\ client.receivedSnapNum <= server.framenum
  /\ client.currentSnapNum <= client.receivedSnapNum /\ client.pendingSnapNum <= client.receivedSnapNum
  /\ client.pendingSnapNum # 0 => client.pendingSnapNum > client.currentSnapNum

\* "Not supposed to happen!", says SNAP_ParseFrameHeader of a snapshot that is
\* a delta from one which the client has not got any more: it does not.
FramesUsable ==
  \A i \in DOMAIN client.snapShots : client.snapShots[i].serverFrame > 0 => client.snapShots[i].valid

\* SNAP_EmitPacketEntities, SNAP_ParsePacketEntities and the rings of both ends:
\* the client sees what the server has put into a snapshot.
SnapshotsAgree ==
  \A i \in DOMAIN client.snapShots :
    client.snapShots[i].valid => client.snapShots[i].entities = client.snapShots[i].truth

\* isValidPendingCommand and SNAP_ParseFrame: though a game command is sent
\* with several snapshots the client takes it once and in order, and from the
\* first one on it has taken all those of the snapshots up to the last one it
\* has received; those of the snapshots it fires are executed in order.  When
\* too many snapshots are missing this is not so.
InOrder(batches) == \A j, k \in DOMAIN batches : j < k => \A m \in batches[j], n \in batches[k] : m < n

GameCommandsOnce ==
  ~client.late =>
    /\ InOrder(client.taken) /\ InOrder(client.executed)
    /\ client.taken # <<>> =>
         UNION Range(client.taken) =
           {n \in 1..Len(server.gameCommands) :
              n >= Min(client.taken[1]) /\ server.gameCommands[n] <= client.receivedSnapNum}

\* SV_ExecuteClientThinks, CL_WriteUcmdsToMessage: of the user commands that
\* the server knows of it has executed each one once and in order, but those
\* with the time of an earlier one; unless the client had too many and has
\* skipped some.
Expected ==
  SelectSeq([n \in 1..server.UcmdExecuted |-> n],
            LAMBDA n : \A m \in 1..(n - 1) : client.times[m + 1] # client.times[n + 1])

ThinksComplete ==
  IF client.skips THEN \A k \in 2..Len(server.thoughts) : server.thoughts[k] > server.thoughts[k - 1]
  ELSE server.thoughts = Expected

\* CL_Record_f and SNAP_WriteFrameSnapToClient: from the snapshot on that
\* answers "nodelta" a demo can be played.
DemoDecodes ==
  \A k \in DOMAIN client.recorded :
    /\ client.recorded[k].delta /\ server.nodelta_frame # 0
    /\ client.recorded[k].frame >= server.nodelta_frame
    => \E j \in 1..(k - 1) : client.recorded[j].frame = client.recorded[k].from

\* CL_UpdateSnapshot and CL_AdjustServerTime: the newest snapshot is fired.
NewestIsFired == <>[](client.currentSnapNum = client.receivedSnapNum)

\* The types, and that snapshots can be decoded and are then what was encoded.
SnapshotsSound == TypeOK /\ FramesUsable /\ SnapshotsAgree
===============================================================================
