-------------------------- MODULE SnapshotsInvariant --------------------------
(***************************************************************************)
(* The inductive invariant of Snapshots.  A snapshot that the client has   *)
(* told the server about stays in the rings of both ends for as long as a  *)
(* delta from it may be on its way; the entities of the snapshots that the *)
(* server may still send deltas from have not been overwritten.            *)
(***************************************************************************)
EXTENDS Snapshots

World(frame) == budget.worlds[frame]

-----------------------------------------------------------------------------
(* Types.                                                                  *)

States   == [Ents -> Nat]
UserCmds == [number : Nat, time : Nat]

\* A world, or nothing yet.
Emitted == {EmitEntities(from, to) : from \in States, to \in States}

ServerSnap == [serverFrame : Nat, deltaFrameNum : Int, delta : BOOLEAN, truth : States, updates : Emitted,
               commands : SUBSET [number : Nat, diff : Int]]
ServerMessage == [executed : BOOLEAN, ucmdAck : Nat, snap : ServerSnap]

MoveType      == [lastframe : Int, head : Nat \ {0}, cmds : Seq(UserCmds)]
ClientMessage == [asks : BOOLEAN, moves : Seq(MoveType)]

\* What is thought when is left open.
ServerType(s) ==
  [framenum : Nat, next : Nat, entities : [0..(EntityRing - 1) -> Nat \X Nat],
   snapShots : [0..(UpdateBackup - 1) -> [first : Nat, num : Nat]],
   lastframe : Int, lastSentFrameNum : Nat, nodelta : BOOLEAN, nodelta_frame : Nat,
   gameCommands : Seq(Nat), executed : BOOLEAN, ucmds : [0..(CmdBackup - 1) -> UserCmds],
   UcmdReceived : Nat, UcmdExecuted : Nat, UcmdTime : {s.UcmdTime}, thoughts : {s.thoughts},
   net : Seq(ServerMessage)]

ClientSnap == [serverFrame : Nat, valid : BOOLEAN, entities : [Ents -> Int], truth : States, commands : SUBSET Nat]

ClientType ==
  [snapShots : [0..(UpdateBackup - 1) -> ClientSnap],
   receivedSnapNum : Nat, pendingSnapNum : Nat, currentSnapNum : Nat,
   cmds : [0..(CmdBackup - 1) -> UserCmds], cmdNum : Nat, ucmdHead : Nat, ucmdAcknowledged : Nat,
   ucmdSent : Nat, time : Nat, times : Seq(Nat), recorder : {"off", "waiting", "recording"}, asks : BOOLEAN,
   recorded : Seq([frame : Nat, delta : BOOLEAN, from : Int]),
   taken : Seq(SUBSET Nat), executed : Seq(SUBSET Nat), late : BOOLEAN, skips : BOOLEAN,
   net : Seq(ClientMessage)]

BudgetType ==
  [frames : Nat, losses : Nat, commands : Nat, moves : Nat, records : Nat, inFlight : Nat, worlds : Seq(States)]

\* There is a world for every frame that may come.
Types ==
  /\ budget \in BudgetType /\ server \in ServerType(server) /\ client \in ClientType
  /\ server.framenum + budget.frames <= Len(budget.worlds)

-----------------------------------------------------------------------------
(* The ring of entities.                                                   *)

\* What a frame puts into the ring.
Size(frame) == Len(Visible(World(frame)))

\* Counted from the first one, the entities of a frame begin at pos[frame]; a
\* frame takes FrameSize places at most, and pos[frame + 1] begins the next one.
FrameSize == Cardinality(Ents) + OtherEntities

Placed(s, pos) ==
  /\ pos \in [1..(s.framenum + 1) -> Nat] /\ s.next = pos[s.framenum + 1] % EntityRing
  /\ \A f \in 1..s.framenum : pos[f + 1] = pos[f] + Size(f) + OtherEntities

InRing(s, pos, f) ==
  /\ s.snapShots[f % UpdateBackup] = [first |-> pos[f] % EntityRing, num |-> Size(f)]
  /\ \A k \in 0..(Size(f) - 1) :
       LET e == Visible(World(f))[k + 1] IN s.entities[(pos[f] + k) % EntityRing] = <<e, World(f)[e]>>

RingHolds(s) ==
  \E pos : /\ Placed(s, pos)
           /\ \A f \in 1..s.framenum : f > s.framenum - UpdateBackup => InRing(s, pos, f)

-----------------------------------------------------------------------------
(* Snapshots.                                                              *)

\* The client keeps a snapshot until a whole ring of them has come after it.
Kept(c, frame) ==
  frame > 0 => /\ frame <= c.receivedSnapNum
               /\ c.receivedSnapNum < frame + UpdateBackup => Slot(c, frame).serverFrame = frame

\* The snapshots that the client has are those that were sent.
SlotsHold(c) ==
  \A i \in 0..(UpdateBackup - 1) :
    LET snap == c.snapShots[i]
    IN /\ snap.serverFrame <= c.receivedSnapNum
       /\ snap.serverFrame = 0 => ~snap.valid
       /\ snap.serverFrame > 0 => /\ snap.serverFrame % UpdateBackup = i /\ snap.valid
                                  /\ snap.truth = World(snap.serverFrame) /\ snap.entities = snap.truth

FiresInOrder(c) ==
  /\ c.currentSnapNum <= c.receivedSnapNum /\ c.pendingSnapNum <= c.receivedSnapNum
  /\ c.pendingSnapNum # 0 => c.pendingSnapNum > c.currentSnapNum

\* A snapshot on its way tells what was visible, and if it is a delta then from
\* one which the client will still have.
SnapHolds(s, c, snap) ==
  /\ c.receivedSnapNum < snap.serverFrame /\ snap.serverFrame <= s.framenum
  /\ snap.truth = World(snap.serverFrame)
  /\ ~snap.delta => snap.updates = EmitEntities(Nothing, World(snap.serverFrame))
  /\ snap.delta => /\ snap.deltaFrameNum > 0 /\ snap.deltaFrameNum < snap.serverFrame
                   /\ snap.serverFrame < snap.deltaFrameNum + UpdateBackup /\ Kept(c, snap.deltaFrameNum)
                   /\ snap.updates = EmitEntities(World(snap.deltaFrameNum), World(snap.serverFrame))

\* The messages to the client after the first j ones.
SnapsHold(s, c, j) ==
  /\ \A k \in (j + 1)..Len(s.net) : SnapHolds(s, c, s.net[k].snap)
  /\ \A k, l \in (j + 1)..Len(s.net) : k < l => s.net[k].snap.serverFrame < s.net[l].snap.serverFrame

-----------------------------------------------------------------------------
(* What the client tells the server.                                       *)

Moves(c, i)   == {k \in (i + 1)..Len(c.net) : c.net[k].moves # <<>>}
MoveOf(c, k)  == c.net[k].moves[1]

MoveHolds(s, c, m) ==
  /\ Kept(c, m.lastframe) /\ s.lastframe <= m.lastframe
  /\ s.UcmdReceived < m.head /\ m.head <= c.cmdNum + 1

\* The moves after the first i messages.
MovesHold(s, c, i) ==
  /\ s.lastframe >= -1 /\ Kept(c, s.lastframe)
  /\ s.lastframe <= c.receivedSnapNum \/ s.lastframe = -1
  /\ s.UcmdExecuted <= s.UcmdReceived /\ s.UcmdReceived <= c.cmdNum /\ c.cmdNum <= c.ucmdHead
  /\ \A k \in Moves(c, i) : MoveHolds(s, c, MoveOf(c, k))
  /\ \A k, l \in Moves(c, i) : k <= l => /\ MoveOf(c, k).lastframe <= MoveOf(c, l).lastframe
                                         /\ MoveOf(c, k).head <= MoveOf(c, l).head

-----------------------------------------------------------------------------
(* Demos.                                                                  *)

Recorded(c, frame) == \E n \in DOMAIN c.recorded : c.recorded[n].frame = frame

\* From the snapshot that answers nodelta on the client records all it gets.
Covered(s, c, frame) == s.nodelta_frame # 0 /\ frame >= s.nodelta_frame => Recorded(c, frame)

Asked(s, c, i) ==
  /\ c.asks \/ s.executed \/ (\E k \in (i + 1)..Len(c.net) : c.net[k].asks) => c.recorder # "off"
  /\ ~s.executed => ~s.nodelta /\ s.nodelta_frame = 0
  /\ s.executed /\ ~s.nodelta => s.nodelta_frame # 0 /\ s.lastframe >= s.nodelta_frame

Demo(s, c, i, j) ==
  /\ Asked(s, c, i) /\ s.nodelta_frame <= s.framenum
  /\ Covered(s, c, c.receivedSnapNum) /\ Covered(s, c, s.lastframe)
  /\ \A k \in Moves(c, i) : Covered(s, c, MoveOf(c, k).lastframe)
  /\ \A k \in (j + 1)..Len(s.net) :
       LET snap == s.net[k].snap
       IN s.nodelta_frame # 0 /\ snap.serverFrame >= s.nodelta_frame /\ snap.delta
          => snap.deltaFrameNum >= s.nodelta_frame /\ Recorded(c, snap.deltaFrameNum)
  /\ c.recorded # <<>> => c.recorder = "recording"
  /\ \A n \in DOMAIN c.recorded :
       /\ c.recorded[n].frame <= c.receivedSnapNum
       /\ c.recorded[n].delta /\ s.nodelta_frame # 0 /\ c.recorded[n].frame >= s.nodelta_frame
          => \E m \in 1..(n - 1) : c.recorded[m].frame = c.recorded[n].from

-----------------------------------------------------------------------------

\* When the client has read i messages less, and the server j.
Agreed(s, c, i, j) ==
  /\ c.receivedSnapNum <= s.framenum /\ Kept(c, c.receivedSnapNum)
  /\ SlotsHold(c) /\ FiresInOrder(c) /\ SnapsHold(s, c, j) /\ MovesHold(s, c, i) /\ Demo(s, c, i, j)

IInv == Types /\ RingHolds(server) /\ Agreed(server, client, 0, 0)
===============================================================================
