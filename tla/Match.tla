--------------------------------- MODULE Match ---------------------------------
(***************************************************************************)
(* The course of a level in the game module (game/g_gametypes.cpp,         *)
(* g_gameteams.cpp, g_callvotes.cpp, client.cpp, g_main.cpp): warmup, the  *)
(* countdown once everybody is ready, the match, its end and the next      *)
(* level; teams and their limits; challengers who wait for a place; votes; *)
(* clients and bots that come and go in the middle of all this.            *)
(*                                                                         *)
(* The commands of clients are handled between the frames of the server.   *)
(* The gametype's script is external: it locks teams for a match, and when *)
(* the time limit or the score limit is hit it launches the next state.    *)
(* Scores are not modelled, so a choice between teams of one size by score *)
(* takes the first, and any order of the players may be that of their      *)
(* scores.  Coaches, invitations, pauses and uneven teams are left out.    *)
(***************************************************************************)
EXTENDS Naturals, Sequences, FiniteSets, SequencesExt

CONSTANTS
  NumSlots,       \* the most slots
  Scenarios       \* rules of gametypes, and what happens

ASSUME CountsAssumption == NumSlots \in Nat \ {0}

Slots == 1..NumSlots

VoteKinds == {"allready", "lock", "unlock", "kick", "remove"}

\* slots is sv_maxclients; clients and bots, how many there are at a time; idles,
\* whether clients may be inactive; votes, the kinds that are called for;
\* voteChanges and votePercent, g_callvote_maxchanges, 1 or more, and g_vote_percent.
ASSUME ScenariosAssumption ==
  Scenarios \subseteq [teamBased: BOOLEAN, challengers: BOOLEAN, maxPerTeam: Nat, warmupLimit: BOOLEAN,
                      slots: Slots, clients: Slots, bots: Nat, idles: BOOLEAN,
                      votes: SUBSET VoteKinds, voteChanges: Nat \ {0}, votePercent: 0..100, operators: BOOLEAN]

VARIABLES
  game,  \* the state of the game module, see Init
  rules  \* the scenario

vars == <<game, rules>>

Teams == IF rules.teamBased THEN {"alpha", "beta"} ELSE {"players"}

NoVote == [kind |-> "none", target |-> 1, op |-> FALSE]

\* CS_CONNECTING and CS_CONNECTED are one state here: neither is in a team.
\* list and locked are of teamlist; queue, the slots with a queueTimeStamp by
\* that; passed, the points of time that are over: the end of the match state
\* ("limit"), that of the vote ("vote") and that of the first seconds in which
\* challengers cannot join ("open").  ownVote: the vote of the slot was cast
\* since its client has connected.
Init ==
  /\ rules \in Scenarios
  /\ game = [conn |-> [c \in Slots |-> "free"], fake |-> [c \in Slots |-> FALSE],
             team |-> [c \in Slots |-> "spectators"], ready |-> [c \in Slots |-> FALSE],
             list |-> [t \in Teams |-> {}], locked |-> FALSE, teamlock |-> FALSE, queue |-> <<>>,
             state |-> "warmup", waiting |-> FALSE, forceStart |-> FALSE, advance |-> FALSE,
             exitNow |-> FALSE, passed |-> {},
             vote |-> NoVote, voted |-> [c \in Slots |-> "nothing"],
             changes |-> [c \in Slots |-> rules.voteChanges], ownVote |-> [c \in Slots |-> FALSE]]

InUse(g, c)       == g.conn[c] \in {"connected", "spawned"}
IsSpawned(g, c)   == g.conn[c] = "spawned"
IsSpectator(g, c) == g.team[c] = "spectators"
Humans(g)         == {c \in Slots : IsSpawned(g, c) /\ ~g.fake[c]}
Count(S)          == Cardinality(S)

\* The members of S in s, in their order.
Keep(s, S) ==
  LET kept[i \in 0..Len(s)] ==
        IF i = 0 THEN <<>> ELSE IF s[i] \in S THEN Append(kept[i - 1], s[i]) ELSE kept[i - 1]
  IN kept[Len(s)]
Without(queue, c) == Keep(queue, Slots \ {c})

-----------------------------------------------------------------------------
(* Match states.                                                           *)

BeforeEnd(g) == g.state \in {"warmup", "countdown", "playtime"}

\* The players of the teams leave the queue, the better half of them comes back
\* at its front, the best of these last; ranking has the best player first.
AdvanceChallengersQueue(g, ranking) ==
  LET players == Keep(ranking, {c \in Slots : InUse(g, c) /\ ~IsSpectator(g, c)})
      winners == Len(players) - Len(players) \div 2
  IN IF ~rules.challengers \/ players = <<>> THEN g
     ELSE [g EXCEPT !.queue = Reverse(SubSeq(players, 1, winners)) \o
                              Keep(g.queue, Slots \ Range(players))]

\* The script locks the teams for a match, if that was voted for.
ScriptLocks(g, state) ==
  CASE state = "countdown"              -> g.locked \/ g.teamlock
    [] state \in {"warmup", "postmatch"} -> FALSE
    [] OTHER                            -> g.locked

Enter(g, state) ==
  [g EXCEPT !.state = state, !.waiting = FALSE, !.passed = @ \ {"limit"},
            !.forceStart = @ /\ state \notin {"warmup", "playtime"},
            !.advance = IF state = "warmup" THEN FALSE ELSE @ \/ state \in {"countdown", "playtime"},
            !.teamlock = @ /\ state # "postmatch",
            !.locked = ScriptLocks(g, state),
            !.exitNow = @ /\ state # "waitexit"]

LaunchState(g, state, ranking) ==
  Enter(IF state = "waitexit" /\ g.advance THEN AdvanceChallengersQueue(g, ranking) ELSE g, state)

Launch(g, state) == LaunchState(g, state, <<>>)

Considered(g, t)  == {c \in g.list[t] : InUse(g, c) /\ ~IsSpectator(g, c)}
TeamIsReady(g, t) == Considered(g, t) # {} /\ \A c \in Considered(g, t) : g.ready[c]

Enough(g) == IF rules.teamBased THEN \A t \in Teams : g.list[t] # {} ELSE Count(g.list["players"]) > 1
AllReady(g) == Enough(g) /\ \A t \in Teams : TeamIsReady(g, t)

CheckReadys(g) ==
  CASE g.state = "warmup" /\ AllReady(g)                        -> Launch(g, "countdown")
    [] g.state = "countdown" /\ ~g.forceStart /\ ~AllReady(g)   -> Launch(g, "warmup")
    [] OTHER                                                    -> g

CheckStateAbort_IgnoresForced(g) ==
  CASE ~BeforeEnd(g) \/ (g.waiting /\ Enough(g))               -> [g EXCEPT !.waiting = FALSE]
    [] g.state = "warmup" /\ ~Enough(g) /\ rules.warmupLimit   -> [g EXCEPT !.waiting = TRUE]
    [] g.state = "countdown" /\ ~g.forceStart /\ ~Enough(g)    -> [Launch(g, "warmup") EXCEPT !.waiting = TRUE]
    [] g.state = "playtime" /\ ~Enough(g)                      -> Launch(g, "postmatch")
    [] OTHER                                                   -> g
CheckStateAbort_NotInMatch(g) ==
  CASE ~BeforeEnd(g) \/ (g.waiting /\ Enough(g))               -> [g EXCEPT !.waiting = FALSE]
    [] g.state = "warmup" /\ ~Enough(g) /\ rules.warmupLimit   -> [g EXCEPT !.waiting = TRUE]
    [] g.state = "countdown" /\ ~Enough(g)                     -> [Launch(g, "warmup") EXCEPT !.waiting = TRUE]
    [] OTHER                                                   -> g
CheckStateAbort(g) ==
  CASE ~BeforeEnd(g) \/ (g.waiting /\ Enough(g))               -> [g EXCEPT !.waiting = FALSE]
    [] g.state = "warmup" /\ ~Enough(g) /\ rules.warmupLimit   -> [g EXCEPT !.waiting = TRUE]
    [] g.state = "countdown" /\ ~Enough(g)                     -> [Launch(g, "warmup") EXCEPT !.waiting = TRUE]
    [] g.state = "playtime" /\ ~Enough(g)                      -> Launch(g, "postmatch")
    [] OTHER                                                   -> g

\* The script: the next state when a limit is hit.  The limit of the last one
\* ends the level.
NextState(g, ranking) ==
  CASE g.state = "warmup"    -> Launch([g EXCEPT !.forceStart = TRUE], "countdown")
    [] g.state = "countdown" -> Launch(g, "playtime")
    [] g.state = "playtime"  -> Launch(g, "postmatch")
    [] g.state = "postmatch" -> LaunchState(g, "waitexit", ranking)
    [] g.state = "waitexit"  -> [g EXCEPT !.exitNow = TRUE]
ThinkRules_WaitsForPlayers(g, ranking) ==
  IF "limit" \in g.passed /\ g.state # "waitexit" THEN NextState(g, ranking) ELSE g
ThinkRules(g, ranking) == IF "limit" \in g.passed THEN NextState(g, ranking) ELSE g

-----------------------------------------------------------------------------
(* Teams.                                                                  *)

Members(g, t)        == {c \in Slots : InUse(g, c) /\ g.team[c] = t}
UpdateMembersList(g) == [g EXCEPT !.list = [t \in Teams |-> Members(g, t)]]

\* The part of G_ClientRespawn that concerns the team.
Respawn(g, c, t) ==
  LET moved == [g EXCEPT !.team[c] = t]
  IN IF g.team[c] # t THEN UpdateMembersList(moved) ELSE moved

SetTeam_ChecksFirst(g, c, t) == [CheckReadys(Respawn(g, c, t)) EXCEPT !.ready[c] = FALSE]
SetTeam(g, c, t) == CheckReadys([Respawn(g, c, t) EXCEPT !.ready[c] = FALSE])

IsFull_AdmitsOneMore(g, t) == rules.teamBased /\ rules.maxPerTeam > 0 /\ Count(g.list[t]) > rules.maxPerTeam
IsFull(g, t) == rules.teamBased /\ rules.maxPerTeam > 0 /\ Count(g.list[t]) + 1 > rules.maxPerTeam

IsQueued(g, c) == \E i \in 1..Len(g.queue) : g.queue[i] = c

DenyJoinTeam(g, c, t) ==
  IF ~BeforeEnd(g) THEN "ER_TEAM_MATCHSTATE"
  ELSE IF rules.challengers /\ ("open" \notin g.passed \/ ~IsQueued(g, c)) THEN "ER_TEAM_CHALLENGERS"
  ELSE IF g.locked THEN "ER_TEAM_LOCKED"
  ELSE IF IsFull(g, t) THEN "ER_TEAM_FULL"
  ELSE "ER_TEAM_OK"

JoinQueue(g, c) ==
  IF rules.challengers /\ IsSpectator(g, c) /\ ~IsQueued(g, c) THEN [g EXCEPT !.queue = Append(@, c)] ELSE g
LeaveQueue(g, c) ==
  IF IsSpectator(g, c) THEN [g EXCEPT !.queue = Without(@, c)] ELSE g

JoinTeam(g, c, t) ==
  LET h     == UpdateMembersList(g)
      error == DenyJoinTeam(h, c, t)
  IN CASE error = "ER_TEAM_OK"         -> SetTeam(h, c, t)
       [] error = "ER_TEAM_MATCHSTATE" -> h
       [] OTHER                        -> JoinQueue(h, c)

\* The smallest of the teams that may be joined, or "none".
BestTeam(g, c) ==
  LET open == {t \in Teams : DenyJoinTeam(g, c, t) = "ER_TEAM_OK"}
      best == {t \in open : \A u \in open : Count(g.list[t]) <= Count(g.list[u])}
  IN CASE best = {} -> "none" [] "alpha" \in best -> "alpha" [] OTHER -> "beta"

\* The state, and whether the call returns true: in a gametype without teams it
\* does so even if JoinTeam has refused.
JoinAnyTeam(g, c, silent) ==
  LET h    == UpdateMembersList(g)
      best == BestTeam(h, c)
  IN IF ~rules.teamBased
     THEN IF g.team[c] = "players" THEN [g |-> h, joined |-> FALSE]
          ELSE [g |-> JoinTeam(h, c, "players"), joined |-> TRUE]
     ELSE IF best = g.team[c] THEN [g |-> h, joined |-> FALSE]
     ELSE IF best # "none" THEN [g |-> JoinTeam(h, c, best), joined |-> TRUE]
     ELSE IF BeforeEnd(g) /\ ~silent THEN [g |-> JoinQueue(h, c), joined |-> FALSE]
     ELSE [g |-> h, joined |-> FALSE]

Challengers_AlsoPlayers(g) == Keep(g.queue, {c \in Slots : IsSpawned(g, c)})
Challengers(g) == Keep(g.queue, {c \in Slots : IsSpectator(g, c) /\ IsSpawned(g, c)})

\* Challengers in their order, up to the first who is refused.
LetIn(a, c) ==
  LET r == JoinAnyTeam(a.g, c, TRUE)
  IN IF a.refused THEN a
     ELSE [g |-> r.g, refused |-> ~r.joined,
           restart |-> a.restart \/ (r.joined /\ r.g.state = "countdown")]
ExecuteChallengersQueue(g) ==
  LET queue == Challengers(g)
      after[i \in 0..Len(queue)] ==
        IF i = 0 THEN [g |-> g, refused |-> FALSE, restart |-> FALSE] ELSE LetIn(after[i - 1], queue[i])
      result == after[Len(queue)]
  IN IF ~rules.challengers \/ g.state = "playtime" \/ "open" \notin g.passed THEN g
     ELSE IF result.restart THEN Launch(result.g, "warmup") ELSE result.g

-----------------------------------------------------------------------------
(* Clients that come and go.                                               *)

ResetVote(g, c) == [g EXCEPT !.voted[c] = "nothing", !.changes[c] = rules.voteChanges, !.ownVote[c] = FALSE]

\* G_ClientDisconnect
Disconnect_NobodyChecks(g, c) ==
  [Respawn(g, c, "spectators") EXCEPT !.queue = Without(@, c), !.fake[c] = FALSE, !.conn[c] = "zombie"]
Disconnect(g, c) ==
  [CheckReadys([Respawn(g, c, "spectators") EXCEPT !.queue = Without(@, c), !.fake[c] = FALSE])
     EXCEPT !.conn[c] = "zombie"]

ClientConnect_KeepsVote(g, c, fake) ==
  [g EXCEPT !.conn[c] = IF fake THEN "spawned" ELSE "connected",
            !.fake[c] = fake, !.team[c] = "spectators", !.ownVote[c] = FALSE]
ClientConnect(g, c, fake) ==
  ResetVote([g EXCEPT !.conn[c] = IF fake THEN "spawned" ELSE "connected",
                      !.fake[c] = fake, !.team[c] = "spectators"], c)

FreeSlots(g)  == {c \in 1..rules.slots : g.conn[c] = "free"}
FirstOf(S)    == CHOOSE c \in S : \A d \in S : c <= d
LastOf(S)     == CHOOSE c \in S : \A d \in S : d <= c
Bots(g)       == {c \in Slots : g.fake[c]}

\* The last bot makes room.
Connect ==
  /\ Count({c \in Slots : InUse(game, c)} \ Bots(game)) < rules.clients
  /\ \/ FreeSlots(game) # {} /\ game' = ClientConnect(game, FirstOf(FreeSlots(game)), FALSE)
     \/ /\ FreeSlots(game) = {} /\ Bots(game) # {}
        /\ LET c == LastOf(Bots(game)) IN game' = ClientConnect(Disconnect(game, c), c, FALSE)

Begin(c) ==
  /\ game.conn[c] = "connected"
  /\ game' = Respawn([game EXCEPT !.conn[c] = "spawned"], c, "spectators")

\* A client that times out is no zombie.
Leave(c)   == InUse(game, c) /\ ~game.fake[c] /\ game' = Disconnect(game, c)
TimeOut(c) == InUse(game, c) /\ ~game.fake[c] /\ game' = [Disconnect(game, c) EXCEPT !.conn[c] = "free"]
ZombieTimePasses(c) == game.conn[c] = "zombie" /\ game' = [game EXCEPT !.conn[c] = "free"]

BotConnects ==
  /\ Count(Bots(game)) < rules.bots /\ game.state # "waitexit" /\ game.state # "postmatch"
  /\ FreeSlots(game) # {}
  /\ game' = ClientConnect(game, FirstOf(FreeSlots(game)), TRUE)

\* G_CheckNumBots with fewer bots wanted removes the first.
BotLeaves == Bots(game) # {} /\ game' = Disconnect(game, FirstOf(Bots(game)))

-----------------------------------------------------------------------------
(* Commands of clients.  Bots join any team and get ready as well.         *)

Join(c)        == IsSpawned(game, c) /\ game' = JoinAnyTeam(game, c, FALSE).g
JoinTeamCmd(c) ==
  /\ c \in Humans(game)
  /\ \E t \in Teams \ {game.team[c]} : game' = JoinTeam(game, c, t)

Spec_f(c) ==
  /\ c \in Humans(game) /\ ~(IsSpectator(game, c) /\ ~IsQueued(game, c))
  /\ LET h == IF IsSpectator(game, c) THEN game ELSE SetTeam(UpdateMembersList(game), c, "spectators")
     IN game' = [h EXCEPT !.queue = Without(@, c)]

EnterQueue(c)    == c \in Humans(game) /\ rules.challengers /\ game' = JoinQueue(game, c)
LeaveQueueCmd(c) == c \in Humans(game) /\ rules.challengers /\ game' = LeaveQueue(game, c)

Ready(c) ==
  /\ IsSpawned(game, c) /\ ~IsSpectator(game, c) /\ game.state = "warmup" /\ ~game.ready[c]
  /\ game' = CheckReadys([game EXCEPT !.ready[c] = TRUE])

NotReady(c) ==
  /\ c \in Humans(game) /\ ~IsSpectator(game, c) /\ game.state \in {"warmup", "countdown"} /\ game.ready[c]
  /\ game' = CheckReadys([game EXCEPT !.ready[c] = FALSE])

\* Inactive players are taken out of a match.
InactivityRemove(c) ==
  /\ rules.idles /\ IsSpawned(game, c) /\ game.state = "playtime" /\ ~IsSpectator(game, c)
  /\ game' = [SetTeam(game, c, "spectators") EXCEPT !.queue = Without(@, c)]

\* The attack button ends the last state of the level.
ExitButton(c) ==
  /\ IsSpawned(game, c) /\ game.state = "waitexit"
  /\ game' = [game EXCEPT !.exitNow = TRUE]

-----------------------------------------------------------------------------
(* Votes.                                                                  *)

IsVoting(g) == g.vote.kind # "none"

ResetVotes(g) ==
  [g EXCEPT !.vote = NoVote, !.passed = @ \ {"vote"},
            !.voted = [c \in Slots |-> "nothing"], !.changes = [c \in Slots |-> rules.voteChanges],
            !.ownVote = [c \in Slots |-> FALSE]]

NotReadys(g) == {c \in Slots : IsSpawned(g, c) /\ ~IsSpectator(g, c) /\ ~g.ready[c]}

Validates(g, vote) ==
  CASE vote.kind = "allready" -> g.state = "warmup" /\ NotReadys(g) # {}
    [] vote.kind = "lock"     -> BeforeEnd(g) /\ ~g.teamlock
    [] vote.kind = "unlock"   -> BeforeEnd(g) /\ g.teamlock
    [] vote.kind = "kick"     -> InUse(g, vote.target)
    [] vote.kind = "remove"   -> InUse(g, vote.target) /\ ~IsSpectator(g, vote.target)

InMatch(g) == g.state \in {"countdown", "playtime"}

\* The slots in their order, each of which may start the countdown.
MakeReady(g, c) == IF c \in NotReadys(g) THEN CheckReadys([g EXCEPT !.ready[c] = TRUE]) ELSE g
AllreadyPassed(g) ==
  LET after[c \in 0..NumSlots] == IF c = 0 THEN g ELSE MakeReady(after[c - 1], c)
  IN after[NumSlots]

RemovePassed(g, c) == [SetTeam(g, c, "spectators") EXCEPT !.queue = Without(@, c)]

LockPassed(g, lock) == [g EXCEPT !.teamlock = lock, !.locked = IF InMatch(g) THEN lock ELSE @]

Execute(g) ==
  CASE g.vote.kind = "allready" -> AllreadyPassed(g)
    [] g.vote.kind = "lock"     -> LockPassed(g, TRUE)
    [] g.vote.kind = "unlock"   -> LockPassed(g, FALSE)
    [] g.vote.kind = "kick"     -> Disconnect(g, g.vote.target)
    [] g.vote.kind = "remove"   -> RemovePassed(g, g.vote.target)

\* Idle clients count only if they have voted.
Idles(g) == IF rules.idles THEN SUBSET Humans(g) ELSE {{}}
Voters(g, idle)  == {c \in Humans(g) : ~(c \in idle /\ g.voted[c] = "nothing")}
Voted(g, idle, v) == Count({c \in Voters(g, idle) : g.voted[c] = v})
NeedVotes(g, idle) == (Count(Voters(g, idle)) * rules.votePercent) \div 100

IsPassed(g, idle) == g.vote.op \/ Voted(g, idle, "yes") > NeedVotes(g, idle)

IsFailed_NeverLate(g, idle) == Count(Voters(g, idle)) - Voted(g, idle, "no") <= NeedVotes(g, idle)
IsFailed(g, idle) ==
  "vote" \in g.passed \/ Count(Voters(g, idle)) - Voted(g, idle, "no") <= NeedVotes(g, idle)

CheckState(g, idle) ==
  IF ~IsVoting(g) THEN g
  ELSE IF ~Validates(g, g.vote) THEN ResetVotes(g)
  ELSE IF IsPassed(g, idle) THEN ResetVotes(Execute(g))
  ELSE IF IsFailed(g, idle) THEN ResetVotes(g)
  ELSE g

\* Spectators of individual gametypes have to wait for the end of the match,
\* unless a bot plays.
MayCallVote(g, c) ==
  ~(IsSpectator(g, c) /\ rules.maxPerTeam = 1 /\ g.state = "playtime"
      /\ \A t \in Teams : \A d \in g.list[t] : ~g.fake[d])

\* The first think may be put off to the next second.
CallVote(c) ==
  \E kind \in rules.votes, target \in Slots, op \in BOOLEAN, idle \in Idles(game), thinks \in BOOLEAN :
    LET vote    == [kind |-> kind, target |-> target, op |-> op]
        started == [ResetVotes(game) EXCEPT !.vote = vote, !.voted[c] = "yes", !.changes[c] = @ - 1,
                                            !.ownVote[c] = TRUE]
    IN /\ c \in Humans(game) /\ ~IsVoting(game)
       /\ op => rules.operators
       /\ op \/ MayCallVote(game, c)
       /\ kind \notin {"kick", "remove"} => target = 1
       /\ c \notin idle
       /\ Validates(game, vote)
       /\ game' = IF thinks THEN CheckState(started, idle) ELSE started

HasChanges_Always(g, c) == TRUE
HasChanges(g, c) == g.changes[c] # 0

Vote(c) ==
  /\ c \in Humans(game) /\ IsVoting(game)
  /\ \E v \in {"yes", "no"}, idle \in Idles(game) :
       /\ game.voted[c] # v /\ HasChanges(game, c) /\ c \notin idle
       /\ game' = CheckState([game EXCEPT !.voted[c] = v, !.changes[c] = @ - 1, !.ownVote[c] = TRUE], idle)

\* An operator votes for everybody.
OperatorVote ==
  /\ rules.operators /\ IsVoting(game) /\ Humans(game) # {}
  /\ \E v \in {"yes", "no"} :
       game' = [game EXCEPT !.voted = [c \in Slots |-> IF c \in Humans(game) THEN v ELSE @[c]],
                            !.ownVote = [c \in Slots |-> @[c] \/ c \in Humans(game)]]

-----------------------------------------------------------------------------
(* Time, frames and levels.                                                *)

\* The clock of a state stands still while players are waited for.  A limit of
\* the score is one of time here.
StateHasLimit(g) == g.state = "warmup" => rules.warmupLimit
Passes(point) ==
  CASE point = "limit" -> StateHasLimit(game) /\ ~game.waiting
    [] point = "vote"  -> IsVoting(game)
    [] point = "open"  -> rules.challengers
Elapse(point) ==
  /\ point \notin game.passed /\ Passes(point)
  /\ game' = [game EXCEPT !.passed = @ \union {point}]

\* Any order of scores, when it matters.
Rankings(g) ==
  IF rules.challengers /\ g.state = "postmatch"
  THEN {r \in [Slots -> Slots] : \A c \in Slots : \E i \in Slots : r[i] = c} ELSE {<<>>}

RunGametype(g, ranking) ==
  ThinkRules(CheckStateAbort(UpdateMembersList(ExecuteChallengersQueue(g))), ranking)

\* What G_RunFrame may lead to.  Votes are looked at every second.
AfterFrame(g, thinks, idle, ranking) ==
  LET checked == IF thinks THEN CheckState(g, idle) ELSE g
      started == IF checked.waiting THEN [checked EXCEPT !.passed = @ \ {"limit"}] ELSE checked
  IN RunGametype(started, ranking)

\* Who is idle matters to votes only.
Absent(g) == IF IsVoting(g) THEN Idles(g) ELSE {{}}

Frame(thinks) ==
  \E idle \in Absent(game), ranking \in Rankings(game) : game' = AfterFrame(game, thinks, idle, ranking)

\* G_InitLevel.  Challengers keep their places from level to level.
InitLevel(g) ==
  [ResetVotes(g) EXCEPT !.team = [c \in Slots |-> "spectators"], !.ready = [c \in Slots |-> FALSE],
                        !.list = [t \in Teams |-> {}], !.locked = FALSE, !.teamlock = FALSE,
                        !.state = "warmup", !.waiting = FALSE, !.forceStart = FALSE,
                        !.advance = FALSE, !.exitNow = FALSE, !.passed = {}]

RemoveBot(g, c) == IF g.fake[c] THEN Disconnect(g, c) ELSE g
\* The last slot is the first.
RemoveBots(g) ==
  LET after[c \in 0..NumSlots] == IF c = 0 THEN g ELSE RemoveBot(after[c - 1], NumSlots + 1 - c)
  IN after[NumSlots]

\* The same map is restarted at once; for another one clients have to begin anew.
ExitLevel(sameMap) ==
  /\ game.exitNow
  /\ game' = IF sameMap THEN RemoveBots(InitLevel(game))
             ELSE LET g == InitLevel(RemoveBots(game))
                  IN [g EXCEPT !.conn = [c \in Slots |-> IF InUse(g, c) THEN "connected" ELSE @[c]]]

Next ==
  /\ \/ Connect \/ BotConnects \/ BotLeaves \/ OperatorVote
     \/ \E c \in Slots :
          \/ Begin(c) \/ Leave(c) \/ TimeOut(c) \/ ZombieTimePasses(c)
          \/ Join(c) \/ JoinTeamCmd(c) \/ Spec_f(c) \/ EnterQueue(c) \/ LeaveQueueCmd(c)
          \/ Ready(c) \/ NotReady(c) \/ InactivityRemove(c) \/ ExitButton(c)
          \/ CallVote(c) \/ Vote(c)
     \/ \E point \in {"limit", "vote", "open"} : Elapse(point)
     \/ \E thinks \in BOOLEAN : Frame(thinks)
     \/ \E sameMap \in BOOLEAN : ExitLevel(sameMap)
  /\ UNCHANGED rules

Spec == Init /\ [][Next]_vars

\* The server runs frames and sends snapshots, where a level is left, and time
\* passes; nothing is assumed of clients, nor that a match is ever decided.
\* This is weak fairness, with what enables the actions written out.
FrameCounts ==
  \E idle \in Absent(game), ranking \in Rankings(game) : AfterFrame(game, TRUE, idle, ranking) # game
CanElapse(point) == point \notin game.passed /\ Passes(point) /\ ~(point = "limit" /\ game.state \in {"warmup", "playtime"})

FairSpec ==
  /\ Spec
  /\ <>[]FrameCounts => []<><<Frame(TRUE)>>_vars
  /\ \A point \in {"limit", "vote", "open"} : <>[]CanElapse(point) => []<><<Elapse(point)>>_vars
  /\ <>[](game.exitNow) => []<><<\E sameMap \in BOOLEAN : ExitLevel(sameMap)>>_vars

-----------------------------------------------------------------------------
(* Properties.                                                             *)

States == {"warmup", "countdown", "playtime", "postmatch", "waitexit"}

Flag == BOOLEAN
GameType ==
  [conn: [Slots -> {"free", "connected", "spawned", "zombie"}], fake: [Slots -> Flag],
   team: [Slots -> Teams \union {"spectators"}], ready: [Slots -> Flag],
   list: [Teams -> SUBSET Slots], locked: Flag, teamlock: Flag, queue: Seq(Slots),
   state: States, waiting: Flag, forceStart: Flag, advance: Flag,
   exitNow: Flag, passed: SUBSET {"limit", "vote", "open"},
   vote: [kind: VoteKinds \union {"none"}, target: Slots, op: Flag],
   voted: [Slots -> {"nothing", "yes", "no"}], changes: [Slots -> 0..rules.voteChanges],
   ownVote: [Slots -> Flag]]

\* Every part of the state has its type, and nobody is in the queue twice or
\* votes more often than allowed.
TypeOK == rules \in Scenarios /\ game \in GameType /\ IsInjective(game.queue)

Players == {c \in Slots : InUse(game, c) /\ ~IsSpectator(game, c)}

\* A countdown that was not forced by the time limit of the warmup goes on only
\* while everybody in a team is ready (G_Match_CheckReadys), whoever joins,
\* leaves, is kicked or changes teams, in whatever order.
CountdownIsReady ==
  game.state = "countdown" /\ ~game.forceStart => Players # {} /\ \A c \in Players : game.ready[c]

\* Players who are all ready, and enough, are not left waiting in warmup: the
\* last one to get ready, or the last one not to be who leaves, starts the
\* countdown.  The teams count as they are, not as they were last listed.
ReadyStarts ==
  ~(game.state = "warmup" /\ AllReady(UpdateMembersList(game)))

\* A team never has more members than a gametype with teams allows
\* (G_GameTypes_DenyJoinTeam), with several challengers let in at once too.
SeatsKept ==
  rules.teamBased /\ rules.maxPerTeam > 0 => \A t \in Teams : Count(Members(game, t)) <= rules.maxPerTeam

\* What counts as the vote of a client was cast by this client, or for it by an
\* operator, and not by who had its slot before (G_CallVotes_ResetClient).
VotesAreOwn == \A c \in Slots : InUse(game, c) /\ game.voted[c] # "nothing" => game.ownVote[c]

\* No match begins without enough players, however its countdown was started
\* and whoever has left since (G_Match_CheckStateAbort comes before the rules).
MatchesStartManned ==
  [][game.state # "playtime" /\ game'.state = "playtime" => Enough(UpdateMembersList(game'))]_vars

\* Every vote ends, whoever leaves or does not vote (G_CallVotes_CheckState).
VoteEnds == []<>(~IsVoting(game))

\* A match that is left by too many players does not go on
\* (G_Match_CheckStateAbort).
AbandonedMatchEnds == []<>(~(game.state = "playtime" /\ ~Enough(UpdateMembersList(game))))

\* After a match, the next level follows even if nobody does anything
\* (G_Match_TimelimitHit, G_ExitLevel).
LevelEnds == game.state \in {"postmatch", "waitexit"} ~> game.state = "warmup"

\* The first challenger does not stand in the queue for ever while there is a
\* free place, between matches (G_Teams_ExecuteChallengersQueue).
HasPlace == \E t \in Teams : ~IsFull(UpdateMembersList(game), t)
ChallengersGetIn ==
  []<>(~(game.state \in {"warmup", "countdown"} /\ ~game.locked /\ HasPlace /\ Challengers(game) # <<>>))

\* Readiness starts the countdown, and nothing else keeps it going.
ReadinessDecides == CountdownIsReady /\ ReadyStarts

\* The types, and that teams are not overfull.
SeatsSound == TypeOK /\ SeatsKept

\* Votes, deserted matches and levels end.
EverythingEnds == VoteEnds /\ AbandonedMatchEnds /\ LevelEnds
===============================================================================
