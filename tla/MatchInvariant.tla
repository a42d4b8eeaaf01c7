--------------------------- MODULE MatchInvariant ---------------------------
(***************************************************************************)
(* The inductive invariant of Match.  The lists of members are up to date  *)
(* whenever a handler has returned, and every handler leaves a state which *)
(* G_Match_CheckReadys has nothing to do in, although most do not call it. *)
(***************************************************************************)
EXTENDS Match

Typed(g)  == g \in GameType /\ IsInjective(g.queue)
Listed(g) == \A t \in Teams : g.list[t] = Members(g, t)
Seated(g) == rules.teamBased /\ rules.maxPerTeam > 0 => \A t \in Teams : Count(Members(g, t)) <= rules.maxPerTeam
Owned(g)  == \A c \in Slots : InUse(g, c) /\ g.voted[c] # "nothing" => g.ownVote[c]

\* A client that has not begun yet is in no team.
Begun(g)  == \A c \in Slots : g.conn[c] = "connected" => IsSpectator(g, c)

\* What a handler has to leave before it calls G_Match_CheckReadys.
Base(g) == rules \in Scenarios /\ Typed(g) /\ Listed(g) /\ Seated(g) /\ Owned(g) /\ Begun(g)

\* G_Match_CheckReadys has nothing to do.  Challengers are for gametypes with
\* teams: in one without, G_Teams_JoinAnyTeam does not tell who was refused.
Counted(g) == g.state = "countdown" /\ ~g.forceStart => AllReady(g)
Started(g) == (rules.challengers => rules.teamBased) /\ g.state = "warmup" => ~AllReady(g)

Sound(g) == Base(g) /\ Counted(g) /\ Started(g)

IInv == Sound(game)

\* All gametypes with challengers have teams.
ChallengersHaveTeams == \A r \in Scenarios : r.challengers => r.teamBased
=============================================================================
