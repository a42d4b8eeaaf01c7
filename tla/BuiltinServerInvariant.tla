----------------------- MODULE BuiltinServerInvariant -----------------------
(***************************************************************************)
(* The inductive invariant of BuiltinServer: what the commands that are    *)
(* still in the two pipes will do to the state that is on the other side,  *)
(* and what each thread may rely on at the places where it waits.          *)
(***************************************************************************)
EXTENDS BuiltinServer

\* What has been executed is how the submitted commands begin.
IsExecutedOf(executed, submitted) ==
  /\ Len(executed) <= Len(submitted)
  /\ \A i \in 1..Len(executed) : executed[i] = submitted[i]

Pipes == IsExecutedOf(clExecuted, clSubmitted) /\ IsExecutedOf(svExecuted, svSubmitted)

\* The game is there from SV_InitGame on until its shutdown.
GameIsThere ==
  /\ spc \in {"spawn", "load", "settle"} \/ svState # "dead" \/ svPublished # "dead" => svInitialized
  /\ svInitialized => gameNo > 0

\* The commands of a game are registered on a side when the last registration
\* that was executed there has been to register them.
Registered(commands) ==
  \E k \in 1..Len(commands) : /\ commands[k] = "register"
                              /\ \A i \in k + 1..Len(commands) : commands[i] # "unregister"

Registrations == /\ svCmds <=> Registered(clSubmitted)
                 /\ clCmds <=> Registered(clExecuted)

\* The server thread is told to terminate once, by the main thread, which then
\* has nothing to tell it any more.
Termination ==
  /\ mpc \in {"head", "read", "readloading", "body", "finish", "quit"} =>
       \A i \in 1..Len(svSubmitted) : svSubmitted[i] # "terminate"
  /\ spc \in {"leaving", "stopped"} => SvPipe!Terminated
  /\ mpc \in {"shutdown", "exited"} => spc = "stopped"
  /\ mpc = "finish" => mthen # "exit"

\* While CL_Disconnect waits, the game it was called in is over, or the command
\* to end it is still to be executed.
PendingShutdown ==
  \E i \in Len(svExecuted) + 1..Len(svSubmitted) : svSubmitted[i] = "SV_ShutdownGame"

DisconnectPending ==
  /\ mgame <= gameNo
  /\ mpc = "finish" /\ svInitialized /\ mgame = gameNo => PendingShutdown

\* A client that has executed CL_Disconnect has left, or will when its web
\* download is over, and does not come back before the new game is there.
HasLeft == clState # "local" \/ download = "stopping"

ClientIsNotified ==
  /\ spc = "plaque" =>
       /\ clSubmitted # <<>> /\ clSubmitted[Len(clSubmitted)] = "CL_Disconnect"
       /\ Len(clExecuted) = Len(clSubmitted) => HasLeft
  /\ spc = "waitclient" =>
       /\ Len(clSubmitted) >= 2 /\ clSubmitted[Len(clSubmitted) - 1] = "CL_Disconnect"
       /\ Len(clExecuted) >= Len(clSubmitted) - 1 => HasLeft
  /\ spc = "shutdownold" => HasLeft

IInv == /\ TypeOK /\ Pipes /\ GameIsThere /\ Registrations /\ Termination
        /\ DisconnectPending /\ ClientIsNotified
=============================================================================
