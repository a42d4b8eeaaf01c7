------------------------ MODULE BuiltinServer_proofs ------------------------
(***************************************************************************)
(* Proofs about BuiltinServer for every set of scenarios and every number  *)
(* of inputs.                                                              *)
(***************************************************************************)
EXTENDS BuiltinServerInvariant, TLAPS

USE InputsAssumption, MaxInputsAssumption

-----------------------------------------------------------------------------
(* Each pipe is used as the queue of commands it is.                       *)

\* A step leaves the pipe to the client alone, executes its first command, or submits one.
LEMMA ClPipeSteps ==
  ASSUME TypeOK, [Next]_vars
  PROVE  \/ UNCHANGED <<clSubmitted, clExecuted>>
         \/ ClPipe!Execute
         \/ \E c \in ClCommand : ClPipe!Submit(c)
BY DEF Next, vars, pipeVars, UserInput, ClientWork, ServerEvent, ServerWork,
       UserMap, UserConnect, UserDisconnect, UserQuit, ConnectionTimesOut, WebDownloadBegins,
       SigTerm, FrameHead, ClientExecutes, ClientReadReturns, FrameEnds, CL_CheckForResend,
       Handshake, ServerMessage, WebDownloadDone, DisconnectReturns, SV_StopThread, StopFinished,
       SV_Shutdown, CL_Shutdown, ServerExecutes, ServerReadReturns, ServerStops,
       ServerExecutesBuffer, ServerFrame, NotifyDisconnect, NotifyPlaque, NotifyReturns,
       ShutdownOldGame, InitGame, SpawnServer, LoadMap, SettleGame, GameExitsLevel, ServerDrops,
       ShutdownGame, ClCommand

\* So does it with the pipe to the server.
LEMMA SvPipeSteps ==
  ASSUME TypeOK, [Next]_vars
  PROVE  \/ UNCHANGED <<svSubmitted, svExecuted>>
         \/ SvPipe!Execute
         \/ \E c \in SvCommand : SvPipe!Submit(c)
BY DEF Next, vars, pipeVars, UserInput, ClientWork, ServerEvent, ServerWork,
       UserMap, UserConnect, UserDisconnect, UserQuit, ConnectionTimesOut, WebDownloadBegins,
       SigTerm, FrameHead, ClientExecutes, ClientReadReturns, FrameEnds, CL_CheckForResend,
       Handshake, ServerMessage, WebDownloadDone, DisconnectReturns, SV_StopThread, StopFinished,
       SV_Shutdown, CL_Shutdown, ServerExecutes, ServerReadReturns, ServerStops,
       ServerExecutesBuffer, ServerFrame, NotifyDisconnect, NotifyPlaque, NotifyReturns,
       ShutdownOldGame, InitGame, SpawnServer, LoadMap, SettleGame, GameExitsLevel, ServerDrops,
       CL_Disconnect, SvCommand

\* The types, but for what GameIsThere says.
LEMMA TypeStep ==
  ASSUME TypeOK, [Next]_vars, GameIsThere'
  PROVE  TypeOK'
<1>1. clSubmitted' \in Seq(ClCommand) /\ clExecuted' \in Seq(ClCommand)
  <2>1. clSubmitted \in Seq(ClCommand) /\ clExecuted \in Seq(ClCommand)
    BY DEF TypeOK
  <2>2. CASE UNCHANGED <<clSubmitted, clExecuted>>
    BY <2>1, <2>2
  <2>3. CASE ClPipe!Execute
    <3>1. clSubmitted[Len(clExecuted) + 1] \in ClCommand
      BY <2>1, <2>3 DEF ClPipe!Execute
    <3> QED
      BY <2>1, <2>3, <3>1 DEF ClPipe!Execute
  <2>4. CASE \E c \in ClCommand : ClPipe!Submit(c)
    BY <2>1, <2>4 DEF ClPipe!Submit
  <2> QED
    BY <2>2, <2>3, <2>4, ClPipeSteps
<1>2. svSubmitted' \in Seq(SvCommand) /\ svExecuted' \in Seq(SvCommand)
  <2>1. svSubmitted \in Seq(SvCommand) /\ svExecuted \in Seq(SvCommand)
    BY DEF TypeOK
  <2>2. CASE UNCHANGED <<svSubmitted, svExecuted>>
    BY <2>1, <2>2
  <2>3. CASE SvPipe!Execute
    <3>1. svSubmitted[Len(svExecuted) + 1] \in SvCommand
      BY <2>1, <2>3 DEF SvPipe!Execute
    <3> QED
      BY <2>1, <2>3, <3>1 DEF SvPipe!Execute
  <2>4. CASE \E c \in SvCommand : SvPipe!Submit(c)
    BY <2>1, <2>4 DEF SvPipe!Submit
  <2> QED
    BY <2>2, <2>3, <2>4, SvPipeSteps
<1> USE DEF TypeOK, Input, Next, vars, pipeVars, clientVars, serverVars, UserInput, ClientWork, ServerEvent, ServerWork,
       UserMap, UserConnect, UserDisconnect, UserQuit, ConnectionTimesOut, WebDownloadBegins,
       SigTerm, FrameHead, ClientExecutes, ClientReadReturns, FrameEnds, CL_CheckForResend,
       Handshake, ServerMessage, WebDownloadDone, DisconnectReturns, SV_StopThread, StopFinished,
       SV_Shutdown, CL_Shutdown, ServerExecutes, ServerReadReturns, ServerStops,
       ServerExecutesBuffer, ServerFrame, NotifyDisconnect, NotifyPlaque, NotifyReturns,
       ShutdownOldGame, InitGame, SpawnServer, LoadMap, SettleGame, GameExitsLevel, ServerDrops
<1>3. /\ mpc' \in {"head", "read", "readloading", "body", "finish", "quit", "stop", "join",
                  "shutdown", "exited", "crashed"}
      /\ mthen' \in {"frame", "connect", "reconnect", "quit", "exit"}
  BY DEF CL_Disconnect, Continue
<1>4. /\ clState' \in {"disconnected", "connecting", "local", "remote"}
      /\ download' \in {"none", "web", "stopping"}
  BY DEF CL_Disconnect, Forget, ConnectedBy
<1>5. netMsg' \in {"none", "disconnect", "reconnect"}
  BY DEF CL_Disconnect, Forget, ShutdownGame
<1>6. spc' \in InSvMap \cup {"read", "execbuf", "frame", "leaving", "stopped"} /\ sret' \in {"read", "frame"}
  BY DEF InSvMap
<1>7. {svState', svPublished'} \subseteq {"dead", "loading", "game"}
  BY DEF ShutdownGame
<1>8. {comQuit', clCmds', svCbuf', svInitialized', svSlot', svCmds'} \subseteq BOOLEAN
  BY DEF ShutdownGame
<1>9. mgame' \in Nat /\ gameNo' \in Nat
  <2>1. gameNo' = gameNo \/ gameNo' = gameNo + 1
    OBVIOUS
  <2>2. mgame' = mgame \/ mgame' = gameNo \/ mgame' = 0
    BY DEF CL_Disconnect
  <2> QED
    BY <2>1, <2>2
<1>11. scenario' \in Scenarios /\ inputs' \in 0..MaxInputs
  <2>1. scenario' = scenario /\ (inputs' = inputs \/ (inputs < MaxInputs /\ inputs' = inputs + 1))
    OBVIOUS
  <2> QED
    BY <2>1
<1>10. svSlot' \/ "game" \in {svState', svPublished'} => svInitialized'
  BY DEF GameIsThere, ShutdownGame
<1> QED
  BY <1>1, <1>2, <1>3, <1>4, <1>5, <1>6, <1>7, <1>8, <1>9, <1>10, <1>11

\* A game is there from its start to its shutdown.
LEMMA GameStep ==
  ASSUME TypeOK, GameIsThere, [Next]_vars
  PROVE  GameIsThere'
<1> USE DEF Next, vars, pipeVars, clientVars, serverVars, UserInput, ClientWork, ServerEvent, ServerWork,
       UserMap, UserConnect, UserDisconnect, UserQuit, ConnectionTimesOut, WebDownloadBegins,
       SigTerm, FrameHead, ClientExecutes, ClientReadReturns, FrameEnds, CL_CheckForResend,
       Handshake, ServerMessage, WebDownloadDone, DisconnectReturns, SV_StopThread, StopFinished,
       SV_Shutdown, CL_Shutdown, ServerExecutes, ServerReadReturns, ServerStops,
       ServerExecutesBuffer, ServerFrame, NotifyDisconnect, NotifyPlaque, NotifyReturns,
       ShutdownOldGame, InitGame, SpawnServer, LoadMap, SettleGame, GameExitsLevel, ServerDrops
<1>1. spc' \in {"spawn", "load", "settle"} \/ svState' # "dead" \/ svPublished' # "dead" => svInitialized'
  BY DEF GameIsThere, TypeOK, ShutdownGame
<1>2. svInitialized' => gameNo' > 0
  <2>1. \/ gameNo' = gameNo + 1
        \/ gameNo' = gameNo /\ (svInitialized' => svInitialized)
    BY DEF ShutdownGame
  <2> QED
    BY <2>1 DEF GameIsThere, TypeOK
<1> QED
  BY <1>1, <1>2 DEF GameIsThere

\* A pipe's executed commands stay a prefix of the submitted ones.
LEMMA PrefixStep ==
  ASSUME NEW C, NEW submitted \in Seq(C), NEW executed \in Seq(C), IsExecutedOf(executed, submitted)
  PROVE  /\ \A c \in C : IsExecutedOf(executed, Append(submitted, c))
         /\ Len(executed) < Len(submitted) =>
              IsExecutedOf(Append(executed, submitted[Len(executed) + 1]), submitted)
<1>1. ASSUME NEW c \in C PROVE IsExecutedOf(executed, Append(submitted, c))
  BY DEF IsExecutedOf
<1>2. ASSUME Len(executed) < Len(submitted)
      PROVE  IsExecutedOf(Append(executed, submitted[Len(executed) + 1]), submitted)
  BY <1>2 DEF IsExecutedOf
<1> QED
  BY <1>1, <1>2

\* What has been executed stays a prefix of what has been submitted, in both pipes.
LEMMA PipesStep ==
  ASSUME TypeOK, Pipes, [Next]_vars
  PROVE  Pipes'
<1>1. IsExecutedOf(clExecuted, clSubmitted)'
  <2>1. /\ clSubmitted \in Seq(ClCommand) /\ clExecuted \in Seq(ClCommand)
        /\ IsExecutedOf(clExecuted, clSubmitted)
    BY DEF TypeOK, Pipes
  <2>2. CASE UNCHANGED <<clSubmitted, clExecuted>>
    BY <2>1, <2>2
  <2>3. CASE ClPipe!Execute
    BY <2>1, <2>3, PrefixStep DEF ClPipe!Execute
  <2>4. CASE \E c \in ClCommand : ClPipe!Submit(c)
    BY <2>1, <2>4, PrefixStep DEF ClPipe!Submit
  <2> QED
    BY <2>2, <2>3, <2>4, ClPipeSteps
<1>2. IsExecutedOf(svExecuted, svSubmitted)'
  <2>1. /\ svSubmitted \in Seq(SvCommand) /\ svExecuted \in Seq(SvCommand)
        /\ IsExecutedOf(svExecuted, svSubmitted)
    BY DEF TypeOK, Pipes
  <2>2. CASE UNCHANGED <<svSubmitted, svExecuted>>
    BY <2>1, <2>2
  <2>3. CASE SvPipe!Execute
    BY <2>1, <2>3, PrefixStep DEF SvPipe!Execute
  <2>4. CASE \E c \in SvCommand : SvPipe!Submit(c)
    BY <2>1, <2>4, PrefixStep DEF SvPipe!Submit
  <2> QED
    BY <2>2, <2>3, <2>4, SvPipeSteps
<1> QED
  BY <1>1, <1>2 DEF Pipes

\* The last registration decides.
LEMMA RegisteredAppend ==
  ASSUME NEW q \in Seq(ClCommand), NEW c \in ClCommand
  PROVE  Registered(Append(q, c)) <=> c = "register" \/ (c # "unregister" /\ Registered(q))
<1> DEFINE n == Len(q) + 1
<1>1. /\ n \in Nat /\ Len(Append(q, c)) = n /\ Append(q, c)[n] = c
      /\ \A i \in 1..Len(q) : Append(q, c)[i] = q[i]
  OBVIOUS
<1>2. CASE c = "register"
  <2>1. n \in 1..n /\ n + 1..n = {}
    BY <1>1
  <2> QED
    BY <1>1, <1>2, <2>1 DEF Registered
<1>3. CASE c # "register" /\ c # "unregister"
  <2>1. ASSUME Registered(q) PROVE Registered(Append(q, c))
    <3>1. PICK k \in 1..Len(q) : q[k] = "register" /\ \A i \in k + 1..Len(q) : q[i] # "unregister"
      BY <2>1 DEF Registered
    <3>2. k \in 1..n /\ Append(q, c)[k] = "register"
      BY <1>1, <3>1
    <3>3. ASSUME NEW i \in k + 1..n PROVE Append(q, c)[i] # "unregister"
      <4>1. CASE i = n
        BY <1>1, <1>3, <4>1
      <4>2. CASE i # n
        <5>1. i \in k + 1..Len(q) /\ i \in 1..Len(q)
          BY <1>1, <3>1, <4>2
        <5> QED
          BY <1>1, <3>1, <5>1
      <4> QED
        BY <4>1, <4>2
    <3> QED
      BY <1>1, <3>2, <3>3 DEF Registered
  <2>2. ASSUME Registered(Append(q, c)) PROVE Registered(q)
    <3>1. PICK k \in 1..n : /\ Append(q, c)[k] = "register"
                            /\ \A i \in k + 1..n : Append(q, c)[i] # "unregister"
      BY <1>1, <2>2 DEF Registered
    <3>2. k \in 1..Len(q) /\ \A i \in k + 1..Len(q) : i \in k + 1..n /\ i \in 1..Len(q)
      BY <1>1, <1>3, <3>1
    <3> QED
      BY <1>1, <3>1, <3>2 DEF Registered
  <2> QED
    BY <1>3, <2>1, <2>2
<1>4. CASE c = "unregister"
  <2> SUFFICES ASSUME Registered(Append(q, c)) PROVE FALSE
    BY <1>4
  <2>1. PICK k \in 1..n : /\ Append(q, c)[k] = "register"
                          /\ \A i \in k + 1..n : Append(q, c)[i] # "unregister"
    BY <1>1 DEF Registered
  <2>2. k = n \/ n \in k + 1..n
    BY <1>1
  <2> QED
    BY <1>1, <1>4, <2>1, <2>2
<1> QED
  BY <1>2, <1>3, <1>4

\* Every registration in the server is sent on to the client, which carries
\* them out in order.
LEMMA RegistrationStep ==
  ASSUME TypeOK, Registrations, [Next]_vars
  PROVE  Registrations'
<1>0. clSubmitted \in Seq(ClCommand) /\ clExecuted \in Seq(ClCommand)
  BY DEF TypeOK
<1>1. svCmds' <=> Registered(clSubmitted')
  <2>1. \/ UNCHANGED <<clSubmitted, svCmds>>
        \/ \E c \in ClCommand : /\ clSubmitted' = Append(clSubmitted, c)
                                /\ c = "register" => svCmds' = TRUE
                                /\ c = "unregister" => svCmds' = FALSE
                                /\ c \notin {"register", "unregister"} => svCmds' = svCmds
    BY DEF Next, vars, pipeVars, clientVars, serverVars, UserInput, ClientWork, ServerEvent, ServerWork,
       UserMap, UserConnect, UserDisconnect, UserQuit, ConnectionTimesOut, WebDownloadBegins,
       SigTerm, FrameHead, ClientExecutes, ClientReadReturns, FrameEnds, CL_CheckForResend,
       Handshake, ServerMessage, WebDownloadDone, DisconnectReturns, SV_StopThread, StopFinished,
       SV_Shutdown, CL_Shutdown, ServerExecutes, ServerReadReturns, ServerStops,
       ServerExecutesBuffer, ServerFrame, NotifyDisconnect, NotifyPlaque, NotifyReturns,
       ShutdownOldGame, InitGame, SpawnServer, LoadMap, SettleGame, GameExitsLevel, ServerDrops,
       ShutdownGame, ClPipe!Execute, ClPipe!Submit, ClCommand
  <2>2. CASE UNCHANGED <<clSubmitted, svCmds>>
    BY <2>2 DEF Registrations
  <2>3. ASSUME NEW c \in ClCommand, clSubmitted' = Append(clSubmitted, c),
               c = "register" => svCmds' = TRUE, c = "unregister" => svCmds' = FALSE,
               c \notin {"register", "unregister"} => svCmds' = svCmds
        PROVE  svCmds' <=> Registered(clSubmitted')
    <3>1. Registered(clSubmitted') <=>
            (c = "register" \/ (c # "unregister" /\ Registered(clSubmitted)))
      BY <1>0, <2>3, RegisteredAppend
    <3>2. CASE c = "register"
      BY <2>3, <3>1, <3>2
    <3>3. CASE c = "unregister"
      BY <2>3, <3>1, <3>3
    <3>4. CASE c \notin {"register", "unregister"}
      BY <2>3, <3>1, <3>4 DEF Registrations
    <3> QED
      BY <3>2, <3>3, <3>4
  <2> QED
    BY <2>1, <2>2, <2>3
<1>2. clCmds' <=> Registered(clExecuted')
  <2>1. \/ UNCHANGED <<clExecuted, clCmds>>
        \/ ClientExecutes
    BY DEF Next, vars, pipeVars, clientVars, serverVars, UserInput, ClientWork, ServerEvent, ServerWork,
       UserMap, UserConnect, UserDisconnect, UserQuit, ConnectionTimesOut, WebDownloadBegins,
       SigTerm, FrameHead, ClientReadReturns, FrameEnds, CL_CheckForResend,
       Handshake, ServerMessage, WebDownloadDone, DisconnectReturns, SV_StopThread, StopFinished,
       SV_Shutdown, CL_Shutdown, ServerExecutes, ServerReadReturns, ServerStops,
       ServerExecutesBuffer, ServerFrame, NotifyDisconnect, NotifyPlaque, NotifyReturns,
       ShutdownOldGame, InitGame, SpawnServer, LoadMap, SettleGame, GameExitsLevel, ServerDrops,
       ShutdownGame, ClPipe!Submit
  <2>2. CASE ClientExecutes
    <3>1. /\ Len(clExecuted) < Len(clSubmitted) /\ clExecuted' = Append(clExecuted, NextCl)
          /\ clCmds' = IF NextCl = "register" THEN TRUE
                       ELSE IF NextCl = "unregister" THEN FALSE ELSE clCmds
      BY <2>2 DEF ClientExecutes, ClPipe!Execute, NextCl
    <3>2. NextCl \in ClCommand
      BY <1>0, <3>1 DEF NextCl
    <3>3. Registered(clExecuted') <=>
            (NextCl = "register" \/ (NextCl # "unregister" /\ Registered(clExecuted)))
      BY <1>0, <3>1, <3>2, RegisteredAppend
    <3> QED
      BY <3>1, <3>3 DEF Registrations
  <2> QED
    BY <2>1, <2>2 DEF Registrations
<1> QED
  BY <1>1, <1>2 DEF Registrations

\* Only the server thread executes its commands, and it stops for good.
LEMMA ServerThreadSteps ==
  ASSUME TypeOK, [Next]_vars
  PROVE  /\ UNCHANGED svExecuted \/ ServerExecutes
         /\ spc = "stopped" => spc' = "stopped"
         /\ spc' = "stopped" => spc \in {"leaving", "stopped"}
         /\ spc' = "leaving" => \/ spc = "leaving"
                                \/ ServerExecutes /\ NextSv = "terminate"
<1>1. UNCHANGED svExecuted \/ ServerExecutes
  BY DEF Next, vars, pipeVars, clientVars, serverVars, UserInput, ClientWork, ServerEvent, ServerWork,
         UserMap, UserConnect, UserDisconnect, UserQuit, ConnectionTimesOut, WebDownloadBegins,
         SigTerm, FrameHead, ClientExecutes, ClientReadReturns, FrameEnds, CL_CheckForResend,
         Handshake, ServerMessage, WebDownloadDone, DisconnectReturns, SV_StopThread, StopFinished,
         SV_Shutdown, CL_Shutdown, ServerReadReturns, ServerStops,
         ServerExecutesBuffer, ServerFrame, NotifyDisconnect, NotifyPlaque, NotifyReturns,
         ShutdownOldGame, InitGame, SpawnServer, LoadMap, SettleGame, GameExitsLevel, ServerDrops,
         CL_Disconnect, SvPipe!Submit, ServerExecutes, InSvMap, TypeOK
<1>2. spc = "stopped" => spc' = "stopped"
  BY DEF Next, vars, pipeVars, clientVars, serverVars, UserInput, ClientWork, ServerEvent, ServerWork,
         UserMap, UserConnect, UserDisconnect, UserQuit, ConnectionTimesOut, WebDownloadBegins,
         SigTerm, FrameHead, ClientExecutes, ClientReadReturns, FrameEnds, CL_CheckForResend,
         Handshake, ServerMessage, WebDownloadDone, DisconnectReturns, SV_StopThread, StopFinished,
         SV_Shutdown, CL_Shutdown, ServerReadReturns, ServerStops,
         ServerExecutesBuffer, ServerFrame, NotifyDisconnect, NotifyPlaque, NotifyReturns,
         ShutdownOldGame, InitGame, SpawnServer, LoadMap, SettleGame, GameExitsLevel, ServerDrops,
         CL_Disconnect, SvPipe!Submit, ServerExecutes, InSvMap, TypeOK
<1>3. spc' = "stopped" => spc \in {"leaving", "stopped"}
  BY DEF Next, vars, pipeVars, clientVars, serverVars, UserInput, ClientWork, ServerEvent, ServerWork,
         UserMap, UserConnect, UserDisconnect, UserQuit, ConnectionTimesOut, WebDownloadBegins,
         SigTerm, FrameHead, ClientExecutes, ClientReadReturns, FrameEnds, CL_CheckForResend,
         Handshake, ServerMessage, WebDownloadDone, DisconnectReturns, SV_StopThread, StopFinished,
         SV_Shutdown, CL_Shutdown, ServerReadReturns, ServerStops,
         ServerExecutesBuffer, ServerFrame, NotifyDisconnect, NotifyPlaque, NotifyReturns,
         ShutdownOldGame, InitGame, SpawnServer, LoadMap, SettleGame, GameExitsLevel, ServerDrops,
         CL_Disconnect, SvPipe!Submit, ServerExecutes, InSvMap, TypeOK
<1>4. ASSUME spc' = "leaving", spc # "leaving" PROVE ServerExecutes /\ NextSv = "terminate"
  <2>1. ServerExecutes
    BY <1>4 DEF Next, vars, pipeVars, clientVars, serverVars, UserInput, ClientWork, ServerEvent, ServerWork,
             UserMap, UserConnect, UserDisconnect, UserQuit, ConnectionTimesOut, WebDownloadBegins,
             SigTerm, FrameHead, ClientExecutes, ClientReadReturns, FrameEnds, CL_CheckForResend,
             Handshake, ServerMessage, WebDownloadDone, DisconnectReturns, SV_StopThread, StopFinished,
             SV_Shutdown, CL_Shutdown, ServerReadReturns, ServerStops,
             ServerExecutesBuffer, ServerFrame, NotifyDisconnect, NotifyPlaque, NotifyReturns,
             ShutdownOldGame, InitGame, SpawnServer, LoadMap, SettleGame, GameExitsLevel, ServerDrops,
             CL_Disconnect, SvPipe!Submit, InSvMap, TypeOK
  <2> QED
    BY <1>4, <2>1 DEF ServerExecutes
<1> QED
  BY <1>1, <1>2, <1>3, <1>4

\* On its way the main thread sends the terminate command as its last one, and
\* comes to shut down once the server thread has stopped.
LEMMA MainThreadSteps ==
  ASSUME TypeOK, Termination, [Next]_vars
  PROVE  /\ \/ UNCHANGED svSubmitted
            \/ \E c \in SvCommand : /\ SvPipe!Submit(c)
                                    /\ c = "terminate" => mpc' = "stop"
         /\ mpc' \in {"head", "read", "readloading", "body", "finish", "quit"} =>
              mpc \in {"head", "read", "readloading", "body", "finish", "quit"}
         /\ mpc' \in {"shutdown", "exited"} =>
              mpc \in {"shutdown", "exited"} \/ spc = "stopped"
         /\ mpc' = "finish" => mthen' # "exit"
<1>1. mpc = "shutdown" => SvPipe!Terminated
  BY DEF Termination
<1>2. mpc = "finish" => mthen # "exit"
  BY DEF Termination
<1>3. \/ UNCHANGED svSubmitted
      \/ \E c \in SvCommand : /\ SvPipe!Submit(c)
                              /\ c = "terminate" => mpc' = "stop"
  BY DEF Next, vars, pipeVars, clientVars, serverVars, UserInput, ClientWork, ServerEvent, ServerWork,
       UserMap, UserConnect, UserDisconnect, UserQuit, ConnectionTimesOut, WebDownloadBegins,
       SigTerm, FrameHead, ClientExecutes, ClientReadReturns, FrameEnds, CL_CheckForResend,
       Handshake, ServerMessage, WebDownloadDone, DisconnectReturns, SV_StopThread, StopFinished,
       SV_Shutdown, CL_Shutdown, ServerExecutes, ServerReadReturns, ServerStops,
       ServerExecutesBuffer, ServerFrame, NotifyDisconnect, NotifyPlaque, NotifyReturns,
       ShutdownOldGame, InitGame, SpawnServer, LoadMap, SettleGame, GameExitsLevel, ServerDrops,
       CL_Disconnect, SvPipe!Execute, SvCommand
<1>4. /\ mpc' \in {"head", "read", "readloading", "body", "finish", "quit"} =>
           mpc \in {"head", "read", "readloading", "body", "finish", "quit"}
      /\ mpc' \in {"shutdown", "exited"} =>
           mpc \in {"shutdown", "exited"} \/ spc = "stopped"
      /\ mpc' = "finish" => mthen' # "exit"
  BY <1>1, <1>2 DEF Next, vars, pipeVars, clientVars, serverVars, UserInput, ClientWork, ServerEvent, ServerWork,
       UserMap, UserConnect, UserDisconnect, UserQuit, ConnectionTimesOut, WebDownloadBegins,
       SigTerm, FrameHead, ClientExecutes, ClientReadReturns, FrameEnds, CL_CheckForResend,
       Handshake, ServerMessage, WebDownloadDone, DisconnectReturns, SV_StopThread, StopFinished,
       SV_Shutdown, CL_Shutdown, ServerExecutes, ServerReadReturns, ServerStops,
       ServerExecutesBuffer, ServerFrame, NotifyDisconnect, NotifyPlaque, NotifyReturns,
       ShutdownOldGame, InitGame, SpawnServer, LoadMap, SettleGame, GameExitsLevel, ServerDrops,
       CL_Disconnect, Continue
<1> QED
  BY <1>3, <1>4

\* The server is told to terminate once, at the end, and the main thread waits for it.
LEMMA TerminationStep ==
  ASSUME TypeOK, Termination, [Next]_vars
  PROVE  Termination'
<1>1. ASSUME mpc' \in {"head", "read", "readloading", "body", "finish", "quit"}
      PROVE  \A i \in 1..Len(svSubmitted') : svSubmitted'[i] # "terminate"
  <2>1. /\ svSubmitted \in Seq(SvCommand)
        /\ \A i \in 1..Len(svSubmitted) : svSubmitted[i] # "terminate"
    BY <1>1, MainThreadSteps DEF TypeOK, Termination
  <2>2. CASE UNCHANGED svSubmitted
    BY <2>1, <2>2
  <2>3. ASSUME NEW c \in SvCommand, SvPipe!Submit(c), c # "terminate"
        PROVE  \A i \in 1..Len(svSubmitted') : svSubmitted'[i] # "terminate"
    BY <2>1, <2>3 DEF SvPipe!Submit
  <2> QED
    BY <1>1, <2>2, <2>3, MainThreadSteps
<1>2. ASSUME spc' \in {"leaving", "stopped"}
      PROVE  SvPipe!Terminated'
  <2>1. CASE ServerExecutes /\ NextSv = "terminate"
    <3>1. svExecuted \in Seq(SvCommand) /\ svExecuted' = Append(svExecuted, "terminate")
      BY <2>1 DEF TypeOK, ServerExecutes, SvPipe!Execute, NextSv
    <3>2. svExecuted' # <<>> /\ svExecuted'[Len(svExecuted')] = "terminate"
      BY <3>1 DEF SvCommand
    <3> QED
      BY <3>2 DEF SvPipe!Terminated
  <2>2. CASE spc \in {"leaving", "stopped"}
    <3>1. svExecuted' = svExecuted
      BY <2>2, ServerThreadSteps DEF ServerExecutes
    <3> QED
      BY <2>2, <3>1 DEF Termination, SvPipe!Terminated
  <2> QED
    BY <1>2, <2>1, <2>2, ServerThreadSteps
<1>3. mpc' \in {"shutdown", "exited"} => spc' = "stopped"
  BY MainThreadSteps, ServerThreadSteps DEF Termination
<1> QED
  BY <1>1, <1>2, <1>3, MainThreadSteps DEF Termination

\* A game that is not over is the one that ran before, or a new one.
LEMMA GameSteps ==
  ASSUME TypeOK, [Next]_vars
  PROVE  /\ gameNo' = gameNo \/ (gameNo' = gameNo + 1 /\ mgame' = mgame)
         /\ svInitialized' /\ gameNo' = gameNo => svInitialized
         /\ ServerExecutes /\ NextSv = "SV_ShutdownGame" => ~svInitialized'
<1>1. gameNo' = gameNo \/ (gameNo' = gameNo + 1 /\ mgame' = mgame)
  BY DEF Next, vars, pipeVars, clientVars, serverVars, UserInput, ClientWork, ServerEvent, ServerWork,
       UserMap, UserConnect, UserDisconnect, UserQuit, ConnectionTimesOut, WebDownloadBegins,
       SigTerm, FrameHead, ClientExecutes, ClientReadReturns, FrameEnds, CL_CheckForResend,
       Handshake, ServerMessage, WebDownloadDone, DisconnectReturns, SV_StopThread, StopFinished,
       SV_Shutdown, CL_Shutdown, ServerExecutes, ServerReadReturns, ServerStops,
       ServerExecutesBuffer, ServerFrame, NotifyDisconnect, NotifyPlaque, NotifyReturns,
       ShutdownOldGame, InitGame, SpawnServer, LoadMap, SettleGame, GameExitsLevel, ServerDrops
<1>2. \/ svInitialized' => svInitialized
      \/ gameNo' = gameNo + 1
  BY DEF Next, vars, pipeVars, clientVars, serverVars, UserInput, ClientWork, ServerEvent, ServerWork,
       UserMap, UserConnect, UserDisconnect, UserQuit, ConnectionTimesOut, WebDownloadBegins,
       SigTerm, FrameHead, ClientExecutes, ClientReadReturns, FrameEnds, CL_CheckForResend,
       Handshake, ServerMessage, WebDownloadDone, DisconnectReturns, SV_StopThread, StopFinished,
       SV_Shutdown, CL_Shutdown, ServerExecutes, ServerReadReturns, ServerStops,
       ServerExecutesBuffer, ServerFrame, NotifyDisconnect, NotifyPlaque, NotifyReturns,
       ShutdownOldGame, InitGame, SpawnServer, LoadMap, SettleGame, GameExitsLevel, ServerDrops,
       ShutdownGame
<1>3. gameNo + 1 # gameNo
  BY DEF TypeOK
<1>4. ServerExecutes /\ NextSv = "SV_ShutdownGame" => ~svInitialized'
  BY DEF ServerExecutes, ShutdownGame
<1> QED
  BY <1>1, <1>2, <1>3, <1>4

\* CL_Disconnect comes to wait for the server by asking it to end its game.
LEMMA DisconnectSteps ==
  ASSUME TypeOK, [Next]_vars
  PROVE  /\ mgame' \in {mgame, gameNo, 0}
         /\ mpc = "finish" => mgame' = mgame
         /\ mpc # "finish" /\ mpc' = "finish" =>
              SvPipe!Submit("SV_ShutdownGame")
BY DEF Next, vars, pipeVars, clientVars, serverVars, UserInput, ClientWork, ServerEvent, ServerWork,
       UserMap, UserConnect, UserDisconnect, UserQuit, ConnectionTimesOut, WebDownloadBegins,
       SigTerm, FrameHead, ClientExecutes, ClientReadReturns, FrameEnds, CL_CheckForResend,
       Handshake, ServerMessage, WebDownloadDone, DisconnectReturns, SV_StopThread, StopFinished,
       SV_Shutdown, CL_Shutdown, ServerExecutes, ServerReadReturns, ServerStops,
       ServerExecutesBuffer, ServerFrame, NotifyDisconnect, NotifyPlaque, NotifyReturns,
       ShutdownOldGame, InitGame, SpawnServer, LoadMap, SettleGame, GameExitsLevel, ServerDrops,
       CL_Disconnect, Continue

\* When a disconnect is finished, the server still has the end of that game to execute.
LEMMA DisconnectPendingStep ==
  ASSUME TypeOK, Pipes, DisconnectPending, [Next]_vars
  PROVE  DisconnectPending'
<1>0. /\ svSubmitted \in Seq(SvCommand) /\ svExecuted \in Seq(SvCommand)
      /\ Len(svExecuted) <= Len(svSubmitted)
      /\ mgame \in Nat /\ gameNo \in Nat /\ mgame <= gameNo
  BY DEF TypeOK, Pipes, IsExecutedOf, DisconnectPending
<1>1. mgame' <= gameNo'
  BY <1>0, GameSteps, DisconnectSteps
<1>2. ASSUME mpc' = "finish", svInitialized', mgame' = gameNo', mpc = "finish"
      PROVE  PendingShutdown'
  <2>1. mgame' = mgame
    BY <1>2, DisconnectSteps
  <2>2. gameNo' = gameNo
    BY <1>0, <1>2, <2>1, GameSteps
  <2>3. PendingShutdown
    BY <1>2, <2>1, <2>2, GameSteps DEF DisconnectPending
  <2>4. PICK i \in Len(svExecuted) + 1..Len(svSubmitted) : svSubmitted[i] = "SV_ShutdownGame"
    BY <2>3 DEF PendingShutdown
  <2>5. CASE UNCHANGED <<svSubmitted, svExecuted>>
    BY <2>3, <2>5 DEF PendingShutdown
  <2>6. CASE \E c \in SvCommand : SvPipe!Submit(c)
    BY <1>0, <2>4, <2>6 DEF PendingShutdown, SvPipe!Submit
  <2>7. CASE SvPipe!Execute
    <3>1. svExecuted' = Append(svExecuted, NextSv) /\ svSubmitted' = svSubmitted
      BY <2>7 DEF SvPipe!Execute, NextSv
    <3>2. Len(svExecuted') = Len(svExecuted) + 1
      BY <1>0, <3>1
    <3>3. ServerExecutes
      BY <1>0, <3>2, ServerThreadSteps
    <3>4. i # Len(svExecuted) + 1
      BY <1>2, <2>4, <3>3, GameSteps DEF NextSv
    <3>5. i \in Len(svExecuted') + 1..Len(svSubmitted')
      BY <1>0, <2>4, <3>1, <3>2, <3>4
    <3> QED
      BY <2>4, <3>1, <3>5 DEF PendingShutdown
  <2> QED
    BY <2>5, <2>6, <2>7, SvPipeSteps
<1>3. ASSUME mpc' = "finish", mpc # "finish"
      PROVE  PendingShutdown'
  <2>1. svSubmitted' = Append(svSubmitted, "SV_ShutdownGame") /\ svExecuted' = svExecuted
    BY <1>3, DisconnectSteps DEF SvPipe!Submit
  <2>2. /\ Len(svSubmitted) + 1 \in Len(svExecuted') + 1..Len(svSubmitted')
        /\ svSubmitted'[Len(svSubmitted) + 1] = "SV_ShutdownGame"
    BY <1>0, <2>1 DEF SvCommand
  <2> QED
    BY <2>2 DEF PendingShutdown
<1> QED
  BY <1>1, <1>2, <1>3 DEF DisconnectPending

\* The client comes back into a game only where the server is in its frames,
\* and forgets a disconnect it has deferred only once it is disconnected.
LEMMA HasLeftStep ==
  ASSUME TypeOK, [Next]_vars
  PROVE  /\ HasLeft /\ spc \notin {"read", "execbuf", "frame"} => HasLeft'
         /\ ClientExecutes /\ NextCl = "CL_Disconnect" => HasLeft'
<1>1. HasLeft /\ spc \notin {"read", "execbuf", "frame"} => HasLeft'
  BY DEF Next, vars, pipeVars, clientVars, serverVars, UserInput, ClientWork, ServerEvent, ServerWork,
       UserMap, UserConnect, UserDisconnect, UserQuit, ConnectionTimesOut, WebDownloadBegins,
       SigTerm, FrameHead, ClientExecutes, ClientReadReturns, FrameEnds, CL_CheckForResend,
       Handshake, ServerMessage, WebDownloadDone, DisconnectReturns, SV_StopThread, StopFinished,
       SV_Shutdown, CL_Shutdown, ServerExecutes, ServerReadReturns, ServerStops,
       ServerExecutesBuffer, ServerFrame, NotifyDisconnect, NotifyPlaque, NotifyReturns,
       ShutdownOldGame, InitGame, SpawnServer, LoadMap, SettleGame, GameExitsLevel, ServerDrops,
       CL_Disconnect, Forget, ConnectedBy, HasLeft
<1>2. ClientExecutes /\ NextCl = "CL_Disconnect" => HasLeft'
  BY DEF ClientExecutes, Forget, ConnectedBy, HasLeft
<1> QED
  BY <1>1, <1>2

\* The commands the client is sent while the server starts a game.
LEMMA NotifySteps ==
  ASSUME TypeOK, [Next]_vars
  PROVE  /\ UNCHANGED clExecuted \/ ClientExecutes
         /\ spc' \in {"plaque", "waitclient", "shutdownold"} =>
              \/ spc' = spc /\ UNCHANGED clSubmitted
              \/ NotifyDisconnect
              \/ NotifyPlaque
              \/ NotifyReturns
<1>1. UNCHANGED clExecuted \/ ClientExecutes
  BY DEF Next, vars, pipeVars, clientVars, serverVars, UserInput, ClientWork, ServerEvent, ServerWork,
       UserMap, UserConnect, UserDisconnect, UserQuit, ConnectionTimesOut, WebDownloadBegins,
       SigTerm, FrameHead, ClientReadReturns, FrameEnds, CL_CheckForResend,
       Handshake, ServerMessage, WebDownloadDone, DisconnectReturns, SV_StopThread, StopFinished,
       SV_Shutdown, CL_Shutdown, ServerExecutes, ServerReadReturns, ServerStops,
       ServerExecutesBuffer, ServerFrame, NotifyDisconnect, NotifyPlaque, NotifyReturns,
       ShutdownOldGame, InitGame, SpawnServer, LoadMap, SettleGame, GameExitsLevel, ServerDrops,
       ShutdownGame, ClPipe!Submit
<1>2. spc' \in {"plaque", "waitclient", "shutdownold"} =>
        \/ spc' = spc /\ UNCHANGED clSubmitted
        \/ NotifyDisconnect
        \/ NotifyPlaque
        \/ NotifyReturns
  BY DEF Next, vars, pipeVars, clientVars, serverVars, UserInput, ClientWork, ServerEvent, ServerWork,
       UserMap, UserConnect, UserDisconnect, UserQuit, ConnectionTimesOut, WebDownloadBegins,
       SigTerm, FrameHead, ClientExecutes, ClientReadReturns, FrameEnds, CL_CheckForResend,
       Handshake, ServerMessage, WebDownloadDone, DisconnectReturns, SV_StopThread, StopFinished,
       SV_Shutdown, CL_Shutdown, ServerExecutes, ServerReadReturns, ServerStops,
       ServerExecutesBuffer, ServerFrame,
       ShutdownOldGame, InitGame, SpawnServer, LoadMap, SettleGame, GameExitsLevel, ServerDrops,
       ClPipe!Execute, TypeOK
<1> QED
  BY <1>1, <1>2

\* A client is told to leave its game, and has left or will, when the server goes on.
LEMMA ClientIsNotifiedStep ==
  ASSUME TypeOK, Pipes, ClientIsNotified, [Next]_vars
  PROVE  ClientIsNotified'
<1>0. /\ clSubmitted \in Seq(ClCommand) /\ clExecuted \in Seq(ClCommand)
      /\ Len(clExecuted) <= Len(clSubmitted)
  BY DEF TypeOK, Pipes, IsExecutedOf
<1>1. ASSUME spc' \in {"plaque", "waitclient", "shutdownold"}, NotifyDisconnect
      PROVE  ClientIsNotified'
  <2>1. /\ clSubmitted' = Append(clSubmitted, "CL_Disconnect")
        /\ clExecuted' = clExecuted /\ spc' = "plaque"
    BY <1>1 DEF NotifyDisconnect, ClPipe!Submit
  <2>2. /\ clSubmitted' # <<>> /\ clSubmitted'[Len(clSubmitted')] = "CL_Disconnect"
        /\ Len(clExecuted') # Len(clSubmitted')
    BY <1>0, <2>1 DEF ClCommand
  <2> QED
    BY <2>1, <2>2 DEF ClientIsNotified
<1>2. ASSUME NotifyPlaque
      PROVE  ClientIsNotified'
  <2>1. /\ clSubmitted' = Append(clSubmitted, "SCR_BeginLoadingPlaque")
        /\ clExecuted' = clExecuted /\ spc = "plaque" /\ spc' = "waitclient"
    BY <1>2 DEF NotifyPlaque, ClPipe!Submit
  <2>2. clSubmitted # <<>> /\ clSubmitted[Len(clSubmitted)] = "CL_Disconnect"
    BY <2>1 DEF ClientIsNotified
  <2>3. /\ Len(clSubmitted') = Len(clSubmitted) + 1 /\ Len(clSubmitted) >= 1
        /\ clSubmitted'[Len(clSubmitted)] = "CL_Disconnect"
    BY <1>0, <2>1, <2>2 DEF ClCommand
  <2>4. ASSUME Len(clExecuted') >= Len(clSubmitted') - 1 PROVE HasLeft'
    <3>1. Len(clExecuted) = Len(clSubmitted)
      BY <1>0, <2>1, <2>3, <2>4
    <3> QED
      BY <2>1, <3>1, HasLeftStep DEF ClientIsNotified
  <2>5. Len(clSubmitted') >= 2 /\ clSubmitted'[Len(clSubmitted') - 1] = "CL_Disconnect"
    BY <1>0, <2>3
  <2> QED
    BY <2>1, <2>4, <2>5 DEF ClientIsNotified
<1>3. ASSUME NotifyReturns
      PROVE  ClientIsNotified'
  <2>1. /\ clExecuted = clSubmitted
        /\ spc = "waitclient" /\ spc' = "shutdownold"
    BY <1>3 DEF NotifyReturns, ClFinished
  <2>2. HasLeft
    BY <1>0, <2>1 DEF ClientIsNotified
  <2> QED
    BY <2>1, <2>2, HasLeftStep DEF ClientIsNotified
<1>4. ASSUME spc' \in {"plaque", "waitclient", "shutdownold"}, spc' = spc, UNCHANGED clSubmitted
      PROVE  ClientIsNotified'
  <2>1. HasLeft => HasLeft'
    BY <1>4, HasLeftStep
  <2>2. \/ UNCHANGED clExecuted
        \/ Len(clExecuted') = Len(clExecuted) + 1
           /\ (clSubmitted[Len(clExecuted) + 1] = "CL_Disconnect" => HasLeft')
    <3>1. CASE ClientExecutes
      <4>1. clExecuted' = Append(clExecuted, NextCl)
        BY <3>1 DEF ClientExecutes, ClPipe!Execute, NextCl
      <4>2. Len(clExecuted') = Len(clExecuted) + 1
        BY <1>0, <4>1
      <4> QED
        BY <3>1, <4>2, HasLeftStep DEF NextCl
    <3> QED
      BY <3>1, NotifySteps
  <2>3. ASSUME spc = "plaque", Len(clExecuted') = Len(clSubmitted') PROVE HasLeft'
    <3>1. clSubmitted[Len(clSubmitted)] = "CL_Disconnect"
      BY <2>3 DEF ClientIsNotified
    <3> QED
      BY <1>0, <1>4, <2>1, <2>2, <2>3, <3>1 DEF ClientIsNotified
  <2>4. ASSUME spc = "waitclient", Len(clExecuted') >= Len(clSubmitted') - 1 PROVE HasLeft'
    <3>1. clSubmitted[Len(clSubmitted) - 1] = "CL_Disconnect"
      BY <2>4 DEF ClientIsNotified
    <3>2. CASE Len(clExecuted) >= Len(clSubmitted) - 1
      BY <2>1, <2>4, <3>2 DEF ClientIsNotified
    <3>3. CASE ~(Len(clExecuted) >= Len(clSubmitted) - 1)
      <4>1. Len(clExecuted') # Len(clExecuted) /\ Len(clExecuted) + 1 <= Len(clSubmitted) - 1
        BY <1>0, <1>4, <2>4, <3>3
      <4>2. Len(clExecuted) + 1 = Len(clSubmitted) - 1
        BY <1>0, <1>4, <2>2, <2>4, <4>1
      <4> QED
        BY <2>2, <3>1, <4>1, <4>2
    <3> QED
      BY <3>2, <3>3
  <2>5. spc = "shutdownold" => HasLeft'
    BY <2>1 DEF ClientIsNotified
  <2> QED
    BY <1>4, <2>3, <2>4, <2>5 DEF ClientIsNotified
<1> QED
  BY <1>1, <1>2, <1>3, <1>4, NotifySteps DEF ClientIsNotified

-----------------------------------------------------------------------------
(* The theorems.                                                           *)

\* The invariant holds at the beginning.
LEMMA InitInv ==
  ASSUME Init
  PROVE  IInv
<1>1. TypeOK
  <2>1. /\ clSubmitted \in Seq(ClCommand) /\ clExecuted \in Seq(ClCommand)
        /\ svSubmitted \in Seq(SvCommand) /\ svExecuted \in Seq(SvCommand)
    BY DEF Init, ClPipe!Init, SvPipe!Init
  <2>2. /\ mgame \in Nat /\ gameNo \in Nat /\ scenario \in Scenarios /\ inputs \in 0..MaxInputs
    BY DEF Init
  <2>3. /\ {svState, svPublished} \subseteq {"dead", "loading", "game"}
        /\ svSlot \/ "game" \in {svState, svPublished} => svInitialized
        /\ {comQuit, clCmds, svCbuf, svInitialized, svSlot, svCmds} \subseteq BOOLEAN
    BY DEF Init
  <2> QED
    BY <2>1, <2>2, <2>3 DEF Init, TypeOK
<1>2. Pipes /\ GameIsThere
  BY DEF Init, Pipes, IsExecutedOf, GameIsThere, ClPipe!Init, SvPipe!Init
<1>3. Registrations
  BY DEF Init, Registrations, Registered, ClPipe!Init
<1>4. Termination
  BY DEF Init, Termination, SvPipe!Init
<1>5. DisconnectPending /\ ClientIsNotified
  BY DEF Init, DisconnectPending, ClientIsNotified
<1> QED
  BY <1>1, <1>2, <1>3, <1>4, <1>5 DEF IInv

\* Every step keeps it.
LEMMA IInvStep ==
  ASSUME IInv, [Next]_vars
  PROVE  IInv'
BY TypeStep, GameStep, PipesStep, RegistrationStep, TerminationStep, DisconnectPendingStep,
   ClientIsNotifiedStep DEF IInv

\* Whatever is asked of the client and its server, in any order and any number
\* of times, the commands in flight say what the two threads come to agree on.
THEOREM Invariant == Spec => []IInv
<1>1. Init => IInv
  BY InitInv
<1>2. IInv /\ [Next]_vars => IInv'
  BY IInvStep
<1> QED
  BY <1>1, <1>2, PTL DEF Spec

\* The types, and: with no command in flight the client offers exactly the
\* commands that the server has registered.
THEOREM RegistrationsAgreeAtRest == Spec => []Inv
<1>1. ASSUME IInv PROVE Inv
  BY <1>1 DEF IInv, Inv, Registrations, RegistrationsAgree, ClFinished, TypeOK
<1> QED
  BY <1>1, Invariant, PTL

\* What main thread and server thread make of g_clCmdPipe and of g_svCmdPipe
\* is a behaviour of the queue that BufPipe is proved to implement.
THEOREM PipesAreQueues == Spec => ClPipe!Spec /\ SvPipe!Spec
<1>1. ASSUME Init PROVE ClPipe!Init /\ SvPipe!Init
  BY <1>1 DEF Init
<1>2. ASSUME IInv, [Next]_vars PROVE [ClPipe!Next]_<<clSubmitted, clExecuted>>
  BY <1>2, ClPipeSteps DEF IInv, ClPipe!Next
<1>3. ASSUME IInv, [Next]_vars PROVE [SvPipe!Next]_<<svSubmitted, svExecuted>>
  BY <1>3, SvPipeSteps DEF IInv, SvPipe!Next
<1> QED
  BY <1>1, <1>2, <1>3, Invariant, PTL DEF Spec, ClPipe!Spec, SvPipe!Spec

\* QBufPipe_Finish returns to CL_Disconnect once SV_ShutdownGame is executed:
\* the pipe cannot have been terminated before.
LEMMA DisconnectEndsThatGameStep ==
  ASSUME IInv, [Next]_vars
  PROVE  DisconnectReturns /\ svInitialized => gameNo # mgame
<1> SUFFICES ASSUME DisconnectReturns, svInitialized, gameNo = mgame
             PROVE  FALSE
  OBVIOUS
<1>1. mpc = "finish" /\ SvFinished
  BY DEF DisconnectReturns
<1>2. PICK i \in Len(svExecuted) + 1..Len(svSubmitted) : svSubmitted[i] = "SV_ShutdownGame"
  BY <1>1 DEF IInv, DisconnectPending, PendingShutdown
<1>3. svExecuted \in Seq(SvCommand) /\ svSubmitted \in Seq(SvCommand)
  BY DEF IInv, TypeOK
<1>4. svExecuted # svSubmitted
  BY <1>2, <1>3
<1>5. svExecuted # <<>> /\ svExecuted[Len(svExecuted)] = "terminate"
  BY <1>1, <1>4 DEF SvFinished, SvPipe!Terminated
<1>6. Len(svExecuted) \in 1..Len(svExecuted) /\ Len(svExecuted) <= Len(svSubmitted)
  BY <1>3, <1>5 DEF IInv, Pipes, IsExecutedOf
<1>7. Len(svExecuted) \in 1..Len(svSubmitted) /\ svSubmitted[Len(svExecuted)] = "terminate"
  BY <1>3, <1>5, <1>6 DEF IInv, Pipes, IsExecutedOf
<1> QED
  BY <1>1, <1>7 DEF IInv, Termination

\* Nothing of the server changes any more once SV_Shutdown has run.
LEMMA ShutdownIsAloneStep ==
  ASSUME IInv, [Next]_vars, mpc \in {"shutdown", "exited"}
  PROVE  UNCHANGED serverVars
<1>1. spc = "stopped"
  BY DEF IInv, Termination
<1> QED
  BY <1>1 DEF Next, vars, pipeVars, clientVars, serverVars, UserInput, ClientWork, ServerEvent, ServerWork,
       UserMap, UserConnect, UserDisconnect, UserQuit, ConnectionTimesOut, WebDownloadBegins,
       SigTerm, FrameHead, ClientExecutes, ClientReadReturns, FrameEnds, CL_CheckForResend,
       Handshake, ServerMessage, WebDownloadDone, DisconnectReturns, SV_StopThread, StopFinished,
       SV_Shutdown, CL_Shutdown, ServerExecutes, ServerReadReturns, ServerStops,
       ServerExecutesBuffer, ServerFrame, NotifyDisconnect, NotifyPlaque, NotifyReturns,
       ShutdownOldGame, InitGame, SpawnServer, LoadMap, SettleGame, GameExitsLevel, ServerDrops,
       InSvMap

\* Games end when they are left and not before: CL_Disconnect returns only
\* when the game it left is over, SV_InitGame ends a game only after its client
\* has left it or is bound to, and SV_Shutdown has the server to itself.
THEOREM GamesEnd == Spec => GamesEndInTime
<1>1. ASSUME IInv, [Next]_vars
      PROVE  [DisconnectReturns /\ svInitialized => gameNo # mgame]_vars
  BY <1>1, DisconnectEndsThatGameStep
<1>2. ASSUME IInv, [Next]_vars
      PROVE  [ShutdownOldGame => clState # "local" \/ download # "none"]_vars
  BY <1>2 DEF IInv, ClientIsNotified, HasLeft, ShutdownOldGame
<1>3. ASSUME IInv, [Next]_vars
      PROVE  [(mpc \in {"shutdown", "exited"}) => UNCHANGED serverVars]_vars
  BY <1>3, ShutdownIsAloneStep
<1> QED
  BY <1>1, <1>2, <1>3, Invariant, PTL
     DEF Spec, GamesEndInTime, DisconnectEndsThatGame, OldGameHasNoPlayer, ShutdownIsAlone
=============================================================================
