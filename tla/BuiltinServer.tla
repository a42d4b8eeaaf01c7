---------------------------- MODULE BuiltinServer ----------------------------
(***************************************************************************)
(* The client and its builtin server (src/source/common/lifecycle.cpp and  *)
(* the functions of cl_main.cpp and sv_main.cpp it ties together).  The    *)
(* main thread runs the client, a second one runs the server.  They share  *)
(* nothing but two command pipes, a published server state and a published *)
(* client state.  A pipe is what BufPipe is proved to implement: a queue   *)
(* of commands.  QBufPipe_Finish is the only way a thread waits for the    *)
(* other one, and starting, leaving and quitting a game all use it.        *)
(*                                                                         *)
(* The network between the two is abstract: the handshake is one step, and *)
(* of the messages only those that end a connection are kept.              *)
(***************************************************************************)
EXTENDS Naturals, Sequences

CONSTANTS Scenarios,  \* sets of what may happen besides the threads' own work
          MaxInputs   \* bound: how often

AllInputs == {"map",          \* the user starts a map on the builtin server
              "connect",      \* the user connects to a remote server
              "disconnect",   \* the user leaves
              "quit",         \* the user quits
              "sigterm",      \* the process is asked to quit
              "webdownload",  \* the client starts a web download
              "timeout",      \* the client's connection times out
              "gamemap",      \* the game module asks for the next map
              "svdrop"}       \* Com_Error( ERR_DROP ) in the server thread

ASSUME InputsAssumption    == Scenarios \subseteq SUBSET AllInputs
ASSUME MaxInputsAssumption == MaxInputs \in Nat

VARIABLES
  clSubmitted, clExecuted,  \* g_clCmdPipe
  svSubmitted, svExecuted,  \* g_svCmdPipe
  mpc,          \* where the main thread is
  mthen,        \* what it does once CL_Disconnect has returned
  mgame,        \* history: the game that ran when CL_Disconnect was called
  comQuit,      \* com_quit
  clState,      \* cls.state
  download,     \* cls.download.web, and .disconnect on top of it
  clCmds,       \* are the game's commands registered in the client?
  netMsg,       \* the server's last word to the local client
  spc,          \* where the server thread is
  sret,         \* where it goes on after SV_Map
  svCbuf,       \* a map command waits in the server's command buffer
  svInitialized,\* svs.initialized
  svState,      \* sv.state
  svPublished,  \* what Com_ServerState returns
  svSlot,       \* the local client occupies a slot of the server
  svCmds,       \* are the game's commands registered in the server?
  gameNo,       \* history: counts the calls of SV_InitGame
  scenario,     \* the inputs that may happen
  inputs        \* bound: the inputs so far

pipeVars   == <<clSubmitted, clExecuted, svSubmitted, svExecuted>>
clientVars == <<mpc, mthen, mgame, comQuit, clState, download, clCmds>>
serverVars == <<spc, sret, svCbuf, svInitialized, svState, svPublished, svSlot, svCmds, gameNo>>
vars       == <<pipeVars, clientVars, serverVars, netMsg, scenario, inputs>>

ClCommand == {"CL_Disconnect", "SCR_BeginLoadingPlaque", "register", "unregister"}
SvCommand == {"map", "SV_ShutdownGame", "terminate"}

ClPipe == INSTANCE CommandQueue
            WITH Command <- ClCommand, Terminal <- {},
                 submitted <- clSubmitted, executed <- clExecuted
SvPipe == INSTANCE CommandQueue
            WITH Command <- SvCommand, Terminal <- {"terminate"},
                 submitted <- svSubmitted, executed <- svExecuted

Init ==
  /\ ClPipe!Init /\ SvPipe!Init
  /\ mpc = "head" /\ mthen = "frame" /\ mgame = 0 /\ comQuit = FALSE
  /\ clState = "disconnected" /\ download = "none" /\ clCmds = FALSE /\ netMsg = "none"
  /\ spc = "read" /\ sret = "read" /\ svCbuf = FALSE
  /\ svInitialized = FALSE /\ svState = "dead" /\ svPublished = "dead"
  /\ svSlot = FALSE /\ svCmds = FALSE /\ gameNo = 0
  /\ scenario \in Scenarios /\ inputs = 0

\* The command after the last executed one.
NextCl == clSubmitted[Len(clExecuted) + 1]
NextSv == svSubmitted[Len(svExecuted) + 1]

\* When QBufPipe_Finish of a pipe returns: the command being executed counts.
InSvMap    == {"notify", "plaque", "waitclient", "shutdownold", "initgame", "spawn", "load",
               "settle", "selffinish", "wild"}
ClFinished == clExecuted = clSubmitted
SvFinished == \/ SvPipe!Terminated
              \/ svExecuted = svSubmitted /\ ~(spc \in InSvMap /\ sret = "read")

Input(kind) ==
  kind \in scenario /\ inputs < MaxInputs /\ inputs' = inputs + 1 /\ UNCHANGED scenario

-----------------------------------------------------------------------------
(* The client.                                                             *)

\* Where the main thread goes after CL_Disconnect has returned.
Continue(then) ==
  CASE then = "quit" -> mpc' = "quit"
    [] then = "exit" -> mpc' = "exited"
    [] OTHER         -> mpc' = "head"

\* The state CL_Connect leaves behind; "reconnect" is to the builtin server.
ConnectedBy(then, otherwise) ==
  CASE then = "connect"   -> "remote"
    [] then = "reconnect" -> "connecting"
    [] OTHER              -> otherwise

\* What CL_Disconnect forgets of the connection.
Forget(then) == clState' = ConnectedBy(then, "disconnected") /\ download' = "none" /\ netMsg' = "none"

\* CL_Disconnect on the main thread, up to the wait for the server.  Once the
\* pipe is terminated QBufPipe_AcquireWritableBytes returns nullptr and the
\* command is constructed there.
CL_Disconnect(then) ==
  \/ /\ download = "web"
     /\ download' = "stopping"
     /\ clState' = ConnectedBy(then, clState)
     /\ Continue(then)
     /\ UNCHANGED <<svSubmitted, svExecuted, mthen, mgame, netMsg>>
  \/ /\ download # "web" /\ clState = "disconnected"
     /\ clState' = ConnectedBy(then, clState)
     /\ Continue(then)
     /\ UNCHANGED <<svSubmitted, svExecuted, mthen, mgame, download, netMsg>>
  \/ /\ download # "web" /\ clState # "disconnected"
     /\ IF SvPipe!Terminated
          THEN mpc' = "crashed" /\ UNCHANGED <<svSubmitted, svExecuted>>
          ELSE mpc' = "finish" /\ SvPipe!Submit("SV_ShutdownGame")
     /\ mthen' = then
     /\ mgame' = IF svInitialized THEN gameNo ELSE 0
     /\ UNCHANGED <<clState, download, netMsg>>

\* The head of Qcommon_Frame.
FrameHead ==
  /\ mpc = "head"
  /\ mpc' = IF comQuit THEN "quit"
            ELSE IF svPublished = "loading" THEN "readloading" ELSE "read"
  /\ UNCHANGED <<pipeVars, mthen, mgame, comQuit, clState, download, clCmds, netMsg, serverVars,
                 scenario, inputs>>

\* QBufPipe_ReadCmds of g_clCmdPipe executes one command.
ClientExecutes ==
  /\ mpc \in {"read", "readloading"}
  /\ ClPipe!Execute
  /\ clCmds' = IF NextCl = "register" THEN TRUE
               ELSE IF NextCl = "unregister" THEN FALSE ELSE clCmds
  /\ IF NextCl # "CL_Disconnect" \/ (clState = "disconnected" /\ download # "web")
       THEN UNCHANGED <<clState, download, netMsg>>
     ELSE IF download = "web"
       THEN download' = "stopping" /\ UNCHANGED <<clState, netMsg>>
     ELSE Forget("frame")
  /\ UNCHANGED <<svSubmitted, svExecuted, mpc, mthen, mgame, comQuit, serverVars, scenario, inputs>>

ClientReadReturns ==
  /\ mpc \in {"read", "readloading"}
  /\ clExecuted = clSubmitted
  /\ mpc' = IF mpc = "read" THEN "body" ELSE "head"
  /\ UNCHANGED <<pipeVars, mthen, mgame, comQuit, clState, download, clCmds, netMsg, serverVars,
                 scenario, inputs>>

\* CL_Frame with nothing of interest.
FrameEnds ==
  /\ mpc = "body"
  /\ clState = "disconnected" => svPublished = "dead"
  /\ mpc' = "head"
  /\ UNCHANGED <<pipeVars, mthen, mgame, comQuit, clState, download, clCmds, netMsg, serverVars,
                 scenario, inputs>>

\* CL_CheckForResend joins a local server that is there.
CL_CheckForResend ==
  /\ mpc = "body"
  /\ clState = "disconnected" /\ svPublished # "dead"
  /\ clState' = "connecting"
  /\ mpc' = "head"
  /\ UNCHANGED <<pipeVars, mthen, mgame, comQuit, download, clCmds, netMsg, serverVars, scenario, inputs>>

\* The rest of the handshake, which the server answers in its frames.
Handshake ==
  /\ mpc = "body"
  /\ clState = "connecting"
  /\ svInitialized /\ svState = "game" /\ spc \in {"read", "execbuf", "frame"}
  /\ clState' = "local" /\ svSlot' = TRUE /\ netMsg' = "none"
  /\ mpc' = "head"
  /\ UNCHANGED <<pipeVars, mthen, mgame, comQuit, download, clCmds, scenario, inputs, spc, sret, svCbuf,
                 svInitialized, svState, svPublished, svCmds, gameNo>>

\* CL_ServerDisconnect_f or CL_Reconnect_f, when the message arrives; a
\* client that is not connected dumps it.
ServerMessage ==
  /\ mpc = "body" /\ netMsg # "none" /\ clState = "local"
  /\ CL_Disconnect(IF netMsg = "reconnect" THEN "reconnect" ELSE "frame")
  /\ UNCHANGED <<clSubmitted, clExecuted, comQuit, clCmds, serverVars, scenario, inputs>>

\* The user's "map", redirected to the server.
UserMap ==
  /\ mpc = "body" /\ Input("map")
  /\ SvPipe!Submit("map")
  /\ mpc' = "head"
  /\ UNCHANGED <<clSubmitted, clExecuted, mthen, mgame, comQuit, clState, download, clCmds,
                 netMsg, serverVars>>

\* CL_Connect.
UserConnect ==
  /\ mpc = "body" /\ Input("connect")
  /\ CL_Disconnect("connect")
  /\ UNCHANGED <<clSubmitted, clExecuted, comQuit, clCmds, serverVars>>

\* CL_Disconnect_f.
UserDisconnect ==
  /\ mpc = "body" /\ Input("disconnect")
  /\ IF download = "none" THEN CL_Disconnect("frame")
       ELSE /\ download' = "stopping" /\ mpc' = "head"
            /\ UNCHANGED <<svSubmitted, svExecuted, mthen, mgame, clState, netMsg>>
  /\ UNCHANGED <<clSubmitted, clExecuted, comQuit, clCmds, serverVars>>

\* CL_Quit.
UserQuit ==
  /\ mpc = "body" /\ Input("quit")
  /\ CL_Disconnect("quit")
  /\ UNCHANGED <<clSubmitted, clExecuted, comQuit, clCmds, serverVars>>

\* CL_Disconnect( "Connection timed out" ).
ConnectionTimesOut ==
  /\ mpc = "body" /\ clState # "disconnected" /\ Input("timeout")
  /\ CL_Disconnect("frame")
  /\ UNCHANGED <<clSubmitted, clExecuted, comQuit, clCmds, serverVars>>

WebDownloadBegins ==
  /\ mpc = "body" /\ clState # "disconnected" /\ download = "none" /\ Input("webdownload")
  /\ download' = "web" /\ mpc' = "head"
  /\ UNCHANGED <<pipeVars, mthen, mgame, comQuit, clState, clCmds, netMsg, serverVars>>

\* CL_WebDownloadDoneCb clears .web and catches up on the disconnect.
WebDownloadDone ==
  /\ mpc = "body" /\ download # "none"
  /\ \/ /\ download = "web"
        /\ download' = "none" /\ mpc' = "head"
        /\ UNCHANGED <<svSubmitted, svExecuted, mthen, mgame, clState, netMsg>>
     \/ /\ download = "stopping" /\ clState = "disconnected"
        /\ download' = "none" /\ mpc' = "head"
        /\ UNCHANGED <<svSubmitted, svExecuted, mthen, mgame, clState, netMsg>>
     \/ /\ download = "stopping" /\ clState # "disconnected"
        /\ CL_Disconnect("frame")
  /\ UNCHANGED <<clSubmitted, clExecuted, comQuit, clCmds, serverVars, scenario, inputs>>

\* QBufPipe_Finish returns to CL_Disconnect, which does the rest of its work.
DisconnectReturns_NoWait ==
  /\ mpc = "finish"
  /\ Forget(mthen)
  /\ Continue(mthen)
  /\ UNCHANGED <<pipeVars, mthen, mgame, comQuit, clCmds, serverVars, scenario, inputs>>

DisconnectReturns ==
  /\ mpc = "finish" /\ SvFinished
  /\ Forget(mthen)
  /\ Continue(mthen)
  /\ UNCHANGED <<pipeVars, mthen, mgame, comQuit, clCmds, serverVars, scenario, inputs>>

\* Com_DeferQuit.
SigTerm ==
  /\ Input("sigterm") /\ mpc \notin {"exited", "crashed"}
  /\ comQuit' = TRUE
  /\ UNCHANGED <<pipeVars, mpc, mthen, mgame, clState, download, clCmds, netMsg, serverVars>>

\* Com_Quit: SV_StopThread sends the terminate command,
SV_StopThread_NoTerminate ==
  /\ mpc = "quit"
  /\ mpc' = "stop"
  /\ UNCHANGED <<pipeVars, mthen, mgame, comQuit, clState, download, clCmds, netMsg, serverVars,
                 scenario, inputs>>

SV_StopThread ==
  /\ mpc = "quit"
  /\ SvPipe!Submit("terminate")
  /\ mpc' = "stop"
  /\ UNCHANGED <<clSubmitted, clExecuted, mthen, mgame, comQuit, clState, download, clCmds,
                 netMsg, serverVars, scenario, inputs>>

\* waits for it,
StopFinished ==
  /\ mpc = "stop" /\ SvFinished
  /\ mpc' = "join"
  /\ UNCHANGED <<pipeVars, mthen, mgame, comQuit, clState, download, clCmds, netMsg, serverVars,
                 scenario, inputs>>

ShutdownGame_NoUnregister(reconnect) ==
  IF ~svInitialized
    THEN UNCHANGED <<clSubmitted, clExecuted, netMsg, svInitialized, svState, svPublished,
                     svSlot, svCmds>>
    ELSE /\ netMsg' = IF ~svSlot THEN netMsg
                      ELSE IF reconnect THEN "reconnect" ELSE "disconnect"
         /\ svCmds' = FALSE
         /\ svState' = "dead" /\ svPublished' = "dead"
         /\ svSlot' = FALSE /\ svInitialized' = FALSE
         /\ UNCHANGED <<clSubmitted, clExecuted>>

ShutdownGame_KeepsState(reconnect) ==
  IF ~svInitialized
    THEN UNCHANGED <<clSubmitted, clExecuted, netMsg, svInitialized, svState, svPublished,
                     svSlot, svCmds>>
    ELSE /\ netMsg' = IF ~svSlot THEN netMsg
                      ELSE IF reconnect THEN "reconnect" ELSE "disconnect"
         /\ svCmds' = FALSE /\ ClPipe!Submit("unregister")
         /\ svSlot' = FALSE /\ svInitialized' = FALSE
         /\ UNCHANGED <<svState, svPublished>>

\* What SV_ShutdownGame does, on whichever thread; the client's slot goes.
ShutdownGame(reconnect) ==
  IF ~svInitialized
    THEN UNCHANGED <<clSubmitted, clExecuted, netMsg, svInitialized, svState, svPublished,
                     svSlot, svCmds>>
    ELSE /\ netMsg' = IF ~svSlot THEN netMsg
                      ELSE IF reconnect THEN "reconnect" ELSE "disconnect"
         /\ svCmds' = FALSE /\ ClPipe!Submit("unregister")
         /\ svState' = "dead" /\ svPublished' = "dead"
         /\ svSlot' = FALSE /\ svInitialized' = FALSE

\* joins the thread, and SV_Shutdown ends the game on the main thread.
SV_Shutdown_NoJoin ==
  /\ mpc = "join"
  /\ ShutdownGame(FALSE)
  /\ mpc' = "shutdown"
  /\ UNCHANGED <<svSubmitted, svExecuted, mthen, mgame, comQuit, clState, download, clCmds,
                 spc, sret, svCbuf, gameNo, scenario, inputs>>

SV_Shutdown ==
  /\ mpc = "join" /\ spc = "stopped"
  /\ ShutdownGame(FALSE)
  /\ mpc' = "shutdown"
  /\ UNCHANGED <<svSubmitted, svExecuted, mthen, mgame, comQuit, clState, download, clCmds,
                 spc, sret, svCbuf, gameNo, scenario, inputs>>

CL_Shutdown ==
  /\ mpc = "shutdown"
  /\ CL_Disconnect("exit")
  /\ UNCHANGED <<clSubmitted, clExecuted, comQuit, clCmds, serverVars, scenario, inputs>>

UserInput == \/ UserMap \/ UserConnect \/ UserDisconnect \/ UserQuit \/ ConnectionTimesOut
             \/ WebDownloadBegins \/ SigTerm

ClientWork == \/ FrameHead \/ ClientExecutes \/ ClientReadReturns \/ FrameEnds
              \/ CL_CheckForResend \/ Handshake \/ ServerMessage \/ WebDownloadDone
              \/ DisconnectReturns \/ SV_StopThread \/ StopFinished \/ SV_Shutdown
              \/ CL_Shutdown

-----------------------------------------------------------------------------
(* The server thread.                                                      *)

\* QBufPipe_ReadCmds of g_svCmdPipe executes one command.  SV_Map_f drops the
\* state of the running game and so makes SV_Map start a new one.
ServerExecutes ==
  /\ spc = "read"
  /\ SvPipe!Execute
  /\ sret' = "read"
  /\ \/ /\ NextSv = "map"
        /\ svState' = "dead" /\ spc' = "notify"
        /\ UNCHANGED <<clSubmitted, clExecuted, netMsg, svInitialized, svPublished, svSlot, svCmds>>
     \/ /\ NextSv = "SV_ShutdownGame"
        /\ ShutdownGame(FALSE)
        /\ UNCHANGED spc
     \/ /\ NextSv = "terminate"
        /\ spc' = "leaving"
        /\ UNCHANGED <<clSubmitted, clExecuted, netMsg, svInitialized, svState, svPublished,
                       svSlot, svCmds>>
  /\ UNCHANGED <<clientVars, svCbuf, gameNo, scenario, inputs>>

ServerReadReturns ==
  /\ spc = "read" /\ svExecuted = svSubmitted
  /\ spc' = "execbuf"
  /\ UNCHANGED <<pipeVars, clientVars, netMsg, sret, svCbuf, svInitialized, svState, svPublished,
                 svSlot, svCmds, gameNo, scenario, inputs>>

\* The end of SV_Thread, after which the main thread may use its data.
ServerStops ==
  /\ spc = "leaving"
  /\ spc' = "stopped"
  /\ UNCHANGED <<pipeVars, clientVars, netMsg, sret, svCbuf, svInitialized, svState, svPublished,
                 svSlot, svCmds, gameNo, scenario, inputs>>

\* executeBufferCommands, with the game's "gamemap" if it is there.
ServerExecutesBuffer ==
  /\ spc = "execbuf"
  /\ svCbuf' = FALSE
  /\ sret' = "frame"
  /\ spc' = IF ~svCbuf THEN "frame" ELSE IF svState = "dead" THEN "notify" ELSE "spawn"
  /\ UNCHANGED <<pipeVars, clientVars, netMsg, svInitialized, svState, svPublished, svSlot,
                 svCmds, gameNo, scenario, inputs>>

ServerFrame ==
  /\ spc = "frame"
  /\ spc' = "read"
  /\ UNCHANGED <<pipeVars, clientVars, netMsg, sret, svCbuf, svInitialized, svState, svPublished,
                 svSlot, svCmds, gameNo, scenario, inputs>>

\* The match is over: G_ExitLevel appends a map command to the buffer.
GameExitsLevel ==
  /\ spc = "frame" /\ svInitialized /\ svState = "game" /\ Input("gamemap")
  /\ svCbuf' = TRUE
  /\ spc' = "read"
  /\ UNCHANGED <<pipeVars, clientVars, netMsg, sret, svInitialized, svState, svPublished, svSlot,
                 svCmds, gameNo>>

\* SV_InitGame: SV_NotifyClientOfStartedBuiltinServer submits two commands,
NotifyDisconnect ==
  /\ spc = "notify"
  /\ ClPipe!Submit("CL_Disconnect")
  /\ spc' = "plaque"
  /\ UNCHANGED <<svSubmitted, svExecuted, clientVars, netMsg, sret, svCbuf, svInitialized,
                 svState, svPublished, svSlot, svCmds, gameNo, scenario, inputs>>

NotifyPlaque ==
  /\ spc = "plaque"
  /\ ClPipe!Submit("SCR_BeginLoadingPlaque")
  /\ spc' = "waitclient"
  /\ UNCHANGED <<svSubmitted, svExecuted, clientVars, netMsg, sret, svCbuf, svInitialized,
                 svState, svPublished, svSlot, svCmds, gameNo, scenario, inputs>>

\* and waits for the client to have executed them.
NotifyReturns_NoWait ==
  /\ spc = "waitclient"
  /\ spc' = "shutdownold"
  /\ UNCHANGED <<pipeVars, clientVars, netMsg, sret, svCbuf, svInitialized, svState, svPublished,
                 svSlot, svCmds, gameNo, scenario, inputs>>

NotifyReturns ==
  /\ spc = "waitclient" /\ ClFinished
  /\ spc' = "shutdownold"
  /\ UNCHANGED <<pipeVars, clientVars, netMsg, sret, svCbuf, svInitialized, svState, svPublished,
                 svSlot, svCmds, gameNo, scenario, inputs>>

ShutdownOldGame ==
  /\ spc = "shutdownold"
  /\ ShutdownGame(TRUE)
  /\ spc' = "initgame"
  /\ UNCHANGED <<svSubmitted, svExecuted, clientVars, sret, svCbuf, gameNo, scenario, inputs>>

InitGame ==
  /\ spc = "initgame"
  /\ svInitialized' = TRUE /\ gameNo' = gameNo + 1
  /\ svCmds' = TRUE /\ ClPipe!Submit("register")
  /\ spc' = "spawn"
  /\ UNCHANGED <<svSubmitted, svExecuted, clientVars, netMsg, sret, svCbuf, svState, svPublished,
                 svSlot, scenario, inputs>>

\* SV_SpawnServer up to CM_LoadMap; the clients have to connect again.
SpawnServer ==
  /\ spc = "spawn"
  /\ svState' = "dead" /\ svPublished' = "dead"
  /\ spc' = "load"
  /\ UNCHANGED <<pipeVars, clientVars, netMsg, sret, svCbuf, svInitialized, svSlot, svCmds,
                 gameNo, scenario, inputs>>

LoadMap ==
  /\ spc = "load"
  /\ svState' = "loading" /\ svPublished' = "loading"
  /\ spc' = "settle"
  /\ UNCHANGED <<pipeVars, clientVars, netMsg, sret, svCbuf, svInitialized, svSlot, svCmds,
                 gameNo, scenario, inputs>>

\* The end of SV_SpawnServer and of SV_Map.
SettleGame_NotPublished ==
  /\ spc = "settle"
  /\ svState' = "game"
  /\ spc' = sret
  /\ UNCHANGED <<pipeVars, clientVars, netMsg, sret, svCbuf, svInitialized, svPublished, svSlot,
                 svCmds, gameNo, scenario, inputs>>

SettleGame ==
  /\ spc = "settle"
  /\ svState' = "game" /\ svPublished' = "game"
  /\ spc' = sret
  /\ UNCHANGED <<pipeVars, clientVars, netMsg, sret, svCbuf, svInitialized, svSlot, svCmds,
                 gameNo, scenario, inputs>>

\* Com_Error( ERR_DROP ) in the server thread: SV_ShutdownGame, then the very
\* CL_Disconnect of the client, which waits for this thread to read its pipe
\* and so never returns, or, if there is nothing to disconnect, longjmp into
\* the main thread's frame, of which nothing can be said any more.
ServerDrops ==
  /\ spc \in {"load", "settle", "frame"} /\ Input("svdrop")
  /\ ShutdownGame(FALSE)
  /\ IF download = "web" \/ clState = "disconnected"
       THEN /\ spc' = "wild"
            /\ download' = IF download = "web" THEN "stopping" ELSE download
            /\ UNCHANGED <<svSubmitted, svExecuted>>
       ELSE /\ spc' = "selffinish"
            /\ SvPipe!Submit("SV_ShutdownGame")
            /\ UNCHANGED download
  /\ UNCHANGED <<mpc, mthen, mgame, comQuit, clState, clCmds, sret, svCbuf, gameNo>>

ServerEvent == GameExitsLevel \/ ServerDrops

ServerWork == \/ ServerExecutes \/ ServerReadReturns \/ ServerStops \/ ServerExecutesBuffer
              \/ ServerFrame \/ NotifyDisconnect \/ NotifyPlaque \/ NotifyReturns
              \/ ShutdownOldGame \/ InitGame \/ SpawnServer \/ LoadMap \/ SettleGame

-----------------------------------------------------------------------------

Next == UserInput \/ ServerEvent \/ ClientWork \/ ServerWork

\* Both threads keep running.  A handshake is repeated until it is answered
\* and a web download ends some day; everything else is input.
Fairness == /\ WF_vars(ClientWork) /\ WF_vars(ServerWork)
            /\ SF_vars(Handshake) /\ SF_vars(WebDownloadDone)

Spec     == Init /\ [][Next]_vars
FairSpec == Spec /\ Fairness

-----------------------------------------------------------------------------
(* Properties.                                                             *)

\* The types, and: only an initialized server runs a game or holds a client.
TypeOK ==
  /\ clSubmitted \in Seq(ClCommand) /\ clExecuted \in Seq(ClCommand)
  /\ svSubmitted \in Seq(SvCommand) /\ svExecuted \in Seq(SvCommand)
  /\ mpc \in {"head", "read", "readloading", "body", "finish", "quit", "stop", "join",
              "shutdown", "exited", "crashed"}
  /\ mthen \in {"frame", "connect", "reconnect", "quit", "exit"}
  /\ clState \in {"disconnected", "connecting", "local", "remote"}
  /\ download \in {"none", "web", "stopping"}
  /\ netMsg \in {"none", "disconnect", "reconnect"}
  /\ spc \in InSvMap \cup {"read", "execbuf", "frame", "leaving", "stopped"}
  /\ sret \in {"read", "frame"}
  /\ {svState, svPublished} \subseteq {"dead", "loading", "game"}
  /\ {comQuit, clCmds, svCbuf, svInitialized, svSlot, svCmds} \subseteq BOOLEAN
  /\ mgame \in Nat /\ gameNo \in Nat /\ scenario \in Scenarios /\ inputs \in 0..MaxInputs
  /\ svSlot \/ "game" \in {svState, svPublished} => svInitialized

\* When CL_Disconnect is done with its wait for SV_ShutdownGame, the game that
\* ran when it was called does not run any more.
DisconnectEndsThatGame ==
  [][DisconnectReturns /\ svInitialized => gameNo # mgame]_vars

\* A map command replaces the game of a client only after the client has left
\* it, unless the client defers that to the end of a web download.
OldGameHasNoPlayer ==
  [][ShutdownOldGame => clState # "local" \/ download # "none"]_vars

\* From SV_Shutdown on the main thread has the server to itself: "Allow
\* accessing the cmd system from the main thread during shutdown".
ShutdownIsAlone ==
  [][(mpc \in {"shutdown", "exited"}) => UNCHANGED serverVars]_vars

\* With no command in flight the client offers exactly the commands the
\* server has, whatever sequence of starts and shutdowns led there.
RegistrationsAgree == ClFinished => clCmds = svCmds

Quitting == comQuit \/ mthen = "quit" \/ mpc \in {"quit", "stop", "join", "shutdown", "exited"}

\* Every started game is published and joined by the client, as long as the
\* user does nothing but start games, or quit.
StartedGameIsJoined ==
  (gameNo > 0 /\ ~Quitting /\ scenario \subseteq {"map", "gamemap", "quit"}) ~>
     (Quitting \/ (svPublished = "game" /\ clState = "local"))

\* Quitting ends, whatever else happens, unless the server comes to wait for
\* the client (FinishReturns) or for itself, or an error is raised while one
\* is being handled (DisconnectCausesNoError).
QuitEnds ==
  Quitting ~> (mpc \in {"exited", "crashed"} \/ spc \in {"waitclient", "selffinish", "wild"})

\* The types, and the commands on which both threads agree at rest.
Inv == TypeOK /\ RegistrationsAgree

\* Games end when they are left and not before, and nobody is in the way of a
\* shutdown.
GamesEndInTime == DisconnectEndsThatGame /\ OldGameHasNoPlayer /\ ShutdownIsAlone

\* The comment on QBufPipe_Finish: "Blocks until the reader thread handles all
\* commands or terminates with an error".
FinishReturns == (mpc = "finish") ~> (mpc # "finish")

\* The comment on CL_Disconnect: "This is also called on Com_Error, so it
\* shouldn't cause any errors".
DisconnectCausesNoError == mpc # "crashed"
=============================================================================
