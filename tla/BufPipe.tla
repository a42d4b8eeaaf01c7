------------------------------- MODULE BufPipe -------------------------------
(***************************************************************************)
(* The byte ring that carries commands from one thread to another          *)
(* (struct qbufPipe_s of src/source/common/threads.cpp).  One thread       *)
(* writes, one thread reads.  The only word both of them modify is         *)
(* cmdbuf_len; write_pos belongs to the writer and read_pos to the reader. *)
(* The reader of the sound pipe sleeps in QBufPipe_Wait; the readers of    *)
(* the client and the builtin server pipes just call QBufPipe_ReadCmds,    *)
(* which is the same reader whose wait always times out.                   *)
(*                                                                         *)
(* Offsets and sizes are counted in units of PipeCmd::kAlignment bytes:    *)
(* sizes are padded to it (pipeutils.h), both functions that take one      *)
(* assert it, and the three pipes are created with a multiple of it.  All  *)
(* three are created with blockWrite set.                                  *)
(***************************************************************************)
EXTENDS Naturals, Sequences

CONSTANTS BufSize,    \* bufSize
          CallSizes,  \* the sizes of the closures sent over the pipe
          MaxCmds     \* bound: how many commands the writer sends

ASSUME BufSizeAssumption  == BufSize \in Nat \ {0}
ASSUME CallSizeAssumption == CallSizes \subseteq 1..BufSize
ASSUME MaxCmdsAssumption  == MaxCmds \in Nat

kMinCmdSize == 1

Offset == 0..BufSize

Free      == [kind |-> "free", id |-> 0, size |-> 0]
RewindCmd == [kind |-> "rewind", id |-> 0, size |-> kMinCmdSize]

Sendable == [kind : {"call"}, id : 1..MaxCmds, size : CallSizes]
              \cup [kind : {"terminate"}, id : 1..MaxCmds, size : {kMinCmdSize}]

PipeCmd == Sendable \cup {Free, RewindCmd}

VARIABLES
  write_pos, read_pos, cmdbuf_len, terminated,
  buf,        \* the object constructed at an offset, Free when there is none
  wpc,        \* where the writer is
  wcmd,       \* the command it is sending
  wremains,   \* its local write_remains
  rpc,        \* where the reader is
  rcmd,       \* the command it has just executed
  rremains,   \* its local read_remains
  rtimeout,   \* the result of its last wait
  submitted,  \* history: the commands accounted in cmdbuf_len, in order
  executed    \* history: the commands executed, in order

writerVars  == <<write_pos, wpc, wcmd, wremains>>
readerVars  == <<read_pos, rpc, rcmd, rremains, rtimeout>>
vars == <<write_pos, read_pos, cmdbuf_len, terminated, buf, wpc, wcmd, wremains,
          rpc, rcmd, rremains, rtimeout, submitted, executed>>

Init ==
  /\ write_pos = 0 /\ read_pos = 0 /\ cmdbuf_len = 0 /\ terminated = FALSE
  /\ buf = [p \in 0..BufSize - 1 |-> Free]
  /\ wpc = "idle" /\ wcmd = Free /\ wremains = 0
  /\ rpc = "wait" /\ rcmd = Free /\ rremains = 0 /\ rtimeout = FALSE
  /\ submitted = <<>> /\ executed = <<>>

-----------------------------------------------------------------------------
(* The writer.                                                             *)

\* QBufPipe_AcquireWritableBytes up to its waiting loops.  No pipe is written
\* to after its terminate command: its owner joins the reader next.
BeginWrite(c) ==
  /\ wpc = "idle"
  /\ Len(submitted) < MaxCmds
  /\ wcmd.kind # "terminate"
  /\ ~terminated
  /\ c.id = Len(submitted) + 1
  /\ wcmd' = c
  /\ wremains' = BufSize - write_pos
  /\ wpc' = "acquire"
  /\ UNCHANGED <<write_pos, cmdbuf_len, terminated, buf, readerVars, submitted, executed>>

\* The end of the buffer is reached exactly: wait, then start over silently.
AcquireAfterImplicitReset ==
  /\ wpc = "acquire"
  /\ kMinCmdSize > wremains
  /\ cmdbuf_len + wcmd.size + wremains <= BufSize
  /\ wpc' = "reset"
  /\ UNCHANGED <<write_pos, wcmd, wremains, cmdbuf_len, terminated, buf, readerVars,
                 submitted, executed>>

\* The tail is too short: wait, then leave a RewindCmd in it.
AcquireAfterRewind_Strict ==
  /\ wpc = "acquire"
  /\ kMinCmdSize <= wremains /\ wcmd.size > wremains
  /\ cmdbuf_len + kMinCmdSize + wcmd.size + wremains < BufSize
  /\ buf' = [buf EXCEPT ![write_pos] = RewindCmd]
  /\ write_pos' = write_pos + kMinCmdSize
  /\ wpc' = "rewind"
  /\ UNCHANGED <<wcmd, wremains, cmdbuf_len, terminated, readerVars, submitted, executed>>

AcquireAfterRewind ==
  /\ wpc = "acquire"
  /\ kMinCmdSize <= wremains /\ wcmd.size > wremains
  /\ cmdbuf_len + kMinCmdSize + wcmd.size + wremains <= BufSize
  /\ buf' = [buf EXCEPT ![write_pos] = RewindCmd]
  /\ write_pos' = write_pos + kMinCmdSize
  /\ wpc' = "rewind"
  /\ UNCHANGED <<wcmd, wremains, cmdbuf_len, terminated, readerVars, submitted, executed>>

AcquireInPlace_NoWait ==
  /\ wpc = "acquire"
  /\ kMinCmdSize <= wremains /\ wcmd.size <= wremains
  /\ write_pos' = write_pos + wcmd.size
  /\ wpc' = "construct"
  /\ UNCHANGED <<wcmd, wremains, cmdbuf_len, terminated, buf, readerVars, submitted, executed>>

AcquireInPlace ==
  /\ wpc = "acquire"
  /\ kMinCmdSize <= wremains /\ wcmd.size <= wremains
  /\ cmdbuf_len + wcmd.size <= BufSize
  /\ write_pos' = write_pos + wcmd.size
  /\ wpc' = "construct"
  /\ UNCHANGED <<wcmd, wremains, cmdbuf_len, terminated, buf, readerVars, submitted, executed>>

\* What the writer adds to cmdbuf_len for the part of the buffer it skips.
SkippedBytes_NoRewindCmd == wremains

SkippedBytes == IF wpc = "rewind" THEN kMinCmdSize + wremains ELSE wremains

\* QBufPipe_BufLenAdd of the skipped bytes, then QBufPipe_AllocCmd at 0.
SkipTail ==
  /\ wpc \in {"reset", "rewind"}
  /\ cmdbuf_len' = cmdbuf_len + SkippedBytes
  /\ write_pos' = wcmd.size
  /\ wpc' = "construct"
  /\ UNCHANGED <<wcmd, wremains, terminated, buf, readerVars, submitted, executed>>

\* The placement new of WRITE_CLOSURE_WITH_ARGS_TO_PIPE.
Construct ==
  /\ wpc = "construct"
  /\ buf' = [buf EXCEPT ![write_pos - wcmd.size] = wcmd]
  /\ wpc' = "submit"
  /\ UNCHANGED <<write_pos, wcmd, wremains, cmdbuf_len, terminated, readerVars,
                 submitted, executed>>

SubmitWrittenBytes_NotCounted ==
  /\ wpc = "submit"
  /\ submitted' = Append(submitted, wcmd)
  /\ wpc' = "wake"
  /\ UNCHANGED <<write_pos, wcmd, wremains, cmdbuf_len, terminated, buf, readerVars, executed>>

SubmitWrittenBytes ==
  /\ wpc = "submit"
  /\ cmdbuf_len' = cmdbuf_len + wcmd.size
  /\ submitted' = Append(submitted, wcmd)
  /\ wpc' = "wake"
  /\ UNCHANGED <<write_pos, wcmd, wremains, terminated, buf, readerVars, executed>>

\* Lock nonempty_mutex, signal, unlock.  The reader holds that mutex only
\* between its lock and its wait on the condition.
SignalNonEmpty ==
  /\ rpc # "condwait"
  /\ IF rpc = "waiting" THEN rpc' = "relock" /\ rtimeout' = FALSE
                        ELSE UNCHANGED <<rpc, rtimeout>>

WakeAfterSubmit ==
  /\ wpc = "wake"
  /\ SignalNonEmpty
  /\ wpc' = "idle"
  /\ UNCHANGED <<write_pos, wcmd, wremains, cmdbuf_len, terminated, buf, read_pos, rcmd,
                 rremains, submitted, executed>>

\* QBufPipe_Finish, called by the writer.
BeginFinish ==
  /\ wpc = "idle"
  /\ wpc' = "finish"
  /\ UNCHANGED <<write_pos, wcmd, wremains, cmdbuf_len, terminated, buf, readerVars,
                 submitted, executed>>

FinishReturns_OffByOne ==
  /\ wpc = "finish"
  /\ cmdbuf_len <= kMinCmdSize \/ terminated
  /\ wpc' = "idle"
  /\ UNCHANGED <<write_pos, wcmd, wremains, cmdbuf_len, terminated, buf, readerVars,
                 submitted, executed>>

FinishReturns ==
  /\ wpc = "finish"
  /\ cmdbuf_len = 0 \/ terminated
  /\ wpc' = "idle"
  /\ UNCHANGED <<write_pos, wcmd, wremains, cmdbuf_len, terminated, buf, readerVars,
                 submitted, executed>>

FinishWakes ==
  /\ wpc = "finish"
  /\ cmdbuf_len # 0 /\ ~terminated
  /\ wpc' = "finishwake"
  /\ UNCHANGED <<write_pos, wcmd, wremains, cmdbuf_len, terminated, buf, readerVars,
                 submitted, executed>>

WakeInFinish ==
  /\ wpc = "finishwake"
  /\ SignalNonEmpty
  /\ wpc' = "finish"
  /\ UNCHANGED <<write_pos, wcmd, wremains, cmdbuf_len, terminated, buf, read_pos, rcmd,
                 rremains, submitted, executed>>

-----------------------------------------------------------------------------
(* The reader.                                                             *)

\* The head of the loop of QBufPipe_Wait.
WaitTest ==
  /\ rpc = "wait"
  /\ rtimeout' = FALSE
  /\ rpc' = IF cmdbuf_len = 0 THEN "lock" ELSE "read"
  /\ UNCHANGED <<read_pos, rcmd, rremains, cmdbuf_len, terminated, buf, writerVars,
                 submitted, executed>>

LockNonEmptyMutex ==
  /\ rpc = "lock"
  /\ rpc' = "condwait"
  /\ UNCHANGED <<read_pos, rcmd, rremains, rtimeout, cmdbuf_len, terminated, buf, writerVars,
                 submitted, executed>>

\* QCondVar_Wait releases the mutex and sleeps in one step.
CondVarWait ==
  /\ rpc = "condwait"
  /\ rpc' = "waiting"
  /\ UNCHANGED <<read_pos, rcmd, rremains, rtimeout, cmdbuf_len, terminated, buf, writerVars,
                 submitted, executed>>

WaitTimesOut ==
  /\ rpc = "waiting"
  /\ rpc' = "relock" /\ rtimeout' = TRUE
  /\ UNCHANGED <<read_pos, rcmd, rremains, cmdbuf_len, terminated, buf, writerVars,
                 submitted, executed>>

\* The wait returns with the mutex, which the reader releases; it then calls
\* the waiter function, whose first act is QBufPipe_ReadCmds.
LeaveWait ==
  /\ rpc = "relock"
  /\ rpc' = "read"
  /\ UNCHANGED <<read_pos, rcmd, rremains, rtimeout, cmdbuf_len, terminated, buf, writerVars,
                 submitted, executed>>

\* The head of the loop of QBufPipe_ReadCmds, and the implicit reset.
ReadTest ==
  /\ rpc = "read"
  /\ cmdbuf_len # 0 /\ ~terminated
  /\ rremains' = BufSize - read_pos
  /\ IF BufSize - read_pos < kMinCmdSize
       THEN /\ read_pos' = 0
            /\ cmdbuf_len' = cmdbuf_len - (BufSize - read_pos)
       ELSE UNCHANGED <<read_pos, cmdbuf_len>>
  /\ rpc' = "exec"
  /\ UNCHANGED <<rcmd, rtimeout, terminated, buf, writerVars, submitted, executed>>

ReadReturns ==
  /\ rpc = "read"
  /\ cmdbuf_len = 0 \/ terminated
  /\ rpc' = "wait"
  /\ UNCHANGED <<read_pos, rcmd, rremains, rtimeout, cmdbuf_len, terminated, buf, writerVars,
                 submitted, executed>>

\* exec() and the destructor of whatever object is at read_pos.
ExecCmd ==
  /\ rpc = "exec"
  /\ LET cmd == buf[read_pos] IN
       /\ rcmd' = cmd
       /\ rpc' = IF cmd.kind \in {"rewind", "terminate"} THEN cmd.kind ELSE "consume"
       /\ executed' = IF cmd.kind = "rewind" THEN executed ELSE Append(executed, cmd)
  /\ buf' = [buf EXCEPT ![read_pos] = Free]
  /\ UNCHANGED <<read_pos, rremains, rtimeout, cmdbuf_len, terminated, writerVars, submitted>>

Rewind_NoReset ==
  /\ rpc = "rewind"
  /\ cmdbuf_len' = cmdbuf_len - (kMinCmdSize + rremains)
  /\ rpc' = "read"
  /\ UNCHANGED <<read_pos, rcmd, rremains, rtimeout, terminated, buf, writerVars,
                 submitted, executed>>

Rewind ==
  /\ rpc = "rewind"
  /\ read_pos' = 0
  /\ cmdbuf_len' = cmdbuf_len - (kMinCmdSize + rremains)
  /\ rpc' = "read"
  /\ UNCHANGED <<rcmd, rremains, rtimeout, terminated, buf, writerVars, submitted, executed>>

\* QBufPipe_ReadCmds returns -1 and its caller leaves its loop.
Terminate_NoFlag ==
  /\ rpc = "terminate"
  /\ rpc' = "done"
  /\ UNCHANGED <<read_pos, rcmd, rremains, rtimeout, terminated, cmdbuf_len, buf, writerVars,
                 submitted, executed>>

Terminate ==
  /\ rpc = "terminate"
  /\ terminated' = TRUE
  /\ rpc' = "done"
  /\ UNCHANGED <<read_pos, rcmd, rremains, rtimeout, cmdbuf_len, buf, writerVars,
                 submitted, executed>>

\* The check of the command's result, then the release of its bytes.
Consume_FixedStep ==
  /\ rpc = "consume"
  /\ read_pos' = read_pos + kMinCmdSize
  /\ cmdbuf_len' = cmdbuf_len - rcmd.size
  /\ rpc' = "read"
  /\ UNCHANGED <<rcmd, rremains, rtimeout, terminated, buf, writerVars, submitted, executed>>

Consume ==
  /\ rpc = "consume"
  /\ IF rcmd.size > cmdbuf_len
       THEN /\ terminated' = TRUE /\ rpc' = "done"
            /\ UNCHANGED <<read_pos, cmdbuf_len>>
       ELSE /\ read_pos' = read_pos + rcmd.size
            /\ cmdbuf_len' = cmdbuf_len - rcmd.size
            /\ rpc' = "read"
            /\ UNCHANGED terminated
  /\ UNCHANGED <<rcmd, rremains, rtimeout, buf, writerVars, submitted, executed>>

-----------------------------------------------------------------------------

Send == \E c \in Sendable : BeginWrite(c)

Write == \/ AcquireAfterImplicitReset \/ AcquireAfterRewind \/ AcquireInPlace
         \/ SkipTail \/ Construct \/ SubmitWrittenBytes \/ WakeAfterSubmit

Finish == FinishReturns \/ FinishWakes \/ WakeInFinish

Reader == \/ WaitTest \/ LockNonEmptyMutex \/ CondVarWait \/ WaitTimesOut \/ LeaveWait
          \/ ReadTest \/ ReadReturns \/ ExecCmd \/ Rewind \/ Terminate \/ Consume

Next == Send \/ Write \/ BeginFinish \/ Finish \/ Reader

\* Both threads keep running, and a wait ends after timeout_msec.  Whether
\* another command is sent is up to the program.  A thread blocked on
\* nonempty_mutex gets it: the reader gives it up for the whole of its wait.
Fairness ==
  /\ WF_vars(Write) /\ WF_vars(Finish) /\ WF_vars(Reader)
  /\ SF_vars(WakeAfterSubmit) /\ SF_vars(WakeInFinish)

Spec     == Init /\ [][Next]_vars
FairSpec == Spec /\ Fairness

-----------------------------------------------------------------------------
(* Properties.                                                             *)

\* The types: positions stay in the buffer, cmdbuf_len within its size.
TypeOK ==
  /\ write_pos \in Offset /\ read_pos \in Offset
  /\ cmdbuf_len \in 0..BufSize
  /\ terminated \in BOOLEAN
  /\ buf \in [0..BufSize - 1 -> PipeCmd]
  /\ wpc \in {"idle", "acquire", "reset", "rewind", "construct", "submit", "wake",
              "finish", "finishwake"}
  /\ wcmd \in Sendable \cup {Free} /\ wremains \in Offset
  /\ rpc \in {"wait", "lock", "condwait", "waiting", "relock", "read", "exec", "rewind",
              "terminate", "consume", "done"}
  /\ rcmd \in PipeCmd /\ rremains \in Offset /\ rtimeout \in BOOLEAN
  /\ submitted \in Seq(Sendable) /\ executed \in Seq(PipeCmd)

\* The units an object constructed at p occupies.
Extent(p, cmd) == p..(p + cmd.size - 1)

\* "Never allow the distance between the reader and the writer to grow beyond
\* the size of the buffer": whatever is constructed lies inside the buffer and
\* on top of nothing that is still to be executed.
NeverStepsOnReadersToes ==
  [][\A p \in DOMAIN buf :
       buf'[p] \notin {buf[p], Free} =>
         /\ Extent(p, buf'[p]) \subseteq DOMAIN buf
         /\ \A q \in DOMAIN buf : Extent(p, buf'[p]) \cap Extent(q, buf[q]) = {}]_vars

\* The reader executes the submitted commands, each once, in order, and none
\* after a terminate command: it never runs into unwritten or stale bytes.
Queue == INSTANCE CommandQueue
           WITH Command <- Sendable, Terminal <- {c \in Sendable : c.kind = "terminate"}
ImplementsCommandQueue == Queue!Spec

\* QBufPipe_Finish "blocks until the reader thread handles all commands":
\* when it returns everything submitted before it has been executed.
FinishDrains == [][FinishReturns => executed = submitted]_vars

\* Once both sides are at rest the reader stands where the writer stands.
RestingPositionsAgree ==
  wpc = "idle" /\ rpc \in {"wait", "waiting"} /\ cmdbuf_len = 0 => read_pos = write_pos

\* Every submitted command is executed, though wake-ups may be lost.
SubmittedIsExecuted ==
  \A n \in 1..MaxCmds : Len(submitted) >= n ~> Len(executed) >= n

\* A writer blocked by a full pipe gets its bytes.
WriterIsServed == wpc = "acquire" ~> wpc = "construct"

\* QBufPipe_Finish returns.
FinishEnds == wpc = "finish" ~> wpc = "idle"

\* Nobody waits for ever: neither for a command to be executed, nor for room,
\* nor in QBufPipe_Finish.
EverybodyIsServed == SubmittedIsExecuted /\ WriterIsServed /\ FinishEnds

\* The comment in QBufPipe_Wait: "we're guaranteed at this point that either
\* cmdbuf_len is > 0 or that waiting on the condition variable has timed out".
WakeUpMeansCommands ==
  [][LeaveWait => cmdbuf_len > 0 \/ rtimeout]_vars
=============================================================================
