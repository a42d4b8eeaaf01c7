-------------------------- MODULE BufPipeInvariant --------------------------
(***************************************************************************)
(* The inductive invariant of BufPipe.  The bytes in use are either one    *)
(* stretch of the ring (Unwrapped), or a stretch that ends with the ring   *)
(* and one that starts at 0, joined silently (WrappedByReset) or through a *)
(* RewindCmd (WrappedByRewind).  On top of that the commands in the ring   *)
(* are linked: each ends where the next one starts, up to such a join.     *)
(***************************************************************************)
EXTENDS BufPipe

Cells == 0..BufSize - 1

numExecuted  == Len(executed)
numSubmitted == Len(submitted)

\* Up to where the bytes are accounted in cmdbuf_len, and from where they are
\* still to be executed.
WPos == IF wpc = "rewind" THEN write_pos - kMinCmdSize
        ELSE IF wpc \in {"construct", "submit"} THEN write_pos - wcmd.size
        ELSE write_pos
RPos == IF rpc = "consume" THEN read_pos + rcmd.size ELSE read_pos

HoldsCmd(p)  == buf[p].kind \in {"call", "terminate"}
InFlight(p)  == wpc \in {"rewind", "submit"} /\ p = WPos
Accounted(p) == buf[p] # Free /\ ~InFlight(p)

\* The writer has decided where its command goes.
Placed == wpc \in {"construct", "submit"}

Unwrapped ==
  /\ cmdbuf_len = WPos - read_pos
  /\ RPos <= WPos
  /\ rpc # "rewind"
  /\ \A p \in Cells : Accounted(p) => /\ HoldsCmd(p)
                                      /\ RPos <= p
                                      /\ p + buf[p].size <= WPos

WrappedByReset ==
  /\ cmdbuf_len = (BufSize - read_pos) + WPos
  /\ WPos <= read_pos /\ RPos <= BufSize
  /\ rpc # "rewind"
  /\ numExecuted = numSubmitted => WPos = 0 /\ Placed
  /\ \A p \in Cells : Accounted(p) =>
       /\ HoldsCmd(p)
       /\ \/ RPos <= p /\ p + buf[p].size <= BufSize
          \/ p + buf[p].size <= WPos

\* t is where the RewindCmd is, or was before the reader executed it.
WrappedByRewindAt(t) ==
  /\ cmdbuf_len = (BufSize - read_pos) + WPos + kMinCmdSize
  /\ WPos < read_pos /\ RPos <= t
  /\ IF rpc = "rewind" THEN read_pos = t ELSE buf[t] = RewindCmd
  /\ numExecuted = numSubmitted => WPos = 0 /\ Placed
  /\ \A p \in Cells : Accounted(p) =>
       \/ HoldsCmd(p) /\ RPos <= p /\ p + buf[p].size <= t
       \/ HoldsCmd(p) /\ p + buf[p].size <= WPos
       \/ rpc # "rewind" /\ p = t /\ buf[p] = RewindCmd

WrappedByRewind == \E t \in Cells : WrappedByRewindAt(t)

Layout == Unwrapped \/ WrappedByReset \/ WrappedByRewind

\* What the writer knows at each of its steps.
WriterLocal ==
  /\ wpc = "acquire" => wremains = BufSize - write_pos
  /\ wpc = "reset" => wremains = 0 /\ write_pos = BufSize
  /\ wpc = "rewind" => /\ write_pos >= kMinCmdSize
                       /\ (write_pos - kMinCmdSize) + wremains = BufSize
                       /\ wremains >= kMinCmdSize
                       /\ buf[write_pos - kMinCmdSize] = RewindCmd
  /\ wpc \in {"reset", "rewind"} => cmdbuf_len + SkippedBytes + wcmd.size <= BufSize
  /\ Placed => write_pos >= wcmd.size /\ cmdbuf_len + wcmd.size <= BufSize
  /\ wpc = "submit" => buf[WPos] = wcmd
  /\ wpc \in {"acquire", "reset", "rewind", "construct", "submit"} =>
       wcmd \in Sendable /\ wcmd.id = numSubmitted + 1

\* What the reader knows at each of its steps.
ReaderLocal ==
  /\ rpc = "exec" => /\ read_pos < BufSize
                     /\ \/ numExecuted < numSubmitted
                           /\ buf[read_pos] = submitted[numExecuted + 1]
                        \/ /\ buf[read_pos] = RewindCmd /\ ~InFlight(read_pos)
                           /\ rremains = BufSize - read_pos
  /\ rpc = "consume" => rcmd \in Sendable
  /\ rpc = "rewind" => rremains = BufSize - read_pos
  /\ terminated <=> rpc = "done"

\* No command is sent after a terminate command or executed after one.
LastCmd ==
  /\ \A i \in 1..numSubmitted : submitted[i].kind = "terminate" =>
       /\ i = numSubmitted /\ wcmd.kind = "terminate"
       /\ wpc \in {"idle", "wake", "finish", "finishwake"}
  /\ \A i \in 1..numExecuted : executed[i].kind = "terminate" => rpc \in {"terminate", "done"}
  /\ rpc \in {"terminate", "done"} =>
       numExecuted >= 1 /\ executed[numExecuted].kind = "terminate"

History ==
  /\ numExecuted <= numSubmitted
  /\ \A i \in 1..numExecuted : executed[i] = submitted[i]
  /\ \A i \in 1..numSubmitted : submitted[i].id = i

\* The command c is the first one a reader meets from the offset e on.
Reaches(e, c) == \/ e \in Cells /\ buf[e] = c
                 \/ e \in Cells /\ buf[e] = RewindCmd /\ buf[0] = c
                 \/ e = BufSize /\ buf[0] = c

\* A reader at the offset e will meet the writer's next command first.
ReachesWriter(e) == \/ e = WPos
                    \/ Placed /\ WPos = 0 /\ e \in Cells /\ buf[e] = RewindCmd
                    \/ Placed /\ WPos = 0 /\ e = BufSize

Contents ==
  /\ \A p \in Cells : HoldsCmd(p) =>
       /\ numExecuted < buf[p].id
       /\ ~InFlight(p) => buf[p].id <= numSubmitted /\ buf[p] = submitted[buf[p].id]
  /\ \A p, q \in Cells : HoldsCmd(p) /\ HoldsCmd(q) =>
       /\ buf[p].id = buf[q].id => p = q
       /\ p < q => p + buf[p].size <= q

Chain ==
  /\ \A p \in Cells : HoldsCmd(p) /\ buf[p].id < numSubmitted =>
       Reaches(p + buf[p].size, submitted[buf[p].id + 1])
  /\ \A p \in Cells : HoldsCmd(p) /\ buf[p].id = numSubmitted =>
       ReachesWriter(p + buf[p].size)

\* The reader is at the start of the chain.
ReaderOnChain ==
  /\ numExecuted < numSubmitted =>
       IF rpc = "rewind" THEN buf[0] = submitted[numExecuted + 1]
                         ELSE Reaches(RPos, submitted[numExecuted + 1])
  /\ numExecuted = numSubmitted /\ rpc \notin {"rewind", "terminate", "done"} =>
       ReachesWriter(RPos)

IInv == /\ TypeOK /\ Layout /\ WriterLocal /\ ReaderLocal /\ LastCmd /\ History
        /\ Contents /\ Chain /\ ReaderOnChain
=============================================================================
