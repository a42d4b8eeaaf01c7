--------------------------- MODULE BufPipe_proofs ---------------------------
(***************************************************************************)
(* Proofs about BufPipe for every size of the ring, every set of command   *)
(* sizes and every number of commands.                                     *)
(***************************************************************************)
EXTENDS BufPipeInvariant, TLAPS

QuietReader == {"wait", "lock", "condwait", "waiting", "relock", "read"}
QuietWriter == {"idle", "wake", "finish", "finishwake"}

\* Everything but the places of the two threads.
dataVars == <<write_pos, read_pos, cmdbuf_len, terminated, buf, wcmd, wremains,
              rcmd, rremains, submitted, executed>>

USE BufSizeAssumption, CallSizeAssumption, MaxCmdsAssumption DEF kMinCmdSize

\* What distinguishes a command from the other contents of a cell.
LEMMA SendableFacts ==
  \A c \in Sendable : /\ c.size \in 1..BufSize
                      /\ c.id \in Nat /\ c.id > 0
                      /\ c.kind \in {"call", "terminate"}
                      /\ c # Free /\ c # RewindCmd
<1> SUFFICES ASSUME NEW c \in Sendable
             PROVE  /\ c.size \in 1..BufSize
                    /\ c.id \in Nat /\ c.id > 0
                    /\ c.kind \in {"call", "terminate"}
                    /\ c # Free /\ c # RewindCmd
  OBVIOUS
<1>1. c.size \in 1..BufSize /\ c.id \in 1..MaxCmds /\ c.kind \in {"call", "terminate"}
  <2>1. CASE c \in [kind : {"call"}, id : 1..MaxCmds, size : CallSizes]
    BY <2>1
  <2>2. CASE c \in [kind : {"terminate"}, id : 1..MaxCmds, size : {kMinCmdSize}]
    BY <2>2
  <2> QED
    BY <2>1, <2>2 DEF Sendable
<1>2. Free.kind = "free" /\ RewindCmd.kind = "rewind"
  BY DEF Free, RewindCmd
<1> QED
  BY <1>1, <1>2

\* A cell holds a command exactly when it is neither free nor a RewindCmd.
LEMMA CellFacts ==
  ASSUME TypeOK, NEW p \in Cells
  PROVE  /\ buf[p] \in PipeCmd
         /\ HoldsCmd(p) <=> buf[p] \in Sendable
         /\ HoldsCmd(p) <=> buf[p] \notin {Free, RewindCmd}
         /\ Free # RewindCmd
<1>1. buf[p] \in PipeCmd
  BY DEF TypeOK, Cells
<1>2. Free.kind = "free" /\ RewindCmd.kind = "rewind"
  BY DEF Free, RewindCmd
<1> QED
  BY <1>1, <1>2, SendableFacts DEF PipeCmd, HoldsCmd

\* The positions and sizes are numbers.
LEMMA NumberFacts ==
  ASSUME IInv
  PROVE  /\ BufSize \in Nat /\ BufSize >= 1
         /\ write_pos \in 0..BufSize /\ read_pos \in 0..BufSize
         /\ cmdbuf_len \in 0..BufSize
         /\ RPos \in Nat /\ read_pos <= RPos
         /\ \A p \in Cells : HoldsCmd(p) => buf[p].size \in 1..BufSize
<1>1. TypeOK
  BY DEF IInv
<1>2. /\ BufSize \in Nat /\ BufSize >= 1
      /\ write_pos \in 0..BufSize /\ read_pos \in 0..BufSize /\ cmdbuf_len \in 0..BufSize
  BY <1>1 DEF TypeOK, Offset
<1>3. rpc = "consume" => rcmd.size \in 1..BufSize
  BY SendableFacts DEF IInv, ReaderLocal
<1>4. RPos \in Nat /\ read_pos <= RPos
  BY <1>2, <1>3 DEF RPos
<1>5. \A p \in Cells : HoldsCmd(p) => buf[p].size \in 1..BufSize
  BY <1>1, CellFacts, SendableFacts
<1> QED
  BY <1>2, <1>4, <1>5

\* Init establishes the inductive invariant: the ring is empty and unwrapped.
LEMMA InitInv == Init => IInv
<1> SUFFICES ASSUME Init PROVE IInv
  OBVIOUS
<1> USE DEF Init
<1>1. TypeOK
  BY DEF TypeOK, Offset, PipeCmd
<1>2. Layout
  BY DEF Layout, Unwrapped, WPos, RPos, Accounted, Cells
<1>3. WriterLocal /\ ReaderLocal /\ LastCmd /\ History
  BY DEF WriterLocal, ReaderLocal, LastCmd, History, numExecuted, numSubmitted, Placed
<1>4. Contents /\ Chain
  BY DEF Contents, Chain, HoldsCmd, Cells, Free
<1>5. ReaderOnChain
  BY DEF ReaderOnChain, ReachesWriter, WPos, RPos, numExecuted, numSubmitted
<1> QED
  BY <1>1, <1>2, <1>3, <1>4, <1>5 DEF IInv

\* Steps that only move a thread between places where it keeps no position,
\* count or command in its hands.
LEMMA QuietStep ==
  ASSUME IInv, UNCHANGED dataVars, rtimeout' \in BOOLEAN,
         \/ wpc' = wpc
         \/ wpc \in QuietWriter /\ wpc' \in QuietWriter,
         \/ rpc' = rpc
         \/ rpc \in QuietReader /\ rpc' \in QuietReader
  PROVE  IInv'
<1> USE DEF dataVars, QuietReader, QuietWriter
<1>0. TypeOK
  BY DEF IInv
<1>1. WPos' = WPos /\ RPos' = RPos /\ Placed' = Placed
  BY DEF WPos, RPos, Placed
<1>2. \A p : /\ InFlight(p)' = InFlight(p)
             /\ HoldsCmd(p)' = HoldsCmd(p)
             /\ Accounted(p)' = Accounted(p)
  BY <1>1 DEF InFlight, HoldsCmd, Accounted
<1>3. TypeOK'
  BY <1>0 DEF TypeOK
<1>4. Layout'
  BY <1>1, <1>2 DEF IInv, Layout, Unwrapped, WrappedByReset, WrappedByRewind,
     WrappedByRewindAt, numExecuted, numSubmitted
<1>5. WriterLocal'
  BY <1>1 DEF IInv, WriterLocal, SkippedBytes, Placed, numSubmitted
<1>6. ReaderLocal'
  BY <1>2 DEF IInv, ReaderLocal, numExecuted, numSubmitted
<1>7. LastCmd' /\ History'
  BY DEF IInv, LastCmd, History, numExecuted, numSubmitted
<1>8. Contents'
  BY <1>2 DEF IInv, Contents, numExecuted, numSubmitted
<1>9. Chain'
  BY <1>1, <1>2 DEF IInv, Chain, Reaches, ReachesWriter, numSubmitted
<1>10. ReaderOnChain'
  BY <1>1 DEF IInv, ReaderOnChain, Reaches, ReachesWriter, numExecuted, numSubmitted
<1> QED
  BY <1>3, <1>4, <1>5, <1>6, <1>7, <1>8, <1>9, <1>10 DEF IInv

\* A command that is about to be written has the next number.
LEMMA BeginWriteInv ==
  ASSUME IInv, NEW c \in Sendable, BeginWrite(c) PROVE IInv'
<1> USE DEF BeginWrite, readerVars
<1>0. TypeOK
  BY DEF IInv
<1>1. WPos' = WPos /\ RPos' = RPos /\ ~Placed /\ ~Placed'
  BY DEF WPos, RPos, Placed
<1>2. \A p : /\ InFlight(p)' = InFlight(p)
             /\ HoldsCmd(p)' = HoldsCmd(p)
             /\ Accounted(p)' = Accounted(p)
  BY <1>1 DEF InFlight, HoldsCmd, Accounted
<1>3. TypeOK'
  BY <1>0 DEF TypeOK, Offset
<1>4. Layout'
  BY <1>1, <1>2 DEF IInv, Layout, Unwrapped, WrappedByReset, WrappedByRewind,
     WrappedByRewindAt, numExecuted, numSubmitted
<1>5. WriterLocal'
  BY <1>1 DEF IInv, WriterLocal, SkippedBytes, Placed, numSubmitted
<1>6. ReaderLocal' /\ History'
  BY <1>2 DEF IInv, ReaderLocal, History, numExecuted, numSubmitted
<1>7. LastCmd'
  BY DEF IInv, LastCmd, numExecuted, numSubmitted
<1>8. Contents'
  BY <1>2 DEF IInv, Contents, numExecuted, numSubmitted
<1>9. Chain'
  BY <1>1, <1>2 DEF IInv, Chain, Reaches, ReachesWriter, numSubmitted
<1>10. ReaderOnChain'
  BY <1>1 DEF IInv, ReaderOnChain, Reaches, ReachesWriter, numExecuted, numSubmitted
<1> QED
  BY <1>3, <1>4, <1>5, <1>6, <1>7, <1>8, <1>9, <1>10 DEF IInv

\* The end of the ring was reached exactly; nothing is touched yet.
LEMMA AcquireAfterImplicitResetInv ==
  ASSUME IInv, AcquireAfterImplicitReset PROVE IInv'
<1> USE DEF AcquireAfterImplicitReset, readerVars
<1>0. TypeOK
  BY DEF IInv
<1>1. WPos' = WPos /\ RPos' = RPos /\ ~Placed /\ ~Placed'
  BY DEF WPos, RPos, Placed
<1>2. \A p : /\ InFlight(p)' = InFlight(p)
             /\ HoldsCmd(p)' = HoldsCmd(p)
             /\ Accounted(p)' = Accounted(p)
  BY <1>1 DEF InFlight, HoldsCmd, Accounted
<1>3. TypeOK'
  BY <1>0 DEF TypeOK, Offset
<1>4. Layout'
  BY <1>1, <1>2 DEF IInv, Layout, Unwrapped, WrappedByReset, WrappedByRewind,
     WrappedByRewindAt, numExecuted, numSubmitted
<1>5. WriterLocal'
  BY <1>0, <1>1, SendableFacts DEF IInv, WriterLocal, SkippedBytes, Placed, numSubmitted, TypeOK, Offset
<1>6. ReaderLocal' /\ History'
  BY <1>2 DEF IInv, ReaderLocal, History, numExecuted, numSubmitted
<1>7. LastCmd'
  BY DEF IInv, LastCmd, numExecuted, numSubmitted
<1>8. Contents'
  BY <1>2 DEF IInv, Contents, numExecuted, numSubmitted
<1>9. Chain'
  BY <1>1, <1>2 DEF IInv, Chain, Reaches, ReachesWriter, numSubmitted
<1>10. ReaderOnChain'
  BY <1>1 DEF IInv, ReaderOnChain, Reaches, ReachesWriter, numExecuted, numSubmitted
<1> QED
  BY <1>3, <1>4, <1>5, <1>6, <1>7, <1>8, <1>9, <1>10 DEF IInv

\* Skipping the tail takes room for all of it: only an unwrapped ring has it.
LEMMA AcquireFindsUnwrapped ==
  ASSUME IInv, AcquireAfterRewind
  PROVE  /\ WPos = write_pos /\ write_pos \in Cells
         /\ wremains = BufSize - write_pos
         /\ wcmd \in Sendable /\ wcmd.size \in 1..BufSize
         /\ Unwrapped
         /\ \A q \in Cells : buf[q] # Free => q + buf[q].size <= write_pos
<1>0. TypeOK
  BY DEF IInv
<1>1. WPos = write_pos /\ \A p : ~InFlight(p)
  BY DEF WPos, InFlight, AcquireAfterRewind
<1>2. write_pos \in Cells /\ wremains = BufSize - write_pos /\ wcmd \in Sendable
  BY <1>0 DEF AcquireAfterRewind, IInv, WriterLocal, TypeOK, Offset, Cells
<1>3. wcmd.size \in 1..BufSize
  BY <1>2, SendableFacts
<1>4. Unwrapped
  <2>1. ~WrappedByReset
    BY <1>0, <1>1, <1>2, <1>3 DEF AcquireAfterRewind, WrappedByReset, TypeOK, Offset
  <2>2. ~WrappedByRewind
    BY <1>0, <1>1, <1>2, <1>3
       DEF AcquireAfterRewind, WrappedByRewind, WrappedByRewindAt, TypeOK, Offset
  <2> QED
    BY <2>1, <2>2 DEF IInv, Layout
<1> QED
  BY <1>1, <1>2, <1>3, <1>4 DEF Unwrapped, Accounted

\* The RewindCmd is left where nothing is.
LEMMA AcquireAfterRewindInv ==
  ASSUME IInv, AcquireAfterRewind PROVE IInv'
<1> USE DEF AcquireAfterRewind, readerVars
<1>0. TypeOK
  BY DEF IInv
<1>1. WPos' = WPos /\ WPos = write_pos /\ RPos' = RPos /\ ~Placed /\ ~Placed'
  BY <1>0 DEF WPos, RPos, Placed, TypeOK, Offset
<1>2. write_pos \in Cells /\ wremains = BufSize - write_pos /\ wcmd \in Sendable
  BY AcquireFindsUnwrapped
<1>3. wcmd.size \in 1..BufSize
  BY AcquireFindsUnwrapped
<1>4. Unwrapped
  BY AcquireFindsUnwrapped
<1>5. buf[write_pos] = Free
  BY <1>0, <1>1, <1>2, <1>4, CellFacts, SendableFacts
     DEF Unwrapped, Accounted, InFlight, Cells
<1>6. /\ buf' \in [Cells -> PipeCmd] /\ buf'[write_pos] = RewindCmd
      /\ \A p \in Cells : p # write_pos => buf'[p] = buf[p]
  BY <1>0, <1>2 DEF TypeOK, Cells, PipeCmd
<1>7. /\ \A p \in Cells : HoldsCmd(p)' = HoldsCmd(p) /\ Accounted(p)' = Accounted(p)
      /\ \A p \in Cells : HoldsCmd(p) => p # write_pos
  BY <1>1, <1>2, <1>5, <1>6 DEF HoldsCmd, Accounted, InFlight, Free, RewindCmd
<1>8. TypeOK'
  BY <1>0, <1>2, <1>6 DEF TypeOK, Offset, Cells
<1>9. Unwrapped'
  BY <1>1, <1>4, <1>6, <1>7 DEF Unwrapped
<1>10. WriterLocal'
  BY <1>0, <1>1, <1>2, <1>3, <1>6 DEF IInv, WriterLocal, SkippedBytes, numSubmitted, TypeOK, Offset
<1>11. ReaderLocal' /\ History'
  BY <1>0, <1>1, <1>5, <1>6, CellFacts, SendableFacts
     DEF InFlight, Free, RewindCmd, IInv, ReaderLocal, History, numExecuted, numSubmitted, TypeOK, Offset, Cells
<1>12. LastCmd'
  BY DEF IInv, LastCmd, numExecuted, numSubmitted
<1>13. Contents'
  BY <1>1, <1>6, <1>7 DEF IInv, Contents, numExecuted, numSubmitted, InFlight
<1>14. \A e, c : c # Free /\ Reaches(e, c) =>
         \/ e \in Cells /\ buf'[e] = c
         \/ e \in Cells /\ buf'[e] = RewindCmd /\ buf'[0] = c
         \/ e = BufSize /\ buf'[0] = c
  BY <1>2, <1>5, <1>6 DEF Reaches, Cells, Free, RewindCmd
<1>15. \A i \in 1..numSubmitted : submitted[i] # Free
  BY <1>0, SendableFacts DEF TypeOK, numSubmitted
<1>16. \A e : ReachesWriter(e) => e = WPos
  BY <1>1 DEF ReachesWriter
<1>17. Chain'
  <2> SUFFICES ASSUME NEW p \in Cells, HoldsCmd(p)'
               PROVE  /\ buf'[p].id < numSubmitted =>
                           Reaches(p + buf[p].size, submitted[buf[p].id + 1])'
                      /\ buf'[p].id = numSubmitted => ReachesWriter(p + buf[p].size)'
    BY DEF Chain, numSubmitted
  <2>1. HoldsCmd(p) /\ buf'[p] = buf[p] /\ buf[p].id \in Nat
    BY <1>0, <1>6, <1>7, CellFacts, SendableFacts
  <2>2. CASE buf[p].id < numSubmitted
    <3>1. buf[p].id + 1 \in 1..numSubmitted
      BY <1>0, <2>1, <2>2 DEF TypeOK, numSubmitted
    <3>2. Reaches(p + buf[p].size, submitted[buf[p].id + 1])
      BY <2>1, <2>2 DEF IInv, Chain
    <3>3. submitted[buf[p].id + 1] # Free
      BY <1>15, <3>1
    <3>4. \/ p + buf[p].size \in Cells /\ buf'[p + buf[p].size] = submitted[buf[p].id + 1]
          \/ /\ p + buf[p].size \in Cells /\ buf'[p + buf[p].size] = RewindCmd
             /\ buf'[0] = submitted[buf[p].id + 1]
          \/ p + buf[p].size = BufSize /\ buf'[0] = submitted[buf[p].id + 1]
      BY <1>14, <3>2, <3>3
    <3> QED
      BY <2>1, <2>2, <3>4 DEF Reaches, numSubmitted
  <2>3. CASE buf[p].id = numSubmitted
    BY <1>1, <1>16, <2>1, <2>3 DEF IInv, Chain, ReachesWriter
  <2> QED
    BY <2>1, <2>2, <2>3
<1>18. ReaderOnChain'
  BY <1>0, <1>1, <1>2, <1>5, <1>6, <1>14, <1>15, <1>16
     DEF IInv, ReaderOnChain, Reaches, ReachesWriter, numExecuted, numSubmitted, TypeOK, Cells
<1> QED
  BY <1>8, <1>9, <1>10, <1>11, <1>12, <1>13, <1>17, <1>18 DEF IInv, Layout

\* The command fits behind the last one.
LEMMA AcquireInPlaceInv ==
  ASSUME IInv, AcquireInPlace PROVE IInv'
<1> USE DEF AcquireInPlace, readerVars
<1>0. TypeOK
  BY DEF IInv
<1>1. wremains = BufSize - write_pos /\ wcmd \in Sendable /\ wcmd.size \in 1..BufSize
  BY SendableFacts DEF IInv, WriterLocal
<1>2. WPos' = WPos /\ WPos = write_pos /\ RPos' = RPos /\ ~Placed /\ Placed'
  BY <1>0, <1>1 DEF WPos, RPos, Placed, TypeOK, Offset
<1>3. \A p : /\ InFlight(p)' = InFlight(p)
             /\ HoldsCmd(p)' = HoldsCmd(p)
             /\ Accounted(p)' = Accounted(p)
  BY <1>2 DEF InFlight, HoldsCmd, Accounted
<1>4. TypeOK'
  BY <1>0, <1>1 DEF TypeOK, Offset
<1>5. Layout'
  BY <1>2, <1>3 DEF IInv, Layout, Unwrapped, WrappedByReset, WrappedByRewind,
     WrappedByRewindAt, numExecuted, numSubmitted
<1>6. WriterLocal'
  BY <1>0, <1>1, <1>2 DEF IInv, WriterLocal, numSubmitted, TypeOK, Offset, Placed
<1>7. ReaderLocal' /\ History'
  BY <1>3 DEF IInv, ReaderLocal, History, numExecuted, numSubmitted
<1>8. LastCmd'
  BY DEF IInv, LastCmd, numExecuted, numSubmitted
<1>9. Contents'
  BY <1>3 DEF IInv, Contents, numExecuted, numSubmitted
<1>10. Chain'
  BY <1>2, <1>3 DEF IInv, Chain, Reaches, ReachesWriter, numSubmitted
<1>11. ReaderOnChain'
  BY <1>2 DEF IInv, ReaderOnChain, Reaches, ReachesWriter, numExecuted, numSubmitted
<1> QED
  BY <1>4, <1>5, <1>6, <1>7, <1>8, <1>9, <1>10, <1>11 DEF IInv

\* A writer that has room for the tail it skips finds the ring unwrapped.
LEMMA SkippingIsUnwrapped ==
  ASSUME IInv, wpc \in {"reset", "rewind"} PROVE Unwrapped
<1>0. TypeOK
  BY DEF IInv
<1>1. /\ wcmd \in Sendable /\ wcmd.size \in 1..BufSize
      /\ cmdbuf_len + SkippedBytes + wcmd.size <= BufSize
  BY SendableFacts DEF IInv, WriterLocal
<1>2. ~WrappedByReset
  BY <1>0, <1>1 DEF WrappedByReset, TypeOK, Offset, IInv, WriterLocal, SkippedBytes, WPos
<1>3. ~WrappedByRewind
  BY <1>0, <1>1 DEF WrappedByRewind, WrappedByRewindAt, TypeOK, Offset, IInv, WriterLocal,
     SkippedBytes, WPos
<1> QED
  BY <1>2, <1>3 DEF IInv, Layout

\* The skipped tail is accounted: the ring becomes a wrapped one.
LEMMA SkipTailInv ==
  ASSUME IInv, SkipTail PROVE IInv'
<1> USE DEF SkipTail, readerVars
<1>0. TypeOK
  BY DEF IInv
<1>1. /\ wcmd \in Sendable /\ wcmd.size \in 1..BufSize
      /\ cmdbuf_len + SkippedBytes + wcmd.size <= BufSize
  BY SendableFacts DEF IInv, WriterLocal
<1>2. WPos' = 0 /\ RPos' = RPos /\ ~Placed /\ Placed'
  BY <1>0, <1>1 DEF WPos, RPos, Placed
<1>3. \A p \in Cells : HoldsCmd(p)' = HoldsCmd(p) /\ ~InFlight(p)'
  BY <1>2 DEF InFlight, HoldsCmd
<1>4. TypeOK'
  BY <1>0, <1>1 DEF TypeOK, Offset, SkippedBytes
<1>5. Unwrapped
  BY SkippingIsUnwrapped
<1>6. Layout'
  <2>1. CASE wpc = "reset"
    <3>1. WPos = BufSize /\ SkippedBytes = 0
      BY <2>1 DEF WPos, SkippedBytes, IInv, WriterLocal
    <3>2. \A p \in Cells : Accounted(p)' = Accounted(p)
      BY <1>3, <2>1 DEF Accounted, InFlight
    <3>3. WrappedByReset'
      BY <1>0, <1>1, <1>2, <1>3, <1>5, <3>1, <3>2
         DEF Unwrapped, WrappedByReset, numExecuted, numSubmitted, TypeOK, Offset
    <3> QED
      BY <3>3 DEF Layout
  <2>2. CASE wpc = "rewind"
    <3>1. PICK t \in Cells : t = write_pos - kMinCmdSize
      BY <1>0, <2>2 DEF IInv, WriterLocal, TypeOK, Offset, Cells
    <3>2. /\ WPos = t /\ buf[t] = RewindCmd
          /\ t + wremains = BufSize /\ SkippedBytes = kMinCmdSize + wremains
      BY <1>0, <2>2, <3>1 DEF WPos, SkippedBytes, IInv, WriterLocal
    <3>3. \A p \in Cells : Accounted(p)' => Accounted(p) \/ p = t
      BY <1>3, <2>2, <3>2 DEF Accounted, InFlight
    <3>4. /\ cmdbuf_len' = (BufSize - read_pos') + WPos' + kMinCmdSize
          /\ WPos' < read_pos' /\ RPos' <= t
      BY <1>0, <1>1, <1>2, <1>5, <3>2 DEF Unwrapped, TypeOK, Offset, Cells
    <3>5. \A p \in Cells : Accounted(p)' =>
            \/ HoldsCmd(p)' /\ RPos' <= p /\ p + buf'[p].size <= t
            \/ p = t /\ buf'[p] = RewindCmd
      BY <1>2, <1>3, <1>5, <3>2, <3>3 DEF Unwrapped
    <3>6. WrappedByRewindAt(t)'
      BY <1>2, <1>5, <3>2, <3>4, <3>5 DEF Unwrapped, WrappedByRewindAt
    <3> QED
      BY <3>6 DEF Layout, WrappedByRewind, Cells
  <2> QED
    BY <2>1, <2>2
<1>8. WriterLocal'
  BY <1>0, <1>1, <1>2, <1>4 DEF IInv, WriterLocal, numSubmitted, TypeOK, Offset, SkippedBytes
<1>9. ReaderLocal' /\ History'
  BY <1>0, <1>3 DEF IInv, ReaderLocal, History, numExecuted, numSubmitted, TypeOK, Offset, Cells
<1>10. LastCmd'
  BY DEF IInv, LastCmd, numExecuted, numSubmitted
<1>11. Contents'
  <2> SUFFICES ASSUME NEW p \in Cells, HoldsCmd(p)
               PROVE  /\ numExecuted < buf[p].id
                      /\ buf[p].id <= numSubmitted /\ buf[p] = submitted[buf[p].id]
    BY <1>3 DEF IInv, Contents, HoldsCmd, numExecuted, numSubmitted
  <2>1. ~InFlight(p)
    BY <1>0, CellFacts, SendableFacts DEF InFlight, IInv, WriterLocal, WPos, HoldsCmd
  <2> QED
    BY <2>1 DEF IInv, Contents
<1>12. \A e : ReachesWriter(e) => ReachesWriter(e)'
  BY <1>0, <1>2 DEF ReachesWriter, IInv, WriterLocal, WPos, Cells, TypeOK, Offset
<1>13. Chain'
  BY <1>3, <1>12 DEF IInv, Chain, Reaches, ReachesWriter, numSubmitted
<1>14. ReaderOnChain'
  BY <1>2, <1>12 DEF IInv, ReaderOnChain, Reaches, ReachesWriter, numExecuted, numSubmitted
<1> QED
  BY <1>4, <1>6, <1>8, <1>9, <1>10, <1>11, <1>13, <1>14 DEF IInv

\* The place of the next command is free for its whole length: what is
\* constructed there lies outside everything that is still to be executed.
LEMMA RoomForCommand ==
  ASSUME IInv, wpc = "construct"
  PROVE  /\ wcmd \in Sendable /\ wcmd.size \in 1..BufSize
         /\ WPos \in Cells /\ WPos + wcmd.size = write_pos
         /\ buf[WPos] = Free
         /\ \A q \in Cells : buf[q] # Free =>
               q + buf[q].size <= WPos \/ WPos + wcmd.size <= q
<1>0. TypeOK
  BY DEF IInv
<1>1. /\ wcmd \in Sendable /\ wcmd.size \in 1..BufSize
      /\ write_pos >= wcmd.size /\ cmdbuf_len + wcmd.size <= BufSize
  BY SendableFacts DEF IInv, WriterLocal, Placed
<1>2. WPos \in Cells /\ WPos + wcmd.size = write_pos
  BY <1>0, <1>1 DEF WPos, TypeOK, Offset, Cells
<1>3. read_pos \in 0..BufSize /\ RPos \in Nat /\ read_pos <= RPos
  BY <1>0, SendableFacts DEF TypeOK, Offset, RPos, IInv, ReaderLocal
<1>4. ASSUME NEW q \in Cells, buf[q] # Free
      PROVE  q + buf[q].size <= WPos \/ WPos + wcmd.size <= q
  <2>1. Accounted(q)
    BY <1>4 DEF Accounted, InFlight
  <2>2. RewindCmd.size = kMinCmdSize /\ (HoldsCmd(q) => buf[q].size \in 1..BufSize)
    BY <1>0, CellFacts, SendableFacts DEF RewindCmd
  <2>3. CASE Unwrapped
    BY <1>2, <2>1, <2>3 DEF Unwrapped
  <2>4. CASE WrappedByReset
    BY <1>0, <1>1, <1>2, <1>3, <2>1, <2>2, <2>4 DEF WrappedByReset, TypeOK, Cells
  <2>5. CASE WrappedByRewind
    BY <1>0, <1>1, <1>2, <1>3, <2>1, <2>2, <2>5
       DEF WrappedByRewind, WrappedByRewindAt, TypeOK, Cells
  <2> QED
    BY <2>3, <2>4, <2>5 DEF IInv, Layout
<1>5. buf[WPos] = Free
  <2> SUFFICES ASSUME buf[WPos] # Free PROVE FALSE
    OBVIOUS
  <2>1. buf[WPos].size >= 1 /\ buf[WPos].size \in Nat
    BY <1>0, <1>2, CellFacts, SendableFacts DEF RewindCmd
  <2> QED
    BY <1>1, <1>2, <1>4, <2>1 DEF Cells
<1> QED
  BY <1>1, <1>2, <1>4, <1>5

\* A cell that was free changes nothing for who reads other cells.
LEMMA ConstructInv ==
  ASSUME IInv, Construct PROVE IInv'
<1> USE DEF Construct, readerVars
<1>0. TypeOK
  BY DEF IInv
<1>1. WPos' = WPos /\ RPos' = RPos /\ Placed /\ Placed'
  BY DEF WPos, RPos, Placed
<1>2. /\ wcmd \in Sendable /\ WPos \in Cells /\ WPos = write_pos - wcmd.size
      /\ buf[WPos] = Free
  BY RoomForCommand DEF WPos
<1>3. /\ buf' \in [Cells -> PipeCmd] /\ buf'[WPos] = wcmd
      /\ \A p \in Cells : p # WPos => buf'[p] = buf[p]
  BY <1>0, <1>2 DEF TypeOK, Cells, PipeCmd
<1>4. /\ \A p \in Cells : p # WPos => HoldsCmd(p)' = HoldsCmd(p)
      /\ \A p \in Cells : Accounted(p)' = Accounted(p)
      /\ \A p \in Cells : Accounted(p) => p # WPos
      /\ \A p \in Cells : HoldsCmd(p) => p # WPos
      /\ \A p \in Cells : InFlight(p)' <=> p = WPos
  BY <1>1, <1>2, <1>3 DEF HoldsCmd, Accounted, InFlight, Free
<1>5. TypeOK'
  BY <1>0, <1>2, <1>3 DEF TypeOK, Offset, Cells
<1>6. Layout'
  <2>1. CASE Unwrapped
    BY <1>1, <1>3, <1>4, <2>1 DEF Unwrapped, Layout
  <2>2. CASE WrappedByReset
    BY <1>1, <1>3, <1>4, <2>2 DEF WrappedByReset, Layout, numExecuted, numSubmitted
  <2>3. CASE WrappedByRewind
    <3>1. PICK t \in Cells : WrappedByRewindAt(t)
      BY <2>3 DEF WrappedByRewind
    <3>2. rpc # "rewind" => t # WPos
      BY <1>2, <3>1 DEF WrappedByRewindAt, Free, RewindCmd
    <3>3. WrappedByRewindAt(t)'
      BY <1>1, <1>3, <1>4, <3>1, <3>2 DEF WrappedByRewindAt, numExecuted, numSubmitted
    <3> QED
      BY <3>3 DEF Layout, WrappedByRewind, Cells
  <2> QED
    BY <2>1, <2>2, <2>3 DEF IInv, Layout
<1>7. WriterLocal'
  BY <1>0, <1>1, <1>2, <1>3 DEF IInv, WriterLocal, numSubmitted
<1>8. ReaderLocal' /\ History'
  BY <1>0, <1>2, <1>3, <1>4, SendableFacts
     DEF IInv, ReaderLocal, History, numExecuted, numSubmitted, TypeOK, Offset, Cells, Free, RewindCmd
<1>9. LastCmd'
  BY DEF IInv, LastCmd, numExecuted, numSubmitted
<1>10. Contents'
  <2>1. numExecuted' = numExecuted /\ numSubmitted' = numSubmitted /\ submitted' = submitted
        /\ numExecuted \in Nat /\ numSubmitted \in Nat /\ numExecuted <= numSubmitted
        /\ wcmd' = wcmd /\ wcmd.id = numSubmitted + 1 /\ wcmd.size \in 1..BufSize
    BY <1>0, <1>2, SendableFacts DEF numExecuted, numSubmitted, TypeOK, IInv, History, WriterLocal
  <2>2. \A p \in Cells : p # WPos /\ HoldsCmd(p)' =>
          /\ HoldsCmd(p) /\ buf'[p] = buf[p]
          /\ numExecuted < buf[p].id /\ buf[p].id <= numSubmitted
          /\ buf[p] = submitted[buf[p].id]
          /\ p + buf[p].size <= WPos \/ WPos + wcmd.size <= p
    BY <1>3, <1>4, CellFacts, <1>0, RoomForCommand DEF IInv, Contents, InFlight
  <2>3. ASSUME NEW p \in Cells, NEW q \in Cells, HoldsCmd(p)', HoldsCmd(q)'
        PROVE  /\ buf'[p].id = buf'[q].id => p = q
               /\ p < q => p + buf'[p].size <= q
    <3>0. \A r \in Cells : r # WPos /\ HoldsCmd(r)' =>
            buf[r].size \in 1..BufSize /\ buf[r].id \in Nat /\ buf[r].id <= numSubmitted
      BY <1>0, <2>2, CellFacts, SendableFacts
    <3>1. CASE p = WPos /\ q # WPos
      <4>1. buf'[p] = wcmd /\ buf'[q] = buf[q]
        BY <1>3, <2>2, <2>3, <3>1
      <4>2. q + buf[q].size <= WPos \/ WPos + wcmd.size <= q
        BY <2>2, <2>3, <3>1
      <4> QED
        BY <2>1, <2>3, <3>0, <3>1, <4>1, <4>2 DEF Cells
    <3>2. CASE q = WPos /\ p # WPos
      <4>1. buf'[q] = wcmd /\ buf'[p] = buf[p]
        BY <1>3, <2>2, <2>3, <3>2
      <4>2. p + buf[p].size <= WPos \/ WPos + wcmd.size <= p
        BY <2>2, <2>3, <3>2
      <4> QED
        BY <2>1, <2>3, <3>0, <3>2, <4>1, <4>2 DEF Cells
    <3>3. CASE p # WPos /\ q # WPos
      BY <2>2, <2>3, <3>3 DEF IInv, Contents
    <3>4. CASE p = WPos /\ q = WPos
      BY <3>4, <1>2 DEF Cells
    <3> QED
      BY <3>1, <3>2, <3>3, <3>4
  <2>4. ASSUME NEW p \in Cells, HoldsCmd(p)'
        PROVE  /\ numExecuted < buf'[p].id
               /\ ~InFlight(p)' => buf'[p].id <= numSubmitted /\ buf'[p] = submitted[buf'[p].id]
    BY <1>3, <1>4, <2>1, <2>2, <2>4
  <2> QED
    BY <2>1, <2>3, <2>4 DEF Contents
<1>11. \A e, c : c # Free /\ Reaches(e, c) =>
         \/ e \in Cells /\ buf'[e] = c
         \/ e \in Cells /\ buf'[e] = RewindCmd /\ buf'[0] = c
         \/ e = BufSize /\ buf'[0] = c
  BY <1>2, <1>3 DEF Reaches, Cells, Free, RewindCmd
<1>12. \A e : ReachesWriter(e) =>
         \/ e = WPos
         \/ WPos = 0 /\ e \in Cells /\ buf'[e] = RewindCmd
         \/ WPos = 0 /\ e = BufSize
  BY <1>2, <1>3 DEF ReachesWriter, Free, RewindCmd
<1>13. \A i \in 1..numSubmitted : submitted[i] # Free
  BY <1>0, SendableFacts DEF TypeOK, numSubmitted
<1>14. Chain'
  <2> SUFFICES ASSUME NEW p \in Cells, HoldsCmd(p)'
               PROVE  /\ buf'[p].id < numSubmitted =>
                           Reaches(p + buf[p].size, submitted[buf[p].id + 1])'
                      /\ buf'[p].id = numSubmitted => ReachesWriter(p + buf[p].size)'
    BY DEF Chain, numSubmitted
  <2>1. CASE p = WPos
    <3>1. numSubmitted \in Nat /\ buf'[p].id = numSubmitted + 1
      BY <1>0, <1>3, <2>1 DEF IInv, WriterLocal, TypeOK, numSubmitted
    <3> QED
      BY <3>1
  <2>2. CASE p # WPos
    <3>1. HoldsCmd(p) /\ buf'[p] = buf[p] /\ buf[p].id \in Nat
      BY <1>0, <1>3, <1>4, <2>2, CellFacts, SendableFacts
    <3>2. CASE buf[p].id < numSubmitted
      <4>1. buf[p].id + 1 \in 1..numSubmitted
        BY <1>0, <3>1, <3>2 DEF TypeOK, numSubmitted
      <4>2. Reaches(p + buf[p].size, submitted[buf[p].id + 1])
        BY <3>1, <3>2 DEF IInv, Chain
      <4>3. submitted[buf[p].id + 1] # Free
        BY <1>13, <4>1
      <4>4. \/ p + buf[p].size \in Cells /\ buf'[p + buf[p].size] = submitted[buf[p].id + 1]
            \/ /\ p + buf[p].size \in Cells /\ buf'[p + buf[p].size] = RewindCmd
               /\ buf'[0] = submitted[buf[p].id + 1]
            \/ p + buf[p].size = BufSize /\ buf'[0] = submitted[buf[p].id + 1]
        BY <1>11, <4>2, <4>3
      <4> QED
        BY <3>1, <3>2, <4>4 DEF Reaches, numSubmitted
    <3>3. CASE buf[p].id = numSubmitted
      BY <1>1, <1>12, <3>1, <3>3 DEF IInv, Chain, ReachesWriter
    <3> QED
      BY <3>1, <3>2, <3>3
  <2> QED
    BY <2>1, <2>2
<1>15. ReaderOnChain'
  <2>1. ASSUME numExecuted < numSubmitted
        PROVE  IF rpc = "rewind" THEN buf'[0] = submitted[numExecuted + 1]
                                 ELSE Reaches(RPos, submitted[numExecuted + 1])'
    <3> DEFINE c == submitted[numExecuted + 1]
    <3>1. c # Free /\ c' = c
      BY <1>0, <1>13, <2>1 DEF TypeOK, numExecuted, numSubmitted
    <3>2. CASE rpc = "rewind"
      BY <1>2, <1>3, <2>1, <3>1, <3>2 DEF IInv, ReaderOnChain, Cells
    <3>3. CASE rpc # "rewind"
      <4>1. Reaches(RPos, c)
        BY <2>1, <3>3 DEF IInv, ReaderOnChain
      <4>2. \/ RPos \in Cells /\ buf'[RPos] = c
            \/ RPos \in Cells /\ buf'[RPos] = RewindCmd /\ buf'[0] = c
            \/ RPos = BufSize /\ buf'[0] = c
        BY <1>11, <3>1, <4>1
      <4> QED
        BY <1>1, <3>1, <3>3, <4>2 DEF Reaches, numExecuted
    <3> QED
      BY <3>2, <3>3
  <2>2. ASSUME numExecuted = numSubmitted, rpc \notin {"rewind", "terminate", "done"}
        PROVE  ReachesWriter(RPos)'
    BY <1>1, <1>12, <2>2 DEF IInv, ReaderOnChain, ReachesWriter
  <2> QED
    BY <2>1, <2>2 DEF ReaderOnChain, numExecuted, numSubmitted
<1> QED
  BY <1>5, <1>6, <1>7, <1>8, <1>9, <1>10, <1>14, <1>15 DEF IInv

\* The command becomes the last one of the chain.
LEMMA SubmitInv ==
  ASSUME IInv, SubmitWrittenBytes PROVE IInv'
<1>0. TypeOK
  BY DEF IInv
<1>a. /\ wpc = "submit" /\ wpc' = "wake"
      /\ cmdbuf_len' = cmdbuf_len + wcmd.size
      /\ UNCHANGED <<write_pos, wcmd, wremains, terminated, buf, read_pos, rpc, rcmd,
                     rremains, rtimeout, executed>>
  BY DEF SubmitWrittenBytes, readerVars
<1> USE <1>a
<1>1. /\ wcmd \in Sendable /\ wcmd.size \in 1..BufSize /\ wcmd.id = numSubmitted + 1
      /\ write_pos >= wcmd.size /\ cmdbuf_len + wcmd.size <= BufSize
      /\ buf[WPos] = wcmd
  BY SendableFacts DEF IInv, WriterLocal, Placed
<1>2. /\ WPos = write_pos - wcmd.size /\ WPos \in Cells /\ WPos' = WPos + wcmd.size
      /\ RPos' = RPos /\ Placed /\ ~Placed'
  BY <1>0, <1>1 DEF WPos, RPos, Placed, TypeOK, Offset, Cells
<1>3. /\ numSubmitted \in Nat /\ numSubmitted' = numSubmitted + 1
      /\ numExecuted \in Nat /\ numExecuted <= numSubmitted /\ numExecuted' = numExecuted
      /\ submitted'[numSubmitted'] = wcmd
      /\ \A i \in 1..numSubmitted : submitted'[i] = submitted[i]
  BY <1>0, <1>1 DEF TypeOK, numSubmitted, numExecuted, IInv, History, SubmitWrittenBytes
<1>4. /\ \A p \in Cells : HoldsCmd(p)' = HoldsCmd(p) /\ ~InFlight(p)'
      /\ \A p \in Cells : Accounted(p)' => Accounted(p) \/ p = WPos
      /\ \A p \in Cells : InFlight(p) <=> p = WPos
      /\ HoldsCmd(WPos)
  BY <1>0, <1>1, <1>2, CellFacts DEF HoldsCmd, InFlight, Accounted
<1>5. TypeOK'
  BY <1>0, <1>1 DEF TypeOK, Offset, SubmitWrittenBytes
<1>6. Layout'
  <2>0. /\ cmdbuf_len \in Nat /\ read_pos \in Nat /\ WPos \in Nat /\ RPos \in Nat
        /\ BufSize \in Nat /\ wcmd.size \in Nat
        /\ \A p \in Cells : HoldsCmd(p) => buf[p].size \in Nat
    BY <1>1, <1>2, NumberFacts DEF Cells
  <2>1. CASE Unwrapped
    <3>1. cmdbuf_len' = WPos' - read_pos' /\ RPos' <= WPos'
      BY <1>2, <2>0, <2>1 DEF Unwrapped
    <3>2. \A p \in Cells : Accounted(p)' => /\ HoldsCmd(p)' /\ RPos' <= p
                                            /\ p + buf'[p].size <= WPos'
      BY <1>1, <1>2, <1>4, <2>0, <2>1 DEF Unwrapped, Cells
    <3> QED
      BY <2>1, <3>1, <3>2 DEF Unwrapped, Layout, Cells
  <2>2. CASE WrappedByReset
    <3>1. cmdbuf_len' = (BufSize - read_pos') + WPos' /\ WPos' <= read_pos'
      BY <1>1, <1>2, <2>0, <2>2 DEF WrappedByReset
    <3>2. \A p \in Cells : Accounted(p)' =>
            /\ HoldsCmd(p)'
            /\ \/ RPos' <= p /\ p + buf'[p].size <= BufSize
               \/ p + buf'[p].size <= WPos'
      BY <1>1, <1>2, <1>4, <2>0, <2>2 DEF WrappedByReset, Cells
    <3> QED
      BY <1>2, <1>3, <2>2, <3>1, <3>2 DEF WrappedByReset, Layout, Cells
  <2>3. CASE WrappedByRewind
    <3>1. PICK t \in Cells : WrappedByRewindAt(t)
      BY <2>3 DEF WrappedByRewind
    <3>2. cmdbuf_len' = (BufSize - read_pos') + WPos' + kMinCmdSize /\ WPos' < read_pos'
      BY <1>1, <1>2, <2>0, <3>1 DEF WrappedByRewindAt
    <3>3. \A p \in Cells : Accounted(p)' =>
            \/ HoldsCmd(p)' /\ RPos' <= p /\ p + buf'[p].size <= t
            \/ HoldsCmd(p)' /\ p + buf'[p].size <= WPos'
            \/ rpc' # "rewind" /\ p = t /\ buf'[p] = RewindCmd
      BY <1>1, <1>2, <1>4, <2>0, <3>1 DEF WrappedByRewindAt, Cells
    <3>4. WrappedByRewindAt(t)'
      BY <1>2, <1>3, <3>1, <3>2, <3>3 DEF WrappedByRewindAt, Cells
    <3> QED
      BY <3>4 DEF Layout, WrappedByRewind, Cells
  <2> QED
    BY <2>1, <2>2, <2>3 DEF IInv, Layout
<1>7. WriterLocal'
  BY <1>2 DEF IInv, WriterLocal
<1>8. ReaderLocal'
  <2>1. rpc = "exec" => read_pos \in Cells
    BY NumberFacts DEF IInv, ReaderLocal, Cells
  <2>2. numExecuted < numSubmitted => /\ numExecuted' < numSubmitted'
                                      /\ submitted'[numExecuted' + 1] = submitted[numExecuted + 1]
    BY <1>3
  <2>3. rpc = "exec" => ~InFlight(read_pos)'
    BY <1>4, <2>1
  <2> QED
    BY <2>2, <2>3 DEF IInv, ReaderLocal
<1>9. History'
  BY <1>1, <1>3 DEF IInv, History
<1>10. LastCmd'
  BY <1>1, <1>3 DEF IInv, LastCmd
<1>11. \A p \in Cells : p # WPos /\ HoldsCmd(p) =>
         /\ buf[p].id \in Nat /\ buf[p].id > 0
         /\ numExecuted < buf[p].id /\ buf[p].id <= numSubmitted
         /\ buf[p] = submitted[buf[p].id]
  BY <1>0, <1>4, CellFacts, SendableFacts DEF IInv, Contents
<1>12. Contents'
  <2>1. \A p \in Cells : HoldsCmd(p) =>
          /\ numExecuted < buf[p].id /\ buf[p].id <= numSubmitted'
          /\ buf[p] = submitted'[buf[p].id]
    BY <1>1, <1>3, <1>4, <1>11
  <2> QED
    BY <1>3, <1>4, <2>1 DEF IInv, Contents
<1>13. \A e : ReachesWriter(e) =>
         \/ e \in Cells /\ buf[e] = wcmd
         \/ e \in Cells /\ buf[e] = RewindCmd /\ buf[0] = wcmd
         \/ e = BufSize /\ buf[0] = wcmd
  BY <1>1, <1>2 DEF ReachesWriter
<1>14. Chain'
  <2> SUFFICES ASSUME NEW p \in Cells, HoldsCmd(p)
               PROVE  /\ buf[p].id < numSubmitted' =>
                           Reaches(p + buf[p].size, submitted[buf[p].id + 1])'
                      /\ buf[p].id = numSubmitted' => ReachesWriter(p + buf[p].size)'
    BY <1>4 DEF Chain
  <2>1. CASE p = WPos
    BY <1>1, <1>2, <1>3, <2>1 DEF ReachesWriter
  <2>2. CASE p # WPos
    <3>1. /\ buf[p].id \in Nat /\ buf[p].id > 0 /\ buf[p].id <= numSubmitted
      BY <1>11, <2>2
    <3>2. CASE buf[p].id = numSubmitted
      <4>1. ReachesWriter(p + buf[p].size)
        BY <3>2 DEF IInv, Chain
      <4>2. \/ p + buf[p].size \in Cells /\ buf[p + buf[p].size] = wcmd
            \/ /\ p + buf[p].size \in Cells /\ buf[p + buf[p].size] = RewindCmd
               /\ buf[0] = wcmd
            \/ p + buf[p].size = BufSize /\ buf[0] = wcmd
        BY <1>13, <4>1
      <4> QED
        BY <1>3, <3>1, <3>2, <4>2 DEF Reaches
    <3>3. CASE buf[p].id < numSubmitted
      <4>1. Reaches(p + buf[p].size, submitted[buf[p].id + 1])
        BY <3>3 DEF IInv, Chain
      <4>2. submitted'[buf[p].id + 1] = submitted[buf[p].id + 1]
        BY <1>3, <3>1, <3>3
      <4> QED
        BY <1>3, <3>1, <3>3, <4>1, <4>2 DEF Reaches
    <3> QED
      BY <1>3, <3>1, <3>2, <3>3
  <2> QED
    BY <2>1, <2>2
<1>15. ReaderOnChain'
  <2>1. numExecuted' < numSubmitted'
    BY <1>3
  <2>2. CASE numExecuted < numSubmitted
    <3>1. submitted'[numExecuted + 1] = submitted[numExecuted + 1]
      BY <1>3, <2>2
    <3> QED
      BY <1>2, <1>3, <2>1, <2>2, <3>1 DEF IInv, ReaderOnChain, Reaches
  <2>3. CASE numExecuted = numSubmitted
    <3>1. rpc \notin {"terminate", "done"}
      BY <1>0, <1>3, <2>3 DEF IInv, LastCmd, History
    <3>2. CASE rpc = "rewind"
      <4>1. WPos = 0
        BY <2>3, <3>2 DEF IInv, Layout, Unwrapped, WrappedByReset, WrappedByRewind, WrappedByRewindAt
      <4> QED
        BY <1>1, <1>3, <2>1, <2>3, <3>2, <4>1 DEF ReaderOnChain
    <3>3. CASE rpc # "rewind"
      <4>1. ReachesWriter(RPos)
        BY <2>3, <3>1, <3>3 DEF IInv, ReaderOnChain
      <4>2. \/ RPos \in Cells /\ buf[RPos] = wcmd
            \/ RPos \in Cells /\ buf[RPos] = RewindCmd /\ buf[0] = wcmd
            \/ RPos = BufSize /\ buf[0] = wcmd
        BY <1>13, <4>1
      <4> QED
        BY <1>2, <1>3, <2>1, <2>3, <3>3, <4>2 DEF ReaderOnChain, Reaches
    <3> QED
      BY <3>2, <3>3
  <2> QED
    BY <1>3, <2>2, <2>3
<1> QED
  BY <1>5, <1>6, <1>7, <1>8, <1>9, <1>10, <1>12, <1>14, <1>15 DEF IInv

\* At the end of the ring the reader starts over, which is where a ring that
\* wrapped silently goes on; everywhere else it stays.
LEMMA ReadTestInv ==
  ASSUME IInv, ReadTest PROVE IInv'
<1>0. TypeOK
  BY DEF IInv
<1>a. /\ rpc = "read" /\ rpc' = "exec" /\ cmdbuf_len # 0 /\ ~terminated
      /\ rremains' = BufSize - read_pos
      /\ read_pos' = IF read_pos = BufSize THEN 0 ELSE read_pos
      /\ cmdbuf_len' = cmdbuf_len
      /\ UNCHANGED <<write_pos, wpc, wcmd, wremains, terminated, buf, rcmd, rtimeout,
                     submitted, executed>>
  BY <1>0 DEF ReadTest, writerVars, TypeOK, Offset
<1> USE <1>a
<1>1. WPos' = WPos /\ Placed' = Placed /\ RPos = read_pos /\ RPos' = read_pos'
  BY DEF WPos, RPos, Placed
<1>2. \A p : /\ InFlight(p)' = InFlight(p)
             /\ HoldsCmd(p)' = HoldsCmd(p)
             /\ Accounted(p)' = Accounted(p)
  BY <1>1 DEF InFlight, HoldsCmd, Accounted
<1>3. numExecuted' = numExecuted /\ numSubmitted' = numSubmitted
      /\ numExecuted \in Nat /\ numSubmitted \in Nat /\ numExecuted <= numSubmitted
  BY <1>0 DEF numExecuted, numSubmitted, TypeOK, IInv, History
<1>4. WPos \in 0..BufSize
  BY <1>0, SendableFacts DEF WPos, TypeOK, Offset, IInv, WriterLocal, Placed
<1>5. read_pos = BufSize => WrappedByReset
  BY <1>1, <1>4, NumberFacts DEF IInv, Layout, Unwrapped, WrappedByRewind, WrappedByRewindAt, Cells
<1>6. Layout'
  <2>1. CASE read_pos = BufSize
    <3>1. \A p \in Cells : Accounted(p) => HoldsCmd(p) /\ 0 <= p /\ p + buf[p].size <= WPos
      BY <1>1, <1>5, <2>1, NumberFacts DEF WrappedByReset, Cells
    <3>2. Unwrapped'
      BY <1>1, <1>2, <1>4, <1>5, <2>1, <3>1, NumberFacts DEF WrappedByReset, Unwrapped
    <3> QED
      BY <3>2 DEF Layout
  <2>2. CASE read_pos # BufSize
    BY <1>1, <1>2, <1>3, <2>2 DEF IInv, Layout, Unwrapped, WrappedByReset, WrappedByRewind,
       WrappedByRewindAt
  <2> QED
    BY <2>1, <2>2
<1>7. TypeOK'
  BY <1>0, NumberFacts DEF TypeOK, Offset
<1>8. WriterLocal'
  BY <1>1, <1>3 DEF IInv, WriterLocal, SkippedBytes
<1>9. read_pos = BufSize => numExecuted < numSubmitted
  BY <1>1, <1>3, <1>5, NumberFacts DEF WrappedByReset
<1>10. numExecuted < numSubmitted => Reaches(read_pos, submitted[numExecuted + 1])
  BY <1>1 DEF IInv, ReaderOnChain
<1>11. read_pos # BufSize /\ numExecuted = numSubmitted =>
         buf[read_pos] = RewindCmd /\ ~InFlight(read_pos)
  <2> SUFFICES ASSUME read_pos # BufSize, numExecuted = numSubmitted
               PROVE  buf[read_pos] = RewindCmd /\ ~InFlight(read_pos)
    OBVIOUS
  <2>1. ReachesWriter(read_pos)
    BY <1>1 DEF IInv, ReaderOnChain
  <2>2. read_pos # WPos
    <3>1. CASE Unwrapped
      BY <1>4, <3>1, NumberFacts DEF Unwrapped
    <3>2. CASE WrappedByReset
      <4>1. WPos = 0 /\ wcmd.size \in 1..BufSize /\ cmdbuf_len + wcmd.size <= BufSize
        BY <3>2, SendableFacts DEF WrappedByReset, IInv, WriterLocal, Placed
      <4> QED
        BY <3>2, <4>1, NumberFacts DEF WrappedByReset
    <3>3. CASE WrappedByRewind
      BY <1>4, <3>3, NumberFacts DEF WrappedByRewind, WrappedByRewindAt
    <3> QED
      BY <3>1, <3>2, <3>3 DEF IInv, Layout
  <2> QED
    BY <2>1, <2>2 DEF ReachesWriter, InFlight
<1>12. ReaderLocal'
  <2>1. read_pos' < BufSize
    BY NumberFacts
  <2>2. CASE read_pos = BufSize
    BY <1>3, <1>9, <1>10, <2>1, <2>2, NumberFacts DEF ReaderLocal, Reaches, Cells, IInv
  <2>3. CASE read_pos # BufSize
    <3>1. CASE numExecuted = numSubmitted
      BY <1>2, <1>11, <2>1, <2>3, <3>1 DEF ReaderLocal, IInv
    <3>2. CASE numExecuted < numSubmitted
      <4>1. read_pos \in Cells
        BY <2>3, NumberFacts DEF Cells
      <4>2. CASE buf[read_pos] = RewindCmd
        <5>1. ~InFlight(read_pos)
          <6>1. CASE wpc = "rewind"
            BY <1>1, <1>4, <6>1, SkippingIsUnwrapped, NumberFacts DEF InFlight, Unwrapped
          <6>2. CASE wpc = "submit"
            BY <4>2, <6>2, SendableFacts DEF InFlight, IInv, WriterLocal
          <6> QED
            BY <6>1, <6>2 DEF InFlight
        <5> QED
          BY <1>2, <2>1, <2>3, <4>2, <5>1 DEF ReaderLocal, IInv
      <4>3. CASE buf[read_pos] # RewindCmd
        BY <1>3, <1>10, <2>1, <2>3, <3>2, <4>1, <4>3 DEF ReaderLocal, Reaches, IInv
      <4> QED
        BY <4>2, <4>3
    <3> QED
      BY <1>3, <3>1, <3>2
  <2> QED
    BY <2>2, <2>3
<1>13. LastCmd' /\ History'
  BY DEF IInv, LastCmd, History, numExecuted, numSubmitted
<1>14. Contents' /\ Chain'
  BY <1>1, <1>2, <1>3 DEF IInv, Contents, Chain, Reaches, ReachesWriter
<1>15. ReaderOnChain'
  <2>1. CASE read_pos = BufSize
    BY <1>1, <1>3, <1>9, <1>10, <2>1, NumberFacts DEF ReaderOnChain, Reaches, Cells
  <2>2. CASE read_pos # BufSize
    BY <1>1, <1>3, <2>2 DEF IInv, ReaderOnChain, Reaches, ReachesWriter
  <2> QED
    BY <2>1, <2>2
<1> QED
  BY <1>6, <1>7, <1>8, <1>12, <1>13, <1>14, <1>15 DEF IInv

\* The reader follows the RewindCmd to the start of the ring.
LEMMA RewindInv ==
  ASSUME IInv, Rewind PROVE IInv'
<1>0. TypeOK
  BY DEF IInv
<1>1. PICK t \in Cells : WrappedByRewindAt(t)
  BY DEF IInv, Layout, Unwrapped, WrappedByReset, WrappedByRewind, Rewind
<1>2. WPos \in 0..BufSize
  BY <1>0, SendableFacts DEF WPos, TypeOK, Offset, IInv, WriterLocal, Placed
<1>a. /\ rpc = "rewind" /\ rpc' = "read" /\ read_pos' = 0 /\ cmdbuf_len' = WPos
      /\ UNCHANGED <<write_pos, wpc, wcmd, wremains, terminated, buf, rcmd, rremains, rtimeout,
                     submitted, executed>>
  BY <1>1, <1>2, NumberFacts DEF Rewind, writerVars, IInv, ReaderLocal, WrappedByRewindAt
<1> USE <1>a
<1>3. WPos' = WPos /\ Placed' = Placed /\ RPos = read_pos /\ RPos' = 0 /\ WPos < read_pos
  BY <1>1 DEF WPos, RPos, Placed, WrappedByRewindAt
<1>4. \A p : /\ InFlight(p)' = InFlight(p)
             /\ HoldsCmd(p)' = HoldsCmd(p)
             /\ Accounted(p)' = Accounted(p)
  BY <1>3 DEF InFlight, HoldsCmd, Accounted
<1>5. numExecuted' = numExecuted /\ numSubmitted' = numSubmitted
  BY DEF numExecuted, numSubmitted
<1>6. Layout'
  <2>1. read_pos = t
    BY <1>1 DEF WrappedByRewindAt
  <2>2. \A p \in Cells : Accounted(p) => HoldsCmd(p) /\ 0 <= p /\ p + buf[p].size <= WPos
    BY <1>1, <1>3, <2>1, NumberFacts DEF WrappedByRewindAt, Cells
  <2>3. Unwrapped'
    BY <1>2, <1>3, <1>4, <2>2 DEF Unwrapped
  <2> QED
    BY <2>3 DEF Layout
<1>7. TypeOK'
  BY <1>0, <1>2, NumberFacts DEF TypeOK, Offset
<1>8. WriterLocal'
  <2>1. cmdbuf_len' <= cmdbuf_len /\ cmdbuf_len' \in Nat /\ SkippedBytes' = SkippedBytes
    BY <1>1, <1>2, NumberFacts DEF WrappedByRewindAt, SkippedBytes
  <2>2. wpc \in {"reset", "rewind", "construct", "submit"} => wcmd.size \in Nat
    BY SendableFacts DEF IInv, WriterLocal
  <2>3. wremains \in Nat /\ SkippedBytes \in Nat
    BY <1>0, NumberFacts DEF TypeOK, Offset, SkippedBytes
  <2> QED
    BY <1>3, <1>5, <2>1, <2>2, <2>3, NumberFacts DEF IInv, WriterLocal, Placed
<1>9. ReaderLocal' /\ LastCmd' /\ History'
  BY DEF IInv, ReaderLocal, LastCmd, History, numExecuted, numSubmitted
<1>10. Contents' /\ Chain'
  BY <1>3, <1>4, <1>5 DEF IInv, Contents, Chain, Reaches, ReachesWriter
<1>11. ReaderOnChain'
  BY <1>1, <1>3, <1>5, NumberFacts DEF IInv, ReaderOnChain, Reaches, ReachesWriter,
     WrappedByRewindAt, Cells
<1> QED
  BY <1>6, <1>7, <1>8, <1>9, <1>10, <1>11 DEF IInv

\* The bytes of the executed command are released.
LEMMA ConsumeInv ==
  ASSUME IInv, Consume PROVE IInv'
<1>0. TypeOK
  BY DEF IInv
<1>1. rpc = "consume" /\ rcmd.size \in 1..BufSize /\ RPos = read_pos + rcmd.size
  BY SendableFacts DEF Consume, RPos, IInv, ReaderLocal
<1>2. WPos \in 0..BufSize
  BY <1>0, SendableFacts DEF WPos, TypeOK, Offset, IInv, WriterLocal, Placed
<1>3. RPos <= BufSize /\ rcmd.size <= cmdbuf_len
  <2>1. CASE Unwrapped
    BY <1>1, <1>2, <2>1, NumberFacts DEF Unwrapped
  <2>2. CASE WrappedByReset
    BY <1>1, <1>2, <2>2, NumberFacts DEF WrappedByReset
  <2>3. CASE WrappedByRewind
    BY <1>1, <1>2, <2>3, NumberFacts DEF WrappedByRewind, WrappedByRewindAt, Cells
  <2> QED
    BY <2>1, <2>2, <2>3 DEF IInv, Layout
<1>a. /\ rpc' = "read" /\ read_pos' = RPos /\ cmdbuf_len' = cmdbuf_len - rcmd.size
      /\ UNCHANGED <<write_pos, wpc, wcmd, wremains, terminated, buf, rcmd, rremains, rtimeout,
                     submitted, executed>>
  BY <1>1, <1>3, NumberFacts DEF Consume, writerVars
<1> USE <1>1, <1>a
<1>4. WPos' = WPos /\ Placed' = Placed /\ RPos' = RPos
  BY DEF WPos, RPos, Placed
<1>5. \A p : /\ InFlight(p)' = InFlight(p)
             /\ HoldsCmd(p)' = HoldsCmd(p)
             /\ Accounted(p)' = Accounted(p)
  BY <1>4 DEF InFlight, HoldsCmd, Accounted
<1>6. numExecuted' = numExecuted /\ numSubmitted' = numSubmitted
  BY DEF numExecuted, numSubmitted
<1>7. Layout'
  <2>1. CASE Unwrapped
    BY <1>2, <1>4, <1>5, <2>1, NumberFacts DEF Unwrapped, Layout
  <2>2. CASE WrappedByReset
    BY <1>2, <1>4, <1>5, <1>6, <2>2, NumberFacts DEF WrappedByReset, Layout
  <2>3. CASE WrappedByRewind
    <3>1. PICK t \in Cells : WrappedByRewindAt(t)
      BY <2>3 DEF WrappedByRewind
    <3>2. WrappedByRewindAt(t)'
      BY <1>2, <1>4, <1>5, <1>6, <3>1, NumberFacts DEF WrappedByRewindAt
    <3> QED
      BY <3>2 DEF Layout, WrappedByRewind, Cells
  <2> QED
    BY <2>1, <2>2, <2>3 DEF IInv, Layout
<1>8. TypeOK'
  <2>1. read_pos' \in Offset /\ cmdbuf_len' \in 0..BufSize
    BY <1>0, <1>3, NumberFacts DEF Offset
  <2> QED
    BY <1>0, <2>1 DEF TypeOK
<1>9. WriterLocal'
  <2>1. cmdbuf_len' <= cmdbuf_len /\ cmdbuf_len' \in Nat /\ SkippedBytes' = SkippedBytes
    BY <1>3, NumberFacts DEF SkippedBytes
  <2>2. wpc \in {"reset", "rewind", "construct", "submit"} => wcmd.size \in Nat
    BY SendableFacts DEF IInv, WriterLocal
  <2>3. wremains \in Nat /\ SkippedBytes \in Nat
    BY <1>0, NumberFacts DEF TypeOK, Offset, SkippedBytes
  <2> QED
    BY <1>4, <1>6, <2>1, <2>2, <2>3, NumberFacts DEF IInv, WriterLocal, Placed
<1>10. ReaderLocal' /\ LastCmd' /\ History'
  BY DEF IInv, ReaderLocal, LastCmd, History, numExecuted, numSubmitted
<1>11. Contents' /\ Chain'
  BY <1>4, <1>5, <1>6 DEF IInv, Contents, Chain, Reaches, ReachesWriter
<1>12. ReaderOnChain'
  BY <1>4, <1>6 DEF IInv, ReaderOnChain, Reaches, ReachesWriter
<1> QED
  BY <1>7, <1>8, <1>9, <1>10, <1>11, <1>12 DEF IInv

\* The reader stops.
LEMMA TerminateInv ==
  ASSUME IInv, Terminate PROVE IInv'
<1> USE DEF Terminate, writerVars
<1>1. WPos' = WPos /\ RPos' = RPos /\ Placed' = Placed
  BY DEF WPos, RPos, Placed
<1>2. \A p : /\ InFlight(p)' = InFlight(p)
             /\ HoldsCmd(p)' = HoldsCmd(p)
             /\ Accounted(p)' = Accounted(p)
  BY <1>1 DEF InFlight, HoldsCmd, Accounted
<1>3. TypeOK'
  BY DEF IInv, TypeOK
<1>4. Layout'
  BY <1>1, <1>2 DEF IInv, Layout, Unwrapped, WrappedByReset, WrappedByRewind,
     WrappedByRewindAt, numExecuted, numSubmitted
<1>5. WriterLocal'
  BY <1>1 DEF IInv, WriterLocal, SkippedBytes, Placed, numSubmitted
<1>6. ReaderLocal' /\ LastCmd' /\ History'
  BY DEF IInv, ReaderLocal, LastCmd, History, numExecuted, numSubmitted
<1>7. Contents' /\ Chain'
  BY <1>1, <1>2 DEF IInv, Contents, Chain, Reaches, ReachesWriter, numExecuted, numSubmitted
<1>8. ReaderOnChain'
  BY <1>1 DEF IInv, ReaderOnChain, Reaches, numExecuted, numSubmitted
<1> QED
  BY <1>3, <1>4, <1>5, <1>6, <1>7, <1>8 DEF IInv

\* The first command of the chain is executed and gone, or the RewindCmd is.
LEMMA ExecCmdInv ==
  ASSUME IInv, ExecCmd PROVE IInv'
<1>0. TypeOK
  BY DEF IInv
<1>1. /\ rpc = "exec" /\ read_pos \in Cells /\ RPos = read_pos
      /\ UNCHANGED <<write_pos, wpc, wcmd, wremains, terminated, read_pos, cmdbuf_len, rremains,
                     rtimeout, submitted>>
      /\ rcmd' = buf[read_pos]
  BY NumberFacts DEF ExecCmd, writerVars, IInv, ReaderLocal, RPos, Cells
<1>2. /\ buf' \in [Cells -> PipeCmd] /\ buf'[read_pos] = Free
      /\ \A p \in Cells : p # read_pos => buf'[p] = buf[p]
  BY <1>0, <1>1 DEF ExecCmd, TypeOK, Cells, PipeCmd
<1> USE <1>1
<1>3. WPos' = WPos /\ Placed' = Placed /\ WPos \in 0..BufSize
  BY <1>0, SendableFacts DEF WPos, Placed, TypeOK, Offset, IInv, WriterLocal
<1>4. /\ numExecuted \in Nat /\ numSubmitted \in Nat /\ numExecuted <= numSubmitted
      /\ numSubmitted' = numSubmitted
  BY <1>0 DEF numExecuted, numSubmitted, TypeOK, IInv, History
<1>5. /\ \A p \in Cells : HoldsCmd(p)' => HoldsCmd(p) /\ p # read_pos
      /\ \A p \in Cells : Accounted(p)' => Accounted(p) /\ p # read_pos
      /\ \A p : InFlight(p)' = InFlight(p)
  BY <1>2, <1>3 DEF HoldsCmd, Accounted, InFlight, Free
<1>6. ~InFlight(read_pos)
  <2>1. CASE buf[read_pos] = RewindCmd
    BY <1>0, <2>1, CellFacts, SendableFacts DEF IInv, ReaderLocal, TypeOK, numSubmitted, numExecuted
  <2>2. CASE buf[read_pos] # RewindCmd
    <3>1. numExecuted < numSubmitted /\ buf[read_pos].id = numExecuted + 1
      BY <1>4, <2>2 DEF IInv, ReaderLocal, History
    <3>2. wpc = "submit" => buf[WPos].id = numSubmitted + 1
      BY DEF IInv, WriterLocal
    <3>3. wpc = "rewind" => buf[WPos] = RewindCmd
      BY DEF IInv, WriterLocal, WPos
    <3> QED
      BY <1>4, <2>2, <3>1, <3>2, <3>3 DEF InFlight
  <2> QED
    BY <2>1, <2>2
<1>7. buf[read_pos] # Free
  BY <1>0, <1>4, SendableFacts, CellFacts DEF IInv, ReaderLocal, TypeOK, numSubmitted
<1>8. Accounted(read_pos)
  BY <1>6, <1>7 DEF Accounted
<1>9. WriterLocal'
  <2>1. wpc = "rewind" => write_pos - kMinCmdSize \in Cells /\ write_pos - kMinCmdSize # read_pos
    BY <1>0, <1>6 DEF InFlight, WPos, IInv, WriterLocal, TypeOK, Offset, Cells
  <2>2. wpc = "submit" => WPos \in Cells /\ WPos # read_pos
    BY <1>0, <1>6, NumberFacts, SendableFacts DEF InFlight, WPos, IInv, WriterLocal, Placed, Cells
  <2> QED
    BY <1>2, <1>3, <1>4, <2>1, <2>2 DEF IInv, WriterLocal, SkippedBytes, numSubmitted
<1>10. \A e, c : /\ Reaches(e, c) /\ c # buf[read_pos]
                 /\ e = read_pos => buf[read_pos] # RewindCmd
                 => \/ e \in Cells /\ buf'[e] = c
                    \/ e \in Cells /\ buf'[e] = RewindCmd /\ buf'[0] = c
                    \/ e = BufSize /\ buf'[0] = c
  BY <1>2, NumberFacts DEF Reaches, Cells
\* A RewindCmd at the reader is the one between the two parts of the ring.
<1>11. buf[read_pos] = RewindCmd =>
         /\ rpc' = "rewind" /\ executed' = executed
         /\ WrappedByRewindAt(read_pos)
  BY <1>8, NumberFacts DEF ExecCmd, RewindCmd, HoldsCmd, IInv, Layout, Unwrapped, WrappedByReset,
     WrappedByRewind, WrappedByRewindAt, Cells
<1>12. buf[read_pos] # RewindCmd =>
         /\ numExecuted < numSubmitted
         /\ buf[read_pos] = submitted[numExecuted + 1]
         /\ buf[read_pos] \in Sendable /\ buf[read_pos].id = numExecuted + 1
         /\ executed' = Append(executed, buf[read_pos])
         /\ numExecuted' = numExecuted + 1
         /\ rpc' = IF buf[read_pos].kind = "terminate" THEN "terminate" ELSE "consume"
  <2> SUFFICES ASSUME buf[read_pos] # RewindCmd
               PROVE  /\ numExecuted < numSubmitted
                      /\ buf[read_pos] = submitted[numExecuted + 1]
                      /\ buf[read_pos] \in Sendable /\ buf[read_pos].id = numExecuted + 1
                      /\ executed' = Append(executed, buf[read_pos])
                      /\ numExecuted' = numExecuted + 1
                      /\ rpc' = IF buf[read_pos].kind = "terminate" THEN "terminate" ELSE "consume"
    OBVIOUS
  <2>1. numExecuted < numSubmitted /\ buf[read_pos] = submitted[numExecuted + 1]
    BY DEF IInv, ReaderLocal
  <2>2. buf[read_pos] \in Sendable /\ buf[read_pos].id = numExecuted + 1
    BY <1>0, <1>4, <2>1 DEF TypeOK, numSubmitted, IInv, History
  <2>3. buf[read_pos].kind \in {"call", "terminate"}
    BY <2>2, SendableFacts
  <2> QED
    BY <1>0, <2>1, <2>2, <2>3 DEF ExecCmd, TypeOK, numExecuted
<1>13. \A i \in 1..numSubmitted : submitted[i] \in Sendable /\ submitted[i].id = i
  BY <1>0 DEF TypeOK, numSubmitted, IInv, History
<1>14. TypeOK'
  <2>1. executed' \in Seq(PipeCmd)
    <3>1. executed \in Seq(PipeCmd) /\ buf[read_pos] \in PipeCmd
      BY <1>0, CellFacts DEF TypeOK
    <3>2. Append(executed, buf[read_pos]) \in Seq(PipeCmd)
      BY <3>1
    <3> QED
      BY <1>11, <1>12, <3>1, <3>2
  <2>2. rcmd' \in PipeCmd
    BY <1>0, CellFacts
  <2>3. buf' \in [0..BufSize - 1 -> PipeCmd]
    BY <1>2 DEF Cells
  <2>4. rpc' \in {"rewind", "terminate", "consume"}
    BY <1>11, <1>12
  <2> QED
    BY <1>0, <2>1, <2>2, <2>3, <2>4 DEF TypeOK
<1>15. History'
  BY <1>0, <1>4, <1>11, <1>12 DEF IInv, History, numExecuted, numSubmitted, TypeOK
<1>16. LastCmd'
  <2>1. \A i \in 1..numExecuted : executed[i].kind # "terminate"
    BY DEF IInv, LastCmd
  <2>2. CASE buf[read_pos] = RewindCmd
    BY <1>4, <1>11, <2>1, <2>2 DEF IInv, LastCmd, numExecuted
  <2>3. CASE buf[read_pos] # RewindCmd
    <3>1. /\ executed'[numExecuted'] = buf[read_pos] /\ numExecuted' = numExecuted + 1
          /\ \A i \in 1..numExecuted : executed'[i] = executed[i]
      <4>1. executed \in Seq(PipeCmd) /\ buf[read_pos] \in PipeCmd
        BY <1>0, CellFacts DEF TypeOK
      <4>2. executed' = Append(executed, buf[read_pos])
        BY <1>12, <2>3
      <4> QED
        BY <4>1, <4>2 DEF numExecuted
    <3>2. rpc' \in {"terminate", "done"} <=> buf[read_pos].kind = "terminate"
      BY <1>12, <2>3
    <3>3. \A i \in 1..numExecuted' : i \in 1..numExecuted \/ i = numExecuted'
      BY <1>4, <3>1
    <3> QED
      BY <1>4, <2>1, <3>1, <3>2, <3>3 DEF IInv, LastCmd
  <2> QED
    BY <2>2, <2>3
<1>17. ReaderLocal'
  BY <1>4, <1>11, <1>12, <1>13 DEF IInv, ReaderLocal, RewindCmd
<1>18. \A p \in Cells : HoldsCmd(p)' =>
          /\ HoldsCmd(p) /\ p # read_pos /\ buf'[p] = buf[p]
          /\ buf[p].size \in 1..BufSize /\ buf[p].id \in Nat
          /\ numExecuted' < buf[p].id
  <2> SUFFICES ASSUME NEW p \in Cells, HoldsCmd(p)'
               PROVE  /\ HoldsCmd(p) /\ p # read_pos /\ buf'[p] = buf[p]
                      /\ buf[p].size \in 1..BufSize /\ buf[p].id \in Nat
                      /\ numExecuted' < buf[p].id
    OBVIOUS
  <2>1. HoldsCmd(p) /\ p # read_pos /\ buf'[p] = buf[p]
    BY <1>2, <1>5
  <2>2. buf[p].size \in 1..BufSize /\ buf[p].id \in Nat /\ numExecuted < buf[p].id
    BY <1>0, <2>1, CellFacts, SendableFacts DEF IInv, Contents
  <2>3. CASE buf[read_pos] = RewindCmd
    BY <1>11, <2>1, <2>2, <2>3 DEF numExecuted
  <2>4. CASE buf[read_pos] # RewindCmd
    <3>1. HoldsCmd(read_pos) /\ buf[read_pos].id = numExecuted + 1 /\ numExecuted' = numExecuted + 1
      BY <1>0, <1>12, <2>4, CellFacts
    <3>2. buf[p].id # numExecuted + 1
      BY <2>1, <3>1 DEF IInv, Contents
    <3> QED
      BY <1>4, <2>1, <2>2, <3>1, <3>2
  <2> QED
    BY <2>3, <2>4
<1>19. Contents'
  BY <1>4, <1>5, <1>18 DEF IInv, Contents
\* No link of the chain leads through a RewindCmd that is executed.
<1>20. ASSUME NEW p \in Cells, HoldsCmd(p)', buf[p].id <= numSubmitted, buf[read_pos] = RewindCmd
       PROVE  p + buf[p].size # read_pos
  <2>1. ~InFlight(p)
    <3>1. wpc = "submit" => buf[WPos].id = numSubmitted + 1
      BY DEF IInv, WriterLocal
    <3>2. wpc = "rewind" => buf[WPos] = RewindCmd
      BY DEF IInv, WriterLocal, WPos
    <3>3. buf[p] # RewindCmd
      BY <1>0, <1>18, <1>20, CellFacts
    <3> QED
      BY <1>4, <1>20, <3>1, <3>2, <3>3 DEF InFlight
  <2>2. Accounted(p) /\ buf[p] # RewindCmd
    BY <1>0, <1>18, <1>20, <2>1, CellFacts DEF Accounted
  <2> QED
    BY <1>3, <1>11, <1>18, <1>20, <2>2, NumberFacts DEF WrappedByRewindAt, Cells
<1>21. \A p \in Cells : HoldsCmd(p)' /\ buf[p].id < numSubmitted =>
          Reaches(p + buf[p].size, submitted[buf[p].id + 1])'
  <2> SUFFICES ASSUME NEW p \in Cells, HoldsCmd(p)', buf[p].id < numSubmitted
               PROVE  Reaches(p + buf[p].size, submitted[buf[p].id + 1])'
    OBVIOUS
  <2>1. PICK c : c = submitted[buf[p].id + 1]
    OBVIOUS
  <2>2. PICK e : e = p + buf[p].size
    OBVIOUS
  <2>3. c \in Sendable /\ c.id = buf[p].id + 1
    BY <1>4, <1>13, <1>18, <2>1
  <2>4. Reaches(e, c)
    BY <1>18, <2>1, <2>2 DEF IInv, Chain
  <2>5. c # buf[read_pos]
    BY <1>4, <1>12, <1>18, <2>3, SendableFacts
  <2>6. e = read_pos => buf[read_pos] # RewindCmd
    BY <1>4, <1>18, <1>20, <2>2
  <2> QED
    BY <1>10, <1>18, <2>1, <2>2, <2>4, <2>5, <2>6 DEF Reaches
<1>22. \A e : ReachesWriter(e) /\ (e = read_pos => buf[read_pos] # RewindCmd) => ReachesWriter(e)'
  BY <1>2, <1>3 DEF ReachesWriter
<1>23. Chain'
  <2> SUFFICES ASSUME NEW p \in Cells, HoldsCmd(p)', buf[p].id = numSubmitted
               PROVE  ReachesWriter(p + buf[p].size)'
    BY <1>4, <1>18, <1>21 DEF Chain
  <2>1. ReachesWriter(p + buf[p].size)
    BY <1>18 DEF IInv, Chain
  <2>2. p + buf[p].size = read_pos => buf[read_pos] # RewindCmd
    BY <1>4, <1>20
  <2>3. ReachesWriter(p + buf[p].size)'
    BY <1>18, <1>22, <2>1, <2>2
  <2> QED
    BY <2>3
<1>24. buf[read_pos] # RewindCmd /\ numExecuted + 1 = numSubmitted =>
          ReachesWriter(read_pos + buf[read_pos].size)
  BY <1>0, <1>12, CellFacts DEF IInv, Chain
<1>25. ReaderOnChain'
  <2>1. CASE buf[read_pos] = RewindCmd
    <3>1. numExecuted' = numExecuted /\ rpc' = "rewind"
      BY <1>11, <2>1 DEF numExecuted
    <3>2. ASSUME numExecuted < numSubmitted PROVE buf'[0] = submitted[numExecuted + 1]
      <4>1. submitted[numExecuted + 1] # RewindCmd
        BY <1>4, <1>13, <3>2, SendableFacts
      <4>2. Reaches(read_pos, submitted[numExecuted + 1])
        BY <3>2 DEF IInv, ReaderOnChain
      <4>3. buf[0] = submitted[numExecuted + 1] /\ read_pos # 0
        BY <2>1, <4>1, <4>2, NumberFacts DEF Reaches, Cells
      <4> QED
        BY <1>2, <4>3, NumberFacts DEF Cells
    <3> QED
      BY <1>4, <3>1, <3>2 DEF ReaderOnChain
  <2>2. CASE buf[read_pos] # RewindCmd /\ buf[read_pos].kind = "terminate"
    <3>1. rpc' = "terminate" /\ numExecuted' = numExecuted + 1 /\ numExecuted + 1 = numSubmitted
      BY <1>4, <1>12, <2>2 DEF IInv, LastCmd
    <3> QED
      BY <1>4, <3>1 DEF ReaderOnChain
  <2>3. CASE buf[read_pos] # RewindCmd /\ buf[read_pos].kind # "terminate"
    <3>1. /\ rpc' = "consume" /\ numExecuted' = numExecuted + 1
          /\ HoldsCmd(read_pos) /\ buf[read_pos].id = numExecuted + 1
          /\ buf[read_pos].size \in 1..BufSize
      BY <1>0, <1>12, <2>3, CellFacts, SendableFacts
    <3>2. PICK e : e = read_pos + buf[read_pos].size
      OBVIOUS
    <3>3. RPos' = e /\ e # read_pos
      BY <3>1, <3>2, NumberFacts DEF RPos
    <3>4. ASSUME numExecuted + 1 < numSubmitted
          PROVE  Reaches(RPos, submitted[numExecuted + 1])'
      <4>1. PICK c : c = submitted[numExecuted + 2]
        OBVIOUS
      <4>2. c \in Sendable /\ c.id = numExecuted + 2
        BY <1>4, <1>13, <3>4, <4>1
      <4>3. Reaches(e, c)
        BY <1>4, <3>1, <3>2, <3>4, <4>1 DEF IInv, Chain
      <4>4. c # buf[read_pos]
        BY <1>4, <3>1, <4>2
      <4> QED
        BY <1>4, <1>10, <3>1, <3>3, <4>1, <4>3, <4>4 DEF Reaches
    <3>5. ASSUME numExecuted + 1 = numSubmitted PROVE ReachesWriter(RPos)'
      <4>1. ReachesWriter(e)
        BY <1>24, <2>3, <3>2, <3>5
      <4>2. ReachesWriter(e)'
        BY <1>22, <3>3, <4>1
      <4> QED
        BY <3>3, <4>2 DEF ReachesWriter
    <3> QED
      BY <1>4, <3>1, <3>4, <3>5 DEF ReaderOnChain
  <2> QED
    BY <2>1, <2>2, <2>3
<1>26. Layout'
  <2>1. CASE buf[read_pos] = RewindCmd
    <3>1. numExecuted' = numExecuted /\ rpc' = "rewind" /\ RPos' = read_pos
      BY <1>11, <2>1 DEF numExecuted, RPos
    <3>2. \A p \in Cells : Accounted(p)' => HoldsCmd(p)' /\ p + buf'[p].size <= WPos'
      BY <1>2, <1>3, <1>5, <1>11, <2>1, NumberFacts DEF WrappedByRewindAt, HoldsCmd, Cells
    <3>3. WrappedByRewindAt(read_pos)'
      BY <1>3, <1>4, <1>11, <2>1, <3>1, <3>2 DEF WrappedByRewindAt
    <3> QED
      BY <3>3 DEF Layout, WrappedByRewind, Cells
  <2>2. CASE buf[read_pos] # RewindCmd
    <3>1. /\ rpc' \in {"consume", "terminate"} /\ numExecuted' = numExecuted + 1
          /\ HoldsCmd(read_pos) /\ buf[read_pos].size \in 1..BufSize
          /\ RPos' \in Nat /\ read_pos <= RPos' /\ RPos' <= read_pos + buf[read_pos].size
      BY <1>0, <1>12, <2>2, CellFacts, NumberFacts DEF RPos
    <3>2. \A p \in Cells : Accounted(p)' =>
            /\ Accounted(p) /\ p # read_pos /\ buf'[p] = buf[p]
            /\ HoldsCmd(p)' = HoldsCmd(p)
            /\ HoldsCmd(p) /\ RPos <= p => RPos' <= p
      <4> SUFFICES ASSUME NEW p \in Cells, Accounted(p)'
                   PROVE  /\ Accounted(p) /\ p # read_pos /\ buf'[p] = buf[p]
                          /\ HoldsCmd(p)' = HoldsCmd(p)
                          /\ HoldsCmd(p) /\ RPos <= p => RPos' <= p
        OBVIOUS
      <4>1. Accounted(p) /\ p # read_pos /\ buf'[p] = buf[p]
        BY <1>2, <1>5
      <4>2. HoldsCmd(p)' = HoldsCmd(p)
        BY <4>1 DEF HoldsCmd
      <4>3. HoldsCmd(p) /\ read_pos < p => read_pos + buf[read_pos].size <= p
        BY <3>1 DEF IInv, Contents
      <4> QED
        BY <3>1, <4>1, <4>2, <4>3, NumberFacts DEF Cells
    <3>3. numExecuted' = numSubmitted /\ WPos <= read_pos => WPos = 0 /\ Placed
      BY <1>3, <1>24, <2>2, <3>1, NumberFacts DEF ReachesWriter
    <3>4. CASE Unwrapped
      <4>1. RPos' <= WPos
        BY <1>3, <1>8, <3>1, <3>4, NumberFacts DEF Unwrapped
      <4> QED
        BY <1>3, <3>1, <3>2, <3>4, <4>1 DEF Unwrapped, Layout
    <3>5. CASE WrappedByReset
      <4>1. RPos' <= BufSize
        BY <1>3, <1>8, <3>1, <3>5, NumberFacts DEF WrappedByReset
      <4> QED
        BY <1>3, <1>4, <3>1, <3>2, <3>3, <3>5, <4>1 DEF WrappedByReset, Layout
    <3>6. CASE WrappedByRewind
      <4>1. PICK t \in Cells : WrappedByRewindAt(t)
        BY <3>6 DEF WrappedByRewind
      <4>2. buf[t] = RewindCmd /\ t # read_pos /\ buf'[t] = RewindCmd
        BY <1>2, <2>2, <4>1 DEF WrappedByRewindAt
      <4>3. RPos' <= t
        BY <1>3, <1>8, <2>2, <3>1, <4>1, NumberFacts DEF WrappedByRewindAt, Cells
      <4>4. WPos < read_pos
        BY <4>1 DEF WrappedByRewindAt
      <4>5. WrappedByRewindAt(t)'
        BY <1>3, <1>4, <3>1, <3>2, <3>3, <4>1, <4>2, <4>3, <4>4, NumberFacts DEF WrappedByRewindAt
      <4> QED
        BY <4>5 DEF Layout, WrappedByRewind, Cells
    <3> QED
      BY <3>4, <3>5, <3>6 DEF IInv, Layout
  <2> QED
    BY <2>1, <2>2
<1> QED
  BY <1>9, <1>14, <1>15, <1>16, <1>17, <1>19, <1>23, <1>25, <1>26 DEF IInv

-----------------------------------------------------------------------------

\* Every step preserves the invariant.
LEMMA NextInv ==
  ASSUME IInv, [Next]_vars PROVE IInv'
<1>0. rtimeout \in BOOLEAN
  BY DEF IInv, TypeOK
<1>1. CASE Send
  BY <1>1, BeginWriteInv DEF Send
<1>2. CASE Write
  <2>1. CASE AcquireAfterImplicitReset
    BY <2>1, AcquireAfterImplicitResetInv
  <2>2. CASE AcquireAfterRewind
    BY <2>2, AcquireAfterRewindInv
  <2>3. CASE AcquireInPlace
    BY <2>3, AcquireInPlaceInv
  <2>4. CASE SkipTail
    BY <2>4, SkipTailInv
  <2>5. CASE Construct
    BY <2>5, ConstructInv
  <2>6. CASE SubmitWrittenBytes
    BY <2>6, SubmitInv
  <2>7. CASE WakeAfterSubmit
    BY <1>0, <2>7, QuietStep
       DEF WakeAfterSubmit, SignalNonEmpty, dataVars, QuietReader, QuietWriter
  <2> QED
    BY <1>2, <2>1, <2>2, <2>3, <2>4, <2>5, <2>6, <2>7 DEF Write
<1>3. CASE BeginFinish \/ Finish
  BY <1>0, <1>3, QuietStep
     DEF BeginFinish, Finish, FinishReturns, FinishWakes, WakeInFinish, SignalNonEmpty,
         readerVars, dataVars, QuietReader, QuietWriter
<1>4. CASE Reader
  <2>1. CASE WaitTest \/ LockNonEmptyMutex \/ CondVarWait \/ WaitTimesOut \/ LeaveWait
    BY <1>0, <2>1, QuietStep
       DEF WaitTest, LockNonEmptyMutex, CondVarWait, WaitTimesOut, LeaveWait,
           writerVars, dataVars, QuietReader
  <2>2. CASE ReadReturns
    BY <1>0, <2>2, QuietStep DEF ReadReturns, writerVars, dataVars, QuietReader
  <2>3. CASE ReadTest
    BY <2>3, ReadTestInv
  <2>4. CASE ExecCmd
    BY <2>4, ExecCmdInv
  <2>5. CASE Rewind
    BY <2>5, RewindInv
  <2>6. CASE Terminate
    BY <2>6, TerminateInv
  <2>7. CASE Consume
    BY <2>7, ConsumeInv
  <2> QED
    BY <1>4, <2>1, <2>2, <2>3, <2>4, <2>5, <2>6, <2>7 DEF Reader
<1>5. CASE UNCHANGED vars
  BY <1>0, <1>5, QuietStep DEF vars, dataVars
<1> QED
  BY <1>1, <1>2, <1>3, <1>4, <1>5 DEF Next

\* The invariant holds in every reachable state, for every ring, every set of
\* command sizes and every number of commands.
THEOREM Invariant == Spec => []IInv
<1>1. Init => IInv
  BY InitInv
<1>2. IInv /\ [Next]_vars => IInv'
  BY NextInv
<1> QED
  BY <1>1, <1>2, PTL DEF Spec

\* In particular no position leaves the buffer, cmdbuf_len never grows beyond
\* the size of the buffer and never underflows.
THEOREM TypeCorrect == Spec => []TypeOK
<1>1. IInv => TypeOK
  BY DEF IInv
<1> QED
  BY <1>1, Invariant, PTL

\* While the writer is placing nothing, an empty pipe holds no command.
LEMMA EmptyHasNothing ==
  ASSUME IInv, cmdbuf_len = 0, wpc \notin {"rewind", "construct", "submit"}
  PROVE  numExecuted = numSubmitted /\ read_pos = write_pos
<1>0. TypeOK
  BY DEF IInv
<1>1. WPos = write_pos /\ ~Placed /\ \A p : ~InFlight(p)
  BY DEF WPos, Placed, InFlight
<1>2. numExecuted \in Nat /\ numSubmitted \in Nat /\ numExecuted <= numSubmitted
  BY <1>0 DEF numExecuted, numSubmitted, TypeOK, IInv, History
<1>3. ASSUME numExecuted < numSubmitted, RPos = read_pos, rpc # "rewind"
      PROVE  \E p \in Cells : /\ Accounted(p)
                              /\ \/ p = read_pos
                                 \/ p = 0 /\ HoldsCmd(p) /\ read_pos = BufSize
  <2>1. submitted[numExecuted + 1] \in Sendable
    BY <1>0, <1>2, <1>3 DEF TypeOK, numSubmitted
  <2>2. Reaches(read_pos, submitted[numExecuted + 1])
    BY <1>3 DEF IInv, ReaderOnChain
  <2>3. CASE read_pos \in Cells
    BY <1>0, <1>1, <2>1, <2>2, <2>3, NumberFacts, SendableFacts, CellFacts
       DEF Reaches, Accounted, Cells
  <2>4. CASE read_pos = BufSize /\ buf[0] = submitted[numExecuted + 1]
    <3>1. 0 \in Cells
      BY NumberFacts DEF Cells
    <3> QED
      BY <1>0, <1>1, <2>1, <2>4, <3>1, CellFacts, SendableFacts DEF Accounted
  <2> QED
    BY <2>2, <2>3, <2>4 DEF Reaches
<1>4. CASE Unwrapped
  <2>1. cmdbuf_len = WPos - read_pos /\ RPos <= WPos /\ rpc # "rewind"
    BY <1>4 DEF Unwrapped
  <2>2. read_pos = WPos /\ RPos = read_pos
    BY <1>1, <2>1, NumberFacts
  <2>3. \A p \in Cells : ~Accounted(p)
    <3> SUFFICES ASSUME NEW p \in Cells, Accounted(p) PROVE FALSE
      OBVIOUS
    <3>1. HoldsCmd(p) /\ RPos <= p /\ p + buf[p].size <= WPos /\ buf[p].size \in 1..BufSize
      BY <1>4, NumberFacts DEF Unwrapped
    <3> QED
      BY <1>1, <2>2, <3>1, NumberFacts DEF Cells
  <2> QED
    BY <1>1, <1>2, <1>3, <2>1, <2>2, <2>3
<1>5. CASE WrappedByReset
  <2>0. cmdbuf_len = (BufSize - read_pos) + write_pos /\ RPos <= BufSize /\ rpc # "rewind"
    BY <1>1, <1>5 DEF WrappedByReset
  <2>1. read_pos = BufSize /\ WPos = 0 /\ RPos = BufSize
    <3>1. /\ BufSize \in Nat /\ read_pos \in 0..BufSize /\ write_pos \in 0..BufSize
          /\ RPos \in Nat /\ read_pos <= RPos
      BY NumberFacts
    <3>2. (BufSize - read_pos) + write_pos = 0
      BY <2>0
    <3>3. read_pos = BufSize /\ write_pos = 0
      BY <3>1, <3>2
    <3> QED
      BY <1>1, <2>0, <3>1, <3>3
  <2>2. numExecuted < numSubmitted
    BY <1>1, <1>2, <1>5 DEF WrappedByReset
  <2>3. PICK p \in Cells : Accounted(p) /\ p = 0 /\ HoldsCmd(p)
    BY <1>3, <2>0, <2>1, <2>2, NumberFacts DEF Cells
  <2>4. buf[p].size \in 1..BufSize /\ (RPos <= p \/ p + buf[p].size <= WPos)
    BY <1>5, <2>3, NumberFacts DEF WrappedByReset
  <2> QED
    BY <2>1, <2>3, <2>4, NumberFacts
<1>6. CASE WrappedByRewind
  <2>1. cmdbuf_len = (BufSize - read_pos) + write_pos + kMinCmdSize
    BY <1>1, <1>6 DEF WrappedByRewind, WrappedByRewindAt
  <2> QED
    BY <2>1, NumberFacts
<1> QED
  BY <1>4, <1>5, <1>6 DEF IInv, Layout

\* Once both sides are at rest the reader stands where the writer stands.
THEOREM RestingAgreement == Spec => []RestingPositionsAgree
<1>1. IInv => RestingPositionsAgree
  BY EmptyHasNothing DEF RestingPositionsAgree
<1> QED
  BY <1>1, Invariant, PTL

\* An object is only ever constructed inside the buffer and on top of nothing
\* that is still to be executed.
THEOREM WriterStaysOffReader == Spec => NeverStepsOnReadersToes
<1> DEFINE A == \A p \in DOMAIN buf :
                  buf'[p] \notin {buf[p], Free} =>
                    /\ Extent(p, buf'[p]) \subseteq DOMAIN buf
                    /\ \A q \in DOMAIN buf : Extent(p, buf'[p]) \cap Extent(q, buf[q]) = {}
<1>1. ASSUME IInv, [Next]_vars PROVE A
  <2>0. TypeOK /\ DOMAIN buf = Cells
    BY <1>1 DEF IInv, TypeOK, Cells
  <2>1. CASE Construct
    <3>1. /\ wcmd \in Sendable /\ wcmd.size \in 1..BufSize
          /\ WPos \in Cells /\ WPos + wcmd.size = write_pos
          /\ \A q \in Cells : buf[q] # Free =>
                q + buf[q].size <= WPos \/ WPos + wcmd.size <= q
          /\ WPos = write_pos - wcmd.size
      BY <1>1, <2>1, RoomForCommand DEF Construct, WPos
    <3>2. /\ buf'[WPos] = wcmd
          /\ \A p \in Cells : p # WPos => buf'[p] = buf[p]
      BY <2>0, <2>1, <3>1 DEF Construct
    <3>3. write_pos \in 0..BufSize
      BY <1>1, NumberFacts
    <3>4. Extent(WPos, wcmd) \subseteq Cells
      BY <3>1, <3>3 DEF Extent, Cells
    <3>5. ASSUME NEW q \in Cells PROVE Extent(WPos, wcmd) \cap Extent(q, buf[q]) = {}
      <4>1. CASE buf[q] = Free
        BY <4>1, <3>1 DEF Extent, Free, Cells
      <4>2. CASE buf[q] # Free
        <5>1. buf[q].size \in Nat
          BY <2>0, <4>2, CellFacts, SendableFacts, <1>1, NumberFacts DEF RewindCmd
        <5> QED
          BY <3>1, <4>2, <5>1 DEF Extent, Cells
      <4> QED
        BY <4>1, <4>2
    <3> QED
      BY <2>0, <3>2, <3>4, <3>5
  <2>2. CASE AcquireAfterRewind
    <3>1. /\ write_pos \in Cells /\ buf'[write_pos] = RewindCmd
          /\ \A p \in Cells : p # write_pos => buf'[p] = buf[p]
      BY <1>1, <2>0, <2>2, NumberFacts DEF AcquireAfterRewind, IInv, WriterLocal, Cells
    <3>2. \A q \in Cells : buf[q] # Free => q + buf[q].size <= write_pos
      BY <1>1, <2>2, AcquireFindsUnwrapped
    <3>3. ASSUME NEW q \in Cells PROVE Extent(write_pos, RewindCmd) \cap Extent(q, buf[q]) = {}
      <4>1. CASE buf[q] = Free
        BY <4>1, <3>1 DEF Extent, Free, Cells
      <4>2. CASE buf[q] # Free
        <5>1. buf[q].size \in Nat
          BY <2>0, <4>2, CellFacts, SendableFacts, <1>1, NumberFacts DEF RewindCmd
        <5> QED
          BY <3>1, <3>2, <4>2, <5>1 DEF Extent, RewindCmd, Cells
      <4> QED
        BY <4>1, <4>2
    <3>4. Extent(write_pos, RewindCmd) \subseteq Cells
      BY <3>1 DEF Extent, RewindCmd, Cells
    <3> QED
      BY <2>0, <3>1, <3>3, <3>4
  <2>3. CASE ExecCmd
    BY <2>0, <2>3 DEF ExecCmd, TypeOK
  <2>4. CASE UNCHANGED buf
    BY <2>4
  <2> QED
    BY <1>1, <2>1, <2>2, <2>3, <2>4 DEF Next, Send, BeginWrite, Write, AcquireAfterImplicitReset,
       AcquireInPlace, SkipTail, SubmitWrittenBytes, WakeAfterSubmit, BeginFinish, Finish,
       FinishReturns, FinishWakes, WakeInFinish, Reader, WaitTest, LockNonEmptyMutex, CondVarWait,
       WaitTimesOut, LeaveWait, ReadTest, ReadReturns, Rewind, Terminate, Consume, vars
<1>2. Spec => [][A]_vars
  BY <1>1, Invariant, PTL DEF Spec
<1> QED
  BY <1>2 DEF NeverStepsOnReadersToes

\* QBufPipe_Finish does not return before everything that was submitted has
\* been executed, be it because the pipe is empty or because it is terminated.
THEOREM FinishWaitsForAll == Spec => FinishDrains
<1>1. ASSUME IInv, [Next]_vars, FinishReturns PROVE executed = submitted
  <2>0. TypeOK /\ wpc = "finish" /\ WPos = write_pos /\ ~Placed
    BY <1>1 DEF IInv, FinishReturns, WPos, Placed
  <2>1. /\ numExecuted \in Nat /\ numSubmitted \in Nat /\ numExecuted <= numSubmitted
        /\ \A i \in 1..numExecuted : executed[i] = submitted[i]
    BY <1>1, <2>0 DEF IInv, TypeOK, History, numExecuted, numSubmitted
  <2>2. numExecuted = numSubmitted
    <3>1. CASE terminated
      <4>1. numExecuted >= 1 /\ submitted[numExecuted].kind = "terminate"
        BY <1>1, <2>1, <3>1 DEF IInv, ReaderLocal, LastCmd
      <4> QED
        BY <1>1, <2>1, <4>1 DEF IInv, LastCmd
    <3>2. CASE ~terminated
      BY <1>1, <2>0, <3>2, EmptyHasNothing DEF FinishReturns
    <3> QED
      BY <3>1, <3>2
  <2> QED
    BY <2>0, <2>1, <2>2 DEF TypeOK, numExecuted, numSubmitted
<1>2. Spec => [][FinishReturns => executed = submitted]_vars
  BY <1>1, Invariant, PTL DEF Spec
<1> QED
  BY <1>2 DEF FinishDrains

\* The pipe implements the queue of CommandQueue: what the reader finds at
\* read_pos is always the next submitted command or the way to it.
THEOREM Refinement == Spec => ImplementsCommandQueue
<1>1. Init => Queue!Init
  BY DEF Init, Queue!Init
<1>2. ASSUME IInv, [Next]_vars PROVE [Queue!Next]_<<submitted, executed>>
  <2>0. TypeOK
    BY <1>2 DEF IInv
  <2>1. CASE SubmitWrittenBytes
    <3>1. wcmd \in Sendable
      BY <1>2, <2>1 DEF SubmitWrittenBytes, IInv, WriterLocal
    <3>2. Queue!Submit(wcmd)
      BY <2>1 DEF SubmitWrittenBytes, Queue!Submit
    <3> QED
      BY <3>1, <3>2 DEF Queue!Next
  <2>2. CASE ExecCmd
    <3>1. rpc = "exec" /\ submitted' = submitted
      BY <2>2 DEF ExecCmd
    <3>2. CASE buf[read_pos] = RewindCmd
      BY <2>2, <3>1, <3>2 DEF ExecCmd, RewindCmd
    <3>3. CASE buf[read_pos] # RewindCmd
      <4>1. numExecuted < numSubmitted /\ buf[read_pos] = submitted[numExecuted + 1]
        BY <1>2, <3>1, <3>3 DEF IInv, ReaderLocal
      <4>2. buf[read_pos] \in Sendable
        BY <2>0, <4>1 DEF TypeOK, numSubmitted, numExecuted
      <4>3. executed' = Append(executed, submitted[numExecuted + 1])
        BY <2>2, <4>1, <4>2, SendableFacts DEF ExecCmd
      <4>4. ~Queue!Terminated
        <5>1. executed # <<>> => numExecuted \in 1..numExecuted
          BY <2>0 DEF TypeOK, numExecuted
        <5> QED
          BY <1>2, <3>1, <5>1 DEF Queue!Terminated, IInv, LastCmd, numExecuted
      <4>5. Queue!Execute
        BY <3>1, <4>1, <4>3, <4>4 DEF Queue!Execute, numExecuted, numSubmitted
      <4> QED
        BY <4>5 DEF Queue!Next
    <3> QED
      BY <3>2, <3>3
  <2>3. CASE UNCHANGED <<submitted, executed>>
    BY <2>3
  <2> QED
    BY <1>2, <2>1, <2>2, <2>3
       DEF Next, Send, BeginWrite, Write, AcquireAfterImplicitReset, AcquireAfterRewind,
           AcquireInPlace, SkipTail, Construct, WakeAfterSubmit, BeginFinish, Finish,
           FinishReturns, FinishWakes, WakeInFinish, Reader, WaitTest, LockNonEmptyMutex,
           CondVarWait, WaitTimesOut, LeaveWait, ReadTest, ReadReturns, Rewind, Terminate,
           Consume, vars
<1> QED
  BY <1>1, <1>2, Invariant, PTL DEF Spec, ImplementsCommandQueue, Queue!Spec
=============================================================================
