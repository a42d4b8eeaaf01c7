---------------------- MODULE ReliableCommandsInvariant ----------------------
(***************************************************************************)
(* The inductive invariants of ReliableCommands.  The numbers of commands, *)
(* messages and acknowledgements are in order as long as both ends are     *)
(* connected, whatever the commands are.  That what is executed is what    *)
(* was added needs the rings to hold all that is not acknowledged: for the *)
(* client it depends on the protocol, in which one end asks, the other one *)
(* answers, and there is never more than one question or answer about.     *)
(***************************************************************************)
EXTENDS ReliableCommands

-----------------------------------------------------------------------------
(* Types.  Only first values are too long for one command.                 *)

Values == Nat \X Nat

FragmentCommands ==
  {c \in {"csf"} \X Strings \X Nat \X (1..MaxFragments) \X Values : c[3] < c[4]}

Asked == {Empty, <<"baselines">>, <<"begin">>, <<"say">>} \cup ({"configstrings"} \X (0..NumStrings))
Told  == {Empty, <<"print">>, <<"precache">>, <<"disconnect">>}
           \cup ({"cs"} \X Seq(Strings \X Values)) \cup FragmentCommands \cup ({"cmd"} \X (Asked \ {Empty}))

Messages(Commands) ==
  [ack : Nat, commands : Seq([number : Nat, command : Commands]), upto : Nat]

Rings(Commands) == [0..(RingSize - 1) -> Commands]

ServerStrings == {f \in [Strings -> Values] :
                    \A i \in Strings : f[i][2] < Capacity \/ f[i][2] = InitialSizes[i + 1]}

ServerType ==
  [ring : Rings(Told), sequence : Nat, acknowledged : Nat, sent : Nat, executed : Nat,
   net : Seq(Messages(Told)), log : Seq(Told), heard : Seq(Asked), upto : Nat,
   state : {"CS_ZOMBIE", "CS_CONNECTING", "CS_CONNECTED", "CS_SPAWNED"}, configStrings : ServerStrings]

ClientType ==
  [ring : Rings(Asked), sequence : Nat, acknowledged : Nat, sent : Nat, executed : Nat,
   net : Seq(Messages(Asked)), log : Seq(Asked), heard : Seq(Told), upto : Nat,
   state : {"CA_DISCONNECTED", "CA_CONNECTED"}, failed : BOOLEAN, strings : [Strings -> Values],
   fragmentIndex : Strings, fragmentNum : 0..(MaxFragments - 1), buffer : [0..(MaxFragments - 1) -> Values]]

Types == server \in ServerType /\ client \in ClientType /\ changes \in Nat

-----------------------------------------------------------------------------
(* Numbers, of the commands of e to f.                                     *)

InOrder(e, f) ==
  /\ e.sequence = Len(e.log) /\ f.executed = Len(f.heard)
  /\ e.acknowledged <= f.executed /\ f.executed <= e.sent /\ e.sent <= e.sequence

Before(m) == m.upto - Len(m.commands)

Carried(e, f, m) ==
  /\ 0 <= Before(m) /\ Before(m) <= f.executed /\ m.upto <= e.sent
  /\ \A k \in 1..Len(m.commands) : m.commands[k].number = Before(m) + k
  /\ f.acknowledged <= m.ack /\ m.ack <= e.executed

Numbered(e, f) ==
  /\ InOrder(e, f)
  /\ \A j \in 1..Len(e.net) : Carried(e, f, e.net[j])
  /\ \A j, k \in 1..Len(e.net) : j <= k => e.net[j].ack <= e.net[k].ack

Up(s, c) == s.state # "CS_ZOMBIE" /\ c.state # "CA_DISCONNECTED"

UpToDate(e) == e.upto <= e.executed

NumbersSound ==
  Up(server, client) => /\ Numbered(server, client) /\ Numbered(client, server)
                        /\ UpToDate(server) /\ UpToDate(client)

IInv == Types /\ NumbersSound

-----------------------------------------------------------------------------
(* Contents, of the commands of e to f.                                    *)

Held(e)      == \A n \in (e.acknowledged + 1)..e.sequence : Slot(e, n) = e.log[n]
Heard(e, f)  == \A n \in 1..f.executed : f.heard[n] = e.log[n]
Copied(e, m) == \A k \in 1..Len(m.commands) : m.commands[k].command = e.log[Before(m) + k]

Contents(e, f) == Held(e) /\ Heard(e, f) /\ \A j \in 1..Len(e.net) : Copied(e, e.net[j])

\* Questions of the client that the server has not executed, and answers that
\* the client has not.
IsAsk(command)    == command[1] \in {"configstrings", "baselines", "begin"}
IsAnswer(command) == command[1] \in {"cmd", "precache"}

Asks(s, c)    == {n \in (s.executed + 1)..c.sequence : IsAsk(c.log[n])}
Answers(s, c) == {m \in (c.executed + 1)..s.sequence : IsAnswer(s.log[m])}

\* The answer m goes with the acknowledgement of the question n.
AnsweredBy(s, c, n, m) ==
  /\ c.acknowledged < n /\ n <= s.executed
  /\ \A j \in 1..Len(s.net) : s.net[j].upto >= m <=> s.net[j].ack >= n

OneTurn(s, c) ==
  /\ \A n, k \in Asks(s, c) : n = k
  /\ \A m, k \in Answers(s, c) : m = k
  /\ Asks(s, c) = {} \/ Answers(s, c) = {}

Turn(s, c) ==
  /\ OneTurn(s, c) /\ Pending(c) <= MaxPending
  /\ \A m \in Answers(s, c) : \E n \in 1..s.executed : AnsweredBy(s, c, n, m)

\* The fragments of a string are next to each other and complete.
IsFragment(command) == command[1] = "csf"

Precedes(a, b) ==
  IsFragment(a) /\ IsFragment(b) /\ a[2] = b[2] /\ a[3] + 1 = b[3] /\ a[4] = b[4] /\ a[5] = b[5]

IsOpen(command) == IsFragment(command) /\ command[3] + 1 < command[4]

Linked(log) ==
  /\ \A n \in 1..(Len(log) - 1) : IsOpen(log[n]) => Precedes(log[n], log[n + 1])
  /\ \A n \in 1..Len(log) : IsFragment(log[n]) /\ log[n][3] > 0 => n > 1 /\ Precedes(log[n - 1], log[n])

Closed(log) == log # <<>> => ~IsOpen(log[Len(log)])

\* What the client has of a string is what it executed last.
Assembling(s, c) ==
  IF c.executed > 0 /\ IsOpen(s.log[c.executed])
  THEN c.fragmentIndex = s.log[c.executed][2] /\ c.fragmentNum = s.log[c.executed][3]
  ELSE c.fragmentIndex = 0 /\ c.fragmentNum = 0

NoNotice(log) == \A n \in 1..Len(log) : log[n] # <<"disconnect">>

\* What the server has said arrives as it was said.
Flowing(s, c) ==
  /\ c.state = "CA_CONNECTED" /\ ~c.failed
  /\ Contents(s, c) /\ Contents(c, s) /\ Pending(s) <= RingSize /\ Turn(s, c)
  /\ Linked(s.log) /\ NoNotice(s.log) /\ Assembling(s, c)

Streaming(s, c) == Flowing(s, c) /\ Closed(s.log)

StreamInv == IInv /\ (server.state # "CS_ZOMBIE" => Streaming(server, client))

\* The user of a client does not run its queue full.
UserWaits == MaxPending \in 1..RingSize

-----------------------------------------------------------------------------
(* Configstrings.                                                          *)

\* The value that string i has after the first n commands of a log.
Writes(command, i) ==
  \/ IsCs(command) /\ \E k \in 1..Len(command[2]) : command[2][k][1] = i
  \/ IsFragment(command) /\ command[2] = i /\ ~IsOpen(command)

Sets(command, i, v) ==
  \/ /\ IsCs(command)
     /\ \E k \in 1..Len(command[2]) :
          command[2][k] = <<i, v>> /\ \A j \in (k + 1)..Len(command[2]) : command[2][j][1] # i
  \/ IsFragment(command) /\ command[2] = i /\ command[5] = v /\ ~IsOpen(command)

Stands(log, n, i, v) ==
  \E p \in 1..n : Sets(log[p], i, v) /\ \A q \in (p + 1)..n : ~Writes(log[q], i)

\* If a string is among the first n commands of a log, it has this value.
Known(log, n, i, v) == (\E p \in 1..n : Writes(log[p], i)) => Stands(log, n, i, v)

Written(log, i) == \E p \in 1..Len(log) : Writes(log[p], i)

\* The client has what it has been told, and of a string in fragments the
\* first ones.
Learnt(s, c) ==
  /\ \A i \in Strings : Known(s.log, c.executed, i, c.strings[i])
  /\ c.executed > 0 /\ IsOpen(s.log[c.executed])
     => \A k \in 0..s.log[c.executed][3] : c.buffer[k] = s.log[c.executed][5]

\* What the server has told of a string last is what the string is.
Current(s, i) == Known(s.log, Len(s.log), i, s.configStrings[i])

\* What has been told when the server, or the client, gets there.
Prepared(log, next) ==
  /\ next[1] = "configstrings" => \A i \in 0..(next[2] - 1) : Written(log, i)
  /\ next[1] \in {"baselines", "begin"} => \A i \in Strings : Written(log, i)

Covered(s, c) ==
  /\ s.state = "CS_SPAWNED" => \A i \in Strings : Written(s.log, i)
  /\ \A n \in 1..Len(c.log) : Prepared(s.log, c.log[n])
  /\ \A n \in 1..Len(s.log) : /\ s.log[n][1] = "cmd" => Prepared(s.log, s.log[n][2])
                              /\ s.log[n][1] = "precache" => Prepared(s.log, <<"begin">>)

\* All that is not sent in fragments has one length.
Short(i)    == InitialSizes[i + 1] < Capacity
ShortSizes  == ChangeSizes \cup {InitialSizes[i + 1] : i \in {j \in Strings : Short(j)}}
OneLength   == (\A a, b \in ShortSizes : a = b) /\ \A i \in Changeable : Short(i)

Sized(s) ==
  /\ \A i \in Strings : IF Short(i) THEN s.configStrings[i][2] \in ShortSizes
                         ELSE s.configStrings[i][2] >= Capacity
  /\ \A n \in 1..Len(s.log) :
       /\ IsCs(s.log[n]) => \A k \in 1..Len(s.log[n][2]) :
                              Short(s.log[n][2][k][1]) /\ s.log[n][2][k][2][2] \in ShortSizes
       /\ IsFragment(s.log[n]) => ~Short(s.log[n][2])

\* Only the last configstring command that is not sent yet has room.
Full(command) ==
  ~\E i \in Strings, size \in ShortSizes : Length(command[2] \o <<<<i, <<0, size>>>>>>) <= Capacity

Filled(s) ==
  \A n, k \in (s.sent + 1)..s.sequence : n < k /\ IsCs(s.log[n]) /\ IsCs(s.log[k]) => Full(s.log[n])

Telling(s, c) ==
  Learnt(s, c) /\ (\A i \in Strings : Current(s, i)) /\ Covered(s, c) /\ Sized(s) /\ Filled(s)

StringsInv == StreamInv /\ (server.state # "CS_ZOMBIE" => Telling(server, client))
=============================================================================
