------------------------ MODULE OobConnection_proofs -------------------------
(***************************************************************************)
(* Proofs about OobConnection for every number of clients, slots and       *)
(* challenges, and every scenario.                                         *)
(***************************************************************************)
EXTENDS OobConnectionInvariant, FiniteSetTheorems, TLAPS

-----------------------------------------------------------------------------
(* The choice of a slot.                                                   *)

\* Sets of numbers have a least one.
LEMMA LeastNumber ==
  ASSUME NEW S \in SUBSET Nat, S # {}
  PROVE  \E x \in S : \A y \in S : x <= y
<1>1. PICK x \in S : \A y \in S : ~(<<y, x>> \in OpToRel(<, Nat))
  BY NatLessThanWellFounded, WFMin
<1>2. ASSUME NEW y \in S PROVE x <= y
  <2>1. ~(y < x)
    BY <1>1 DEF OpToRel
  <2> QED
    BY <2>1
<1> QED
  BY <1>2

\* The first of some slots is one of them, 0 is none.
LEMMA FirstSlotIsOne ==
  ASSUME NEW S \in SUBSET Slots
  PROVE  /\ S = {} => FirstSlot(S) = 0
         /\ S # {} => FirstSlot(S) \in S
         /\ FirstSlot(S) = 0 => S = {}
<1>1. S \in SUBSET Nat /\ 0 \notin S
  BY DEF Slots
<1>2. ASSUME S # {} PROVE FirstSlot(S) \in S
  BY <1>1, <1>2, LeastNumber DEF FirstSlot
<1> QED
  BY <1>1, <1>2 DEF FirstSlot

\* The last of some slots is one of them.
LEMMA LastSlotIsOne ==
  ASSUME NEW S \in SUBSET Slots, S # {}
  PROVE  (CHOOSE j \in S : \A k \in S : k <= j) \in S
<1> DEFINE T == {NumSlots - j : j \in S}
<1>0. NumSlots \in Nat
  BY CountsAssumption
<1>1. T \in SUBSET Nat /\ T # {}
  <2>1. \A j \in S : NumSlots - j \in Nat
    BY <1>0 DEF Slots
  <2> QED
    BY <2>1
<1> HIDE DEF T
<1>2. PICK x \in T : \A y \in T : x <= y
  BY <1>1, LeastNumber
<1>3. PICK j \in S : x = NumSlots - j
  BY <1>2 DEF T
<1>4. ASSUME NEW k \in S PROVE k <= j
  <2>1. NumSlots - k \in T
    BY DEF T
  <2>2. NumSlots - j <= NumSlots - k
    BY <1>2, <1>3, <2>1
  <2> QED
    BY <1>0, <2>2 DEF Slots
<1> QED
  BY <1>3, <1>4

-----------------------------------------------------------------------------
(* What the operations of the server do.                                   *)

\* The types of the server, and what else TypeOK says of it.
ServerOK(s) ==
  /\ s \in ServerType
  /\ \A i \in Slots : IsLive(s.slots[i]) => s.slots[i].client # "none" /\ s.inGame[i]

KeepsChallenges(s, t) == t.challenges = s.challenges /\ t.issued = s.issued

\* At most one packet of one of these kinds is sent, to client c.
SendsTo(s, t, c, kinds) ==
  \A d \in Clients : \/ t.net[d] = s.net[d]
                     \/ /\ d = c
                        /\ \E kind \in kinds, content \in 0..t.issued :
                             t.net[d] = Append(s.net[d], [kind |-> kind, content |-> content])

KindsToClient == {"challenge", "client_connect", "reject", "serverdata", "disconnect"}

\* Send adds a packet for one client and changes nothing else.
LEMMA SendSends ==
  ASSUME NEW s, ServerOK(s), NEW c \in Clients, NEW port, NEW kind \in KindsToClient,
         NEW content \in 0..s.issued, NEW t, t = Send(s, c, port, kind, content)
  PROVE  /\ ServerOK(t) /\ KeepsChallenges(s, t)
         /\ t.slots = s.slots /\ t.inGame = s.inGame
         /\ SendsTo(s, t, c, {kind})
<1> DEFINE p == [kind |-> kind, content |-> content]
<1>1. s \in ServerType /\ s.issued \in Nat /\ p \in ToClient /\ s.net \in [Clients -> Seq(ToClient)]
  BY DEF ServerOK, ServerType, ToClient, KindsToClient
<1>2. CASE t = s
  BY <1>2 DEF KeepsChallenges, SendsTo
<1>3. CASE t = [s EXCEPT !.net[c] = Append(@, p)]
  <2>1. Append(s.net[c], p) \in Seq(ToClient)
    BY <1>1
  <2>2. t.net = [s.net EXCEPT ![c] = Append(s.net[c], p)]
    BY <1>1, <1>3 DEF ServerType
  <2>3. t.net \in [Clients -> Seq(ToClient)]
    BY <1>1, <2>1, <2>2
  <2>4. /\ t.slots = s.slots /\ t.inGame = s.inGame /\ KeepsChallenges(s, t)
        /\ t \in ServerType
    BY <1>1, <1>3, <2>3 DEF ServerType, KeepsChallenges
  <2>5. \A d \in Clients : t.net[d] = s.net[d] \/ (d = c /\ t.net[d] = Append(s.net[d], p))
    BY <1>1, <2>2
  <2>6. SendsTo(s, t, c, {kind})
    BY <2>4, <2>5 DEF SendsTo, KeepsChallenges
  <2> QED
    BY <2>4, <2>6 DEF ServerOK
<1> QED
  BY <1>2, <1>3 DEF Send

\* The slot becomes a zombie.
LEMMA DropClientDrops ==
  ASSUME NEW s, ServerOK(s), NEW i \in Slots, s.slots[i].client # "none", NEW t, t = DropClient(s, i)
  PROVE  /\ ServerOK(t) /\ KeepsChallenges(s, t)
         /\ t.slots = [s.slots EXCEPT ![i].state = "CS_ZOMBIE"]
         /\ SendsTo(s, t, s.slots[i].client, {"disconnect"})
         /\ s.slots[i].client = Bot => t.net = s.net
<1> DEFINE slot == s.slots[i]
<1>0. s \in ServerType /\ slot \in SlotType /\ s.issued \in Nat /\ 0 \in 0..s.issued
  BY DEF ServerOK, ServerType
<1>1. slot.client # Bot => slot.client \in Clients
  BY <1>0 DEF SlotType
<1>11. PICK told : told = IF slot.client = Bot THEN s ELSE Send(s, slot.client, slot.port, "disconnect", 0)
  OBVIOUS
<1>2. /\ ServerOK(told) /\ KeepsChallenges(s, told)
      /\ told.slots = s.slots /\ told.inGame = s.inGame
      /\ SendsTo(s, told, slot.client, {"disconnect"})
      /\ slot.client = Bot => told.net = s.net
  <2>1. CASE slot.client = Bot
    BY <1>11, <2>1 DEF KeepsChallenges, SendsTo
  <2>2. CASE slot.client # Bot
    <3>1. "disconnect" \in KindsToClient
      BY DEF KindsToClient
    <3>2. told = Send(s, slot.client, slot.port, "disconnect", 0) /\ slot.client \in Clients
      BY <1>1, <1>11, <2>2
    <3>3. /\ ServerOK(told) /\ KeepsChallenges(s, told)
          /\ told.slots = s.slots /\ told.inGame = s.inGame
          /\ SendsTo(s, told, slot.client, {"disconnect"})
      BY <1>0, <3>1, <3>2, SendSends
    <3> QED
      BY <2>2, <3>3
  <2> QED
    BY <2>1, <2>2
<1>3. \E leaves \in BOOLEAN : t = [told EXCEPT !.slots[i].state = "CS_ZOMBIE", !.inGame[i] = @ /\ ~leaves]
  <2>1. t = [told EXCEPT !.slots[i].state = "CS_ZOMBIE",
                         !.inGame[i] = @ /\ ~(IsFakeClient(s, i) \/ slot.state = "CS_CONNECTED")]
    BY <1>11 DEF DropClient
  <2>2. (IsFakeClient(s, i) \/ slot.state = "CS_CONNECTED") \in BOOLEAN
    OBVIOUS
  <2> QED
    BY <2>1, <2>2
<1>4. PICK leaves \in BOOLEAN : t = [told EXCEPT !.slots[i].state = "CS_ZOMBIE", !.inGame[i] = @ /\ ~leaves]
  BY <1>3
<1>5. told \in ServerType
  BY <1>2 DEF ServerOK
<1>6. /\ t.slots = [told.slots EXCEPT ![i].state = "CS_ZOMBIE"]
      /\ t.inGame = [told.inGame EXCEPT ![i] = @ /\ ~leaves]
      /\ t.net = told.net /\ t.challenges = told.challenges /\ t.issued = told.issued
  BY <1>4, <1>5 DEF ServerType
<1>7. t.slots \in [Slots -> SlotType] /\ t.inGame \in [Slots -> BOOLEAN]
  <2>1. told.slots \in [Slots -> SlotType] /\ told.inGame \in [Slots -> BOOLEAN]
    BY <1>5 DEF ServerType
  <2>2. t.slots \in [Slots -> SlotType]
    BY <1>6, <2>1 DEF SlotType
  <2>3. (told.inGame[i] /\ ~leaves) \in BOOLEAN
    OBVIOUS
  <2>4. t.inGame \in [Slots -> BOOLEAN]
    BY <1>6, <2>1, <2>3
  <2> QED
    BY <2>2, <2>4
<1>8. t \in ServerType
  BY <1>4, <1>5, <1>7 DEF ServerType
<1>9. \A j \in Slots : IsLive(t.slots[j]) => t.slots[j].client # "none" /\ t.inGame[j]
  <2> SUFFICES ASSUME NEW j \in Slots, IsLive(t.slots[j])
               PROVE  t.slots[j].client # "none" /\ t.inGame[j]
    OBVIOUS
  <2>1. j # i
    BY <1>5, <1>6 DEF ServerType, SlotType, IsLive
  <2>2. t.slots[j] = told.slots[j] /\ t.inGame[j] = told.inGame[j]
    BY <1>5, <1>6, <2>1 DEF ServerType
  <2> QED
    BY <1>2, <2>2 DEF ServerOK
<1>10. SendsTo(s, t, slot.client, {"disconnect"})
  BY <1>2, <1>6 DEF SendsTo, KeepsChallenges
<1> QED
  BY <1>2, <1>6, <1>8, <1>9, <1>10 DEF ServerOK, KeepsChallenges

\* The slot of a client that has been connected.
SlotOf(c, port, challenge) ==
  [FreeSlot EXCEPT !.state = "CS_CONNECTING", !.client = c, !.port = port,
                   !.challenge = challenge, !.recent = TRUE]

\* The slot is set to a value, and one packet of these kinds at most is sent to client c.
Puts(s, t, i, slot, c, kinds) == t.slots = [s.slots EXCEPT ![i] = slot] /\ SendsTo(s, t, c, kinds)

\* The slot gets the client, or is cleared if the game module refuses it.
LEMMA ConnectIntoConnects ==
  ASSUME NEW s, ServerOK(s), NEW i \in Slots, NEW c \in Clients, NEW port \in Nat,
         NEW challenge \in Nat, NEW accepts \in BOOLEAN,
         NEW t, t = ConnectInto(s, i, c, port, challenge, accepts)
  PROVE  /\ ServerOK(t) /\ KeepsChallenges(s, t)
         /\ accepts => Puts(s, t, i, SlotOf(c, port, challenge), c, {"client_connect"})
         /\ ~accepts => Puts(s, t, i, FreeSlot, c, {"reject"})
<1>0. /\ s \in ServerType /\ s.issued \in Nat /\ 0 \in 0..s.issued
      /\ s.slots \in [Slots -> SlotType] /\ s.inGame \in [Slots -> BOOLEAN]
  BY DEF ServerOK, ServerType
<1>1. FreeSlot \in SlotType /\ SlotOf(c, port, challenge) \in SlotType
  BY DEF FreeSlot, SlotOf, SlotType
<1>2. ~IsLive(FreeSlot) /\ c # "none"
  BY ClientsAssumption DEF FreeSlot, IsLive
<1>3. ASSUME accepts
      PROVE  /\ ServerOK(t) /\ KeepsChallenges(s, t)
             /\ t.slots = [s.slots EXCEPT ![i] = SlotOf(c, port, challenge)]
             /\ SendsTo(s, t, c, {"client_connect"})
  <2>1. PICK u : u = [s EXCEPT !.slots[i] = SlotOf(c, port, challenge), !.inGame[i] = TRUE]
    OBVIOUS
  <2>2. t = Send(u, c, port, "client_connect", 0)
    BY <1>3, <2>1 DEF ConnectInto, ClientConnect, SlotOf
  <2>3. /\ u.slots = [s.slots EXCEPT ![i] = SlotOf(c, port, challenge)]
        /\ u.inGame = [s.inGame EXCEPT ![i] = TRUE]
        /\ u.net = s.net /\ u.challenges = s.challenges /\ u.issued = s.issued
    BY <1>0, <2>1 DEF ServerType
  <2>4. u.slots \in [Slots -> SlotType] /\ u.inGame \in [Slots -> BOOLEAN]
    BY <1>0, <1>1, <2>3
  <2>5. u \in ServerType
    BY <1>0, <2>1, <2>4 DEF ServerType
  <2>6. \A j \in Slots : IsLive(u.slots[j]) => u.slots[j].client # "none" /\ u.inGame[j]
    <3> SUFFICES ASSUME NEW j \in Slots, IsLive(u.slots[j])
                 PROVE  u.slots[j].client # "none" /\ u.inGame[j]
      OBVIOUS
    <3>1. CASE j = i
      <4>1. u.slots[i] = SlotOf(c, port, challenge) /\ u.inGame[i] = TRUE
        BY <1>0, <2>3
      <4>2. SlotOf(c, port, challenge).client = c
        BY DEF SlotOf, FreeSlot
      <4> QED
        BY <1>2, <3>1, <4>1, <4>2
    <3>2. CASE j # i
      <4>1. u.slots[j] = s.slots[j] /\ u.inGame[j] = s.inGame[j]
        BY <1>0, <2>3, <3>2
      <4> QED
        BY <4>1 DEF ServerOK
    <3> QED
      BY <3>1, <3>2
  <2>7. ServerOK(u) /\ "client_connect" \in KindsToClient /\ 0 \in 0..u.issued
    BY <1>0, <2>3, <2>5, <2>6 DEF ServerOK, KindsToClient
  <2>8. /\ ServerOK(t) /\ KeepsChallenges(u, t) /\ t.slots = u.slots
        /\ SendsTo(u, t, c, {"client_connect"})
    BY <2>2, <2>7, SendSends
  <2> QED
    BY <2>3, <2>8 DEF KeepsChallenges, SendsTo
<1>4. ASSUME ~accepts
      PROVE  /\ ServerOK(t) /\ KeepsChallenges(s, t)
             /\ t.slots = [s.slots EXCEPT ![i] = FreeSlot]
             /\ SendsTo(s, t, c, {"reject"})
  <2>1. PICK u : u = [s EXCEPT !.slots[i] = FreeSlot]
    OBVIOUS
  <2>2. t = Send(u, c, port, "reject", 0)
    BY <1>4, <2>1 DEF ConnectInto, ClientConnect, Reject
  <2>3. /\ u.slots = [s.slots EXCEPT ![i] = FreeSlot] /\ u.inGame = s.inGame
        /\ u.net = s.net /\ u.challenges = s.challenges /\ u.issued = s.issued
    BY <1>0, <2>1 DEF ServerType
  <2>4. u.slots \in [Slots -> SlotType]
    BY <1>0, <1>1, <2>3
  <2>5. u \in ServerType
    BY <1>0, <2>1, <2>4 DEF ServerType
  <2>6. \A j \in Slots : IsLive(u.slots[j]) => u.slots[j].client # "none" /\ u.inGame[j]
    <3> SUFFICES ASSUME NEW j \in Slots, IsLive(u.slots[j])
                 PROVE  u.slots[j].client # "none" /\ u.inGame[j]
      OBVIOUS
    <3>1. j # i
      BY <1>0, <1>2, <2>3
    <3>2. u.slots[j] = s.slots[j]
      BY <1>0, <2>3, <3>1
    <3> QED
      BY <2>3, <3>2 DEF ServerOK
  <2>7. ServerOK(u) /\ "reject" \in KindsToClient /\ 0 \in 0..u.issued
    BY <1>0, <2>3, <2>5, <2>6 DEF ServerOK, KindsToClient
  <2>8. /\ ServerOK(t) /\ KeepsChallenges(u, t) /\ t.slots = u.slots
        /\ SendsTo(u, t, c, {"reject"})
    BY <2>2, <2>7, SendSends
  <2> QED
    BY <2>3, <2>8 DEF KeepsChallenges, SendsTo
<1> QED
  BY <1>3, <1>4 DEF Puts

\* In slot i is nobody else but a bot, and the client is in no other slot.
MayGet(s, i, c) ==
  /\ IsInUse(s.slots[i]) => s.slots[i].client \in {c, Bot}
  /\ \A j \in Slots \ {i} : ~(IsInUse(s.slots[j]) /\ s.slots[j].client = c)

\* The client has one slot at most.
OnlySlot(s, c) ==
  \A i, j \in {k \in Slots : IsInUse(s.slots[k]) /\ s.slots[k].client = c} : i = j

\* What becomes of the slots, and of the network, when a client is connected,
\* when it is not, and when the game module has cleared a slot to refuse it.
Connects(s, t, c, challenge) ==
  \E i \in Slots, port \in Nat :
    /\ MayGet(s, i, c) /\ t.slots = [s.slots EXCEPT ![i] = SlotOf(c, port, challenge)]
    /\ SendsTo(s, t, c, {"client_connect"})

Refuses(s, t, c) ==
  /\ \/ t.slots = s.slots
     \/ \E i \in Slots : MayGet(s, i, c) /\ t.slots = [s.slots EXCEPT ![i] = FreeSlot]
  /\ SendsTo(s, t, c, {"reject"})

\* A slot that the client may get.
LEMMA ConnectIntoMayGet ==
  ASSUME NEW s, ServerOK(s), NEW i \in Slots, NEW c \in Clients, NEW port \in Nat,
         NEW challenge \in Nat, NEW accepts \in BOOLEAN, MayGet(s, i, c),
         NEW t, t = ConnectInto(s, i, c, port, challenge, accepts)
  PROVE  /\ ServerOK(t) /\ KeepsChallenges(s, t)
         /\ Connects(s, t, c, challenge) \/ Refuses(s, t, c)
<1>1. /\ ServerOK(t) /\ KeepsChallenges(s, t)
      /\ accepts => Puts(s, t, i, SlotOf(c, port, challenge), c, {"client_connect"})
      /\ ~accepts => Puts(s, t, i, FreeSlot, c, {"reject"})
  BY ConnectIntoConnects
<1>2. CASE accepts
  <2>1. Connects(s, t, c, challenge)
    BY <1>1, <1>2 DEF Connects, Puts
  <2> QED
    BY <1>1, <2>1
<1>3. CASE ~accepts
  <2>1. Refuses(s, t, c)
    BY <1>1, <1>3 DEF Refuses, Puts
  <2> QED
    BY <1>1, <2>1
<1> QED
  BY <1>2, <1>3

\* The choice among free slots and bots.
LEMMA AssignSlotConnects ==
  ASSUME NEW s, ServerOK(s), NEW c \in Clients, NEW port \in Nat, NEW challenge \in Nat, NEW accepts \in BOOLEAN,
         \A j \in Slots : ~(IsInUse(s.slots[j]) /\ s.slots[j].client = c),
         NEW t, t = AssignSlot(s, c, port, challenge, accepts)
  PROVE  /\ ServerOK(t) /\ KeepsChallenges(s, t)
         /\ Connects(s, t, c, challenge) \/ Refuses(s, t, c)
<1>0. /\ s \in ServerType /\ s.issued \in Nat /\ 0 \in 0..s.issued
      /\ s.slots \in [Slots -> SlotType]
  BY DEF ServerOK, ServerType
<1>1. CASE FreeSlots(s) # {}
  <2>1. PICK i \in FreeSlots(s) : i = FirstSlot(FreeSlots(s))
    BY <1>1, FirstSlotIsOne DEF FreeSlots
  <2>2. i \in Slots /\ MayGet(s, i, c)
    BY <2>1 DEF FreeSlots, MayGet
  <2>3. t = ConnectInto(s, i, c, port, challenge, accepts)
    BY <1>1, <2>1 DEF AssignSlot
  <2> QED
    BY <2>2, <2>3, ConnectIntoMayGet
<1>2. CASE FreeSlots(s) = {} /\ BotSlots(s) # {}
  <2>1. PICK i \in BotSlots(s) : i = CHOOSE j \in BotSlots(s) : \A k \in BotSlots(s) : k <= j
    BY <1>2, LastSlotIsOne DEF BotSlots
  <2>2. i \in Slots /\ s.slots[i].client = Bot
    BY <2>1 DEF BotSlots, IsFakeClient
  <2>3. MayGet(s, i, c)
    BY <2>2 DEF MayGet
  <2>4. PICK u : u = DropClient(s, i)
    OBVIOUS
  <2>5. /\ ServerOK(u) /\ KeepsChallenges(s, u) /\ u.net = s.net
        /\ u.slots = [s.slots EXCEPT ![i].state = "CS_ZOMBIE"]
    BY <2>2, <2>4, DropClientDrops DEF Bot
  <2>6. t = ConnectInto(u, i, c, port, challenge, accepts)
    BY <1>2, <2>1, <2>4 DEF AssignSlot
  <2>7. ServerOK(u) /\ i \in Slots
    BY <2>2, <2>5
  <2>8. /\ ServerOK(t) /\ KeepsChallenges(u, t)
        /\ accepts => Puts(u, t, i, SlotOf(c, port, challenge), c, {"client_connect"})
        /\ ~accepts => Puts(u, t, i, FreeSlot, c, {"reject"})
    BY <2>6, <2>7, ConnectIntoConnects
  <2>9. \A slot : [u.slots EXCEPT ![i] = slot] = [s.slots EXCEPT ![i] = slot]
    BY <1>0, <2>2, <2>5
  <2>10. ASSUME NEW kinds, SendsTo(u, t, c, kinds) PROVE SendsTo(s, t, c, kinds)
    BY <2>5, <2>10 DEF SendsTo
  <2>11. KeepsChallenges(s, t)
    BY <2>5, <2>8 DEF KeepsChallenges
  <2>12. CASE accepts
    <3>1. t.slots = [s.slots EXCEPT ![i] = SlotOf(c, port, challenge)] /\ SendsTo(s, t, c, {"client_connect"})
      BY <2>8, <2>9, <2>10, <2>12 DEF Puts
    <3>2. Connects(s, t, c, challenge)
      BY <2>2, <2>3, <3>1 DEF Connects
    <3> QED
      BY <2>8, <2>11, <3>2
  <2>13. CASE ~accepts
    <3>1. t.slots = [s.slots EXCEPT ![i] = FreeSlot] /\ SendsTo(s, t, c, {"reject"})
      BY <2>8, <2>9, <2>10, <2>13 DEF Puts
    <3>2. Refuses(s, t, c)
      BY <2>2, <2>3, <3>1 DEF Refuses
    <3> QED
      BY <2>8, <2>11, <3>2
  <2> QED
    BY <2>12, <2>13
<1>3. CASE FreeSlots(s) = {} /\ BotSlots(s) = {}
  <2>1. t = Send(s, c, port, "reject", 0)
    BY <1>3 DEF AssignSlot, Reject
  <2>2. "reject" \in KindsToClient
    BY DEF KindsToClient
  <2>3. ServerOK(t) /\ KeepsChallenges(s, t) /\ t.slots = s.slots /\ SendsTo(s, t, c, {"reject"})
    BY <1>0, <2>1, <2>2, SendSends
  <2>4. Refuses(s, t, c)
    BY <2>3 DEF Refuses
  <2> QED
    BY <2>3, <2>4
<1> QED
  BY <1>1, <1>2, <1>3

\* A connect uses a challenge of the client's host, or is refused.
UsesChallenge(s, t, c, challenge) ==
  /\ challenge \in ChallengesOf(s, c)
  /\ t.challenges = {e \in s.challenges : e.host # bounds.hostOf[c]}
  /\ t.issued = s.issued

\* A connect request is answered, without a challenge or with the one that it uses up.
LEMMA ConnectRequestConnects ==
  ASSUME NEW s, ServerOK(s), NEW c \in Clients, NEW port \in Nat, NEW challenge \in Nat, NEW accepts \in BOOLEAN,
         OnlySlot(s, c),
         NEW t, t = ConnectRequest(s, c, port, challenge, accepts)
  PROVE  /\ ServerOK(t)
         /\ \/ KeepsChallenges(s, t) /\ t.slots = s.slots /\ SendsTo(s, t, c, {"reject"})
            \/ /\ UsesChallenge(s, t, c, challenge)
               /\ \/ Refuses(s, t, c)
                  \/ t.slots = s.slots /\ t.net = s.net
                  \/ IPConnectionLimitPassed(s, c) /\ Connects(s, t, c, challenge)
<1>0. s \in ServerType /\ s.issued \in Nat /\ 0 \in 0..s.issued /\ "reject" \in KindsToClient
  BY DEF ServerOK, ServerType, KindsToClient
<1>1. CASE ~ChallengeIsValid(s, c, challenge)
  <2>1. t = Send(s, c, port, "reject", 0)
    BY <1>1 DEF ConnectRequest, Reject
  <2> QED
    BY <1>0, <2>1, SendSends
<1>2. CASE ChallengeIsValid(s, c, challenge)
  <2>1. PICK u : u = UseChallenge(s, c)
    OBVIOUS
  <2>2. /\ u.slots = s.slots /\ u.inGame = s.inGame /\ u.net = s.net /\ u.issued = s.issued
        /\ u.challenges = {e \in s.challenges : e.host # bounds.hostOf[c]}
    BY <1>0, <2>1 DEF UseChallenge, ServerType
  <2>3. ServerOK(u)
    <3>1. u.challenges \in SUBSET [host : STRING, challenge : Nat]
      BY <1>0, <2>2 DEF ServerType
    <3>2. u \in ServerType
      BY <1>0, <2>1, <3>1 DEF UseChallenge, ServerType
    <3> QED
      BY <2>2, <3>2 DEF ServerOK
  <2>4. ASSUME ServerOK(t), KeepsChallenges(u, t) PROVE UsesChallenge(s, t, c, challenge)
    BY <1>2, <2>2, <2>4 DEF KeepsChallenges, UsesChallenge, ChallengeIsValid
  <2>5. ASSUME NEW kinds, SendsTo(u, t, c, kinds) PROVE SendsTo(s, t, c, kinds)
    BY <2>2, <2>5 DEF SendsTo
  <2>6. Refuses(u, t, c) => Refuses(s, t, c)
    BY <2>2, <2>5 DEF Refuses, MayGet
  <2>7. Connects(u, t, c, challenge) => Connects(s, t, c, challenge)
    BY <2>2, <2>5 DEF Connects, MayGet
  <2>8. CASE ~IPConnectionLimitPassed(u, c)
    <3>1. t = Send(u, c, port, "reject", 0)
      BY <1>2, <2>1, <2>8 DEF ConnectRequest, Reject
    <3>2. /\ ServerOK(t) /\ KeepsChallenges(u, t)
          /\ t.slots = u.slots /\ SendsTo(u, t, c, {"reject"})
      BY <1>0, <2>2, <2>3, <3>1, SendSends
    <3> QED
      BY <2>4, <2>6, <3>2 DEF Refuses
  <2>9. CASE IPConnectionLimitPassed(u, c)
    <3>1. IPConnectionLimitPassed(s, c)
      BY <2>2, <2>9 DEF IPConnectionLimitPassed, SameHost
    <3> DEFINE S == {i \in SameHost(u, c) : IsInUse(u.slots[i]) /\ u.slots[i].client = c}
    <3>2. PICK e : e = FindExistingClientSlot(u, c, port)
      OBVIOUS
    <3>3. /\ S \in SUBSET Slots /\ e = FirstSlot(S)
          /\ \A i \in Slots : IsInUse(u.slots[i]) /\ u.slots[i].client = c => i \in S
      BY <3>2 DEF SameHost, FindExistingClientSlot
    <3>4. CASE e = 0
      <4>1. t = AssignSlot(u, c, port, challenge, accepts)
        BY <1>2, <2>1, <2>9, <3>2, <3>4 DEF ConnectRequest
      <4>2. \A j \in Slots : ~(IsInUse(u.slots[j]) /\ u.slots[j].client = c)
        BY <3>3, <3>4, FirstSlotIsOne
      <4>3. /\ ServerOK(t) /\ KeepsChallenges(u, t)
            /\ Connects(u, t, c, challenge) \/ Refuses(u, t, c)
        BY <2>3, <4>1, <4>2, AssignSlotConnects
      <4> QED
        BY <2>4, <2>6, <2>7, <3>1, <4>3
    <3>5. CASE e # 0 /\ u.slots[e].recent
      <4>1. t = u
        BY <1>2, <2>1, <2>9, <3>2, <3>5 DEF ConnectRequest
      <4> QED
        BY <2>2, <2>3, <2>4, <4>1 DEF KeepsChallenges
    <3>6. CASE e # 0 /\ ~u.slots[e].recent
      <4>1. t = ConnectInto(u, e, c, port, challenge, accepts)
        BY <1>2, <2>1, <2>9, <3>2, <3>6 DEF ConnectRequest
      <4>2. e \in S
        BY <3>3, <3>6, FirstSlotIsOne
      <4>3. e \in Slots /\ u.slots[e].client = c /\ IsInUse(u.slots[e])
        BY <3>3, <4>2
      <4>4. MayGet(u, e, c)
        BY <2>2, <4>3 DEF MayGet, OnlySlot
      <4>5. /\ ServerOK(t) /\ KeepsChallenges(u, t)
            /\ Connects(u, t, c, challenge) \/ Refuses(u, t, c)
        BY <2>3, <4>1, <4>3, <4>4, ConnectIntoMayGet
      <4> QED
        BY <2>4, <2>6, <2>7, <3>1, <4>5
    <3> QED
      BY <3>4, <3>5, <3>6
  <2> QED
    BY <2>8, <2>9
<1> QED
  BY <1>1, <1>2

\* The challenge that a host does not have is issued.
Issues(s, t, c) ==
  /\ ChallengesOf(s, c) = {}
  /\ t.challenges = MakeRoom(s) \cup {[host |-> bounds.hostOf[c], challenge |-> s.issued + 1]}
  /\ t.issued = s.issued + 1

\* Hosts are strings.
LEMMA HostsAreStrings ==
  ASSUME bounds \in Scenarios, NEW c \in Clients
  PROVE  bounds.hostOf[c] \in STRING /\ bounds.ipLimit \in Nat
BY ScenariosAssumption

\* The answer to getchallenge.
LEMMA GetChallengeAnswers ==
  ASSUME NEW s, ServerOK(s), bounds \in Scenarios, NEW c \in Clients, NEW port \in Nat,
         \A e \in s.challenges : e.challenge \in 1..s.issued,
         NEW t, t = GetChallenge(s, c, port)
  PROVE  /\ ServerOK(t) /\ t.slots = s.slots
         /\ KeepsChallenges(s, t) \/ Issues(s, t, c)
         /\ SendsTo(s, t, c, {"challenge"})
<1>0. /\ s \in ServerType /\ s.issued \in Nat /\ "challenge" \in KindsToClient
      /\ bounds.hostOf[c] \in STRING /\ s.challenges \in SUBSET [host : STRING, challenge : Nat]
  BY HostsAreStrings DEF ServerOK, ServerType, KindsToClient
<1>1. CASE ChallengesOf(s, c) # {}
  <2>1. PICK x : x = CHOOSE y \in ChallengesOf(s, c) : TRUE
    OBVIOUS
  <2>2. x \in ChallengesOf(s, c)
    BY <1>1, <2>1
  <2>3. x \in 0..s.issued
    BY <1>0, <2>2 DEF ChallengesOf
  <2>4. t = Send(s, c, port, "challenge", x)
    BY <1>1, <2>1 DEF GetChallenge
  <2>5. ServerOK(t) /\ KeepsChallenges(s, t) /\ t.slots = s.slots /\ SendsTo(s, t, c, {"challenge"})
    BY <1>0, <2>3, <2>4, SendSends
  <2> QED
    BY <2>5
<1>2. CASE ChallengesOf(s, c) = {}
  <2>1. PICK u : u = [s EXCEPT !.challenges = MakeRoom(s) \cup {[host |-> bounds.hostOf[c], challenge |-> s.issued + 1]},
                               !.issued = @ + 1]
    OBVIOUS
  <2>2. /\ u.slots = s.slots /\ u.inGame = s.inGame /\ u.net = s.net /\ u.issued = s.issued + 1
        /\ u.challenges = MakeRoom(s) \cup {[host |-> bounds.hostOf[c], challenge |-> s.issued + 1]}
    BY <1>0, <2>1 DEF ServerType
  <2>3. u.challenges \in SUBSET [host : STRING, challenge : Nat] /\ u.issued \in Nat
    BY <1>0, <2>2 DEF MakeRoom
  <2>4. u \in ServerType
    BY <1>0, <2>1, <2>3 DEF ServerType
  <2>5. ServerOK(u) /\ s.issued + 1 \in 0..u.issued
    BY <1>0, <2>2, <2>4 DEF ServerOK
  <2>6. t = Send(u, c, port, "challenge", s.issued + 1)
    BY <1>2, <2>1 DEF GetChallenge
  <2>7. PICK y \in 0..u.issued : y = s.issued + 1
    BY <2>5
  <2>8. t = Send(u, c, port, "challenge", y) /\ ServerOK(u) /\ "challenge" \in KindsToClient
    BY <1>0, <2>5, <2>6, <2>7
  <2>9. ServerOK(t) /\ KeepsChallenges(u, t) /\ t.slots = u.slots /\ SendsTo(u, t, c, {"challenge"})
    BY <2>8, SendSends
  <2>10. Issues(s, t, c)
    BY <1>2, <2>2, <2>9 DEF KeepsChallenges, Issues
  <2>11. SendsTo(s, t, c, {"challenge"})
    BY <2>2, <2>9 DEF SendsTo
  <2> QED
    BY <2>2, <2>9, <2>10, <2>11
<1> QED
  BY <1>1, <1>2

-----------------------------------------------------------------------------
(* What becomes of a slot without a connect.                               *)

\* The slot keeps its client, or loses it.
KeepsClient(old, new) ==
  /\ new.client = old.client /\ new.challenge = old.challenge
  /\ IsLive(new) => IsLive(old)
  /\ IsInUse(new) => IsInUse(old)
  /\ new.recent => old.recent
  /\ old.heard => new.heard

\* The slot is for nobody, or for a bot that joins.
Empties(old, new) == new.client \notin Clients /\ (IsLive(new) => ~IsInUse(old))

SlotMoves(s, t, i) == /\ KeepsClient(s.slots[i], t.slots[i]) \/ Empties(s.slots[i], t.slots[i])
                      /\ \A j \in Slots \ {i} : t.slots[j] = s.slots[j]

SlotsMove(s, t) == \E i \in Slots : SlotMoves(s, t, i)

HeardIn(s, c) == \A i \in Slots : IsLive(s.slots[i]) /\ s.slots[i].client = c => s.slots[i].heard

\* A packet of a connection.  A client that is told of the level has been heard.
LEMMA SequencedPacketHears ==
  ASSUME NEW s, ServerOK(s), NEW c \in Clients, NEW port \in Nat, NEW command \in Sequenced,
         OnlySlot(s, c),
         NEW t, t = SequencedPacket(s, c, port, command)
  PROVE  /\ ServerOK(t) /\ KeepsChallenges(s, t) /\ SlotsMove(s, t)
         /\ SendsTo(s, t, c, {"disconnect"}) \/ (HeardIn(t, c) /\ SendsTo(s, t, c, {"serverdata"}))
<1> DEFINE L == {j \in Slots : IsLive(s.slots[j]) /\ s.slots[j].client = c}
<1>0. /\ s \in ServerType /\ s.issued \in Nat /\ s.slots \in [Slots -> SlotType] /\ s.inGame \in [Slots -> BOOLEAN]
      /\ c # "none" /\ c # Bot
  BY ClientsAssumption DEF ServerOK, ServerType, Bot
<1>00. 1 \in Slots
  BY CountsAssumption DEF Slots
<1>1. PICK i : i = FirstSlot(L)
  OBVIOUS
<1>2. CASE i = 0
  <2>1. t = s
    BY <1>1, <1>2 DEF SequencedPacket
  <2>2. SlotMoves(s, t, 1)
    BY <2>1 DEF SlotMoves, KeepsClient
  <2> QED
    BY <1>00, <2>1, <2>2 DEF KeepsChallenges, SlotsMove, SendsTo
<1>3. CASE i # 0
  <2>1. i \in Slots /\ IsLive(s.slots[i]) /\ s.slots[i].client = c
    <3>1. i \in L
      BY <1>1, <1>3, FirstSlotIsOne
    <3> QED
      BY <3>1
  <2>2. PICK u : u = [s EXCEPT !.slots[i].port = port]
    OBVIOUS
  <2>3. t = ParseClientMessage(u, i, command)
    BY <1>1, <1>3, <2>2 DEF SequencedPacket
  <2>4. /\ u.slots = [s.slots EXCEPT ![i] = [@ EXCEPT !.port = port]]
        /\ u.inGame = s.inGame /\ u.net = s.net /\ u.challenges = s.challenges /\ u.issued = s.issued
    BY <1>0, <2>2 DEF ServerType
  <2>5. u.slots \in [Slots -> SlotType]
    <3>1. [s.slots[i] EXCEPT !.port = port] \in SlotType
      BY <1>0, <2>1 DEF SlotType
    <3> QED
      BY <1>0, <2>1, <2>4, <3>1
  <2>6. u \in ServerType
    BY <1>0, <2>2, <2>5 DEF ServerType
  <2>7. /\ u.slots[i].client = c /\ u.slots[i].challenge = s.slots[i].challenge
        /\ u.slots[i].state = s.slots[i].state /\ u.slots[i].port \in Nat
        /\ u.slots[i].heard = s.slots[i].heard /\ u.slots[i].recent = s.slots[i].recent
        /\ \A j \in Slots \ {i} : u.slots[j] = s.slots[j]
    BY <1>0, <2>1, <2>4 DEF SlotType
  <2>8. ServerOK(u)
    BY <2>1, <2>4, <2>6, <2>7 DEF ServerOK, IsLive
  <2>9. ASSUME NEW kinds, SendsTo(u, t, c, kinds) PROVE SendsTo(s, t, c, kinds)
    BY <2>4, <2>9 DEF SendsTo
  <2>10. ASSUME KeepsChallenges(u, t) PROVE KeepsChallenges(s, t)
    BY <2>4, <2>10 DEF KeepsChallenges
  <2>11. ASSUME SlotMoves(u, t, i) PROVE SlotsMove(s, t)
    <3>1. SlotMoves(s, t, i)
      <4>1. CASE KeepsClient(u.slots[i], t.slots[i])
        <5>1. KeepsClient(s.slots[i], t.slots[i])
          <6>1. /\ t.slots[i].client = s.slots[i].client /\ t.slots[i].challenge = s.slots[i].challenge
                /\ IsLive(t.slots[i]) => IsLive(s.slots[i])
                /\ IsInUse(t.slots[i]) => IsInUse(s.slots[i])
            BY <2>1, <2>7, <4>1 DEF KeepsClient, IsLive, IsInUse
          <6>2. t.slots[i].recent => s.slots[i].recent
            BY <2>7, <4>1, Zenon DEF KeepsClient
          <6>3. s.slots[i].heard => t.slots[i].heard
            BY <2>7, <4>1, Zenon DEF KeepsClient
          <6> QED
            BY <6>1, <6>2, <6>3 DEF KeepsClient
        <5> QED
          BY <2>7, <2>11, <5>1 DEF SlotMoves
      <4>2. CASE Empties(u.slots[i], t.slots[i])
        <5>1. Empties(s.slots[i], t.slots[i])
          BY <2>7, <4>2 DEF Empties, IsInUse
        <5> QED
          BY <2>7, <2>11, <5>1 DEF SlotMoves
      <4> QED
        BY <2>11, <4>1, <4>2 DEF SlotMoves
    <3> QED
      BY <2>1, <3>1 DEF SlotsMove
  <2>12. CASE command = "disconnect"
    <3>1. t = DropClient(u, i)
      BY <2>3, <2>12 DEF ParseClientMessage
    <3>2. u.slots[i].client # "none"
      BY <1>0, <2>7
    <3>3. /\ ServerOK(t) /\ KeepsChallenges(u, t)
          /\ t.slots = [u.slots EXCEPT ![i].state = "CS_ZOMBIE"]
          /\ SendsTo(u, t, u.slots[i].client, {"disconnect"})
      BY <2>1, <2>8, <3>1, <3>2, DropClientDrops
    <3>4. /\ t.slots[i] = [u.slots[i] EXCEPT !.state = "CS_ZOMBIE"]
          /\ \A j \in Slots \ {i} : t.slots[j] = u.slots[j]
      BY <2>1, <2>5, <3>3
    <3>5. SlotMoves(u, t, i)
      BY <2>1, <2>5, <2>7, <3>4 DEF SlotMoves, KeepsClient, IsLive, IsInUse, SlotType
    <3> QED
      BY <2>7, <2>9, <2>10, <2>11, <3>3, <3>5
  <2>13. CASE command = "configstrings"
    <3>1. t = [u EXCEPT !.slots[i].state = "CS_CONNECTED"]
      BY <2>3, <2>13 DEF ParseClientMessage
    <3>2. /\ t.slots = [u.slots EXCEPT ![i].state = "CS_CONNECTED"]
          /\ t.inGame = u.inGame /\ t.net = u.net /\ t.challenges = u.challenges /\ t.issued = u.issued
      BY <2>6, <3>1 DEF ServerType
    <3>3. t.slots \in [Slots -> SlotType]
      BY <2>1, <2>5, <3>2 DEF SlotType
    <3>4. t \in ServerType
      BY <2>6, <3>1, <3>3 DEF ServerType
    <3>5. /\ t.slots[i] = [u.slots[i] EXCEPT !.state = "CS_CONNECTED"]
          /\ \A j \in Slots \ {i} : t.slots[j] = u.slots[j]
      BY <2>1, <2>5, <3>2
    <3>6. SlotMoves(u, t, i)
      BY <2>1, <2>5, <2>7, <3>5 DEF SlotMoves, KeepsClient, IsLive, IsInUse, SlotType
    <3>7. ServerOK(t)
      <4>1. t.slots[i].client = c /\ u.inGame[i]
        BY <2>1, <2>5, <2>7, <2>8, <3>5 DEF SlotType, ServerOK, IsLive
      <4> QED
        BY <1>0, <2>8, <3>2, <3>4, <3>5, <4>1 DEF ServerOK
    <3>8. KeepsChallenges(u, t) /\ SendsTo(u, t, c, {"disconnect"})
      BY <3>2 DEF KeepsChallenges, SendsTo
    <3> QED
      BY <2>9, <2>10, <2>11, <3>6, <3>7, <3>8
  <2>14. CASE command = "new"
    <3>1. PICK v : v = [u EXCEPT !.slots[i].heard = TRUE, !.slots[i].state = "CS_CONNECTING"]
      OBVIOUS
    <3>2. t = Send(v, c, u.slots[i].port, "serverdata", 0)
      BY <2>3, <2>7, <2>14, <3>1 DEF ParseClientMessage
    <3>3. /\ v.slots = [u.slots EXCEPT ![i] = [@ EXCEPT !.heard = TRUE, !.state = "CS_CONNECTING"]]
          /\ v.inGame = u.inGame /\ v.net = u.net /\ v.challenges = u.challenges /\ v.issued = u.issued
      BY <2>1, <2>6, <3>1 DEF ServerType
    <3>4. v.slots \in [Slots -> SlotType]
      <4>1. [u.slots[i] EXCEPT !.heard = TRUE, !.state = "CS_CONNECTING"] \in SlotType
        BY <2>1, <2>5 DEF SlotType
      <4> QED
        BY <2>1, <2>5, <3>3, <4>1
    <3>5. v \in ServerType
      BY <2>1, <2>6, <3>1, <3>3, <3>4 DEF ServerType
    <3>6. /\ v.slots[i] = [u.slots[i] EXCEPT !.heard = TRUE, !.state = "CS_CONNECTING"]
          /\ \A j \in Slots \ {i} : v.slots[j] = u.slots[j]
      BY <2>1, <2>5, <3>3
    <3>7. v.slots[i].client = c /\ v.slots[i].heard /\ u.inGame[i]
      BY <2>1, <2>5, <2>7, <2>8, <3>6 DEF SlotType, ServerOK, IsLive
    <3>8. ServerOK(v) /\ "serverdata" \in KindsToClient /\ 0 \in 0..v.issued
      BY <1>0, <2>4, <2>8, <3>3, <3>5, <3>6, <3>7 DEF ServerOK, KindsToClient
    <3>9. ServerOK(t) /\ KeepsChallenges(v, t) /\ t.slots = v.slots /\ SendsTo(v, t, c, {"serverdata"})
      BY <3>2, <3>8, SendSends
    <3>10. SlotMoves(u, t, i)
      <4>1. KeepsClient(u.slots[i], v.slots[i])
        BY <2>1, <2>5, <2>7, <3>6 DEF KeepsClient, IsLive, IsInUse, SlotType
      <4> QED
        BY <3>6, <3>9, <4>1 DEF SlotMoves
    <3>11. KeepsChallenges(u, t) /\ SendsTo(u, t, c, {"serverdata"})
      BY <3>3, <3>9 DEF KeepsChallenges, SendsTo
    <3>12. HeardIn(t, c)
      <4> SUFFICES ASSUME NEW j \in Slots, IsLive(t.slots[j]), t.slots[j].client = c PROVE t.slots[j].heard
        BY DEF HeardIn
      <4>1. j = i
        <5> SUFFICES ASSUME j # i PROVE FALSE
          OBVIOUS
        <5>1. t.slots[j] = s.slots[j]
          BY <2>7, <3>6, <3>9
        <5> QED
          BY <2>1, <5>1 DEF IsLive, IsInUse, OnlySlot
      <4> QED
        BY <3>7, <3>9, <4>1
    <3> QED
      BY <2>9, <2>10, <2>11, <3>9, <3>10, <3>11, <3>12
  <2> QED
    BY <2>12, <2>13, <2>14 DEF Sequenced
<1> QED
  BY <1>2, <1>3

-----------------------------------------------------------------------------
(* What the steps of the server do.                                        *)

\* Everything a step may do to the slots and to the challenges.
ServerMoves(s, t) ==
  /\ ServerOK(t)
  /\ \/ KeepsChallenges(s, t) /\ SlotsMove(s, t)
     \/ \E c \in Clients : Issues(s, t, c) /\ t.slots = s.slots
     \/ \E c \in Clients, x \in Nat :
          /\ UsesChallenge(s, t, c, x)
          /\ SlotsMove(s, t) \/ (IPConnectionLimitPassed(s, c) /\ Connects(s, t, c, x))

\* Slots that stay as they are.
LEMMA SlotsStay ==
  ASSUME NEW s, NEW t, t.slots = s.slots
  PROVE  SlotsMove(s, t)
<1>1. 1 \in Slots
  BY CountsAssumption DEF Slots
<1>2. SlotMoves(s, t, 1)
  BY DEF SlotMoves, KeepsClient
<1> QED
  BY <1>1, <1>2 DEF SlotsMove

\* A slot that is cleared, and one that changes otherwise.
LEMMA SlotChanges ==
  ASSUME NEW s, ServerOK(s), NEW i \in Slots, NEW slot, NEW t, t.slots = [s.slots EXCEPT ![i] = slot],
         KeepsClient(s.slots[i], slot) \/ Empties(s.slots[i], slot)
  PROVE  SlotsMove(s, t)
<1>1. s.slots \in [Slots -> SlotType]
  BY DEF ServerOK, ServerType
<1>2. t.slots[i] = slot /\ \A j \in Slots \ {i} : t.slots[j] = s.slots[j]
  BY <1>1
<1>3. SlotMoves(s, t, i)
  BY <1>2 DEF SlotMoves
<1> QED
  BY <1>3 DEF SlotsMove

\* A free slot, and that of a bot, are empty.
LEMMA EmptySlots ==
  /\ FreeSlot \in SlotType /\ \A old : Empties(old, FreeSlot)
  /\ [FreeSlot EXCEPT !.state = "CS_CONNECTED", !.client = Bot] \in SlotType
  /\ Bot \notin Clients /\ "none" \notin Clients
BY ClientsAssumption DEF FreeSlot, SlotType, Empties, IsLive, Bot

\* A refusal moves no slot but to free one.
LEMMA RefusesMoves ==
  ASSUME NEW s, ServerOK(s), NEW c, NEW t, Refuses(s, t, c)
  PROVE  SlotsMove(s, t) /\ SendsTo(s, t, c, {"reject"})
<1>1. CASE t.slots = s.slots
  BY <1>1, SlotsStay DEF Refuses
<1>2. CASE \E i \in Slots : t.slots = [s.slots EXCEPT ![i] = FreeSlot]
  <2>1. PICK i \in Slots : t.slots = [s.slots EXCEPT ![i] = FreeSlot]
    BY <1>2
  <2>2. Empties(s.slots[i], FreeSlot)
    BY EmptySlots
  <2>3. SlotsMove(s, t)
    BY <2>1, <2>2, SlotChanges
  <2> QED
    BY <2>3 DEF Refuses
<1> QED
  BY <1>1, <1>2 DEF Refuses

\* What the server does to the packets of client c when it has read one.
ServerAnswers(s, t, c) ==
  \/ KeepsChallenges(s, t) /\ t.slots = s.slots /\ t.net = s.net
  \/ /\ KeepsChallenges(s, t) \/ Issues(s, t, c)
     /\ t.slots = s.slots /\ SendsTo(s, t, c, {"challenge"})
  \/ /\ KeepsChallenges(s, t) /\ SlotsMove(s, t)
     /\ SendsTo(s, t, c, {"disconnect"}) \/ (HeardIn(t, c) /\ SendsTo(s, t, c, {"serverdata"}))
  \/ KeepsChallenges(s, t) /\ t.slots = s.slots /\ SendsTo(s, t, c, {"reject"})
  \/ \E x \in Nat :
       /\ Head(clients[c].net).kind = "connect" /\ Head(clients[c].net).content = x
       /\ UsesChallenge(s, t, c, x)
       /\ \/ SlotsMove(s, t) /\ SendsTo(s, t, c, {"reject"})
          \/ IPConnectionLimitPassed(s, c) /\ Connects(s, t, c, x)

\* What the server does with a packet is an answer.
LEMMA ServerReceivesAnswers ==
  ASSUME TypeOK, ChallengesSound, OneSlotPerClient, NEW c \in Clients, ServerReceives(c)
  PROVE  ServerOK(server') /\ ServerAnswers(server, server', c)
<1> USE DEF ServerAnswers
<1>1. /\ ServerOK(server) /\ bounds \in Scenarios
      /\ OnlySlot(server, c)
      /\ \A e \in server.challenges : e.challenge \in 1..server.issued
  <2>1. ServerOK(server) /\ bounds \in Scenarios
    BY DEF TypeOK, ServerOK
  <2>2. OnlySlot(server, c)
    BY DEF OneSlotPerClient, OnlySlot
  <2>3. \A e \in server.challenges : e.challenge \in 1..server.issued
    BY DEF ChallengesSound
  <2> QED
    BY <2>1, <2>2, <2>3
<1>2. PICK s : s = server
  OBVIOUS
<1>3. PICK t : t = server'
  OBVIOUS
<1>4. /\ ServerOK(s)
      /\ OnlySlot(s, c)
      /\ \A e \in s.challenges : e.challenge \in 1..s.issued
  BY <1>1, <1>2
<1>5. PICK p : p = Head(clients[c].net)
  OBVIOUS
<1>6. p \in ToServer
  <2>1. clients[c].net \in Seq(ToServer) /\ clients[c].net # <<>>
    BY DEF TypeOK, ClientType, ServerReceives
  <2> QED
    BY <1>5, <2>1
<1>7. PICK port \in Nat : port = p.port
  BY <1>6 DEF ToServer
<1>8. PICK x \in Nat : x = p.content
  BY <1>6 DEF ToServer
<1>9. CASE server' = server
  <2>1. KeepsChallenges(s, t) /\ t.slots = s.slots /\ t.net = s.net
    BY <1>2, <1>3, <1>9 DEF KeepsChallenges
  <2> QED
    BY <1>1, <1>2, <1>3, <1>9, <2>1
<1>10. CASE p.kind = "getchallenge" /\ server' = GetChallenge(server, c, p.port)
  <2>1. t = GetChallenge(s, c, port)
    BY <1>2, <1>3, <1>7, <1>10
  <2>2. ServerOK(t) /\ t.slots = s.slots /\ (KeepsChallenges(s, t) \/ Issues(s, t, c)) /\ SendsTo(s, t, c, {"challenge"})
    BY <1>1, <1>4, <2>1, GetChallengeAnswers
  <2>3. ServerAnswers(s, t, c)
    BY <2>2
  <2> QED
    BY <1>2, <1>3, <2>2, <2>3
<1>11. CASE p.kind = "connect" /\ \E accepts \in BOOLEAN : server' = ConnectRequest(server, c, p.port, p.content, accepts)
  <2>1. PICK accepts \in BOOLEAN : server' = ConnectRequest(server, c, p.port, p.content, accepts)
    BY <1>11
  <2>2. t = ConnectRequest(s, c, port, x, accepts)
    BY <1>2, <1>3, <1>7, <1>8, <2>1
  <2>3. /\ ServerOK(t)
        /\ \/ KeepsChallenges(s, t) /\ t.slots = s.slots /\ SendsTo(s, t, c, {"reject"})
           \/ /\ UsesChallenge(s, t, c, x)
              /\ \/ Refuses(s, t, c)
                 \/ t.slots = s.slots /\ t.net = s.net
                 \/ IPConnectionLimitPassed(s, c) /\ Connects(s, t, c, x)
    BY <1>4, <2>2, ConnectRequestConnects
  <2>4. CASE KeepsChallenges(s, t) /\ t.slots = s.slots /\ SendsTo(s, t, c, {"reject"})
    <3>1. ServerAnswers(s, t, c)
      BY <2>4
    <3> QED
      BY <1>2, <1>3, <2>3, <3>1
  <2>5. CASE UsesChallenge(s, t, c, x) /\ Refuses(s, t, c)
    <3>1. SlotsMove(s, t) /\ SendsTo(s, t, c, {"reject"})
      BY <1>4, <2>5, RefusesMoves
    <3>2. ServerAnswers(s, t, c)
      BY <1>5, <1>8, <1>11, <2>5, <3>1
    <3> QED
      BY <1>2, <1>3, <2>3, <3>2
  <2>6. CASE UsesChallenge(s, t, c, x) /\ t.slots = s.slots /\ t.net = s.net
    <3>1. SlotsMove(s, t)
      BY <2>6, SlotsStay
    <3>2. SendsTo(s, t, c, {"reject"})
      BY <2>6 DEF SendsTo
    <3>3. ServerAnswers(s, t, c)
      BY <1>5, <1>8, <1>11, <2>6, <3>1, <3>2
    <3> QED
      BY <1>2, <1>3, <2>3, <3>3
  <2>7. CASE UsesChallenge(s, t, c, x) /\ IPConnectionLimitPassed(s, c) /\ Connects(s, t, c, x)
    <3>1. ServerAnswers(s, t, c)
      BY <1>5, <1>8, <1>11, <2>7
    <3> QED
      BY <1>2, <1>3, <2>3, <3>1
  <2> QED
    BY <2>3, <2>4, <2>5, <2>6, <2>7
<1>12. CASE p.kind \in Sequenced /\ server' = SequencedPacket(server, c, p.port, p.kind)
  <2>1. PICK command \in Sequenced : command = p.kind
    BY <1>12
  <2>2. t = SequencedPacket(s, c, port, command)
    BY <1>2, <1>3, <1>7, <1>12, <2>1
  <2>3. /\ ServerOK(t) /\ KeepsChallenges(s, t) /\ SlotsMove(s, t)
        /\ SendsTo(s, t, c, {"disconnect"}) \/ (HeardIn(t, c) /\ SendsTo(s, t, c, {"serverdata"}))
    BY <1>4, <2>2, SequencedPacketHears
  <2>4. ServerAnswers(s, t, c)
    BY <2>3
  <2> QED
    BY <1>2, <1>3, <2>3, <2>4
<1>13. \A accepts \in {TRUE, ~bounds.refuses} : accepts \in BOOLEAN
  OBVIOUS
<1> QED
  BY <1>5, <1>9, <1>10, <1>11, <1>12, <1>13 DEF ServerReceives

\* The steps of the server that no packet is the reason for.
LEMMA ServerAlone ==
  ASSUME TypeOK, FakeConnect \/ \E i \in Slots : SlotNext(i)
  PROVE  /\ ServerOK(server') /\ KeepsChallenges(server, server') /\ SlotsMove(server, server')
         /\ server'.net = server.net \/ \E c \in Clients : SendsTo(server, server', c, {"disconnect"})
<1>1. PICK s : s = server
  OBVIOUS
<1>2. PICK t : t = server'
  OBVIOUS
<1>3. ServerOK(s)
  BY <1>1 DEF TypeOK, ServerOK
<1>4. s \in ServerType /\ s.slots \in [Slots -> SlotType] /\ s.inGame \in [Slots -> BOOLEAN]
  BY <1>3 DEF ServerOK, ServerType
<1>5. CASE FakeConnect
  <2>1. FreeSlots(s) # {}
    BY <1>1, <1>5 DEF FakeConnect
  <2>2. PICK i \in FreeSlots(s) : i = FirstSlot(FreeSlots(s))
    BY <2>1, FirstSlotIsOne DEF FreeSlots
  <2>3. i \in Slots /\ ~IsInUse(s.slots[i])
    BY <2>2 DEF FreeSlots
  <2>4. PICK accepts \in {TRUE, ~bounds.refuses} :
          t = IF accepts THEN [ClientConnect(s, i, Bot, 0, 0, accepts) EXCEPT !.slots[i].state = "CS_CONNECTED"]
              ELSE ClientConnect(s, i, Bot, 0, 0, accepts)
    BY <1>1, <1>2, <1>5, <2>2 DEF FakeConnect
  <2>5. CASE accepts
    <3>1. PICK bot : bot = [FreeSlot EXCEPT !.state = "CS_CONNECTED", !.client = Bot]
      OBVIOUS
    <3>2. PICK connecting : connecting = [FreeSlot EXCEPT !.state = "CS_CONNECTING", !.client = Bot, !.port = 0,
                                                       !.challenge = 0, !.recent = TRUE]
      OBVIOUS
    <3>3. PICK u : u = [s EXCEPT !.slots[i] = connecting, !.inGame[i] = TRUE]
      OBVIOUS
    <3>4. t = [u EXCEPT !.slots[i].state = "CS_CONNECTED"]
      BY <2>4, <2>5, <3>2, <3>3 DEF ClientConnect
    <3>5. connecting \in SlotType
      BY <3>2 DEF SlotType, FreeSlot
    <3>6. /\ u.slots = [s.slots EXCEPT ![i] = connecting] /\ u.inGame = [s.inGame EXCEPT ![i] = TRUE]
          /\ u.net = s.net /\ u.challenges = s.challenges /\ u.issued = s.issued
      BY <1>4, <3>3 DEF ServerType
    <3>7. u.slots \in [Slots -> SlotType] /\ u.inGame \in [Slots -> BOOLEAN] /\ u.slots[i] = connecting
      BY <1>4, <2>3, <3>5, <3>6
    <3>8. u \in ServerType
      BY <1>4, <3>3, <3>7 DEF ServerType
    <3> DEFINE new == [connecting EXCEPT !.state = "CS_CONNECTED"]
    <3>9. /\ t.slots = [u.slots EXCEPT ![i] = new]
          /\ t.inGame = u.inGame /\ t.net = u.net /\ t.challenges = u.challenges /\ t.issued = u.issued
      BY <2>3, <3>4, <3>7, <3>8 DEF ServerType
    <3>10. new \in SlotType /\ new.client = Bot
      BY <3>2, <3>5 DEF SlotType, FreeSlot
    <3> HIDE DEF new
    <3>11. /\ t.slots = [s.slots EXCEPT ![i] = new] /\ t.slots \in [Slots -> SlotType]
           /\ t.slots[i] = new
      BY <1>4, <2>3, <3>6, <3>9, <3>10
    <3>12. t \in ServerType
      BY <3>4, <3>8, <3>11 DEF ServerType
    <3>13. Empties(s.slots[i], new)
      BY <2>3, <3>10, EmptySlots DEF Empties
    <3>14. SlotsMove(s, t)
      BY <1>3, <2>3, <3>11, <3>13, SlotChanges
    <3>15. ServerOK(t)
      <4> SUFFICES ASSUME NEW j \in Slots, IsLive(t.slots[j]) PROVE t.slots[j].client # "none" /\ t.inGame[j]
        BY <3>12 DEF ServerOK
      <4>1. CASE j = i
        <5>1. t.inGame[i] = TRUE /\ t.slots[i].client = Bot
          BY <1>4, <2>3, <3>6, <3>9, <3>10, <3>11
        <5> QED
          BY <4>1, <5>1 DEF Bot
      <4>2. CASE j # i
        <5>1. t.slots[j] = s.slots[j] /\ t.inGame[j] = s.inGame[j]
          BY <1>4, <2>3, <3>6, <3>9, <3>11, <4>2
        <5> QED
          BY <1>3, <5>1 DEF ServerOK
      <4> QED
        BY <4>1, <4>2
    <3> QED
      BY <1>1, <1>2, <3>6, <3>9, <3>14, <3>15 DEF KeepsChallenges
  <2>6. CASE ~accepts
    <3>1. t = [s EXCEPT !.slots[i] = FreeSlot]
      BY <2>4, <2>6 DEF ClientConnect
    <3>2. /\ t.slots = [s.slots EXCEPT ![i] = FreeSlot] /\ t.inGame = s.inGame
          /\ t.net = s.net /\ t.challenges = s.challenges /\ t.issued = s.issued
      BY <1>4, <3>1 DEF ServerType
    <3>3. /\ t.slots \in [Slots -> SlotType] /\ t.slots[i] = FreeSlot
          /\ \A j \in Slots \ {i} : t.slots[j] = s.slots[j]
      BY <1>4, <2>3, <3>2, EmptySlots
    <3>4. t \in ServerType
      BY <1>4, <3>1, <3>3 DEF ServerType
    <3>5. ServerOK(t)
      BY <1>3, <3>2, <3>3, <3>4 DEF ServerOK, IsLive, FreeSlot
    <3>6. Empties(s.slots[i], FreeSlot)
      BY EmptySlots
    <3>7. SlotsMove(s, t)
      BY <1>3, <2>3, <3>2, <3>6, SlotChanges
    <3> QED
      BY <1>1, <1>2, <3>2, <3>5, <3>7 DEF KeepsChallenges
  <2> QED
    BY <2>5, <2>6
<1>6. CASE \E i \in Slots : Kick(i)
  <2>1. PICK i \in Slots : Kick(i)
    BY <1>6
  <2>2. t = DropClient(s, i) /\ IsLive(s.slots[i])
    BY <1>1, <1>2, <2>1 DEF Kick, IsLive
  <2>3. s.slots[i].client # "none"
    BY <1>3, <2>2 DEF ServerOK
  <2>4. /\ ServerOK(t) /\ KeepsChallenges(s, t)
        /\ t.slots = [s.slots EXCEPT ![i].state = "CS_ZOMBIE"]
        /\ SendsTo(s, t, s.slots[i].client, {"disconnect"})
        /\ s.slots[i].client = Bot => t.net = s.net
    BY <1>3, <2>2, <2>3, DropClientDrops
  <2>5. KeepsClient(s.slots[i], [s.slots[i] EXCEPT !.state = "CS_ZOMBIE"])
    BY <1>4, <2>2 DEF KeepsClient, IsLive, IsInUse, SlotType
  <2>6. SlotsMove(s, t)
    BY <1>3, <2>4, <2>5, SlotChanges
  <2>7. t.net = s.net \/ s.slots[i].client \in Clients
    BY <1>4, <2>3, <2>4 DEF SlotType
  <2> QED
    BY <1>1, <1>2, <2>4, <2>6, <2>7
<1>7. CASE \E i \in Slots : ReconnectLimitPasses(i)
  <2>1. PICK i \in Slots : ReconnectLimitPasses(i)
    BY <1>7
  <2>2. t = [s EXCEPT !.slots[i].recent = FALSE]
    BY <1>1, <1>2, <2>1 DEF ReconnectLimitPasses
  <2> DEFINE new == [s.slots[i] EXCEPT !.recent = FALSE]
  <2>3. /\ t.slots = [s.slots EXCEPT ![i] = new] /\ t.inGame = s.inGame
        /\ t.net = s.net /\ t.challenges = s.challenges /\ t.issued = s.issued
    BY <1>4, <2>2 DEF ServerType
  <2>4. /\ new \in SlotType /\ new.state = s.slots[i].state /\ new.client = s.slots[i].client
        /\ KeepsClient(s.slots[i], new)
    BY <1>4 DEF KeepsClient, IsLive, IsInUse, SlotType
  <2> HIDE DEF new
  <2>5. /\ t.slots \in [Slots -> SlotType] /\ t.slots[i] = new
        /\ \A j \in Slots \ {i} : t.slots[j] = s.slots[j]
    BY <1>4, <2>3, <2>4
  <2>6. t \in ServerType
    BY <1>4, <2>2, <2>5 DEF ServerType
  <2>7. ServerOK(t)
    BY <1>3, <2>3, <2>4, <2>5, <2>6 DEF ServerOK, IsLive
  <2>8. SlotsMove(s, t)
    BY <1>3, <2>3, <2>4, SlotChanges
  <2> QED
    BY <1>1, <1>2, <2>3, <2>7, <2>8 DEF KeepsChallenges
<1>8. CASE \E i \in Slots : CheckTimeouts(i)
  <2>1. PICK i \in Slots : CheckTimeouts(i)
    BY <1>8
  <2>2. PICK u : /\ ServerOK(u) /\ KeepsChallenges(s, u) /\ s.slots[i].state # "CS_FREE"
                 /\ \A j \in Slots \ {i} : u.slots[j] = s.slots[j]
                 /\ \E state \in {"CS_ZOMBIE", s.slots[i].state} : u.slots[i] = [s.slots[i] EXCEPT !.state = state]
                 /\ u.net = s.net \/ \E c \in Clients : SendsTo(s, u, c, {"disconnect"})
                 /\ t = [u EXCEPT !.slots[i].state = "CS_FREE"]
    <3>1. CASE s.slots[i].state = "CS_ZOMBIE" /\ t = [s EXCEPT !.slots[i].state = "CS_FREE"]
      <4>1. s.slots[i] = [s.slots[i] EXCEPT !.state = s.slots[i].state]
        BY <1>4 DEF SlotType
      <4>2. KeepsChallenges(s, s) /\ s.slots[i].state \in {"CS_ZOMBIE", s.slots[i].state} /\ s.slots[i].state # "CS_FREE"
        BY <3>1 DEF KeepsChallenges
      <4> QED
        BY <1>3, <3>1, <4>1, <4>2
    <3>2. CASE IsLive(s.slots[i]) /\ t = [DropClient(s, i) EXCEPT !.slots[i].state = "CS_FREE"]
      <4>1. PICK u : u = DropClient(s, i)
        OBVIOUS
      <4>2. s.slots[i].client # "none" /\ s.slots[i].state # "CS_FREE"
        BY <1>3, <3>2 DEF ServerOK, IsLive
      <4>3. /\ ServerOK(u) /\ KeepsChallenges(s, u)
            /\ u.slots = [s.slots EXCEPT ![i].state = "CS_ZOMBIE"]
            /\ SendsTo(s, u, s.slots[i].client, {"disconnect"})
            /\ s.slots[i].client = Bot => u.net = s.net
        BY <1>3, <4>1, <4>2, DropClientDrops
      <4>4. u.net = s.net \/ \E c \in Clients : SendsTo(s, u, c, {"disconnect"})
        BY <1>4, <4>2, <4>3 DEF SlotType
      <4>5. /\ u.slots[i] = [s.slots[i] EXCEPT !.state = "CS_ZOMBIE"]
            /\ \A j \in Slots \ {i} : u.slots[j] = s.slots[j]
        BY <1>4, <4>3
      <4> QED
        BY <3>2, <4>1, <4>2, <4>3, <4>4, <4>5
    <3> QED
      BY <1>1, <1>2, <2>1, <3>1, <3>2 DEF CheckTimeouts, TimesOut
  <2>3. u \in ServerType /\ u.slots \in [Slots -> SlotType]
    BY <2>2 DEF ServerOK, ServerType
  <2> DEFINE new == [u.slots[i] EXCEPT !.state = "CS_FREE"]
  <2>4. /\ t.slots = [u.slots EXCEPT ![i] = new] /\ t.inGame = u.inGame
        /\ t.net = u.net /\ t.challenges = u.challenges /\ t.issued = u.issued
    BY <2>2, <2>3 DEF ServerType
  <2>5. new \in SlotType /\ ~IsLive(new)
    BY <2>3 DEF IsLive, SlotType
  <2>6. KeepsClient(s.slots[i], new)
    BY <1>4, <2>2 DEF KeepsClient, IsLive, IsInUse, SlotType
  <2> HIDE DEF new
  <2>7. /\ t.slots \in [Slots -> SlotType] /\ t.slots[i] = new
        /\ \A j \in Slots \ {i} : t.slots[j] = u.slots[j]
    BY <2>3, <2>4, <2>5
  <2>8. t \in ServerType
    BY <2>2, <2>3, <2>7 DEF ServerType
  <2>9. ServerOK(t)
    BY <2>2, <2>4, <2>5, <2>7, <2>8 DEF ServerOK
  <2>10. SlotMoves(s, t, i)
    BY <2>2, <2>6, <2>7 DEF SlotMoves
  <2>11. t.net = s.net \/ \E c \in Clients : SendsTo(s, t, c, {"disconnect"})
    <3>1. CASE u.net = s.net
      BY <2>4, <3>1
    <3>2. CASE \E c \in Clients : SendsTo(s, u, c, {"disconnect"})
      <4>1. PICK c \in Clients : SendsTo(s, u, c, {"disconnect"})
        BY <3>2
      <4>2. SendsTo(s, t, c, {"disconnect"})
        BY <2>4, <4>1 DEF SendsTo
      <4> QED
        BY <4>2
    <3> QED
      BY <2>2, <3>1, <3>2
  <2> QED
    BY <1>1, <1>2, <2>2, <2>4, <2>9, <2>10, <2>11 DEF KeepsChallenges, SlotsMove
<1> QED
  BY <1>5, <1>6, <1>7, <1>8 DEF SlotNext

\* The steps that only change packets of the server.
NetSteps(c) ==
  /\ server' = [server EXCEPT !.net[c] = server'.net[c]]
  /\ \/ server.net[c] # <<>> /\ server'.net[c] \in {Tail(server.net[c]), Append(server.net[c], Head(server.net[c]))}
     \/ server'.net[c] = <<>>

\* They change nothing but those.
LEMMA NetStepsChange ==
  ASSUME TypeOK, NEW c \in Clients, NetSteps(c)
  PROVE  /\ ServerOK(server') /\ KeepsChallenges(server, server') /\ server'.slots = server.slots
         /\ server'.net = [server.net EXCEPT ![c] = server'.net[c]]
<1>1. ServerOK(server)
  BY DEF TypeOK, ServerOK
<1>2. server.net[c] \in Seq(ToClient)
  BY <1>1 DEF ServerOK, ServerType
<1>3. server'.net[c] \in Seq(ToClient)
  <2>1. ASSUME NEW q \in Seq(ToClient), q # <<>>
        PROVE  Tail(q) \in Seq(ToClient) /\ Append(q, Head(q)) \in Seq(ToClient)
    BY <2>1
  <2>2. <<>> \in Seq(ToClient)
    OBVIOUS
  <2> QED
    BY <1>2, <2>1, <2>2 DEF NetSteps
<1>4. server' = [server EXCEPT !.net[c] = server'.net[c]]
  BY DEF NetSteps
<1>5. server \in ServerType /\ server.net \in [Clients -> Seq(ToClient)]
  BY <1>1 DEF ServerOK, ServerType
<1>6. /\ server'.slots = server.slots /\ server'.inGame = server.inGame
      /\ server'.net = [server.net EXCEPT ![c] = server'.net[c]]
      /\ server'.challenges = server.challenges /\ server'.issued = server.issued
  BY <1>4, <1>5 DEF ServerType
<1>7. server'.net \in [Clients -> Seq(ToClient)]
  BY <1>3, <1>5, <1>6
<1>8. server' \in ServerType
  BY <1>4, <1>5, <1>7 DEF ServerType
<1> QED
  BY <1>1, <1>6, <1>8 DEF ServerOK, KeepsChallenges

\* Which steps only change packets of the server, and which do not change the server.
LEMMA OtherSteps ==
  ASSUME TypeOK, NEW c \in Clients, ClientNext(c), ~ServerReceives(c)
  PROVE  server' = server \/ NetSteps(c)
<1>1. server \in ServerType /\ server.net \in [Clients -> Seq(ToClient)]
  BY DEF TypeOK, ServerType
<1>2. ASSUME NEW q, server' = [server EXCEPT !.net[c] = q]
      PROVE  server'.net[c] = q /\ server' = [server EXCEPT !.net[c] = server'.net[c]]
  BY <1>1, <1>2 DEF ServerType
<1>3. CASE ClientReceives(c) \/ Lose(c)
  BY <1>2, <1>3 DEF ClientReceives, Lose, NetSteps
<1>4. CASE Delay(c)
  BY <1>2, <1>4 DEF Delay, NetSteps
<1>5. CASE Rebind(c)
  BY <1>2, <1>5 DEF Rebind, NetSteps
<1> QED
  BY <1>3, <1>4, <1>5 DEF ClientNext, Connect, Disconnect, CheckForResend, ClientSends, ClientTimesOut

\* Every step is one that ServerMoves describes.
LEMMA StepMoves ==
  ASSUME TypeOK, ChallengesSound, OneSlotPerClient, [Next]_vars
  PROVE  ServerMoves(server, server') /\ bounds' = bounds
<1>1. bounds' = bounds
  BY DEF Next, ClientNext, SlotNext, vars, FakeConnect, Kick, ReconnectLimitPasses, CheckTimeouts, Connect,
         Disconnect, CheckForResend, ClientReceives, ClientSends, ClientTimesOut, ServerReceives, Lose, Delay, Rebind
<1>2. ServerOK(server)
  BY DEF TypeOK, ServerOK
<1>3. CASE server' = server
  <2>1. KeepsChallenges(server, server') /\ server'.slots = server.slots
    BY <1>3 DEF KeepsChallenges
  <2>2. SlotsMove(server, server')
    BY <2>1, SlotsStay
  <2>3. ServerOK(server')
    BY <1>2, <1>3
  <2> QED
    BY <1>1, <2>1, <2>2, <2>3 DEF ServerMoves
<1>4. CASE FakeConnect \/ \E i \in Slots : SlotNext(i)
  <2>1. ServerOK(server') /\ KeepsChallenges(server, server') /\ SlotsMove(server, server')
    BY <1>4, ServerAlone
  <2> QED
    BY <1>1, <2>1 DEF ServerMoves
<1>5. ASSUME NEW c \in Clients, ServerReceives(c) PROVE ServerMoves(server, server')
  <2>1. ServerOK(server') /\ ServerAnswers(server, server', c)
    BY <1>5, ServerReceivesAnswers
  <2>2. server'.slots = server.slots => SlotsMove(server, server')
    BY SlotsStay
  <2> QED
    BY <2>1, <2>2 DEF ServerAnswers, ServerMoves
<1>6. ASSUME NEW c \in Clients, ClientNext(c), ~ServerReceives(c), server' # server PROVE ServerMoves(server, server')
  <2>1. ServerOK(server') /\ KeepsChallenges(server, server') /\ server'.slots = server.slots
    BY <1>6, OtherSteps, NetStepsChange
  <2>2. SlotsMove(server, server')
    BY <2>1, SlotsStay
  <2> QED
    BY <2>1, <2>2 DEF ServerMoves
<1> QED
  BY <1>1, <1>3, <1>4, <1>5, <1>6 DEF Next, vars

-----------------------------------------------------------------------------
(* The slots and the challenges.                                           *)

\* What slot j has of a client it had before.
Inherits(s, t, j) ==
  t.slots[j].client \in Clients =>
    /\ s.slots[j].client = t.slots[j].client /\ s.slots[j].challenge = t.slots[j].challenge
    /\ IsLive(t.slots[j]) => IsLive(s.slots[j])
    /\ IsInUse(t.slots[j]) => IsInUse(s.slots[j])
    /\ t.slots[j].recent => s.slots[j].recent
    /\ s.slots[j].heard => t.slots[j].heard

\* Slots that move inherit from what they were.
LEMMA MovesInherit ==
  ASSUME NEW s, NEW t, SlotsMove(s, t)
  PROVE  \A j \in Slots : Inherits(s, t, j)
<1>1. PICK i \in Slots : SlotMoves(s, t, i)
  BY DEF SlotsMove
<1>2. ASSUME NEW j \in Slots, t.slots[j] = s.slots[j] PROVE Inherits(s, t, j)
  BY <1>2 DEF Inherits
<1>3. Inherits(s, t, i)
  <2>1. CASE KeepsClient(s.slots[i], t.slots[i])
    BY <2>1 DEF KeepsClient, Inherits
  <2>2. CASE Empties(s.slots[i], t.slots[i])
    BY <2>2 DEF Empties, Inherits
  <2> QED
    BY <1>1, <2>1, <2>2 DEF SlotMoves
<1> QED
  BY <1>1, <1>2, <1>3 DEF SlotMoves

\* The slot that a client gets, and the others.
ConnectsTo(s, t, c, x, i) ==
  /\ MayGet(s, i, c)
  /\ t.slots[i].client = c /\ t.slots[i].challenge = x /\ IsLive(t.slots[i])
  /\ \A j \in Slots \ {i} : t.slots[j] = s.slots[j]

\* Who connects gets one slot.
LEMMA ConnectsToOne ==
  ASSUME NEW s, ServerOK(s), NEW c \in Clients, NEW x \in Nat, NEW t, Connects(s, t, c, x)
  PROVE  /\ \E i \in Slots : ConnectsTo(s, t, c, x, i)
         /\ SendsTo(s, t, c, {"client_connect"})
<1>1. PICK i \in Slots, port \in Nat : /\ MayGet(s, i, c) /\ t.slots = [s.slots EXCEPT ![i] = SlotOf(c, port, x)]
                                       /\ SendsTo(s, t, c, {"client_connect"})
  BY DEF Connects
<1>2. s.slots \in [Slots -> SlotType]
  BY DEF ServerOK, ServerType
<1>3. t.slots[i] = SlotOf(c, port, x) /\ \A j \in Slots \ {i} : t.slots[j] = s.slots[j]
  BY <1>1, <1>2
<1>4. /\ SlotOf(c, port, x).client = c /\ SlotOf(c, port, x).challenge = x
      /\ IsLive(SlotOf(c, port, x))
  BY DEF SlotOf, FreeSlot, IsLive
<1>5. ConnectsTo(s, t, c, x, i)
  BY <1>1, <1>3, <1>4 DEF ConnectsTo
<1> QED
  BY <1>1, <1>5

\* One slot is somebody else's after the step, or none.
LEMMA MovesOrConnects ==
  ASSUME NEW s, NEW t, ServerOK(s), ServerMoves(s, t)
  PROVE  \/ SlotsMove(s, t)
         \/ \E c \in Clients, x \in Nat, i \in Slots :
              UsesChallenge(s, t, c, x) /\ IPConnectionLimitPassed(s, c) /\ ConnectsTo(s, t, c, x, i)
<1>1. CASE \E c \in Clients : Issues(s, t, c) /\ t.slots = s.slots
  BY <1>1, SlotsStay
<1>2. ASSUME NEW c \in Clients, NEW x \in Nat, UsesChallenge(s, t, c, x),
             IPConnectionLimitPassed(s, c), Connects(s, t, c, x)
      PROVE  \E i \in Slots : ConnectsTo(s, t, c, x, i)
  BY <1>2, ConnectsToOne
<1> QED
  BY <1>1, <1>2 DEF ServerMoves

\* A challenge that is used is one of the host's.
LEMMA UsedWasIssued ==
  ASSUME NEW s, NEW t, NEW c, NEW x, UsesChallenge(s, t, c, x)
  PROVE  \E e \in s.challenges : e.host = bounds.hostOf[c] /\ e.challenge = x
BY DEF UsesChallenge, ChallengesOf

\* The oldest challenge makes room for one more.
LEMMA RoomIsMade ==
  ASSUME NEW s, s.challenges \in SUBSET [host : STRING, challenge : Nat], IsFiniteSet(s.challenges),
         Cardinality(s.challenges) <= MaxChallenges, NEW e, e \notin s.challenges
  PROVE  /\ MakeRoom(s) \subseteq s.challenges
         /\ IsFiniteSet(MakeRoom(s) \cup {e})
         /\ Cardinality(MakeRoom(s) \cup {e}) <= MaxChallenges
<1>1. MaxChallenges \in Nat /\ MaxChallenges # 0 /\ Cardinality(s.challenges) \in Nat
  BY CountsAssumption, FS_CardinalityType
<1>2. MakeRoom(s) \subseteq s.challenges /\ e \notin MakeRoom(s)
  BY DEF MakeRoom
<1>3. IsFiniteSet(MakeRoom(s)) /\ Cardinality(MakeRoom(s)) \in Nat
  BY <1>2, FS_Subset, FS_CardinalityType
<1>4. Cardinality(MakeRoom(s)) < MaxChallenges
  <2>1. CASE Cardinality(s.challenges) = MaxChallenges
    <3>1. s.challenges # {}
      BY <1>1, <2>1, FS_EmptySet
    <3>2. {f.challenge : f \in s.challenges} \in SUBSET Nat
      OBVIOUS
    <3>3. {f.challenge : f \in s.challenges} # {}
      BY <3>1
    <3>4. \E f \in s.challenges : \A g \in s.challenges : f.challenge <= g.challenge
      <4>1. PICK y \in {f.challenge : f \in s.challenges} : \A z \in {f.challenge : f \in s.challenges} : y <= z
        BY <3>2, <3>3, LeastNumber
      <4> QED
        BY <4>1
    <3>5. Oldest(s.challenges) \in s.challenges
      BY <3>4 DEF Oldest
    <3>6. Cardinality(s.challenges \ {Oldest(s.challenges)}) = Cardinality(s.challenges) - 1
      BY <3>5, FS_RemoveElement
    <3> QED
      BY <1>1, <2>1, <3>6 DEF MakeRoom
  <2>2. CASE Cardinality(s.challenges) # MaxChallenges
    BY <1>1, <2>2 DEF MakeRoom
  <2> QED
    BY <2>1, <2>2
<1>5. /\ IsFiniteSet(MakeRoom(s) \cup {e})
      /\ Cardinality(MakeRoom(s) \cup {e}) = Cardinality(MakeRoom(s)) + 1
  BY <1>2, <1>3, FS_AddElement
<1> QED
  BY <1>1, <1>2, <1>3, <1>4, <1>5

\* The challenges that are there stay different from each other, and few.
LEMMA ChallengesKept ==
  ASSUME TypeOK, ChallengesSound, ServerMoves(server, server'), bounds' = bounds
  PROVE  ChallengesSound' /\ Cardinality(server'.challenges) <= MaxChallenges
<1>1. /\ server.challenges \in SUBSET [host : STRING, challenge : Nat] /\ server.issued \in Nat
      /\ IsFiniteSet(server.challenges) /\ Cardinality(server.challenges) <= MaxChallenges
      /\ bounds \in Scenarios
  BY DEF TypeOK, ServerType, ChallengesSound
<1>2. CASE KeepsChallenges(server, server')
  BY <1>1, <1>2 DEF KeepsChallenges, ChallengesSound
<1>3. ASSUME NEW c \in Clients, Issues(server, server', c)
      PROVE  ChallengesSound' /\ Cardinality(server'.challenges) <= MaxChallenges
  <2>1. PICK e : e = [host |-> bounds.hostOf[c], challenge |-> server.issued + 1]
    OBVIOUS
  <2>2. e.host = bounds.hostOf[c] /\ e.challenge = server.issued + 1
    BY <2>1
  <2>3. e \notin server.challenges
    BY <1>1, <2>2 DEF ChallengesSound
  <2>4. PICK s : s = server
    OBVIOUS
  <2>5. /\ MakeRoom(s) \subseteq s.challenges
        /\ IsFiniteSet(MakeRoom(s) \cup {e})
        /\ Cardinality(MakeRoom(s) \cup {e}) <= MaxChallenges
    BY <1>1, <2>3, <2>4, RoomIsMade
  <2>6. server'.challenges = MakeRoom(s) \cup {e} /\ server'.issued = server.issued + 1
    BY <1>3, <2>1, <2>4 DEF Issues
  <2>7. \A f \in MakeRoom(s) : f.host # e.host /\ f.challenge # e.challenge
    <3>1. \A f \in server.challenges : f.host # bounds.hostOf[c]
      BY <1>3 DEF Issues, ChallengesOf
    <3>2. \A f \in server.challenges : f.challenge # server.issued + 1
      BY <1>1 DEF ChallengesSound
    <3> QED
      BY <2>2, <2>4, <2>5, <3>1, <3>2
  <2>8. \A f \in server'.challenges : f.challenge \in 1..server'.issued
    BY <1>1, <2>2, <2>4, <2>5, <2>6 DEF ChallengesSound
  <2>9. \A f, g \in server'.challenges : f.host = g.host \/ f.challenge = g.challenge => f = g
    BY <2>4, <2>5, <2>6, <2>7 DEF ChallengesSound
  <2> QED
    BY <2>5, <2>6, <2>8, <2>9 DEF ChallengesSound
<1>4. ASSUME NEW c, NEW x, UsesChallenge(server, server', c, x)
      PROVE  ChallengesSound' /\ Cardinality(server'.challenges) <= MaxChallenges
  <2>1. server'.challenges \subseteq server.challenges /\ server'.issued = server.issued
    BY <1>4 DEF UsesChallenge
  <2>2. /\ IsFiniteSet(server'.challenges) /\ Cardinality(server'.challenges) <= Cardinality(server.challenges)
        /\ Cardinality(server'.challenges) \in Nat /\ Cardinality(server.challenges) \in Nat
    BY <1>1, <2>1, FS_Subset, FS_CardinalityType
  <2>3. Cardinality(server'.challenges) <= MaxChallenges
    BY <1>1, <2>2, CountsAssumption
  <2> QED
    BY <2>1, <2>2, <2>3 DEF ChallengesSound
<1> QED
  BY <1>2, <1>3, <1>4 DEF ServerMoves

\* A challenge that has got a slot gets no other one.
LEMMA SpentKept ==
  ASSUME TypeOK, ChallengesSound, ChallengesSpent, ServerMoves(server, server'), bounds' = bounds
  PROVE  ChallengesSpent'
<1>1. ServerOK(server) /\ server.issued \in Nat /\ server'.issued \in Nat /\ server.issued <= server'.issued
  <2>1. ServerOK(server) /\ ServerOK(server')
    BY DEF TypeOK, ServerOK, ServerMoves
  <2>2. server.issued \in Nat /\ server'.issued \in Nat
    BY <2>1 DEF ServerOK, ServerType
  <2>3. server'.issued = server.issued \/ server'.issued = server.issued + 1
    BY DEF ServerMoves, KeepsChallenges, Issues, UsesChallenge
  <2> QED
    BY <2>1, <2>2, <2>3
<1>2. \A e \in server'.challenges : \A j \in Slots :
         server.slots[j].client \in Clients => e.challenge # server.slots[j].challenge
  <2>1. ASSUME NEW c \in Clients, Issues(server, server', c), NEW e \in server'.challenges
        PROVE  e \in server.challenges \/ e.challenge = server.issued + 1
    BY <2>1 DEF Issues, MakeRoom
  <2>2. \A e \in server'.challenges : e \in server.challenges \/ e.challenge = server.issued + 1
    BY <2>1 DEF ServerMoves, KeepsChallenges, UsesChallenge
  <2>3. \A j \in Slots : server.slots[j].client \in Clients => server.slots[j].challenge # server.issued + 1
    BY <1>1 DEF ChallengesSpent
  <2> QED
    BY <2>2, <2>3 DEF ChallengesSpent
<1>3. CASE SlotsMove(server, server')
  <2>1. \A j \in Slots : Inherits(server, server', j)
    BY <1>3, MovesInherit
  <2>2. \A j \in Slots : server'.slots[j].client \in Clients =>
          /\ server.slots[j].client \in Clients /\ server'.slots[j].challenge = server.slots[j].challenge
    BY <2>1 DEF Inherits
  <2>3. ASSUME NEW i \in Slots, server'.slots[i].client \in Clients
        PROVE  /\ server'.slots[i].challenge \in 1..server'.issued
               /\ \A e \in server'.challenges : e.challenge # server'.slots[i].challenge
               /\ \A j \in Slots \ {i} : server'.slots[j].client \in Clients =>
                                           server'.slots[j].challenge # server'.slots[i].challenge
    <3>1. server.slots[i].client \in Clients /\ server'.slots[i].challenge = server.slots[i].challenge
      BY <2>2, <2>3
    <3>2. server'.slots[i].challenge \in 1..server'.issued
      BY <1>1, <3>1 DEF ChallengesSpent
    <3>3. \A e \in server'.challenges : e.challenge # server'.slots[i].challenge
      BY <1>2, <3>1
    <3>4. \A j \in Slots \ {i} : server'.slots[j].client \in Clients =>
                                   server'.slots[j].challenge # server'.slots[i].challenge
      BY <2>2, <3>1 DEF ChallengesSpent
    <3> QED
      BY <3>2, <3>3, <3>4
  <2> QED
    BY <2>3 DEF ChallengesSpent
<1>4. ASSUME NEW c \in Clients, NEW x \in Nat, NEW k \in Slots,
             UsesChallenge(server, server', c, x), ConnectsTo(server, server', c, x, k)
      PROVE  ChallengesSpent'
  <2>1. PICK f \in server.challenges : f.host = bounds.hostOf[c] /\ f.challenge = x
    BY <1>4, UsedWasIssued
  <2>2. x \in 1..server'.issued
    BY <1>4, <2>1 DEF ChallengesSound, UsesChallenge
  <2>3. \A j \in Slots : server.slots[j].client \in Clients => server.slots[j].challenge # x
    BY <2>1 DEF ChallengesSpent
  <2>4. \A e \in server'.challenges : e.challenge # x
    BY <1>4, <2>1 DEF ChallengesSound, UsesChallenge
  <2>5. /\ server'.slots[k].challenge = x
        /\ \A j \in Slots \ {k} : server'.slots[j] = server.slots[j]
    BY <1>4 DEF ConnectsTo
  <2>6. ASSUME NEW i \in Slots, server'.slots[i].client \in Clients
        PROVE  /\ server'.slots[i].challenge \in 1..server'.issued
               /\ \A e \in server'.challenges : e.challenge # server'.slots[i].challenge
               /\ \A j \in Slots \ {i} : server'.slots[j].client \in Clients =>
                                           server'.slots[j].challenge # server'.slots[i].challenge
    <3>1. CASE i = k
      BY <2>2, <2>3, <2>4, <2>5, <3>1
    <3>2. CASE i # k
      <4>1. server'.slots[i] = server.slots[i]
        BY <2>5, <3>2
      <4>2. server'.slots[i].challenge \in 1..server'.issued
        BY <1>1, <2>6, <4>1 DEF ChallengesSpent
      <4>3. \A e \in server'.challenges : e.challenge # server'.slots[i].challenge
        BY <1>2, <2>6, <4>1
      <4>4. \A j \in Slots \ {i} : server'.slots[j].client \in Clients =>
                                     server'.slots[j].challenge # server'.slots[i].challenge
        BY <2>3, <2>5, <2>6, <4>1 DEF ChallengesSpent
      <4> QED
        BY <4>2, <4>3, <4>4
    <3> QED
      BY <3>1, <3>2
  <2> QED
    BY <2>6 DEF ChallengesSpent
<1> QED
  BY <1>1, <1>3, <1>4, MovesOrConnects

\* A client keeps to one slot.
LEMMA OneSlotKept ==
  ASSUME TypeOK, OneSlotPerClient, ServerMoves(server, server')
  PROVE  OneSlotPerClient'
<1>1. ServerOK(server)
  BY DEF TypeOK, ServerOK
<1>2. CASE SlotsMove(server, server')
  <2>1. \A j \in Slots : Inherits(server, server', j)
    BY <1>2, MovesInherit
  <2> QED
    BY <2>1 DEF Inherits, OneSlotPerClient
<1>3. ASSUME NEW c \in Clients, NEW x \in Nat, NEW k \in Slots, ConnectsTo(server, server', c, x, k)
      PROVE  OneSlotPerClient'
  <2>1. /\ server'.slots[k].client = c
        /\ \A j \in Slots \ {k} : /\ server'.slots[j] = server.slots[j]
                                  /\ ~(IsInUse(server.slots[j]) /\ server.slots[j].client = c)
    BY <1>3 DEF ConnectsTo, MayGet
  <2> QED
    BY <2>1 DEF OneSlotPerClient
<1> QED
  BY <1>1, <1>2, <1>3, MovesOrConnects

\* The live slots of the host of client d.
LiveOf(s, d) == {i \in SameHost(s, d) : IsLive(s.slots[i])}

\* Sets of slots are finite.
LEMMA SlotsAreFinite ==
  ASSUME NEW S \in SUBSET Slots
  PROVE  IsFiniteSet(S) /\ Cardinality(S) \in Nat
<1>1. IsFiniteSet(Slots)
  BY CountsAssumption, FS_Interval DEF Slots
<1> QED
  BY <1>1, FS_Subset, FS_CardinalityType

\* No more clients of a host than there may be.
LEMMA HostLimitStays ==
  ASSUME TypeOK, HostLimitKept, ServerMoves(server, server'), bounds' = bounds
  PROVE  HostLimitKept'
<1>1. ServerOK(server)
  BY DEF TypeOK, ServerOK
<1>2. PICK s : s = server
  OBVIOUS
<1>3. PICK t : t = server'
  OBVIOUS
<1>4. \A d \in Clients : bounds.ipLimit # 0 => Cardinality(LiveOf(s, d)) <= bounds.ipLimit
  BY <1>2 DEF HostLimitKept, LiveOf
<1>5. SUFFICES ASSUME NEW d \in Clients, bounds.ipLimit # 0
               PROVE  Cardinality(LiveOf(t, d)) <= bounds.ipLimit
  <2>1. \A d \in Clients : LiveOf(t, d) = {i \in SameHost(server, d) : IsLive(server.slots[i])}'
    BY <1>3 DEF LiveOf, SameHost
  <2> QED
    BY <2>1 DEF HostLimitKept
<1>6. LiveOf(s, d) \in SUBSET Slots /\ LiveOf(t, d) \in SUBSET Slots
  BY DEF LiveOf, SameHost
<1>7. /\ IsFiniteSet(LiveOf(s, d)) /\ Cardinality(LiveOf(s, d)) \in Nat
      /\ Cardinality(LiveOf(t, d)) \in Nat /\ bounds.ipLimit \in Nat
  BY <1>6, SlotsAreFinite, HostsAreStrings DEF TypeOK
<1>8. ASSUME LiveOf(t, d) \subseteq LiveOf(s, d) PROVE Cardinality(LiveOf(t, d)) <= bounds.ipLimit
  <2>1. Cardinality(LiveOf(t, d)) <= Cardinality(LiveOf(s, d))
    BY <1>7, <1>8, FS_Subset
  <2> QED
    BY <1>4, <1>5, <1>7, <2>1
<1>9. CASE SlotsMove(s, t)
  <2>1. \A j \in Slots : Inherits(s, t, j)
    BY <1>9, MovesInherit
  <2>2. LiveOf(t, d) \subseteq LiveOf(s, d)
    BY <2>1 DEF LiveOf, SameHost, Inherits
  <2> QED
    BY <1>8, <2>2
<1>10. ASSUME NEW c \in Clients, NEW x \in Nat, NEW k \in Slots,
              IPConnectionLimitPassed(s, c), ConnectsTo(s, t, c, x, k)
       PROVE  Cardinality(LiveOf(t, d)) <= bounds.ipLimit
  <2>1. t.slots[k].client = c /\ \A j \in Slots \ {k} : t.slots[j] = s.slots[j]
    BY <1>10 DEF ConnectsTo
  <2>2. CASE bounds.hostOf[c] # bounds.hostOf[d]
    <3>1. LiveOf(t, d) \subseteq LiveOf(s, d)
      BY <2>1, <2>2 DEF LiveOf, SameHost
    <3> QED
      BY <1>8, <3>1
  <2>3. CASE bounds.hostOf[c] = bounds.hostOf[d]
    <3>1. LiveOf(s, d) = {i \in SameHost(s, c) : IsLive(s.slots[i])}
      BY <2>3 DEF LiveOf, SameHost
    <3> DEFINE Zombies == {i \in SameHost(s, c) : s.slots[i].state = "CS_ZOMBIE"}
    <3>2. Zombies \in SUBSET Slots
      BY DEF SameHost
    <3>3. Cardinality(Zombies) \in Nat
      BY <3>2, SlotsAreFinite
    <3>4. Cardinality(Zombies) + 2 * Cardinality(LiveOf(s, d)) < 2 * bounds.ipLimit
      BY <1>5, <1>10, <3>1 DEF IPConnectionLimitPassed
    <3> HIDE DEF Zombies
    <3>5. Cardinality(LiveOf(s, d)) + 1 <= bounds.ipLimit
      BY <1>7, <3>3, <3>4
    <3>6. LiveOf(t, d) \subseteq LiveOf(s, d) \cup {k}
      BY <2>1 DEF LiveOf, SameHost
    <3>7. /\ IsFiniteSet(LiveOf(s, d) \cup {k})
          /\ \/ Cardinality(LiveOf(s, d) \cup {k}) = Cardinality(LiveOf(s, d))
             \/ Cardinality(LiveOf(s, d) \cup {k}) = Cardinality(LiveOf(s, d)) + 1
      BY <1>7, FS_AddElement
    <3>8. Cardinality(LiveOf(t, d)) <= Cardinality(LiveOf(s, d) \cup {k})
      BY <3>6, <3>7, FS_Subset
    <3> QED
      BY <1>7, <3>5, <3>7, <3>8
  <2> QED
    BY <2>2, <2>3
<1>11. ServerOK(s) /\ ServerMoves(s, t)
  BY <1>1, <1>2, <1>3
<1> QED
  BY <1>9, <1>10, <1>11, MovesOrConnects

\* A challenge that has been used does nothing any more.
LEMMA UsedOnce ==
  ASSUME TypeOK, ChallengesSound, ChallengesSpent, ServerMoves(server, server')
  PROVE  \A i, j \in Slots :
           /\ IsLive(server'.slots[j]) /\ server'.slots[j].client \in Clients
           /\ server.slots[i].challenge = server'.slots[j].challenge /\ server.slots[i].client \in Clients
           => i = j /\ IsLive(server.slots[i]) /\ (server'.slots[j].recent => server.slots[i].recent)
<1> SUFFICES ASSUME NEW i \in Slots, NEW j \in Slots,
                    IsLive(server'.slots[j]), server'.slots[j].client \in Clients,
                    server.slots[i].challenge = server'.slots[j].challenge, server.slots[i].client \in Clients
             PROVE  i = j /\ IsLive(server.slots[i]) /\ (server'.slots[j].recent => server.slots[i].recent)
  OBVIOUS
<1>1. ASSUME Inherits(server, server', j)
      PROVE  i = j /\ IsLive(server.slots[i]) /\ (server'.slots[j].recent => server.slots[i].recent)
  <2>1. /\ server.slots[j].client \in Clients /\ server.slots[j].challenge = server.slots[i].challenge
        /\ IsLive(server.slots[j]) /\ (server'.slots[j].recent => server.slots[j].recent)
    BY <1>1 DEF Inherits
  <2>2. i = j
    BY <2>1 DEF ChallengesSpent
  <2> QED
    BY <2>1, <2>2
<1>2. CASE SlotsMove(server, server')
  BY <1>1, <1>2, MovesInherit
<1>3. ASSUME NEW c \in Clients, NEW x \in Nat, NEW k \in Slots,
             UsesChallenge(server, server', c, x), ConnectsTo(server, server', c, x, k)
      PROVE  Inherits(server, server', j)
  <2>1. PICK f \in server.challenges : f.challenge = x
    BY <1>3, UsedWasIssued
  <2>2. server.slots[i].challenge # x
    BY <2>1 DEF ChallengesSpent
  <2>3. j # k
    BY <1>3, <2>2 DEF ConnectsTo
  <2>4. server'.slots[j] = server.slots[j]
    BY <1>3, <2>3 DEF ConnectsTo
  <2> QED
    BY <2>4 DEF Inherits
<1>4. ServerOK(server)
  BY DEF TypeOK, ServerOK
<1> QED
  BY <1>1, <1>2, <1>3, <1>4, MovesOrConnects

\* A live slot of a client does not become another client's.
LEMMA PlaceStays ==
  ASSUME TypeOK, ServerMoves(server, server')
  PROVE  \A i \in Slots :
           IsLive(server.slots[i]) /\ server.slots[i].client \in Clients /\ IsLive(server'.slots[i])
             => server'.slots[i].client = server.slots[i].client
<1> SUFFICES ASSUME NEW i \in Slots, IsLive(server.slots[i]), server.slots[i].client \in Clients,
                    IsLive(server'.slots[i])
             PROVE  server'.slots[i].client = server.slots[i].client
  OBVIOUS
<1>1. ServerOK(server) /\ IsInUse(server.slots[i])
  BY DEF TypeOK, ServerOK, IsLive, IsInUse
<1>2. CASE SlotsMove(server, server')
  <2>1. PICK k \in Slots : SlotMoves(server, server', k)
    BY <1>2 DEF SlotsMove
  <2> QED
    BY <1>1, <2>1 DEF SlotMoves, KeepsClient, Empties
<1>3. ASSUME NEW c \in Clients, NEW x \in Nat, NEW k \in Slots, ConnectsTo(server, server', c, x, k)
      PROVE  server'.slots[i].client = server.slots[i].client
  BY <1>1, <1>3, EmptySlots DEF ConnectsTo, MayGet
<1> QED
  BY <1>1, <1>2, <1>3, MovesOrConnects

-----------------------------------------------------------------------------
(* What the steps do to the clients.                                       *)

\* The packets of r were in q already, or no answer to a connect depends on them.
NetKeeps(q, r) ==
  \A k \in 1..Len(r) : \/ \E m \in 1..Len(q) : r[k] = q[m]
                       \/ r[k].kind # "connect" /\ r[k].content = 0

\* Keeping packets is transitive.
LEMMA NetKeepsTransitive ==
  ASSUME NEW q, NEW r, NEW u, NetKeeps(q, r), NetKeeps(r, u)
  PROVE  NetKeeps(q, u)
BY DEF NetKeeps

\* Packets are kept when one is taken or duplicated.
LEMMA NetKeepsTail ==
  ASSUME NEW q \in Seq(ToServer), q # <<>>
  PROVE  /\ Tail(q) \in Seq(ToServer) /\ NetKeeps(q, Tail(q))
         /\ Append(q, Head(q)) \in Seq(ToServer) /\ NetKeeps(q, Append(q, Head(q)))
<1>1. Tail(q) \in Seq(ToServer) /\ Append(q, Head(q)) \in Seq(ToServer) /\ Len(q) \in Nat \ {0}
  OBVIOUS
<1>2. \A k \in 1..Len(Tail(q)) : k + 1 \in 1..Len(q) /\ Tail(q)[k] = q[k + 1]
  OBVIOUS
<1>3. \A k \in 1..Len(Append(q, Head(q))) : \E m \in 1..Len(q) : Append(q, Head(q))[k] = q[m]
  <2> SUFFICES ASSUME NEW k \in 1..Len(Append(q, Head(q))) PROVE \E m \in 1..Len(q) : Append(q, Head(q))[k] = q[m]
    OBVIOUS
  <2>1. CASE k \in 1..Len(q)
    BY <2>1
  <2>2. CASE k = Len(q) + 1
    <3>1. Append(q, Head(q))[k] = q[1] /\ 1 \in 1..Len(q)
      BY <1>1, <2>2
    <3> QED
      BY <3>1
  <2> QED
    BY <1>1, <2>1, <2>2
<1> QED
  BY <1>1, <1>2, <1>3 DEF NetKeeps

\* A packet of a client.
LEMMA SendToServerSends ==
  ASSUME NEW client \in ClientType, NEW kind \in {"getchallenge", "connect"} \cup Sequenced, NEW content \in Nat,
         NEW new, new = SendToServer(client, kind, content)
  PROVE  /\ new \in ClientType /\ new.state = client.state
         /\ new.net = Append(client.net, [kind |-> kind, port |-> client.port, content |-> content])
<1>1. [kind |-> kind, port |-> client.port, content |-> content] \in ToServer
  BY DEF ToServer, ClientType
<1>2. Append(client.net, [kind |-> kind, port |-> client.port, content |-> content]) \in Seq(ToServer)
  BY <1>1 DEF ClientType
<1> QED
  BY <1>2 DEF SendToServer, ClientType

\* They are kept when one is sent that is no connect.
LEMMA SendToServerKeeps ==
  ASSUME NEW client \in ClientType, NEW kind \in {"getchallenge"} \cup Sequenced,
         NEW new, new = SendToServer(client, kind, 0)
  PROVE  new \in ClientType /\ new.state = client.state /\ NetKeeps(client.net, new.net)
<1>1. kind # "connect" /\ kind \in {"getchallenge", "connect"} \cup Sequenced
  BY DEF Sequenced
<1> DEFINE p == [kind |-> kind, port |-> client.port, content |-> 0]
<1>2. new \in ClientType /\ new.state = client.state /\ new.net = Append(client.net, p)
  BY <1>1, SendToServerSends
<1>3. p.kind # "connect" /\ p.content = 0 /\ client.net \in Seq(ToServer) /\ new.net \in Seq(ToServer)
  BY <1>1, <1>2 DEF ClientType
<1> HIDE DEF p
<1>4. Len(new.net) = Len(client.net) + 1 /\ Len(client.net) \in Nat
  BY <1>2, <1>3
<1>5. \A k \in 1..Len(client.net) : new.net[k] = client.net[k]
  BY <1>2, <1>3
<1>6. new.net[Len(client.net) + 1] = p
  BY <1>2, <1>3
<1>7. \A k \in 1..Len(new.net) : k \in 1..Len(client.net) \/ k = Len(client.net) + 1
  BY <1>4
<1>8. NetKeeps(client.net, new.net)
  BY <1>3, <1>5, <1>6, <1>7 DEF NetKeeps
<1> QED
  BY <1>2, <1>8

\* The server is told, if there is a connection.
LEMMA DisconnectedKeeps ==
  ASSUME NEW client \in ClientType, NEW new, new = Disconnected(client)
  PROVE  /\ new \in ClientType /\ new.state = "CA_DISCONNECTED" /\ NetKeeps(client.net, new.net)
<1>1. PICK c1 : c1 = SendToServer(client, "disconnect", 0)
  OBVIOUS
<1>2. PICK c2 : c2 = SendToServer(c1, "disconnect", 0)
  OBVIOUS
<1>3. PICK c3 : c3 = SendToServer(c2, "disconnect", 0)
  OBVIOUS
<1>4. "disconnect" \in {"getchallenge"} \cup Sequenced
  BY DEF Sequenced
<1>5. c1 \in ClientType /\ NetKeeps(client.net, c1.net)
  BY <1>1, <1>4, SendToServerKeeps
<1>6. c2 \in ClientType /\ NetKeeps(c1.net, c2.net)
  BY <1>2, <1>4, <1>5, SendToServerKeeps
<1>7. c3 \in ClientType /\ NetKeeps(c2.net, c3.net)
  BY <1>3, <1>4, <1>6, SendToServerKeeps
<1>8. NetKeeps(client.net, c3.net)
  BY <1>5, <1>6, <1>7, NetKeepsTransitive
<1>9. NetKeeps(client.net, client.net)
  BY DEF NetKeeps
<1>10. PICK d \in ClientType : /\ NetKeeps(client.net, d.net)
                               /\ new = [d EXCEPT !.state = "CA_DISCONNECTED", !.connectCount = 0]
  BY <1>1, <1>2, <1>3, <1>7, <1>8, <1>9 DEF Disconnected
<1>11. new \in ClientType /\ new.state = "CA_DISCONNECTED" /\ new.net = d.net
  <2>1. new = [state |-> "CA_DISCONNECTED", connectCount |-> 0, port |-> d.port, attempts |-> d.attempts, net |-> d.net]
    BY <1>10 DEF ClientType
  <2>2. d.port \in Nat /\ d.attempts \in Nat /\ d.net \in Seq(ToServer)
    BY DEF ClientType
  <2> QED
    BY <2>1, <2>2 DEF ClientType
<1> QED
  BY <1>10, <1>11

\* A client that sends no connect and gets no connection.
ClientKeeps(old, new) ==
  /\ new \in ClientType /\ NetKeeps(old.net, new.net)
  /\ new.state = old.state \/ ~HasConnection(new)

\* A client that reads an answer of the server, q are the packets for it.
AsksToConnect(old, new, q) ==
  /\ new.state = old.state /\ ~HasConnection(old)
  /\ q[1].kind = "challenge"
  /\ \E p \in ToServer : new.net = Append(old.net, p) /\ p.content = q[1].content
HasAnswer(old, new, q) == new.state = "CA_HANDSHAKE" /\ new.net = old.net /\ q[1].kind = "client_connect"
HasLevel(old, new, q)  == /\ old.state = "CA_HANDSHAKE" /\ new.state = "CA_CONNECTED" /\ new.net = old.net
                          /\ q[1].kind = "serverdata"

\* What a client does with a packet.
LEMMA ReceivesKeeps ==
  ASSUME TypeOK, NEW c \in Clients, ClientReceives(c)
  PROVE  \E new \in ClientType :
           /\ clients' = [clients EXCEPT ![c] = new]
           /\ server.net[c] # <<>> /\ server'.net[c] = Tail(server.net[c])
           /\ \/ ClientKeeps(clients[c], new)
              \/ AsksToConnect(clients[c], new, server.net[c])
              \/ HasAnswer(clients[c], new, server.net[c])
              \/ HasLevel(clients[c], new, server.net[c])
<1>1. PICK old \in ClientType : old = clients[c]
  BY DEF TypeOK
<1>2. PICK q \in Seq(ToClient) : q = server.net[c]
  BY DEF TypeOK, ServerType
<1>3. q # <<>> /\ server'.net[c] = Tail(q)
  BY <1>2 DEF ClientReceives, TypeOK, ServerType
<1>4. q[1] \in ToClient /\ Head(q) = q[1]
  BY <1>2, <1>3
<1>5. ClientKeeps(old, old)
  BY DEF ClientKeeps, NetKeeps
<1>6. ASSUME NEW new, clients' = [clients EXCEPT ![c] = new], new \in ClientType,
             \/ ClientKeeps(old, new) \/ AsksToConnect(old, new, q) \/ HasAnswer(old, new, q) \/ HasLevel(old, new, q)
      PROVE  \E w \in ClientType :
           /\ clients' = [clients EXCEPT ![c] = w]
           /\ server.net[c] # <<>> /\ server'.net[c] = Tail(server.net[c])
           /\ \/ ClientKeeps(clients[c], w)
              \/ AsksToConnect(clients[c], w, server.net[c])
              \/ HasAnswer(clients[c], w, server.net[c])
              \/ HasLevel(clients[c], w, server.net[c])
  BY <1>1, <1>2, <1>3, <1>6
<1>7. CASE q[1].kind = "challenge" /\ clients' = [clients EXCEPT ![c] = Challenge(old, q[1].content)]
  <2>1. PICK new : new = Challenge(old, q[1].content)
    OBVIOUS
  <2>2. CASE old.state # "CA_CONNECTING"
    BY <1>5, <1>6, <1>7, <2>1, <2>2 DEF Challenge
  <2>3. CASE old.state = "CA_CONNECTING"
    <3>1. PICK x \in Nat : x = q[1].content
      BY <1>4 DEF ToClient
    <3>2. new = SendToServer(old, "connect", x) /\ "connect" \in {"getchallenge", "connect"} \cup Sequenced
      BY <2>1, <2>3, <3>1 DEF Challenge
    <3>3. PICK p : p = [kind |-> "connect", port |-> old.port, content |-> x]
      OBVIOUS
    <3>4. new \in ClientType /\ new.state = old.state /\ new.net = Append(old.net, p)
      BY <3>2, <3>3, SendToServerSends
    <3>5. p \in ToServer /\ p.content = x
      BY <3>3 DEF ToServer, ClientType
    <3>6. AsksToConnect(old, new, q)
      BY <1>7, <2>3, <3>1, <3>4, <3>5 DEF AsksToConnect, HasConnection
    <3> QED
      BY <1>6, <1>7, <2>1, <3>4, <3>6
  <2> QED
    BY <2>2, <2>3
<1>8. CASE q[1].kind = "client_connect" /\ clients' = [clients EXCEPT ![c] = ClientConnected(old)]
  <2>1. PICK new : new = ClientConnected(old)
    OBVIOUS
  <2>2. CASE old.state # "CA_CONNECTING"
    BY <1>5, <1>6, <1>8, <2>1, <2>2 DEF ClientConnected
  <2>3. CASE old.state = "CA_CONNECTING"
    <3>1. new = [old EXCEPT !.state = "CA_HANDSHAKE"]
      BY <2>1, <2>3 DEF ClientConnected
    <3>2. new \in ClientType /\ HasAnswer(old, new, q)
      BY <1>8, <3>1 DEF HasAnswer, ClientType
    <3> QED
      BY <1>6, <1>8, <2>1, <3>2
  <2> QED
    BY <2>2, <2>3
<1>9. CASE clients' = [clients EXCEPT ![c] = Rejected(old)]
  <2>1. PICK new : new = Rejected(old)
    OBVIOUS
  <2>2. CASE old.state # "CA_CONNECTING"
    BY <1>5, <1>6, <1>9, <2>1, <2>2 DEF Rejected
  <2>3. CASE old.state = "CA_CONNECTING"
    <3>1. new \in ClientType /\ new.state = "CA_DISCONNECTED" /\ NetKeeps(old.net, new.net)
      BY <2>1, <2>3, DisconnectedKeeps DEF Rejected
    <3>2. ClientKeeps(old, new)
      BY <3>1 DEF ClientKeeps, HasConnection
    <3> QED
      BY <1>6, <1>9, <2>1, <3>1, <3>2
  <2> QED
    BY <2>2, <2>3
<1>10. CASE /\ q[1].kind \in {"serverdata", "disconnect"}
            /\ clients' = [clients EXCEPT ![c] = ParseServerMessage(old, q[1].kind)]
  <2>1. PICK new : new = ParseServerMessage(old, q[1].kind)
    OBVIOUS
  <2>2. CASE new = old
    BY <1>5, <1>6, <1>10, <2>1, <2>2
  <2>3. CASE q[1].kind = "disconnect" /\ new = [Disconnected(old) EXCEPT !.net = old.net]
    <3>1. PICK d \in ClientType : d = Disconnected(old) /\ d.state = "CA_DISCONNECTED"
      BY DisconnectedKeeps
    <3>2. new \in ClientType /\ new.state = "CA_DISCONNECTED" /\ new.net = old.net
      BY <2>3, <3>1 DEF ClientType
    <3>3. ClientKeeps(old, new)
      BY <3>2 DEF ClientKeeps, HasConnection, NetKeeps
    <3> QED
      BY <1>6, <1>10, <2>1, <3>2, <3>3
  <2>4. CASE /\ q[1].kind = "serverdata" /\ old.state = "CA_HANDSHAKE"
             /\ new = [old EXCEPT !.state = "CA_CONNECTED"]
    <3>1. new \in ClientType /\ HasLevel(old, new, q)
      BY <2>4 DEF HasLevel, ClientType
    <3> QED
      BY <1>6, <1>10, <2>1, <3>1
  <2> QED
    BY <1>10, <2>1, <2>2, <2>3, <2>4 DEF ParseServerMessage
<1> QED
  BY <1>1, <1>2, <1>4, <1>7, <1>8, <1>9, <1>10 DEF ClientReceives

\* What a client does on its own, and what the network does to its packets.
LEMMA OthersKeep ==
  ASSUME TypeOK, NEW c \in Clients, ClientNext(c), ~ClientReceives(c)
  PROVE  \E new \in ClientType : clients' = [clients EXCEPT ![c] = new] /\ ClientKeeps(clients[c], new)
<1>1. PICK old \in ClientType : old = clients[c]
  BY DEF TypeOK
<1>2. clients \in [Clients -> ClientType] /\ old.net \in Seq(ToServer)
  BY DEF TypeOK, ClientType
<1>3. ASSUME NEW new, clients' = [clients EXCEPT ![c] = new], ClientKeeps(old, new)
      PROVE  \E w \in ClientType : clients' = [clients EXCEPT ![c] = w] /\ ClientKeeps(clients[c], w)
  BY <1>1, <1>3 DEF ClientKeeps
<1>4. ClientKeeps(old, old)
  BY DEF ClientKeeps, NetKeeps
<1>5. CASE Connect(c)
  <2>1. PICK d : d = Disconnected(old)
    OBVIOUS
  <2>2. d \in ClientType /\ NetKeeps(old.net, d.net)
    BY <2>1, DisconnectedKeeps
  <2>3. PICK new : new = [d EXCEPT !.state = "CA_CONNECTING", !.attempts = old.attempts + 1]
    OBVIOUS
  <2>4. new \in ClientType /\ new.net = d.net /\ new.state = "CA_CONNECTING"
    <3>1. new = [state |-> "CA_CONNECTING", connectCount |-> d.connectCount, port |-> d.port,
                 attempts |-> old.attempts + 1, net |-> d.net]
      BY <2>2, <2>3 DEF ClientType
    <3>2. d.port \in Nat /\ old.attempts + 1 \in Nat /\ d.connectCount \in Nat /\ d.net \in Seq(ToServer)
      BY <2>2 DEF ClientType
    <3> QED
      BY <3>1, <3>2 DEF ClientType
  <2>5. ClientKeeps(old, new)
    BY <2>2, <2>4 DEF ClientKeeps, HasConnection
  <2>6. clients' = [clients EXCEPT ![c] = new]
    <3>1. clients' = [clients EXCEPT ![c] = [Disconnected(clients[c]) EXCEPT !.state = "CA_CONNECTING",
                                                                     !.attempts = clients[c].attempts + 1]]
      BY <1>5 DEF Connect
    <3>2. Disconnected(clients[c]) = d
      BY <1>1, <2>1
    <3> QED
      BY <1>1, <2>3, <3>1, <3>2
  <2> QED
    BY <1>3, <2>5, <2>6
<1>6. CASE clients' = [clients EXCEPT ![c] = Disconnected(old)]
  <2>1. PICK d : d = Disconnected(old)
    OBVIOUS
  <2>2. d \in ClientType /\ NetKeeps(old.net, d.net) /\ d.state = "CA_DISCONNECTED"
    BY <2>1, DisconnectedKeeps
  <2>3. ClientKeeps(old, d)
    BY <2>2 DEF ClientKeeps, HasConnection
  <2> QED
    BY <1>3, <1>6, <2>1, <2>3
<1>7. CASE clients' = [clients EXCEPT ![c] = SendToServer(CountResend(old), "getchallenge", 0)]
  <2>1. PICK d : d = CountResend(old)
    OBVIOUS
  <2>2. d \in ClientType /\ d.state = old.state /\ d.net = old.net
    BY <2>1 DEF CountResend, ClientType
  <2>3. PICK new : new = SendToServer(d, "getchallenge", 0)
    OBVIOUS
  <2>4. new \in ClientType /\ new.state = d.state /\ NetKeeps(d.net, new.net)
    BY <2>2, <2>3, SendToServerKeeps
  <2>5. ClientKeeps(old, new)
    BY <2>2, <2>4 DEF ClientKeeps
  <2> QED
    BY <1>3, <1>7, <2>1, <2>3, <2>5
<1>8. CASE ClientSends(c)
  <2>1. PICK command \in {"new", "configstrings"} : clients' = [clients EXCEPT ![c] = SendToServer(@, command, 0)]
    BY <1>8 DEF ClientSends
  <2>2. command \in {"getchallenge"} \cup Sequenced
    BY DEF Sequenced
  <2>3. PICK new : new = SendToServer(old, command, 0)
    OBVIOUS
  <2>4. new \in ClientType /\ new.state = old.state /\ NetKeeps(old.net, new.net)
    BY <2>2, <2>3, SendToServerKeeps
  <2>5. ClientKeeps(old, new)
    BY <2>4 DEF ClientKeeps
  <2>6. clients' = [clients EXCEPT ![c] = new]
    BY <1>1, <2>1, <2>3
  <2> QED
    BY <1>3, <2>5, <2>6
<1>9. CASE old.net # <<>> /\ clients' \in {[clients EXCEPT ![c].net = Tail(@)], [clients EXCEPT ![c].net = Append(@, Head(@))]}
  <2>1. PICK q \in {Tail(old.net), Append(old.net, Head(old.net))} : clients' = [clients EXCEPT ![c].net = q]
    BY <1>1, <1>9
  <2>2. q \in Seq(ToServer) /\ NetKeeps(old.net, q)
    BY <1>2, <1>9, NetKeepsTail
  <2>3. PICK new : new = [old EXCEPT !.net = q]
    OBVIOUS
  <2>4. new \in ClientType /\ new.state = old.state /\ new.net = q
    BY <2>2, <2>3 DEF ClientType
  <2>5. ClientKeeps(old, new)
    BY <2>2, <2>4 DEF ClientKeeps
  <2>6. clients' = [clients EXCEPT ![c] = new]
    BY <1>1, <1>2, <2>1, <2>3
  <2> QED
    BY <1>3, <2>5, <2>6
<1>10. CASE Rebind(c)
  <2>1. PICK new : new = [old EXCEPT !.port = @ + 1]
    OBVIOUS
  <2>2. new \in ClientType /\ new.state = old.state /\ new.net = old.net
    BY <2>1 DEF ClientType
  <2>3. ClientKeeps(old, new)
    BY <2>2 DEF ClientKeeps, NetKeeps
  <2>4. clients' = [clients EXCEPT ![c] = new]
    BY <1>1, <1>2, <1>10, <2>1 DEF Rebind
  <2> QED
    BY <1>3, <2>3, <2>4
<1>11. CASE clients' = clients
  <2>1. clients' = [clients EXCEPT ![c] = old]
    BY <1>1, <1>2, <1>11
  <2> QED
    BY <1>3, <1>4, <2>1
<1>12. CASE Disconnect(c) \/ CheckForResend(c) \/ ClientTimesOut(c)
  BY <1>1, <1>6, <1>7, <1>12 DEF Disconnect, CheckForResend, ClientTimesOut
<1>13. CASE ServerReceives(c) \/ Lose(c) \/ Delay(c)
  BY <1>1, <1>9, <1>11, <1>13 DEF ServerReceives, Lose, Delay
<1> QED
  BY <1>5, <1>8, <1>10, <1>12, <1>13 DEF ClientNext

-----------------------------------------------------------------------------
(* What the steps do to the packets on their way to client d.              *)

\* The server sends an answer that a client waits for in a connection that the
\* server knows of, or one that does not matter.
NewPacket(t, d, p) ==
  \/ p.kind \in {"challenge", "reject", "disconnect"}
  \/ p.kind = "serverdata" /\ HeardIn(t, d)

\* The first n packets are gone, and one more may have been sent.
ShiftsBy(s, t, d, n) ==
  \A k \in 1..Len(t.net[d]) : \/ k + n \in 1..Len(s.net[d]) /\ t.net[d][k] = s.net[d][k + n]
                              \/ k = Len(t.net[d]) /\ NewPacket(t, d, t.net[d][k])

\* The contents that are on their way have been issued.
ContentsKept(s, t, d) ==
  (\A k \in 1..Len(s.net[d]) : s.net[d][k].content <= t.issued)
    => \A k \in 1..Len(t.net[d]) : t.net[d][k].content <= t.issued

\* A packet more at the end.
LEMMA AppendShifts ==
  ASSUME NEW s, NEW t, ServerOK(s), ServerOK(t), NEW d \in Clients, NEW kind, NEW content \in 0..t.issued,
         t.net[d] = Append(s.net[d], [kind |-> kind, content |-> content])
  PROVE  /\ NewPacket(t, d, [kind |-> kind, content |-> content]) => ShiftsBy(s, t, d, 0)
         /\ ContentsKept(s, t, d)
         /\ \A k \in 1..Len(t.net[d]) :
              \/ k \in 1..Len(s.net[d]) /\ t.net[d][k] = s.net[d][k]
              \/ k = Len(t.net[d]) /\ t.net[d][k].kind = kind
<1>1. PICK q \in Seq(ToClient) : q = s.net[d]
  BY DEF ServerOK, ServerType
<1>2. PICK r \in Seq(ToClient) : r = t.net[d]
  BY DEF ServerOK, ServerType
<1>3. PICK p : p = [kind |-> kind, content |-> content]
  OBVIOUS
<1>4. r = Append(q, p) /\ p.content = content /\ p.kind = kind
  BY <1>1, <1>2, <1>3
<1>5. Len(q) \in Nat /\ Len(r) = Len(q) + 1 /\ r[Len(r)] = p
  BY <1>4
<1>6. \A k \in 1..Len(q) : r[k] = q[k]
  BY <1>4
<1>7. \A k \in 1..Len(r) : k \in Nat /\ (k \in 1..Len(q) \/ k = Len(r))
  BY <1>5
<1>8. t.issued \in Nat /\ p.content <= t.issued
  BY <1>4 DEF ServerOK, ServerType
<1>9. \A k \in 1..Len(r) : (k \in 1..Len(q) /\ r[k] = q[k]) \/ (k = Len(r) /\ r[k] = p)
  BY <1>5, <1>6, <1>7
<1>10. NewPacket(t, d, p) => ShiftsBy(s, t, d, 0)
  BY <1>1, <1>2, <1>7, <1>9 DEF ShiftsBy
<1>11. ContentsKept(s, t, d)
  BY <1>1, <1>2, <1>8, <1>9 DEF ContentsKept
<1>12. \A k \in 1..Len(r) : (k \in 1..Len(q) /\ r[k] = q[k]) \/ (k = Len(r) /\ r[k].kind = kind)
  BY <1>4, <1>9
<1> QED
  BY <1>1, <1>2, <1>3, <1>10, <1>11, <1>12

\* No packet more.
LEMMA NetStays ==
  ASSUME NEW s, NEW t, ServerOK(s), NEW d \in Clients, t.net[d] = s.net[d] \/ t.net[d] = <<>>
  PROVE  ShiftsBy(s, t, d, 0) /\ ContentsKept(s, t, d)
<1>1. PICK q \in Seq(ToClient) : q = s.net[d]
  BY DEF ServerOK, ServerType
<1>2. \A k \in 1..Len(q) : k + 0 = k
  OBVIOUS
<1>3. CASE t.net[d] = s.net[d]
  <2>1. ShiftsBy(s, t, d, 0)
    BY <1>1, <1>2, <1>3 DEF ShiftsBy
  <2> QED
    BY <1>3, <2>1 DEF ContentsKept
<1>4. CASE t.net[d] = <<>>
  BY <1>4 DEF ShiftsBy, ContentsKept
<1> QED
  BY <1>3, <1>4

\* The first packet has been read, or is lost.
LEMMA NetShrinks ==
  ASSUME NEW s, NEW t, ServerOK(s), NEW d \in Clients, s.net[d] # <<>>, t.net[d] = Tail(s.net[d])
  PROVE  ShiftsBy(s, t, d, 1) /\ ContentsKept(s, t, d)
<1>1. PICK q \in Seq(ToClient) : q = s.net[d] /\ q # <<>>
  BY DEF ServerOK, ServerType
<1>2. PICK r : r = Tail(q)
  OBVIOUS
<1>3. \A k \in 1..Len(r) : k + 1 \in 1..Len(q) /\ r[k] = q[k + 1]
  BY <1>1, <1>2
<1>4. t.net[d] = r
  BY <1>1, <1>2
<1>5. ShiftsBy(s, t, d, 1)
  BY <1>1, <1>3, <1>4 DEF ShiftsBy
<1>6. ContentsKept(s, t, d)
  BY <1>1, <1>3, <1>4 DEF ContentsKept
<1> QED
  BY <1>5, <1>6

\* The first packet has come once more.
LEMMA NetRepeats ==
  ASSUME NEW s, NEW t, ServerOK(s), NEW d \in Clients, s.net[d] # <<>>, t.net[d] = Append(s.net[d], Head(s.net[d]))
  PROVE  ContentsKept(s, t, d)
<1>1. PICK q \in Seq(ToClient) : q = s.net[d] /\ q # <<>>
  BY DEF ServerOK, ServerType
<1>2. PICK r : r = Append(q, Head(q))
  OBVIOUS
<1>3. Len(q) \in Nat \ {0} /\ Len(r) = Len(q) + 1
  BY <1>1, <1>2
<1>4. \A k \in 1..Len(q) : r[k] = q[k]
  BY <1>1, <1>2
<1>5. r[Len(q) + 1] = q[1]
  BY <1>1, <1>2, <1>3
<1>6. \A k \in 1..Len(r) : \E m \in 1..Len(q) : r[k] = q[m]
  <2>1. 1 \in 1..Len(q)
    BY <1>3
  <2>2. \A k \in 1..Len(r) : k \in 1..Len(q) \/ k = Len(q) + 1
    BY <1>3
  <2> QED
    BY <1>4, <1>5, <2>1, <2>2
<1> QED
  BY <1>1, <1>2, <1>6 DEF ContentsKept

\* A server that sends one packet of these kinds at most.
LEMMA SendsShifts ==
  ASSUME NEW s, NEW t, ServerOK(s), ServerOK(t), NEW c \in Clients, NEW d \in Clients, NEW kinds,
         SendsTo(s, t, c, kinds),
         d = c => \A p : p.kind \in kinds => NewPacket(t, d, p)
  PROVE  ShiftsBy(s, t, d, 0)
<1>1. CASE t.net[d] = s.net[d]
  BY <1>1, NetStays
<1>2. CASE d = c /\ \E kind \in kinds, content \in 0..t.issued :
                      t.net[d] = Append(s.net[d], [kind |-> kind, content |-> content])
  <2>1. PICK kind \in kinds, content \in 0..t.issued :
               t.net[d] = Append(s.net[d], [kind |-> kind, content |-> content])
    BY <1>2
  <2>2. PICK p : p = [kind |-> kind, content |-> content]
    OBVIOUS
  <2>3. NewPacket(t, d, p)
    BY <1>2, <2>2
  <2> QED
    BY <2>1, <2>2, <2>3, AppendShifts
<1> QED
  BY <1>1, <1>2 DEF SendsTo

\* Sending keeps the contents of the packets that are under way.
LEMMA SendsContents ==
  ASSUME NEW s, NEW t, ServerOK(s), ServerOK(t), NEW c \in Clients, NEW d \in Clients, NEW kinds, SendsTo(s, t, c, kinds)
  PROVE  ContentsKept(s, t, d)
<1>1. CASE t.net[d] = s.net[d]
  BY <1>1, NetStays
<1>2. CASE \E kind \in kinds, content \in 0..t.issued :
                      t.net[d] = Append(s.net[d], [kind |-> kind, content |-> content])
  <2>1. PICK kind \in kinds, content \in 0..t.issued :
               t.net[d] = Append(s.net[d], [kind |-> kind, content |-> content])
    BY <1>2
  <2> QED
    BY <2>1, AppendShifts
<1> QED
  BY <1>1, <1>2 DEF SendsTo

\* A connect of client d that gets a slot.
GetsSlot(d) ==
  /\ ServerReceives(d)
  /\ \E x \in Nat : /\ Head(clients[d].net).kind = "connect" /\ Head(clients[d].net).content = x
                    /\ UsesChallenge(server, server', d, x) /\ Connects(server, server', d, x)

\* Steps either shift the packets for a client, deliver a late copy or give it a slot.
LEMMA StepShifts ==
  ASSUME TypeOK, ChallengesSound, OneSlotPerClient, [Next]_vars, NEW d \in Clients
  PROVE  /\ ContentsKept(server, server', d)
         /\ \/ \E n \in {0, 1} : ShiftsBy(server, server', d, n)
            \/ Delay(d)
            \/ GetsSlot(d)
<1>1. ServerOK(server) /\ ServerOK(server')
  BY StepMoves DEF TypeOK, ServerOK, ServerMoves
<1>2. PICK s : s = server
  OBVIOUS
<1>3. PICK t : t = server'
  OBVIOUS
<1>4. ServerOK(s) /\ ServerOK(t)
  BY <1>1, <1>2, <1>3
<1>5. CASE t.net[d] = s.net[d]
  <2>1. ShiftsBy(s, t, d, 0) /\ ContentsKept(s, t, d)
    BY <1>4, <1>5, NetStays
  <2> QED
    BY <1>2, <1>3, <2>1
<1>6. ASSUME NEW c \in Clients, NEW kinds, SendsTo(s, t, c, kinds), kinds \subseteq {"challenge", "reject", "disconnect"}
      PROVE  ShiftsBy(s, t, d, 0) /\ ContentsKept(s, t, d)
  <2>1. \A p : p.kind \in kinds => NewPacket(t, d, p)
    BY <1>6 DEF NewPacket
  <2>2. ShiftsBy(s, t, d, 0)
    BY <1>4, <1>6, <2>1, SendsShifts
  <2>3. ContentsKept(s, t, d)
    BY <1>4, <1>6, SendsContents
  <2> QED
    BY <2>2, <2>3
<1>7. CASE FakeConnect \/ \E i \in Slots : SlotNext(i)
  <2>1. t.net = s.net \/ \E c \in Clients : SendsTo(s, t, c, {"disconnect"})
    BY <1>2, <1>3, <1>7, ServerAlone
  <2>2. CASE t.net = s.net
    BY <1>5, <2>2
  <2>3. CASE \E c \in Clients : SendsTo(s, t, c, {"disconnect"})
    <3>1. PICK c \in Clients : SendsTo(s, t, c, {"disconnect"})
      BY <2>3
    <3>2. ShiftsBy(s, t, d, 0) /\ ContentsKept(s, t, d)
      BY <1>6, <3>1
    <3> QED
      BY <1>2, <1>3, <3>2
  <2> QED
    BY <2>1, <2>2, <2>3
<1>8. ASSUME NEW c \in Clients, ServerReceives(c)
      PROVE  /\ ContentsKept(s, t, d)
             /\ ShiftsBy(s, t, d, 0) \/ GetsSlot(d)
  <2>1. ServerAnswers(s, t, c)
    BY <1>2, <1>3, <1>8, ServerReceivesAnswers
  <2>2. CASE \/ SendsTo(s, t, c, {"challenge"}) \/ SendsTo(s, t, c, {"reject"}) \/ SendsTo(s, t, c, {"disconnect"})
    BY <1>6, <2>2
  <2>3. CASE HeardIn(t, c) /\ SendsTo(s, t, c, {"serverdata"})
    <3>1. d = c => \A p : p.kind \in {"serverdata"} => NewPacket(t, d, p)
      BY <2>3 DEF NewPacket
    <3>2. ShiftsBy(s, t, d, 0)
      BY <1>4, <2>3, <3>1, SendsShifts
    <3>3. ContentsKept(s, t, d)
      BY <1>4, <2>3, SendsContents
    <3> QED
      BY <3>2, <3>3
  <2>4. ASSUME NEW x \in Nat, Head(clients[c].net).kind = "connect", Head(clients[c].net).content = x,
               UsesChallenge(s, t, c, x), Connects(s, t, c, x)
        PROVE  ContentsKept(s, t, d) /\ (ShiftsBy(s, t, d, 0) \/ GetsSlot(d))
    <3>1. SendsTo(s, t, c, {"client_connect"})
      BY <1>4, <2>4, ConnectsToOne
    <3>2. ContentsKept(s, t, d)
      BY <1>4, <3>1, SendsContents
    <3>3. CASE d # c
      <4>1. ShiftsBy(s, t, d, 0)
        BY <1>4, <3>1, <3>3, SendsShifts
      <4> QED
        BY <3>2, <4>1
    <3>4. CASE d = c
      <4>1. GetsSlot(d)
        BY <1>2, <1>3, <1>8, <2>4, <3>4 DEF GetsSlot
      <4> QED
        BY <3>2, <4>1
    <3> QED
      BY <3>3, <3>4
  <2>5. CASE t.net = s.net
    <3>1. ShiftsBy(s, t, d, 0) /\ ContentsKept(s, t, d)
      BY <1>4, <2>5, NetStays
    <3> QED
      BY <3>1
  <2> QED
    BY <2>1, <2>2, <2>3, <2>4, <2>5 DEF ServerAnswers
<1>9. ASSUME NEW c \in Clients, ClientNext(c), ~ServerReceives(c), ~ (c = d /\ Delay(c))
      PROVE  \E n \in {0, 1} : ShiftsBy(s, t, d, n) /\ ContentsKept(s, t, d)
  <2>1. CASE t.net[d] = s.net[d]
    <3>1. ShiftsBy(s, t, d, 0) /\ ContentsKept(s, t, d)
      BY <1>4, <2>1, NetStays
    <3> QED
      BY <3>1
  <2>2. CASE t.net[d] # s.net[d]
    <3>1. server.net \in [Clients -> Seq(ToClient)]
      BY <1>1 DEF ServerOK, ServerType
    <3>2. c = d
      <4>1. server' # server
        BY <1>2, <1>3, <2>2
      <4>2. server'.net = [server.net EXCEPT ![c] = server'.net[c]]
        BY <1>9, <4>1, OtherSteps, NetStepsChange
      <4> QED
        BY <1>2, <1>3, <2>2, <3>1, <4>2
    <3>3. (server.net[d] # <<>> /\ server'.net[d] = Tail(server.net[d])) \/ server'.net[d] = <<>>
      <4>1. ~Delay(d)
        BY <1>9, <3>2
      <4>2. server' # server
        BY <1>2, <1>3, <2>2
      <4>3. ClientReceives(d) \/ Lose(d) \/ Rebind(d)
        BY <1>9, <3>2, <4>1, <4>2 DEF ClientNext, Connect, Disconnect, CheckForResend, ClientSends, ClientTimesOut
      <4>4. ASSUME NEW q, server' = [server EXCEPT !.net[d] = q]
            PROVE  server'.net[d] = q
        BY <1>1, <3>1, <4>4 DEF ServerOK, ServerType
      <4> QED
        BY <4>2, <4>3, <4>4 DEF ClientReceives, Lose, Rebind
    <3>4. \E n \in {0, 1} : ShiftsBy(s, t, d, n) /\ ContentsKept(s, t, d)
      <4>1. (s.net[d] # <<>> /\ t.net[d] = Tail(s.net[d])) \/ t.net[d] = <<>>
        BY <1>2, <1>3, <3>3
      <4>2. CASE s.net[d] # <<>> /\ t.net[d] = Tail(s.net[d])
        <5>1. ShiftsBy(s, t, d, 1) /\ ContentsKept(s, t, d)
          BY <1>4, <4>2, NetShrinks
        <5> QED
          BY <5>1
      <4>3. CASE t.net[d] = <<>>
        <5>1. ShiftsBy(s, t, d, 0) /\ ContentsKept(s, t, d)
          BY <1>4, <4>3, NetStays
        <5> QED
          BY <5>1
      <4> QED
        BY <4>1, <4>2, <4>3
    <3> QED
      BY <3>4
  <2> QED
    BY <2>1, <2>2
<1>10. CASE Delay(d)
  <2>1. t.net[d] = s.net[d] \/ (s.net[d] # <<>> /\ t.net[d] = Append(s.net[d], Head(s.net[d])))
    <3>1. server.net \in [Clients -> Seq(ToClient)] /\ server \in ServerType
      BY <1>1 DEF ServerOK, ServerType
    <3>2. ASSUME NEW q, server' = [server EXCEPT !.net[d] = q]
          PROVE  server'.net[d] = q
      BY <3>1, <3>2 DEF ServerType
    <3>3. \/ server' = server
          \/ server.net[d] # <<>> /\ server'.net[d] = Append(server.net[d], Head(server.net[d]))
      BY <1>10, <3>2 DEF Delay
    <3> QED
      BY <1>2, <1>3, <3>3
  <2>2. ContentsKept(s, t, d)
    BY <1>4, <2>1, NetStays, NetRepeats
  <2> QED
    BY <1>2, <1>3, <1>10, <2>2
<1>11. CASE UNCHANGED vars
  BY <1>2, <1>3, <1>5, <1>11 DEF vars
<1>12. CASE \E c \in Clients : ClientNext(c)
  <2>1. PICK c \in Clients : ClientNext(c)
    BY <1>12
  <2>2. CASE ServerReceives(c)
    <3>1. ContentsKept(s, t, d) /\ (ShiftsBy(s, t, d, 0) \/ GetsSlot(d))
      BY <1>8, <2>2
    <3> QED
      BY <1>2, <1>3, <3>1
  <2>3. CASE ~ServerReceives(c) /\ ~(c = d /\ Delay(c))
    <3>1. \E n \in {0, 1} : ShiftsBy(s, t, d, n) /\ ContentsKept(s, t, d)
      BY <1>9, <2>1, <2>3
    <3> QED
      BY <1>2, <1>3, <3>1
  <2> QED
    BY <1>10, <2>2, <2>3
<1> QED
  BY <1>7, <1>11, <1>12 DEF Next

-----------------------------------------------------------------------------
(* The inductive invariant.                                                *)

\* No step makes a packet's challenge valid that was not.
LEMMA NoneBecomesValid ==
  ASSUME TypeOK, ServerMoves(server, server'), bounds' = bounds, NEW c \in Clients,
         NEW y \in Nat, y <= server.issued, ChallengeIsValid(server', c, y)
  PROVE  ChallengeIsValid(server, c, y)
<1>1. PICK e \in server'.challenges : e.host = bounds.hostOf[c] /\ e.challenge = y
  BY DEF ChallengeIsValid, ChallengesOf
<1>2. server.issued \in Nat
  BY DEF TypeOK, ServerType
<1>3. e \in server.challenges
  <2>1. ASSUME NEW d \in Clients, Issues(server, server', d) PROVE e \in server.challenges
    BY <1>1, <1>2, <2>1 DEF Issues, MakeRoom
  <2> QED
    BY <1>1, <2>1 DEF ServerMoves, KeepsChallenges, UsesChallenge
<1> QED
  BY <1>1, <1>3 DEF ChallengeIsValid, ChallengesOf

\* A connection that has been heard stays one, unless the client is set up anew.
LEMMA HeardStays ==
  ASSUME TypeOK, ChallengesSound, OneSlotPerClient, [Next]_vars, NEW d \in Clients, Heard(d), ~GetsSlot(d)
  PROVE  HeardIn(server', d)
<1>1. ServerOK(server)
  BY DEF TypeOK, ServerOK
<1>2. CASE SlotsMove(server, server')
  <2>1. \A j \in Slots : Inherits(server, server', j)
    BY <1>2, MovesInherit
  <2> QED
    BY <2>1 DEF Inherits, Heard, HeardIn
<1>3. CASE server'.slots = server.slots
  BY <1>3 DEF Heard, HeardIn
<1>4. CASE FakeConnect \/ \E i \in Slots : SlotNext(i)
  BY <1>2, <1>4, ServerAlone
<1>5. ASSUME NEW c \in Clients, ServerReceives(c) PROVE HeardIn(server', d)
  <2>1. ServerAnswers(server, server', c)
    BY <1>5, ServerReceivesAnswers
  <2>2. ASSUME NEW x \in Nat, Head(clients[c].net).kind = "connect", Head(clients[c].net).content = x,
               UsesChallenge(server, server', c, x), Connects(server, server', c, x)
        PROVE  HeardIn(server', d)
    <3>1. c # d
      BY <1>5, <2>2 DEF GetsSlot
    <3>2. PICK k \in Slots : ConnectsTo(server, server', c, x, k)
      BY <1>1, <2>2, ConnectsToOne
    <3> QED
      BY <3>1, <3>2 DEF ConnectsTo, Heard, HeardIn
  <2> QED
    BY <1>2, <1>3, <2>1, <2>2 DEF ServerAnswers
<1>6. ASSUME NEW c \in Clients, ClientNext(c), ~ServerReceives(c) PROVE HeardIn(server', d)
  <2>1. server'.slots = server.slots
    BY <1>6, OtherSteps, NetStepsChange
  <2> QED
    BY <1>3, <2>1
<1>7. UNCHANGED vars => server'.slots = server.slots
  BY DEF vars
<1> QED
  BY <1>3, <1>4, <1>5, <1>6, <1>7 DEF Next

\* Contents of packets stay below the number of challenges issued.
LEMMA PacketsKept ==
  ASSUME TypeOK, ChallengesSound, OneSlotPerClient, PacketsSound, [Next]_vars
  PROVE  PacketsSound'
<1> SUFFICES ASSUME NEW d \in Clients
             PROVE  /\ \A k \in 1..Len(server'.net[d]) : server'.net[d][k].content <= server'.issued
                    /\ \A k \in 1..Len(clients'[d].net) : clients'[d].net[k].content <= server'.issued
  BY DEF PacketsSound
<1>1. ServerMoves(server, server')
  BY StepMoves
<1>2. server \in ServerType /\ server'.issued \in Nat /\ server.issued \in Nat /\ server.issued <= server'.issued
  <2>1. server \in ServerType /\ server' \in ServerType
    BY <1>1 DEF TypeOK, ServerMoves, ServerOK
  <2>2. server'.issued \in Nat /\ server.issued \in Nat
    BY <2>1 DEF ServerType
  <2>3. server'.issued = server.issued \/ server'.issued = server.issued + 1
    BY <1>1 DEF ServerMoves, KeepsChallenges, Issues, UsesChallenge
  <2> QED
    BY <2>1, <2>2, <2>3
<1>3. /\ server.net[d] \in Seq(ToClient) /\ clients[d].net \in Seq(ToServer)
      /\ clients \in [Clients -> ClientType]
  BY <1>2 DEF TypeOK, ServerType, ClientType
<1>4. \A k \in 1..Len(server.net[d]) : server.net[d][k].content <= server'.issued
  <2>1. \A k \in 1..Len(server.net[d]) : server.net[d][k].content \in Nat
    <3>1. \A k \in 1..Len(server.net[d]) : server.net[d][k] \in ToClient
      BY <1>3
    <3> QED
      BY <3>1 DEF ToClient
  <2>2. \A k \in 1..Len(server.net[d]) : server.net[d][k].content <= server.issued
    BY DEF PacketsSound
  <2> QED
    BY <1>2, <2>1, <2>2
<1>5. \A k \in 1..Len(server'.net[d]) : server'.net[d][k].content <= server'.issued
  BY <1>4, StepShifts DEF ContentsKept
<1>6. \A k \in 1..Len(clients[d].net) : clients[d].net[k].content <= server'.issued
  <2>1. \A k \in 1..Len(clients[d].net) : clients[d].net[k].content \in Nat
    <3>1. \A k \in 1..Len(clients[d].net) : clients[d].net[k] \in ToServer
      BY <1>3
    <3> QED
      BY <3>1 DEF ToServer
  <2>2. \A k \in 1..Len(clients[d].net) : clients[d].net[k].content <= server.issued
    BY DEF PacketsSound
  <2> QED
    BY <1>2, <2>1, <2>2
<1>7. ASSUME NetKeeps(clients[d].net, clients'[d].net)
      PROVE  \A k \in 1..Len(clients'[d].net) : clients'[d].net[k].content <= server'.issued
  BY <1>2, <1>6, <1>7 DEF NetKeeps
<1>8. CASE clients'[d] = clients[d]
  BY <1>5, <1>6, <1>8
<1>9. ASSUME NEW new \in ClientType, clients' = [clients EXCEPT ![d] = new], ClientKeeps(clients[d], new)
      PROVE  NetKeeps(clients[d].net, clients'[d].net)
  BY <1>3, <1>9 DEF ClientKeeps
<1>10. ASSUME NEW new \in ClientType, clients' = [clients EXCEPT ![d] = new], new.net = clients[d].net
      PROVE  NetKeeps(clients[d].net, clients'[d].net)
  BY <1>3, <1>10 DEF NetKeeps
<1>11. ASSUME NEW new \in ClientType, clients' = [clients EXCEPT ![d] = new], server.net[d] # <<>>,
              AsksToConnect(clients[d], new, server.net[d])
       PROVE  \A k \in 1..Len(clients'[d].net) : clients'[d].net[k].content <= server'.issued
  <2>1. clients'[d].net = new.net
    BY <1>3, <1>11
  <2>2. PICK q \in Seq(ToServer) : q = clients[d].net
    BY <1>3
  <2>3. PICK p \in ToServer : new.net = Append(q, p) /\ p.content = server.net[d][1].content
    BY <1>11, <2>2 DEF AsksToConnect
  <2>4. 1 \in 1..Len(server.net[d])
    BY <1>3, <1>11
  <2>5. p.content <= server'.issued
    BY <1>4, <2>3, <2>4
  <2>6. \A k \in 1..Len(new.net) : (k \in 1..Len(q) /\ new.net[k] = q[k]) \/ new.net[k] = p
    BY <2>3
  <2> QED
    BY <1>6, <2>1, <2>2, <2>5, <2>6
<1>12. ASSUME NEW c \in Clients, ClientNext(c)
       PROVE  \A k \in 1..Len(clients'[d].net) : clients'[d].net[k].content <= server'.issued
  <2>1. \E new \in ClientType : clients' = [clients EXCEPT ![c] = new]
    BY <1>12, OthersKeep, ReceivesKeeps
  <2>2. CASE c # d
    <3>1. clients'[d] = clients[d]
      BY <1>3, <2>1, <2>2
    <3> QED
      BY <1>8, <3>1
  <2>3. CASE c = d /\ ClientReceives(d)
    BY <1>7, <1>9, <1>10, <1>11, <2>3, ReceivesKeeps DEF HasAnswer, HasLevel
  <2>4. CASE c = d /\ ~ClientReceives(d)
    BY <1>7, <1>9, <1>12, <2>4, OthersKeep
  <2> QED
    BY <2>2, <2>3, <2>4
<1>13. CASE clients' = clients
  BY <1>8, <1>13
<1>14. FakeConnect \/ (\E i \in Slots : SlotNext(i)) \/ UNCHANGED vars => clients' = clients
  BY DEF FakeConnect, SlotNext, Kick, ReconnectLimitPasses, CheckTimeouts, vars
<1> QED
  BY <1>5, <1>12, <1>13, <1>14 DEF Next

\* What is left to show of a client when no late copy comes and its packets shift.
LEMMA AnswersShift ==
  ASSUME TypeOK, PacketsSound, ServerMoves(server, server'), bounds' = bounds,
         NEW d \in Clients, NEW n \in {0, 1}, ShiftsBy(server, server', d, n),
         NothingFollowsAnAnswer(d), Heard(d) => HeardIn(server', d),
         Answered(d)' => \A k \in 1..Len(clients'[d].net) :
                           clients'[d].net[k].kind = "connect" => ~ChallengeIsValid(server', d, clients'[d].net[k].content),
         clients'[d].state = "CA_HANDSHAKE" =>
           \/ clients[d].state = "CA_HANDSHAKE"
           \/ n = 1 /\ server.net[d] # <<>> /\ server.net[d][1].kind = "client_connect",
         clients'[d].state = "CA_CONNECTED" => clients[d].state = "CA_CONNECTED" \/ Heard(d)
  PROVE  NothingFollowsAnAnswer(d)'
<1>1. PICK q \in Seq(ToClient) : q = server.net[d]
  BY DEF TypeOK, ServerType
<1>2. PICK r \in Seq(ToClient) : r = server'.net[d]
  BY DEF ServerMoves, ServerOK, ServerType
<1>3. \A k \in 1..Len(r) : \/ k + n \in 1..Len(q) /\ r[k] = q[k + n]
                           \/ k = Len(r) /\ NewPacket(server', d, r[k])
  BY <1>1, <1>2 DEF ShiftsBy
<1>4. \A k \in 1..Len(q) : q[k].content \in Nat /\ q[k].content <= server.issued
  <2>1. \A k \in 1..Len(q) : q[k] \in ToClient
    OBVIOUS
  <2>2. \A k \in 1..Len(q) : q[k].content <= server.issued
    BY <1>1 DEF PacketsSound
  <2> QED
    BY <2>1, <2>2 DEF ToClient
<1>5. Len(q) \in Nat /\ Len(r) \in Nat /\ n \in Nat
  OBVIOUS
<1>6. ASSUME NEW k \in 1..Len(r), r[k].kind = "client_connect" PROVE k + n \in 1..Len(q) /\ r[k] = q[k + n]
  BY <1>3, <1>6 DEF NewPacket
<1>7. ASSUME NEW k \in 1..Len(r), NEW j \in 1..(k - 1)
      PROVE  j \in 1..Len(r) /\ j + n \in 1..Len(q) /\ j + n < k + n /\ r[j] = q[j + n]
  <2>1. j \in 1..Len(r) /\ j # Len(r) /\ j + n < k + n
    BY <1>5
  <2> QED
    BY <1>3, <2>1
<1>8. ASSUME NEW k \in 1..Len(r), r[k].kind = "client_connect", NEW j \in 1..(k - 1), r[j].kind = "challenge"
      PROVE  ~ChallengeIsValid(server', d, r[j].content)
  <2>1. k + n \in 1..Len(q) /\ q[k + n].kind = "client_connect"
    BY <1>6, <1>8
  <2>2. j + n \in 1..Len(q) /\ j + n < k + n /\ r[j] = q[j + n]
    BY <1>7, <1>8
  <2>3. j + n \in 1..((k + n) - 1)
    BY <1>5, <2>1, <2>2
  <2>4. ~ChallengeIsValid(server, d, q[j + n].content)
    BY <1>1, <1>8, <2>1, <2>2, <2>3 DEF NothingFollowsAnAnswer
  <2>5. q[j + n].content \in Nat /\ q[j + n].content <= server.issued
    BY <1>4, <2>2
  <2> QED
    BY <2>2, <2>4, <2>5, NoneBecomesValid
<1>9. ASSUME NEW k \in 1..Len(r), r[k].kind = "serverdata",
             \/ clients'[d].state = "CA_HANDSHAKE"
             \/ \E j \in 1..(k - 1) : r[j].kind = "client_connect"
      PROVE  HeardIn(server', d)
  <2>1. CASE NewPacket(server', d, r[k])
    BY <1>9, <2>1 DEF NewPacket
  <2>2. CASE k + n \in 1..Len(q) /\ r[k] = q[k + n]
    <3>1. CASE \E j \in 1..(k - 1) : r[j].kind = "client_connect"
      <4>1. PICK j \in 1..(k - 1) : r[j].kind = "client_connect"
        BY <3>1
      <4>2. j + n \in 1..((k + n) - 1) /\ q[j + n].kind = "client_connect"
        BY <1>5, <1>7, <2>2, <4>1
      <4>3. Heard(d)
        BY <1>1, <1>9, <2>2, <4>2 DEF NothingFollowsAnAnswer
      <4> QED
        BY <4>3
    <3>2. CASE clients'[d].state = "CA_HANDSHAKE" /\ clients[d].state = "CA_HANDSHAKE"
      <4>1. Heard(d)
        BY <1>1, <1>9, <2>2, <3>2 DEF NothingFollowsAnAnswer
      <4> QED
        BY <4>1
    <3>3. CASE n = 1 /\ q # <<>> /\ q[1].kind = "client_connect"
      <4>1. 1 \in 1..((k + n) - 1)
        BY <1>5, <3>3
      <4>2. Heard(d)
        BY <1>1, <1>9, <2>2, <3>3, <4>1 DEF NothingFollowsAnAnswer
      <4> QED
        BY <4>2
    <3> QED
      BY <1>1, <1>9, <3>1, <3>2, <3>3
  <2> QED
    BY <1>3, <2>1, <2>2
<1>10. clients'[d].state = "CA_CONNECTED" => HeardIn(server', d)
  <2>1. clients'[d].state = "CA_CONNECTED" => Heard(d)
    BY DEF NothingFollowsAnAnswer
  <2> QED
    BY <2>1
<1>11. HeardIn(server', d) <=> Heard(d)'
  BY DEF HeardIn, Heard, IsLive
<1>12. \A y : ChallengeIsValid(server', d, y) <=> (y \in ChallengesOf(server, d)')
  BY DEF ChallengeIsValid, ChallengesOf
<1>13. \A k \in 1..Len(r) : r[k].kind = "client_connect" =>
         \A j \in 1..(k - 1) : r[j].kind = "challenge" => ~ChallengeIsValid(server', d, r[j].content)
  BY <1>8
<1>14. \A k \in 1..Len(r) : r[k].kind = "serverdata" /\ (clients'[d].state = "CA_HANDSHAKE"
                                                        \/ \E j \in 1..(k - 1) : r[j].kind = "client_connect")
         => Heard(d)'
  BY <1>9, <1>11
<1>15. clients'[d].state = "CA_CONNECTED" => Heard(d)'
  BY <1>10, <1>11
<1>16. /\ Answered(d)' => \A k \in 1..Len(clients'[d].net) :
              clients'[d].net[k].kind = "connect" => ~(clients'[d].net[k].content \in ChallengesOf(server, d)')
       /\ \A k \in 1..Len(r) : r[k].kind = "client_connect" =>
            \A j \in 1..(k - 1) : r[j].kind = "challenge" => ~(r[j].content \in ChallengesOf(server, d)')
  BY <1>12, <1>13
<1> QED
  BY <1>2, <1>14, <1>15, <1>16 DEF NothingFollowsAnAnswer, ChallengeIsValid

\* Connects that get nothing still get nothing.
LEMMA ConnectsStayInvalid ==
  ASSUME TypeOK, PacketsSound, ServerMoves(server, server'), bounds' = bounds,
         NEW d \in Clients, NothingFollowsAnAnswer(d), Answered(d),
         NetKeeps(clients[d].net, clients'[d].net)
  PROVE  \A k \in 1..Len(clients'[d].net) :
           clients'[d].net[k].kind = "connect" => ~ChallengeIsValid(server', d, clients'[d].net[k].content)
<1> SUFFICES ASSUME NEW k \in 1..Len(clients'[d].net), clients'[d].net[k].kind = "connect"
             PROVE  ~ChallengeIsValid(server', d, clients'[d].net[k].content)
  OBVIOUS
<1>1. PICK m \in 1..Len(clients[d].net) : clients'[d].net[k] = clients[d].net[m]
  BY DEF NetKeeps
<1>2. ~ChallengeIsValid(server, d, clients[d].net[m].content)
  BY <1>1 DEF NothingFollowsAnAnswer
<1>3. clients[d].net \in Seq(ToServer)
  BY DEF TypeOK, ClientType
<1>4. clients[d].net[m] \in ToServer
  BY <1>3
<1>5. clients[d].net[m].content \in Nat /\ clients[d].net[m].content <= server.issued
  BY <1>4 DEF ToServer, PacketsSound
<1> QED
  BY <1>1, <1>2, <1>5, NoneBecomesValid

\* A client that gets a slot had no answer, and no challenge is left for it.
LEMMA SlotIsFirstAnswer ==
  ASSUME TypeOK, ServerMoves(server, server'), bounds' = bounds,
         NEW d \in Clients, NothingFollowsAnAnswer(d), GetsSlot(d)
  PROVE  NothingFollowsAnAnswer(d)'
<1>1. ServerOK(server) /\ ServerOK(server')
  BY DEF TypeOK, ServerOK, ServerMoves
<1>2. PICK x \in Nat : /\ Head(clients[d].net).kind = "connect" /\ Head(clients[d].net).content = x
                       /\ UsesChallenge(server, server', d, x) /\ Connects(server, server', d, x)
  BY DEF GetsSlot
<1>3. clients[d].net \in Seq(ToServer) /\ clients[d].net # <<>> /\ clients \in [Clients -> ClientType]
  BY DEF TypeOK, ClientType, GetsSlot, ServerReceives
<1>4. ~Answered(d)
  <2>1. 1 \in 1..Len(clients[d].net) /\ Head(clients[d].net) = clients[d].net[1]
    BY <1>3
  <2>2. ChallengeIsValid(server, d, clients[d].net[1].content)
    BY <1>2, <2>1 DEF UsesChallenge, ChallengeIsValid
  <2> QED
    BY <1>2, <2>1, <2>2 DEF NothingFollowsAnAnswer
<1>5. ~HasConnection(clients'[d])
  <2>1. clients'[d].state = clients[d].state
    BY <1>3 DEF GetsSlot, ServerReceives, ClientType
  <2> QED
    BY <1>4, <2>1 DEF Answered, HasConnection
<1>6. \A y : ~(y \in ChallengesOf(server, d)')
  BY <1>2 DEF UsesChallenge, ChallengesOf
<1>7. \A k \in 1..Len(server'.net[d]) : \A j \in 1..(k - 1) : server'.net[d][j].kind # "client_connect"
  <2>1. SendsTo(server, server', d, {"client_connect"})
    BY <1>1, <1>2, ConnectsToOne
  <2>2. \A k \in 1..Len(server'.net[d]) :
          \/ k \in 1..Len(server.net[d]) /\ server'.net[d][k] = server.net[d][k]
          \/ k = Len(server'.net[d])
    <3>1. CASE server'.net[d] = server.net[d]
      BY <3>1
    <3>2. CASE \E content \in 0..server'.issued :
                 server'.net[d] = Append(server.net[d], [kind |-> "client_connect", content |-> content])
      BY <1>1, <3>2, AppendShifts
    <3> QED
      BY <2>1, <3>1, <3>2 DEF SendsTo
  <2>3. server'.net[d] \in Seq(ToClient)
    BY <1>1 DEF ServerOK, ServerType
  <2>4. Len(server'.net[d]) \in Nat
    BY <2>3
  <2>5. ASSUME NEW k \in 1..Len(server'.net[d]), NEW j \in 1..(k - 1)
        PROVE  j \in 1..Len(server'.net[d]) /\ j # Len(server'.net[d])
    BY <2>4
  <2> QED
    BY <1>4, <2>2, <2>5 DEF Answered
<1> QED
  BY <1>5, <1>6, <1>7 DEF NothingFollowsAnAnswer, ChallengeIsValid, HasConnection

\* A client that keeps to what it has, or reads an answer.
LEMMA ClientAnswers ==
  ASSUME TypeOK, PacketsSound, ServerMoves(server, server'), bounds' = bounds,
         NEW d \in Clients, NothingFollowsAnAnswer(d), Heard(d) => HeardIn(server', d),
         NEW n \in {0, 1}, ShiftsBy(server, server', d, n), ClientKeeps(clients[d], clients'[d])
  PROVE  NothingFollowsAnAnswer(d)'
<1>1. HasConnection(clients'[d]) => clients'[d].state = clients[d].state
  BY DEF ClientKeeps
<1>2. Answered(d)' => Answered(d)
  <2>1. CASE HasConnection(clients'[d])
    BY <1>1, <2>1 DEF Answered, HasConnection
  <2>2. ASSUME NEW k \in 1..Len(server'.net[d]), server'.net[d][k].kind = "client_connect" PROVE Answered(d)
    BY <2>2 DEF ShiftsBy, NewPacket, Answered
  <2> QED
    BY <2>1, <2>2 DEF Answered, HasConnection
<1>3. Answered(d)' => \A k \in 1..Len(clients'[d].net) :
           clients'[d].net[k].kind = "connect" => ~ChallengeIsValid(server', d, clients'[d].net[k].content)
  BY <1>2, ConnectsStayInvalid DEF ClientKeeps
<1>4. /\ clients'[d].state = "CA_HANDSHAKE" => clients[d].state = "CA_HANDSHAKE"
      /\ clients'[d].state = "CA_CONNECTED" => clients[d].state = "CA_CONNECTED"
  BY <1>1 DEF HasConnection
<1> QED
  BY <1>3, <1>4, AnswersShift

\* When a client reads an answer, nothing follows one in what is left to be read.
LEMMA AnswerIsRead ==
  ASSUME TypeOK, PacketsSound, ServerMoves(server, server'), bounds' = bounds,
         NEW d \in Clients, NothingFollowsAnAnswer(d), Heard(d) => HeardIn(server', d),
         server.net[d] # <<>>, server'.net[d] = Tail(server.net[d]),
         NEW new, new = clients'[d],
         \/ AsksToConnect(clients[d], new, server.net[d])
         \/ HasAnswer(clients[d], new, server.net[d])
         \/ HasLevel(clients[d], new, server.net[d])
  PROVE  NothingFollowsAnAnswer(d)'
<1>1. ServerOK(server) /\ ShiftsBy(server, server', d, 1)
  <2>1. ServerOK(server)
    BY DEF TypeOK, ServerOK
  <2> QED
    BY <2>1, NetShrinks
<1>2. PICK q \in Seq(ToClient) : q = server.net[d] /\ q # <<>>
  BY <1>1 DEF ServerOK, ServerType
<1>3. Len(q) \in Nat \ {0} /\ 1 \in 1..Len(q)
  BY <1>2
<1>4. ASSUME NEW k \in 1..Len(Tail(q)), Tail(q)[k].kind = "client_connect"
      PROVE  k + 1 \in 1..Len(q) /\ q[k + 1].kind = "client_connect" /\ 1 \in 1..((k + 1) - 1)
  BY <1>2, <1>4
<1>5. CASE AsksToConnect(clients[d], new, q)
  <2>1. /\ ~HasConnection(clients'[d]) /\ clients'[d].state = clients[d].state /\ ~HasConnection(clients[d])
    BY <1>5 DEF AsksToConnect, HasConnection
  <2>2. ASSUME Answered(d)', NEW k \in 1..Len(clients'[d].net), clients'[d].net[k].kind = "connect"
        PROVE  ~ChallengeIsValid(server', d, clients'[d].net[k].content)
    <3>1. PICK m \in 1..Len(Tail(q)) : Tail(q)[m].kind = "client_connect"
      BY <1>2, <2>1, <2>2 DEF Answered
    <3>2. m + 1 \in 1..Len(q) /\ q[m + 1].kind = "client_connect" /\ 1 \in 1..((m + 1) - 1)
      BY <1>4, <3>1
    <3>3. Answered(d)
      BY <1>2, <3>2 DEF Answered
    <3>4. ~ChallengeIsValid(server, d, q[1].content)
      BY <1>2, <1>5, <3>2 DEF NothingFollowsAnAnswer, AsksToConnect
    <3>5. q[1] \in ToClient /\ q[1].content <= server.issued
      BY <1>2, <1>3 DEF PacketsSound
    <3>6. ~ChallengeIsValid(server', d, q[1].content)
      BY <3>4, <3>5, NoneBecomesValid DEF ToClient
    <3>7. PICK u \in Seq(ToServer) : u = clients[d].net
      BY DEF TypeOK, ClientType
    <3>8. PICK p \in ToServer : clients'[d].net = Append(u, p) /\ p.content = q[1].content
      BY <1>5, <3>7 DEF AsksToConnect
    <3>9. CASE clients'[d].net[k] = p
      BY <3>6, <3>8, <3>9
    <3>10. CASE k \in 1..Len(u) /\ clients'[d].net[k] = u[k]
      <4>1. ~ChallengeIsValid(server, d, u[k].content)
        BY <2>2, <3>3, <3>7, <3>10 DEF NothingFollowsAnAnswer
      <4>2. u[k] \in ToServer /\ u[k].content <= server.issued
        BY <3>7, <3>10 DEF PacketsSound
      <4> QED
        BY <3>10, <4>1, <4>2, NoneBecomesValid DEF ToServer
    <3>11. clients'[d].net[k] = p \/ (k \in 1..Len(u) /\ clients'[d].net[k] = u[k])
      BY <3>8
    <3> QED
      BY <3>9, <3>10, <3>11
  <2>3. /\ clients'[d].state # "CA_HANDSHAKE" /\ clients'[d].state # "CA_CONNECTED"
    BY <2>1 DEF HasConnection
  <2> QED
    BY <1>1, <2>2, <2>3, AnswersShift
<1>6. CASE HasAnswer(clients[d], new, q)
  <2>1. Answered(d)
    BY <1>2, <1>3, <1>6 DEF Answered, HasAnswer
  <2>2. NetKeeps(clients[d].net, clients'[d].net)
    BY <1>6 DEF HasAnswer, NetKeeps
  <2>3. \A k \in 1..Len(clients'[d].net) :
           clients'[d].net[k].kind = "connect" => ~ChallengeIsValid(server', d, clients'[d].net[k].content)
    BY <2>1, <2>2, ConnectsStayInvalid
  <2>4. clients'[d].state # "CA_CONNECTED" /\ server.net[d][1].kind = "client_connect"
    BY <1>2, <1>6 DEF HasAnswer
  <2> QED
    BY <1>1, <2>3, <2>4, AnswersShift
<1>7. CASE HasLevel(clients[d], new, q)
  <2>1. Answered(d)
    BY <1>7 DEF Answered, HasLevel, HasConnection
  <2>2. NetKeeps(clients[d].net, clients'[d].net)
    BY <1>7 DEF HasLevel, NetKeeps
  <2>3. \A k \in 1..Len(clients'[d].net) :
           clients'[d].net[k].kind = "connect" => ~ChallengeIsValid(server', d, clients'[d].net[k].content)
    BY <2>1, <2>2, ConnectsStayInvalid
  <2>4. Heard(d)
    BY <1>2, <1>3, <1>7 DEF HasLevel, NothingFollowsAnAnswer
  <2>5. clients'[d].state # "CA_HANDSHAKE"
    BY <1>7 DEF HasLevel
  <2> QED
    BY <1>1, <2>3, <2>4, <2>5, AnswersShift
<1> QED
  BY <1>2, <1>5, <1>6, <1>7

\* No late copy has come.
LEMMA DelaysCount ==
  ASSUME TypeOK, [Next]_vars, counts'.delays = 0
  PROVE  counts.delays = 0 /\ \A c \in Clients : ~Delay(c)
<1>1. counts \in [{"bots", "kicks", "losses", "delays", "rebinds"} -> Nat] /\ counts.delays \in Nat
  BY DEF TypeOK
<1>2. ASSUME NEW c \in Clients, Delay(c) PROVE FALSE
  BY <1>1, <1>2 DEF Delay
<1>3. ASSUME NEW c \in Clients, ClientNext(c), ~Delay(c) PROVE counts'.delays = counts.delays
  BY <1>1, <1>3 DEF ClientNext, Connect, Disconnect, CheckForResend, ClientReceives, ClientSends, ClientTimesOut,
                    ServerReceives, Lose, Rebind
<1>4. FakeConnect \/ (\E i \in Slots : SlotNext(i)) \/ UNCHANGED vars => counts'.delays = counts.delays
  BY <1>1 DEF FakeConnect, SlotNext, Kick, ReconnectLimitPasses, CheckTimeouts, vars
<1> QED
  BY <1>2, <1>3, <1>4 DEF Next

\* Nobody that has been answered gets a slot anew.
LEMMA AnswersKept ==
  ASSUME TypeOK, ChallengesSound, OneSlotPerClient, PacketsSound, AnswersSound, [Next]_vars
  PROVE  AnswersSound'
<1> SUFFICES ASSUME counts'.delays = 0, NEW d \in Clients PROVE NothingFollowsAnAnswer(d)'
  BY DEF AnswersSound
<1>1. counts.delays = 0 /\ \A c \in Clients : ~Delay(c)
  BY DelaysCount
<1>2. NothingFollowsAnAnswer(d)
  BY <1>1 DEF AnswersSound
<1>3. ServerMoves(server, server') /\ bounds' = bounds
  BY StepMoves
<1>4. CASE GetsSlot(d)
  BY <1>2, <1>3, <1>4, SlotIsFirstAnswer
<1>5. CASE ~GetsSlot(d)
  <2>1. Heard(d) => HeardIn(server', d)
    BY <1>5, HeardStays
  <2>2. PICK n \in {0, 1} : ShiftsBy(server, server', d, n)
    BY <1>1, <1>5, StepShifts
  <2>3. clients \in [Clients -> ClientType]
    BY DEF TypeOK
  <2>4. ASSUME ClientKeeps(clients[d], clients'[d]) PROVE NothingFollowsAnAnswer(d)'
    BY <1>2, <1>3, <2>1, <2>2, <2>4, ClientAnswers
  <2>5. CASE clients'[d] = clients[d]
    <3>1. ClientKeeps(clients[d], clients'[d])
      BY <2>3, <2>5 DEF ClientKeeps, NetKeeps
    <3> QED
      BY <2>4, <3>1
  <2>6. CASE ClientReceives(d)
    <3>1. PICK new \in ClientType :
           /\ clients' = [clients EXCEPT ![d] = new]
           /\ server.net[d] # <<>> /\ server'.net[d] = Tail(server.net[d])
           /\ \/ ClientKeeps(clients[d], new)
              \/ AsksToConnect(clients[d], new, server.net[d])
              \/ HasAnswer(clients[d], new, server.net[d])
              \/ HasLevel(clients[d], new, server.net[d])
      BY <2>6, ReceivesKeeps
    <3>2. clients'[d] = new
      BY <2>3, <3>1
    <3>3. CASE ClientKeeps(clients[d], new)
      BY <2>4, <3>2, <3>3
    <3>4. CASE \/ AsksToConnect(clients[d], new, server.net[d])
               \/ HasAnswer(clients[d], new, server.net[d])
               \/ HasLevel(clients[d], new, server.net[d])
      BY <1>2, <1>3, <2>1, <3>1, <3>2, <3>4, AnswerIsRead
    <3> QED
      BY <3>1, <3>3, <3>4
  <2>7. CASE ClientNext(d) /\ ~ClientReceives(d)
    <3>1. PICK new \in ClientType : clients' = [clients EXCEPT ![d] = new] /\ ClientKeeps(clients[d], new)
      BY <2>7, OthersKeep
    <3>2. clients'[d] = new
      BY <2>3, <3>1
    <3> QED
      BY <2>4, <3>1, <3>2
  <2>8. ASSUME NEW c \in Clients, c # d, ClientNext(c) PROVE clients'[d] = clients[d]
    <3>1. \E new \in ClientType : clients' = [clients EXCEPT ![c] = new]
      BY <2>8, OthersKeep, ReceivesKeeps
    <3> QED
      BY <2>3, <2>8, <3>1
  <2>9. FakeConnect \/ (\E i \in Slots : SlotNext(i)) \/ UNCHANGED vars => clients'[d] = clients[d]
    BY DEF FakeConnect, SlotNext, Kick, ReconnectLimitPasses, CheckTimeouts, vars
  <2> QED
    BY <2>5, <2>6, <2>7, <2>8, <2>9 DEF Next
<1> QED
  BY <1>4, <1>5

\* The types stay.
LEMMA TypesKept ==
  ASSUME TypeOK, ChallengesSound, OneSlotPerClient, [Next]_vars
  PROVE  TypeOK'
<1>1. ServerMoves(server, server') /\ bounds' = bounds
  BY StepMoves
<1>2. Cardinality(server'.challenges) <= MaxChallenges
  BY <1>1, ChallengesKept
<1>3. /\ server' \in ServerType
      /\ \A i \in Slots : IsLive(server'.slots[i]) => server'.slots[i].client # "none" /\ server'.inGame[i]
  BY <1>1 DEF ServerMoves, ServerOK
<1>4. clients' \in [Clients -> ClientType]
  <2>1. clients \in [Clients -> ClientType]
    BY DEF TypeOK
  <2>2. ASSUME NEW c \in Clients, ClientNext(c) PROVE clients' \in [Clients -> ClientType]
    <3>1. \E new \in ClientType : clients' = [clients EXCEPT ![c] = new]
      BY <2>2, OthersKeep, ReceivesKeeps
    <3> QED
      BY <2>1, <3>1
  <2>3. FakeConnect \/ (\E i \in Slots : SlotNext(i)) \/ UNCHANGED vars => clients' = clients
    BY DEF FakeConnect, SlotNext, Kick, ReconnectLimitPasses, CheckTimeouts, vars
  <2> QED
    BY <2>1, <2>2, <2>3 DEF Next
<1>5. counts' \in [{"bots", "kicks", "losses", "delays", "rebinds"} -> Nat]
  <2>1. counts \in [{"bots", "kicks", "losses", "delays", "rebinds"} -> Nat]
    BY DEF TypeOK
  <2>2. ASSUME NEW x \in {"bots", "kicks", "losses", "delays", "rebinds"}, counts' = [counts EXCEPT ![x] = @ + 1]
        PROVE  counts' \in [{"bots", "kicks", "losses", "delays", "rebinds"} -> Nat]
    BY <2>1, <2>2
  <2>3. \/ counts' = counts
        \/ \E x \in {"bots", "kicks", "losses", "delays", "rebinds"} : counts' = [counts EXCEPT ![x] = @ + 1]
    BY DEF Next, ClientNext, SlotNext, FakeConnect, Kick, ReconnectLimitPasses, CheckTimeouts, Connect, Disconnect,
           CheckForResend, ClientReceives, ClientSends, ClientTimesOut, ServerReceives, Lose, Delay, Rebind, vars
  <2> QED
    BY <2>1, <2>2, <2>3
<1> QED
  BY <1>1, <1>2, <1>3, <1>4, <1>5 DEF TypeOK

\* The first state has nothing of all this.
LEMMA InitHolds == Init => IInv
<1> SUFFICES ASSUME Init PROVE IInv
  OBVIOUS
<1>1. server.slots \in [Slots -> SlotType] /\ \A i \in Slots : server.slots[i] = FreeSlot
  BY EmptySlots DEF Init
<1>2. /\ server = [slots |-> server.slots, inGame |-> server.inGame, challenges |-> {}, issued |-> 0, net |-> server.net]
      /\ server.inGame \in [Slots -> BOOLEAN] /\ server.net = [c \in Clients |-> <<>>]
  BY DEF Init
<1>3. \A c \in Clients : /\ clients[c] \in ClientType /\ clients[c].net = <<>>
                         /\ clients[c].state = "CA_DISCONNECTED"
  BY DEF Init, ClientType
<1>4. \A c \in Clients : server.net[c] = <<>>
  BY <1>2
<1>5. FreeSlot.client \notin Clients /\ ~IsInUse(FreeSlot) /\ ~IsLive(FreeSlot)
  BY EmptySlots DEF FreeSlot, IsInUse, IsLive
<1>6. IsFiniteSet({}) /\ Cardinality({}) = 0
  BY FS_EmptySet
<1>7. TypeOK
  <2>1. server \in ServerType
    <3>1. server.net \in [Clients -> Seq(ToClient)]
      <4>1. <<>> \in Seq(ToClient)
        OBVIOUS
      <4> QED
        BY <1>2, <4>1
    <3>2. server.challenges = {} /\ server.issued = 0
      BY DEF Init
    <3> QED
      <4>1. PICK a \in [Slots -> SlotType], b \in [Slots -> BOOLEAN], q \in [Clients -> Seq(ToClient)] :
              server = [slots |-> a, inGame |-> b, challenges |-> {}, issued |-> 0, net |-> q]
        BY <1>1, <1>2, <3>1
      <4>2. {} \in SUBSET [host : STRING, challenge : Nat]
        OBVIOUS
      <4> QED
        BY <4>1, <4>2 DEF ServerType
  <2>2. clients \in [Clients -> ClientType]
    BY <1>3 DEF Init
  <2>3. counts \in [{"bots", "kicks", "losses", "delays", "rebinds"} -> Nat] /\ bounds \in Scenarios
    BY DEF Init
  <2>4. Cardinality(server.challenges) <= MaxChallenges
    <3>1. server.challenges = {} /\ MaxChallenges \in Nat
      BY CountsAssumption DEF Init
    <3> QED
      BY <1>6, <3>1
  <2>5. \A i \in Slots : IsLive(server.slots[i]) => server.slots[i].client # "none" /\ server.inGame[i]
    BY <1>1, <1>5
  <2> QED
    BY <2>1, <2>2, <2>3, <2>4, <2>5 DEF TypeOK
<1>8. ChallengesSound
  <2>1. server.challenges = {}
    BY DEF Init
  <2> QED
    BY <1>6, <2>1 DEF ChallengesSound
<1>9. ChallengesSpent
  BY <1>1, <1>5 DEF ChallengesSpent
<1>10. PacketsSound
  BY <1>3, <1>4 DEF PacketsSound
<1>11. OneSlotPerClient
  BY <1>1, <1>5 DEF OneSlotPerClient
<1>12. HostLimitKept
  <2>1. ASSUME NEW c \in Clients PROVE {i \in SameHost(server, c) : IsLive(server.slots[i])} = {}
    BY <1>1, <1>5 DEF SameHost
  <2>2. ASSUME NEW c \in Clients PROVE Cardinality({i \in SameHost(server, c) : IsLive(server.slots[i])}) <= bounds.ipLimit
    <3>1. bounds.ipLimit \in Nat
      BY <1>7, HostsAreStrings DEF TypeOK
    <3>2. Cardinality({i \in SameHost(server, c) : IsLive(server.slots[i])}) = 0
      BY <1>6, <2>1
    <3> QED
      BY <3>1, <3>2
  <2> QED
    BY <2>2 DEF HostLimitKept
<1>13. AnswersSound
  BY <1>3, <1>4 DEF AnswersSound, NothingFollowsAnAnswer, Answered, HasConnection
<1> QED
  BY <1>7, <1>8, <1>9, <1>10, <1>11, <1>12, <1>13 DEF IInv

\* Every step keeps it.
LEMMA StepHolds == IInv /\ [Next]_vars => IInv'
<1> SUFFICES ASSUME IInv, [Next]_vars PROVE IInv'
  OBVIOUS
<1>1. /\ TypeOK /\ ChallengesSound /\ ChallengesSpent /\ PacketsSound /\ OneSlotPerClient
      /\ HostLimitKept /\ AnswersSound
  BY DEF IInv
<1>2. ServerMoves(server, server') /\ bounds' = bounds
  BY <1>1, StepMoves
<1>3. TypeOK'
  BY <1>1, TypesKept
<1>4. ChallengesSound'
  BY <1>1, <1>2, ChallengesKept
<1>5. ChallengesSpent'
  BY <1>1, <1>2, SpentKept
<1>6. PacketsSound'
  BY <1>1, PacketsKept
<1>7. OneSlotPerClient'
  BY <1>1, <1>2, OneSlotKept
<1>8. HostLimitKept'
  BY <1>1, <1>2, HostLimitStays
<1>9. AnswersSound'
  BY <1>1, AnswersKept
<1> QED
  BY <1>3, <1>4, <1>5, <1>6, <1>7, <1>8, <1>9 DEF IInv

\* The invariant holds in every state.
THEOREM Invariant == Spec => []IInv
<1> QED
  BY InitHolds, StepHolds, PTL DEF Spec

\* What it says of the slots: a client has one, its host not too many, and no
\* client that has been answered is set up anew under its feet.
THEOREM SlotsAreSound == Spec => []SlotsSound
<1>1. IInv => SlotsSound
  <2> SUFFICES ASSUME IInv PROVE SlotsSound
    OBVIOUS
  <2>1. TypeOK /\ OneSlotPerClient /\ HostLimitKept /\ AnswersSound
    BY DEF IInv
  <2>2. ASSUME counts.delays = 0, NEW c \in Clients, NEW i \in Slots,
               clients[c].state = "CA_CONNECTED", IsLive(server.slots[i]), server.slots[i].client = c
        PROVE  server.slots[i].heard
    <3>1. Heard(c)
      BY <2>1, <2>2 DEF AnswersSound, NothingFollowsAnAnswer
    <3> QED
      BY <2>2, <3>1 DEF Heard
  <2> QED
    BY <2>1, <2>2 DEF SlotsSound, NotStranded
<1> QED
  BY <1>1, Invariant, PTL

\* "reset challenge": a challenge that has got its slot sets up no connection
\* again, whatever is repeated.
THEOREM ChallengeIsUsedOnce == Spec => ChallengeUsedOnce
<1>1. ASSUME IInv, [Next]_vars
      PROVE  [\A i, j \in Slots :
               LET old == server.slots[i]  new == server'.slots[j]
               IN /\ IsLive(new) /\ new.client \in Clients
                  /\ old.challenge = new.challenge /\ old.client \in Clients
                  => i = j /\ IsLive(old) /\ (new.recent => old.recent)]_vars
  <2>1. TypeOK /\ ChallengesSound /\ ChallengesSpent /\ OneSlotPerClient
    BY <1>1 DEF IInv
  <2>2. ServerMoves(server, server')
    BY <1>1, <2>1, StepMoves
  <2> QED
    BY <2>1, <2>2, UsedOnce
<1> QED
  BY <1>1, Invariant, PTL DEF Spec, ChallengeUsedOnce

\* A client's connect takes no other client's place.
THEOREM PlacesAreKept == Spec => PlaceIsNotTaken
<1>1. ASSUME IInv, [Next]_vars
      PROVE  [\A i \in Slots :
               IsLive(server.slots[i]) /\ server.slots[i].client \in Clients /\ IsLive(server'.slots[i])
                 => server'.slots[i].client = server.slots[i].client]_vars
  <2>1. TypeOK /\ ChallengesSound /\ OneSlotPerClient
    BY <1>1 DEF IInv
  <2>2. ServerMoves(server, server')
    BY <1>1, <2>1, StepMoves
  <2> QED
    BY <2>1, <2>2, PlaceStays
<1> QED
  BY <1>1, Invariant, PTL DEF Spec, PlaceIsNotTaken
===============================================================================
