--------------------------- MODULE MessageChannel ----------------------------
(* What a pair of netchans promises to its users: of the messages sent by    *)
(* each end the other one gets some, unchanged, in order and at most once;   *)
(* with each it learns of a message of its own that the sender had got.      *)
EXTENDS Naturals, Sequences

CONSTANTS Ends, Peer(_), Messages

VARIABLES sent,   \* the messages an end has sent; their sequence numbers are their positions
          got,    \* what an end has got: sequence numbers and messages
          acked   \* the last message of an end that it knows the peer has got

vars == <<sent, got, acked>>

Init == /\ sent = [e \in Ends |-> <<>>]
        /\ got = [e \in Ends |-> <<>>]
        /\ acked = [e \in Ends |-> 0]

LastGot(e) == IF got[e] = <<>> THEN 0 ELSE got[e][Len(got[e])].sequence

Send(e) == /\ \E m \in Messages : sent' = [sent EXCEPT ![e] = Append(@, m)]
           /\ UNCHANGED <<got, acked>>

Get(e) ==
  \E n \in LastGot(e) + 1..Len(sent[Peer(e)]) :
     /\ got' = [got EXCEPT ![e] = Append(@, [sequence |-> n, message |-> sent[Peer(e)][n]])]
     /\ \E a \in acked[e]..LastGot(Peer(e)) :
           /\ a = 0 \/ \E i \in DOMAIN got[Peer(e)] : got[Peer(e)][i].sequence = a
           /\ acked' = [acked EXCEPT ![e] = a]
     /\ UNCHANGED sent

Next == \E e \in Ends : Send(e) \/ Get(e)

Spec == Init /\ [][Next]_vars
=============================================================================
