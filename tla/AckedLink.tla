----------------------------- MODULE AckedLink -----------------------------
(***************************************************************************)
(* What the radio library promises the sensor nodes and the MULE           *)
(* (RF22ReliableDatagram.h): a call of sendtoWait() that returns true       *)
(* means the other node's application has the message; each message        *)
(* reaches it at most once, and the messages of one sender reach it in the *)
(* order they were sent.  A message may be lost, and one whose call has    *)
(* returned false may still arrive.  There is no radio here, no            *)
(* acknowledgement, no retransmission and no sequence number.              *)
(*                                                                         *)
(* Not all of this can be promised to every pair of nodes.  Order and once  *)
(* are kept by the receivers that are intact, true means delivered between *)
(* the pairs of a sender and a receiver that are steady; what has ceased to *)
(* be intact or steady never is again.  The others keep only this: what a  *)
(* receiver is given was sent, by that sender and to it, or is a broadcast *)
(* of the receiver's own.                                                  *)
(***************************************************************************)
EXTENDS Naturals, Sequences

CONSTANTS Nodes, Broadcast

VARIABLES
    sent,      \* sent[n]: the destinations of the messages of n, in order
    open,      \* open[n]: the call for the last message of n has not returned
    delivered, \* delivered[m]: what the application of m has received, in order
    acked,     \* messages whose call returned true, as <<sender, number>>
    intact,    \* the receivers of which order is promised
    steady     \* the pairs <<sender, receiver>> of which acknowledgement is

linkVars == <<sent, open, delivered, acked, intact, steady>>

\* A received message: the address it is said to come from and its body, which
\* stands for the k-th message of its sender as <<sender, k>>.
Received(n, k) == [from |-> n, body |-> <<n, k>>]

\* The application of m has received message k of n.
IsDelivered(m, n, k) ==
    \E i \in DOMAIN delivered[m] : delivered[m][i] = Received(n, k)

LinkInit ==
    /\ sent = [n \in Nodes |-> <<>>]
    /\ open = [n \in Nodes |-> FALSE]
    /\ delivered = [n \in Nodes |-> <<>>]
    /\ acked = {}
    /\ intact \subseteq Nodes
    /\ steady \subseteq Nodes \X intact

\* Receivers and pairs cease to be intact and steady when a node restarts, pairs
\* also when the sender has sent too many messages.
Unsettle ==
    /\ intact' \subseteq intact
    /\ steady' \subseteq steady \cap (Nodes \X intact')

\* The application of n calls sendtoWait() for a message to m or to all.
Call(n, m) ==
    /\ m # n
    /\ ~open[n]
    /\ sent' = [sent EXCEPT ![n] = Append(@, m)]
    /\ open' = [open EXCEPT ![n] = TRUE]
    /\ Unsettle
    /\ UNCHANGED <<delivered, acked>>

\* Message k of n reaches the application of m.  If m is intact, it has had none
\* of the messages of n from k on.
Deliver(n, m, k) ==
    /\ m # n
    /\ k \in DOMAIN sent[n]
    /\ sent[n][k] \in {m, Broadcast}
    /\ m \in intact =>
          \A i \in DOMAIN delivered[m] :
              delivered[m][i].from = n => delivered[m][i].body[2] < k
    /\ delivered' = [delivered EXCEPT ![m] = Append(@, Received(n, k))]
    /\ UNCHANGED <<sent, open, acked, intact, steady>>

\* The application of m is given its own broadcast k as if n had sent it.
Spoil(n, m, k) ==
    /\ m \notin intact
    /\ k \in DOMAIN sent[m]
    /\ sent[m][k] = Broadcast
    /\ delivered' = [delivered EXCEPT ![m] = Append(@, [from |-> n, body |-> <<m, k>>])]
    /\ UNCHANGED <<sent, open, acked, intact, steady>>

\* The call for a message to another node returns true: if the pair is steady
\* the message has been delivered.
ReturnTrue(n) ==
    LET m == sent[n][Len(sent[n])]
    IN  /\ open[n]
        /\ m \in Nodes
        /\ <<n, m>> \in steady => IsDelivered(m, n, Len(sent[n]))
        /\ open' = [open EXCEPT ![n] = FALSE]
        /\ acked' = acked \cup {<<n, Len(sent[n])>>}
        /\ UNCHANGED <<sent, delivered, intact, steady>>

\* The call ends without an acknowledgement: it returns false, the message was
\* a broadcast, or its node restarts.  The message may have been delivered or not.
EndUnacked(n) ==
    /\ open[n]
    /\ open' = [open EXCEPT ![n] = FALSE]
    /\ Unsettle
    /\ UNCHANGED <<sent, delivered, acked>>

LinkNext ==
    \/ \E n \in Nodes :
          \/ \E m \in Nodes \cup {Broadcast} : Call(n, m)
          \/ \E m \in Nodes : \/ \E k \in DOMAIN sent[n] : Deliver(n, m, k)
                              \/ \E k \in DOMAIN sent[m] : Spoil(n, m, k)
          \/ ReturnTrue(n)
          \/ EndUnacked(n)
    \/ Unsettle /\ UNCHANGED <<sent, open, delivered, acked>>

LinkSpec == LinkInit /\ [][LinkNext]_linkVars
=============================================================================
