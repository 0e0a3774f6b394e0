----------------------------- MODULE RadioLink -----------------------------
(***************************************************************************)
(* The acknowledged datagrams of the sensor-node radio                     *)
(* (RF22ReliableDatagram.cpp over RF22.cpp): stop-and-wait with a bounded  *)
(* number of transmissions, sequence numbers of one octet, duplicates told *)
(* by the last number seen of each node, and one buffer in each radio that *)
(* packets are both received into and transmitted from.                    *)
(***************************************************************************)
EXTENDS Naturals, Sequences

CONSTANTS
    Nodes,        \* addresses of the radios
    Broadcast,    \* RF22_BROADCAST_ADDRESS
    Broadcasters, \* nodes whose application calls sendtoWait() with Broadcast
    Retries,      \* _retries
    IdSpace,      \* number of values of a sequence number: 256
    MaxSends,     \* bound: MaxSends[n] calls of sendtoWait() by n
    MaxBoots,     \* bound: MaxBoots[n] reboots of n
    NoPacket      \* the radio holds no valid packet

Ids == 0 .. IdSpace - 1
Headers == [from : Nodes, to : Nodes \cup {Broadcast}, id : Ids, ack : BOOLEAN]

ASSUME RadioAssumption ==
    /\ Broadcast \notin Nodes
    /\ Broadcasters \subseteq Nodes
    /\ Retries \in Nat
    /\ IdSpace \in Nat \ {0}
    /\ MaxSends \in [Nodes -> Nat]
    /\ MaxBoots \in [Nodes -> Nat]
    /\ NoPacket \notin Headers

VARIABLES
    lastSeq,   \* _lastSequenceNumber
    seen,      \* seen[n][m]: _seenIds[m] of node n
    phase,     \* where node n is in sendtoWait()
    tries,     \* transmissions made by the call that n is in
    rx,        \* header of the valid packet in the radio of n (_rxBufValid), or none
    buf,       \* content of _buf, shared by reception and transmission
    listening, \* _mode = RF22_MODE_RX
    sent,      \* history: destinations of the messages of n, in order
    numbers,   \* history: their sequence numbers
    boots,     \* history: reboots of n
    delivered, \* history: what recvfromAck() has given the application of n
    acked      \* history: messages <<n, k>> whose sendtoWait() returned true

vars == <<lastSeq, seen, phase, tries, rx, buf, listening, sent, numbers, boots,
          delivered, acked>>

\* The body of the k-th message of n.  An acknowledgement has a body of its own.
Message(n, k) == <<n, k>>
AckBody == <<"!">>
Nothing == <<>>

Messages == Nodes \X Nat
Bodies == Messages \cup {AckBody, Nothing}

\* What recvfromAck() gives the application: a sender's address and a body.
Entries == [from : Nodes, body : Bodies]

\* "idle": outside sendtoWait(); "send": about to transmit; "sent": transmitted,
\* the buffer not yet looked at; "wait": in the loop until the timeout.
Phases == {"idle", "send", "sent", "wait"}

TypeOK ==
    /\ lastSeq \in [Nodes -> Ids]
    /\ seen \in [Nodes -> [Nodes -> Ids]]
    /\ phase \in [Nodes -> Phases]
    /\ tries \in [Nodes -> 0 .. Retries + 1]
    /\ rx \in [Nodes -> Headers \cup {NoPacket}]
    /\ buf \in [Nodes -> Bodies]
    /\ listening \in [Nodes -> BOOLEAN]
    /\ sent \in [Nodes -> Seq(Nodes \cup {Broadcast})]
    /\ numbers \in [Nodes -> Seq(Ids)]
    /\ boots \in [Nodes -> Nat]
    /\ delivered \in [Nodes -> Seq(Entries)]
    /\ acked \subseteq Messages

Init ==
    /\ lastSeq = [n \in Nodes |-> 0]
    /\ seen = [n \in Nodes |-> [m \in Nodes |-> 0]]
    /\ phase = [n \in Nodes |-> "idle"]
    /\ tries = [n \in Nodes |-> 0]
    /\ rx = [n \in Nodes |-> NoPacket]
    /\ buf = [n \in Nodes |-> Nothing]
    /\ listening = [n \in Nodes |-> FALSE]
    /\ sent = [n \in Nodes |-> <<>>]
    /\ numbers = [n \in Nodes |-> <<>>]
    /\ boots = [n \in Nodes |-> 0]
    /\ delivered = [n \in Nodes |-> <<>>]
    /\ acked = {}

-----------------------------------------------------------------------------

\* The message sendtoWait() is sending: its number and its destination.
Current(n) == Len(sent[n])
Dest(n) == sent[n][Current(n)]

\* RF22::send and the interrupt handler of those who hear it.  The sender's
\* buffer is overwritten whatever it holds, and its radio stops listening.
\* Any of the listening nodes the packet is addressed to may receive it, and
\* then leaves receive mode until its buffer has been read; a radio that is not
\* listening, or a packet lost or spoiled on the air, receives nothing.
\* packets is rx after what the sender has read of its own buffer.
Transmit(n, header, body, packets) ==
    \E heard \in SUBSET {m \in Nodes \ {n} : listening[m] /\ header.to \in {m, Broadcast}} :
        /\ rx' = [m \in Nodes |-> IF m \in heard THEN header ELSE packets[m]]
        /\ buf' = [m \in Nodes |-> IF m \in heard \cup {n} THEN body ELSE buf[m]]
        /\ listening' = [m \in Nodes |-> m \notin heard \cup {n} /\ listening[m]]

\* RF22::available() when there is no valid packet: turn the receiver on.
Listen(n) ==
    /\ rx[n] = NoPacket
    /\ listening' = [listening EXCEPT ![n] = TRUE]
    /\ UNCHANGED <<rx, buf>>

\* acknowledge(), after the packet it answers has been taken from the buffer.
Acknowledge(n) ==
    Transmit(n, [from |-> n, to |-> rx[n].from, id |-> rx[n].id, ack |-> TRUE],
             AckBody, [rx EXCEPT ![n] = NoPacket])

\* The packet is taken from the buffer and nothing is transmitted.
Take(n) ==
    /\ rx' = [rx EXCEPT ![n] = NoPacket]
    /\ UNCHANGED <<buf, listening>>

-----------------------------------------------------------------------------
(* sendtoWait *)

\* The call: the next sequence number, in one octet.
SendtoWait(n, m) ==
    /\ phase[n] = "idle"
    /\ Len(sent[n]) < MaxSends[n]
    /\ lastSeq' = [lastSeq EXCEPT ![n] = (@ + 1) % IdSpace]
    /\ phase' = [phase EXCEPT ![n] = "send"]
    /\ tries' = [tries EXCEPT ![n] = 0]
    /\ sent' = [sent EXCEPT ![n] = Append(@, m)]
    /\ numbers' = [numbers EXCEPT ![n] = Append(@, lastSeq'[n])]
    /\ UNCHANGED <<seen, rx, buf, listening, boots, delivered, acked>>

\* Mutant: the transmissions of a call are not counted.
TransmitUncounted(n) ==
    /\ phase[n] = "send"
    /\ Transmit(n, [from |-> n, to |-> Dest(n), id |-> lastSeq[n], ack |-> FALSE],
                Message(n, Current(n)), rx)
    /\ phase' = [phase EXCEPT ![n] = IF Dest(n) = Broadcast THEN "idle" ELSE "sent"]
    /\ UNCHANGED <<lastSeq, seen, tries, sent, numbers, boots, delivered, acked>>

\* One transmission.  A broadcast returns true at once.
TransmitMessage(n) ==
    /\ phase[n] = "send"
    /\ Transmit(n, [from |-> n, to |-> Dest(n), id |-> lastSeq[n], ack |-> FALSE],
                Message(n, Current(n)), rx)
    /\ tries' = [tries EXCEPT ![n] = @ + 1]
    /\ phase' = [phase EXCEPT ![n] = IF Dest(n) = Broadcast THEN "idle" ELSE "sent"]
    /\ UNCHANGED <<lastSeq, seen, sent, numbers, boots, delivered, acked>>

\* Mutant: any acknowledgement from the destination will do.
IsAnyAck(n, header) == header.from = Dest(n) /\ header.to = n /\ header.ack

\* The acknowledgement sendtoWait() of n is waiting for.
IsMyAck(n, header) ==
    /\ header.from = Dest(n)
    /\ header.to = n
    /\ header.ack
    /\ header.id = lastSeq[n]

\* Mutant: requests already given to the application are not recognised.
IsNeverRepeat(n, header) == FALSE

\* A request that has already been given to the application.
IsRepeat(n, header) == ~header.ack /\ header.id = seen[n][header.from]

Waiting(n) == phase[n] \in {"sent", "wait"}

\* The loop of sendtoWait() finds no packet.
WaitNothing(n) ==
    /\ Waiting(n)
    /\ Listen(n)
    /\ phase' = [phase EXCEPT ![n] = "wait"]
    /\ UNCHANGED <<lastSeq, seen, tries, sent, numbers, boots, delivered, acked>>

\* It finds its acknowledgement, and the call returns true.
WaitAcked(n) ==
    /\ Waiting(n)
    /\ rx[n] # NoPacket
    /\ IsMyAck(n, rx[n])
    /\ Take(n)
    /\ phase' = [phase EXCEPT ![n] = "idle"]
    /\ acked' = acked \cup {Message(n, Current(n))}
    /\ UNCHANGED <<lastSeq, seen, tries, sent, numbers, boots, delivered>>

\* Mutant: every request is acknowledged, also one that is dropped.
WaitOtherAcknowledged(n) ==
    /\ Waiting(n)
    /\ rx[n] # NoPacket
    /\ ~IsMyAck(n, rx[n])
    /\ \/ ~rx[n].ack /\ Acknowledge(n)
       \/ rx[n].ack /\ Take(n)
    /\ phase' = [phase EXCEPT ![n] = "wait"]
    /\ UNCHANGED <<lastSeq, seen, tries, sent, numbers, boots, delivered, acked>>

\* It finds something else: a repeated request is acknowledged again, any other
\* packet is dropped.  Either way the application does not see it.
WaitOther(n) ==
    /\ Waiting(n)
    /\ rx[n] # NoPacket
    /\ ~IsMyAck(n, rx[n])
    /\ \/ IsRepeat(n, rx[n]) /\ Acknowledge(n)
       \/ ~IsRepeat(n, rx[n]) /\ Take(n)
    /\ phase' = [phase EXCEPT ![n] = "wait"]
    /\ UNCHANGED <<lastSeq, seen, tries, sent, numbers, boots, delivered, acked>>

\* Mutant: one transmission too many.
TimeoutOneMore(n) ==
    /\ phase[n] = "wait"
    /\ phase' = [phase EXCEPT ![n] = IF tries[n] <= Retries + 1 THEN "send" ELSE "idle"]
    /\ UNCHANGED <<lastSeq, seen, tries, rx, buf, listening, sent, numbers, boots,
                   delivered, acked>>

\* Mutant: each retransmission takes a sequence number of its own.
TimeoutNewNumber(n) ==
    /\ phase[n] = "wait"
    /\ phase' = [phase EXCEPT ![n] = IF tries[n] <= Retries THEN "send" ELSE "idle"]
    /\ lastSeq' = [lastSeq EXCEPT ![n] = IF tries[n] <= Retries
                                         THEN (@ + 1) % IdSpace ELSE @]
    /\ UNCHANGED <<seen, tries, rx, buf, listening, sent, numbers, boots, delivered, acked>>

\* The timeout, at least _timeout after the transmission, so the buffer has been
\* looked at: transmit again, or return false after Retries + 1 transmissions.
Timeout(n) ==
    /\ phase[n] = "wait"
    /\ phase' = [phase EXCEPT ![n] = IF tries[n] <= Retries THEN "send" ELSE "idle"]
    /\ UNCHANGED <<lastSeq, seen, tries, rx, buf, listening, sent, numbers, boots,
                   delivered, acked>>

-----------------------------------------------------------------------------
(* recvfromAck, called by the application between two calls of sendtoWait *)

\* No packet: recvfromAck() returns false.
RecvNothing(n) ==
    /\ phase[n] = "idle"
    /\ Listen(n)
    /\ UNCHANGED <<lastSeq, seen, phase, tries, sent, numbers, boots, delivered, acked>>

\* Mutant: the acknowledgement is sent before the request has been copied out of
\* the buffer.
RecvRequestCopiedLate(n) ==
    /\ phase[n] = "idle"
    /\ rx[n] # NoPacket
    /\ ~rx[n].ack
    /\ \/ rx[n].to # Broadcast /\ Acknowledge(n)
       \/ rx[n].to = Broadcast /\ Take(n)
    /\ \/ /\ ~IsRepeat(n, rx[n])
          /\ seen' = [seen EXCEPT ![n][rx[n].from] = rx[n].id]
          /\ delivered' = [delivered EXCEPT
                             ![n] = Append(@, [from |-> rx[n].from, body |-> buf'[n]])]
       \/ IsRepeat(n, rx[n]) /\ UNCHANGED <<seen, delivered>>
    /\ UNCHANGED <<lastSeq, phase, tries, sent, numbers, boots, acked>>

\* A request: copied out of the shared buffer, acknowledged unless it is a
\* broadcast, and given to the application unless its number is the last one
\* seen of that node.  Nothing can be received between these three.
RecvRequest(n) ==
    /\ phase[n] = "idle"
    /\ rx[n] # NoPacket
    /\ ~rx[n].ack
    /\ \/ rx[n].to # Broadcast /\ Acknowledge(n)
       \/ rx[n].to = Broadcast /\ Take(n)
    /\ \/ /\ ~IsRepeat(n, rx[n])
          /\ seen' = [seen EXCEPT ![n][rx[n].from] = rx[n].id]
          /\ delivered' = [delivered EXCEPT
                             ![n] = Append(@, [from |-> rx[n].from, body |-> buf[n]])]
       \/ IsRepeat(n, rx[n]) /\ UNCHANGED <<seen, delivered>>
    /\ UNCHANGED <<lastSeq, phase, tries, sent, numbers, boots, acked>>

\* A late acknowledgement is taken and ignored.
RecvAck(n) ==
    /\ phase[n] = "idle"
    /\ rx[n] # NoPacket
    /\ rx[n].ack
    /\ Take(n)
    /\ UNCHANGED <<lastSeq, seen, phase, tries, sent, numbers, boots, delivered, acked>>

-----------------------------------------------------------------------------

\* The board restarts: RF22ReliableDatagram is a global object, so its counters
\* start from zero again, and a call it was in is gone.
Reboot(n) ==
    /\ boots[n] < MaxBoots[n]
    /\ boots' = [boots EXCEPT ![n] = @ + 1]
    /\ lastSeq' = [lastSeq EXCEPT ![n] = 0]
    /\ seen' = [seen EXCEPT ![n] = [m \in Nodes |-> 0]]
    /\ phase' = [phase EXCEPT ![n] = "idle"]
    /\ tries' = [tries EXCEPT ![n] = 0]
    /\ rx' = [rx EXCEPT ![n] = NoPacket]
    /\ buf' = [buf EXCEPT ![n] = Nothing]
    /\ listening' = [listening EXCEPT ![n] = FALSE]
    /\ UNCHANGED <<sent, numbers, delivered, acked>>

Addressees(n) == (Nodes \ {n}) \cup (IF n \in Broadcasters THEN {Broadcast} ELSE {})

Next ==
    \E n \in Nodes :
        \/ \E m \in Addressees(n) : SendtoWait(n, m)
        \/ TransmitMessage(n)
        \/ WaitNothing(n) \/ WaitAcked(n) \/ WaitOther(n) \/ Timeout(n)
        \/ RecvNothing(n) \/ RecvRequest(n) \/ RecvAck(n)
        \/ Reboot(n)

Spec == Init /\ [][Next]_vars

\* A node inside sendtoWait() keeps running, and its clock runs.
FairSpec ==
    /\ Spec
    /\ \A n \in Nodes :
          /\ WF_vars(TransmitMessage(n))
          /\ WF_vars(WaitNothing(n) \/ WaitAcked(n) \/ WaitOther(n))
          /\ WF_vars(Timeout(n))

-----------------------------------------------------------------------------
(* Properties *)

\* The receiver has not restarted and does not overwrite its buffer with
\* broadcasts of its own.
Intact(m) == boots[m] = 0 /\ m \notin Broadcasters

\* Nor has the sender restarted, or have its numbers come round.
Steady(n, m) == Intact(m) /\ boots[n] = 0 /\ Len(sent[n]) < IdSpace

\* What the library promises, to steady pairs, to intact receivers and to the
\* others: AckedLink.
Link == INSTANCE AckedLink
    WITH open <- [n \in Nodes |-> phase[n] # "idle"],
         intact <- {m \in Nodes : Intact(m)},
         steady <- {pair \in Nodes \X Nodes : Steady(pair[1], pair[2])}

\* Whatever packets are lost, whenever the timeouts strike, whoever broadcasts
\* and restarts, the protocol delivers as AckedLink says: acknowledged where the
\* two ends are steady, in order and once where the receiver is intact, and
\* elsewhere nothing but what was sent.
ImplementsLink == Link!LinkSpec

\* The application of m has received message k of n.
IsDelivered(m, n, k) ==
    \E i \in DOMAIN delivered[m] :
        delivered[m][i] = [from |-> n, body |-> Message(n, k)]

\* A call of sendtoWait() that returned true means that the other application
\* has the message, even where a third node broadcasts or restarts.
AckMeansDelivered ==
    \A n \in Nodes : \A k \in DOMAIN sent[n] :
        <<n, k>> \in acked /\ Steady(n, sent[n][k])
            => IsDelivered(sent[n][k], n, k)

\* Where the sender restarts, or its numbers come round, an acknowledged message
\* may have been taken for a repeat of another; but then only of one that was
\* delivered and has the same number, or of none where its number is the zero
\* that _seenIds begins with.
AckedOrSameNumber ==
    \A n \in Nodes : \A k \in DOMAIN sent[n] :
        <<n, k>> \in acked /\ sent[n][k] \notin Broadcasters /\ numbers[n][k] # 0
            => \E j \in 1 .. k : numbers[n][j] = numbers[n][k] /\ IsDelivered(sent[n][k], n, j)

\* The application receives the messages of one sender in the order they were
\* sent and none of them twice, although each is transmitted many times, and
\* although the sender may restart and use its numbers again.
InOrderOnce ==
    \A m \in Nodes : \A j \in DOMAIN delivered[m] : \A i \in 1 .. j - 1 :
        LET n == delivered[m][j].from
        IN  delivered[m][i].from = n /\ Intact(m)
                => delivered[m][i].body[2] < delivered[m][j].body[2]

\* sendtoWait() always returns, also when both nodes call it for each other and
\* neither can hear the other's request.
CallReturns == \A n \in Nodes : phase[n] # "idle" ~> phase[n] = "idle"

\* What the comment on recvfromAck() says it copies to the caller: the message
\* that the acknowledged sender sent.
DeliveredWasSent ==
    \A m \in Nodes : \A i \in DOMAIN delivered[m] :
        LET n == delivered[m][i].from
        IN  \E k \in DOMAIN sent[n] :
                /\ sent[n][k] \in {m, Broadcast}
                /\ delivered[m][i].body = Message(n, k)
=============================================================================
