-------------------------- MODULE RadioLink_proof --------------------------
(***************************************************************************)
(* Proofs about the acknowledged datagrams of RadioLink, for any number of *)
(* nodes, retries, messages and reboots.                                   *)
(***************************************************************************)
EXTENDS RadioLink, TLAPS

-----------------------------------------------------------------------------
(* Types *)

\* What a transmission leaves in the radios has the type of what they held.
LEMMA TransmitType ==
    ASSUME TypeOK, NEW n \in Nodes, NEW header \in Headers, NEW body \in Bodies,
           NEW packets \in [Nodes -> Headers \cup {NoPacket}],
           Transmit(n, header, body, packets)
    PROVE  /\ rx' \in [Nodes -> Headers \cup {NoPacket}]
           /\ buf' \in [Nodes -> Bodies]
           /\ listening' \in [Nodes -> BOOLEAN]
BY DEF TypeOK, Transmit

\* So does an acknowledgement.
LEMMA AcknowledgeType ==
    ASSUME TypeOK, NEW n \in Nodes, rx[n] # NoPacket, Acknowledge(n)
    PROVE  /\ rx' \in [Nodes -> Headers \cup {NoPacket}]
           /\ buf' \in [Nodes -> Bodies]
           /\ listening' \in [Nodes -> BOOLEAN]
<1> DEFINE header == [from |-> n, to |-> rx[n].from, id |-> rx[n].id, ack |-> TRUE]
           packets == [rx EXCEPT ![n] = NoPacket]
<1>1. rx[n] \in Headers
  BY DEF TypeOK
<1>2. header \in Headers
  BY <1>1 DEF Headers
<1>3. packets \in [Nodes -> Headers \cup {NoPacket}]
  BY DEF TypeOK
<1>4. AckBody \in Bodies
  BY DEF Bodies
<1>5. Transmit(n, header, AckBody, packets)
  BY DEF Acknowledge
<1> HIDE DEF header, packets
<1> QED
  BY <1>2, <1>3, <1>4, <1>5, TransmitType

\* A node inside sendtoWait() has a message, and transmissions to go when it is
\* about to transmit.
CallInv ==
    \A n \in Nodes :
        /\ phase[n] # "idle" => Len(sent[n]) > 0
        /\ phase[n] = "send" => tries[n] <= Retries

\* The initial states are well typed.
LEMMA InitType == Init => TypeOK /\ CallInv
BY RadioAssumption DEF Init, TypeOK, CallInv, Ids, Phases, Bodies

\* Every step of every node keeps the types.
LEMMA TypeStep == TypeOK /\ CallInv /\ [Next]_vars => TypeOK'
<1> SUFFICES ASSUME TypeOK, CallInv, [Next]_vars PROVE TypeOK'
  OBVIOUS
<1>1. ASSUME NEW n \in Nodes, NEW m \in Addressees(n), SendtoWait(n, m) PROVE TypeOK'
  <2>1. m \in Nodes \cup {Broadcast}
    BY <1>1 DEF Addressees
  <2>2. lastSeq' \in [Nodes -> Ids]
    BY <1>1, RadioAssumption DEF SendtoWait, TypeOK, Ids
  <2>3. sent' \in [Nodes -> Seq(Nodes \cup {Broadcast})]
    BY <1>1, <2>1 DEF SendtoWait, TypeOK
  <2>4. phase' \in [Nodes -> Phases] /\ tries' \in [Nodes -> 0 .. Retries + 1]
    BY <1>1, RadioAssumption DEF SendtoWait, TypeOK, Phases
  <2>5. numbers' \in [Nodes -> Seq(Ids)]
    BY <1>1, <2>2 DEF SendtoWait, TypeOK
  <2> QED
    BY <1>1, <2>2, <2>3, <2>4, <2>5 DEF SendtoWait, TypeOK
<1>2. ASSUME NEW n \in Nodes, TransmitMessage(n) PROVE TypeOK'
  <2> DEFINE header == [from |-> n, to |-> Dest(n), id |-> lastSeq[n], ack |-> FALSE]
  <2>1. Dest(n) \in Nodes \cup {Broadcast} /\ Current(n) \in Nat
    <3>1. sent[n] \in Seq(Nodes \cup {Broadcast}) /\ Len(sent[n]) > 0
      BY <1>2 DEF TransmitMessage, CallInv, TypeOK
    <3>2. Len(sent[n]) \in 1 .. Len(sent[n])
      BY <3>1
    <3> QED
      BY <3>1, <3>2 DEF Dest, Current
  <2>2. header \in Headers
    BY <2>1 DEF TypeOK, Headers
  <2>3. Message(n, Current(n)) \in Bodies
    BY <2>1 DEF Message, Messages, Bodies
  <2>4. Transmit(n, header, Message(n, Current(n)), rx)
    BY <1>2 DEF TransmitMessage
  <2>5. rx \in [Nodes -> Headers \cup {NoPacket}]
    BY DEF TypeOK
  <2> HIDE DEF header
  <2>6. /\ rx' \in [Nodes -> Headers \cup {NoPacket}]
        /\ buf' \in [Nodes -> Bodies]
        /\ listening' \in [Nodes -> BOOLEAN]
    BY <2>2, <2>3, <2>4, <2>5, TransmitType
  <2>7. tries' \in [Nodes -> 0 .. Retries + 1]
    BY <1>2, RadioAssumption DEF TransmitMessage, CallInv, TypeOK
  <2>8. phase' \in [Nodes -> Phases]
    BY <1>2 DEF TransmitMessage, TypeOK, Phases
  <2> QED
    BY <1>2, <2>6, <2>7, <2>8 DEF TransmitMessage, TypeOK
<1>3. ASSUME NEW n \in Nodes, WaitNothing(n) PROVE TypeOK'
  BY <1>3 DEF WaitNothing, Listen, TypeOK, Phases
<1>4. ASSUME NEW n \in Nodes, WaitAcked(n) PROVE TypeOK'
  <2>1. Message(n, Current(n)) \in Messages
    BY DEF TypeOK, Current, Message, Messages
  <2>2. acked' \subseteq Messages
    BY <1>4, <2>1 DEF WaitAcked, TypeOK
  <2>3. phase' \in [Nodes -> Phases]
    BY <1>4 DEF WaitAcked, TypeOK, Phases
  <2>4. rx' \in [Nodes -> Headers \cup {NoPacket}]
    BY <1>4 DEF WaitAcked, Take, TypeOK
  <2> QED
    BY <1>4, <2>2, <2>3, <2>4 DEF WaitAcked, Take, TypeOK
<1>5. ASSUME NEW n \in Nodes, WaitOther(n) PROVE TypeOK'
  <2>1. /\ rx' \in [Nodes -> Headers \cup {NoPacket}]
        /\ buf' \in [Nodes -> Bodies]
        /\ listening' \in [Nodes -> BOOLEAN]
    <3>1. CASE Acknowledge(n)
      BY <1>5, <3>1, AcknowledgeType DEF WaitOther
    <3>2. CASE Take(n)
      BY <3>2 DEF Take, TypeOK
    <3> QED
      BY <1>5, <3>1, <3>2 DEF WaitOther
  <2>2. phase' \in [Nodes -> Phases]
    BY <1>5 DEF WaitOther, TypeOK, Phases
  <2> QED
    BY <1>5, <2>1, <2>2 DEF WaitOther, TypeOK
<1>6. ASSUME NEW n \in Nodes, Timeout(n) PROVE TypeOK'
  BY <1>6 DEF Timeout, TypeOK, Phases
<1>7. ASSUME NEW n \in Nodes, RecvNothing(n) PROVE TypeOK'
  BY <1>7 DEF RecvNothing, Listen, TypeOK
<1>8. ASSUME NEW n \in Nodes, RecvRequest(n) PROVE TypeOK'
  <2>1. /\ rx' \in [Nodes -> Headers \cup {NoPacket}]
        /\ buf' \in [Nodes -> Bodies]
        /\ listening' \in [Nodes -> BOOLEAN]
    <3>1. CASE Acknowledge(n)
      BY <1>8, <3>1, AcknowledgeType DEF RecvRequest
    <3>2. CASE Take(n)
      BY <3>2 DEF Take, TypeOK
    <3> QED
      BY <1>8, <3>1, <3>2 DEF RecvRequest
  <2>2. rx[n] \in Headers /\ buf[n] \in Bodies
    BY <1>8 DEF RecvRequest, TypeOK
  <2>3. seen' \in [Nodes -> [Nodes -> Ids]]
    <3>1. rx[n].from \in Nodes /\ rx[n].id \in Ids
      BY <2>2 DEF Headers
    <3>2. [seen EXCEPT ![n][rx[n].from] = rx[n].id] \in [Nodes -> [Nodes -> Ids]]
      BY <3>1 DEF TypeOK
    <3> QED
      BY <1>8, <3>2 DEF RecvRequest, TypeOK
  <2>4. [from |-> rx[n].from, body |-> buf[n]] \in Entries
    BY <2>2 DEF Headers, Entries
  <2>5. delivered' \in [Nodes -> Seq(Entries)]
    <3> DEFINE entry == [from |-> rx[n].from, body |-> buf[n]]
    <3>1. entry \in Entries
      BY <2>4
    <3> HIDE DEF entry
    <3>2. Append(delivered[n], entry) \in Seq(Entries)
      BY <3>1 DEF TypeOK
    <3>3. [delivered EXCEPT ![n] = Append(@, entry)] \in [Nodes -> Seq(Entries)]
      BY <3>2 DEF TypeOK
    <3> QED
      BY <1>8, <3>3 DEF RecvRequest, TypeOK, entry
  <2> QED
    BY <1>8, <2>1, <2>3, <2>5 DEF RecvRequest, TypeOK
<1>9. ASSUME NEW n \in Nodes, RecvAck(n) PROVE TypeOK'
  BY <1>9 DEF RecvAck, Take, TypeOK
<1>10. ASSUME NEW n \in Nodes, Reboot(n) PROVE TypeOK'
  <2>1. 0 \in Ids /\ 0 \in 0 .. Retries + 1 /\ Nothing \in Bodies
    BY RadioAssumption DEF Ids, Bodies
  <2>2. lastSeq' \in [Nodes -> Ids] /\ tries' \in [Nodes -> 0 .. Retries + 1]
    BY <1>10, <2>1 DEF Reboot, TypeOK
  <2>3. seen' \in [Nodes -> [Nodes -> Ids]]
    BY <1>10, <2>1 DEF Reboot, TypeOK
  <2>4. rx' \in [Nodes -> Headers \cup {NoPacket}] /\ buf' \in [Nodes -> Bodies]
    BY <1>10, <2>1 DEF Reboot, TypeOK
  <2>5. boots' \in [Nodes -> Nat] /\ phase' \in [Nodes -> Phases]
    BY <1>10 DEF Reboot, TypeOK, Phases
  <2>6. listening' \in [Nodes -> BOOLEAN]
    BY <1>10 DEF Reboot, TypeOK
  <2> QED
    BY <1>10, <2>2, <2>3, <2>4, <2>5, <2>6 DEF Reboot, TypeOK
<1>11. CASE UNCHANGED vars
  BY <1>11 DEF vars, TypeOK
<1> QED
  BY <1>1, <1>2, <1>3, <1>4, <1>5, <1>6, <1>7, <1>8, <1>9, <1>10, <1>11 DEF Next

\* Every step of every node keeps CallInv.
LEMMA CallStep == TypeOK /\ CallInv /\ [Next]_vars => CallInv'
<1> SUFFICES ASSUME TypeOK, CallInv, [Next]_vars PROVE CallInv'
  OBVIOUS
<1> USE DEF TypeOK, CallInv
<1>1. ASSUME NEW n \in Nodes, NEW m \in Addressees(n), SendtoWait(n, m) PROVE CallInv'
  <2>1. m \in Nodes \cup {Broadcast}
    BY <1>1 DEF Addressees
  <2>2. Len(sent'[n]) = Len(sent[n]) + 1
    BY <1>1, <2>1 DEF SendtoWait
  <2> QED
    BY <1>1, <2>1, <2>2, RadioAssumption DEF SendtoWait
<1>2. ASSUME NEW n \in Nodes, TransmitMessage(n) PROVE CallInv'
  BY <1>2 DEF TransmitMessage
<1>3. ASSUME NEW n \in Nodes, WaitNothing(n) PROVE CallInv'
  BY <1>3 DEF WaitNothing, Waiting
<1>4. ASSUME NEW n \in Nodes, WaitAcked(n) PROVE CallInv'
  BY <1>4 DEF WaitAcked
<1>5. ASSUME NEW n \in Nodes, WaitOther(n) PROVE CallInv'
  BY <1>5 DEF WaitOther, Waiting
<1>6. ASSUME NEW n \in Nodes, Timeout(n) PROVE CallInv'
  BY <1>6, RadioAssumption DEF Timeout
<1>7. ASSUME NEW n \in Nodes, RecvNothing(n) \/ RecvRequest(n) \/ RecvAck(n) PROVE CallInv'
  BY <1>7 DEF RecvNothing, RecvRequest, RecvAck
<1>8. ASSUME NEW n \in Nodes, Reboot(n) PROVE CallInv'
  BY <1>8 DEF Reboot
<1>9. CASE UNCHANGED vars
  BY <1>9 DEF vars
<1> QED
  BY <1>1, <1>2, <1>3, <1>4, <1>5, <1>6, <1>7, <1>8, <1>9 DEF Next

-----------------------------------------------------------------------------
(* What is known of messages, of the packets in the radios and of the logs *)

\* Every message has a number, that of the current call is _lastSequenceNumber,
\* and as long as the sender has not restarted and the numbers have not come
\* round, a number is the place of its message.
NumbersInv ==
    \A n \in Nodes :
        /\ Len(numbers[n]) = Len(sent[n])
        /\ phase[n] # "idle" => numbers[n][Len(sent[n])] = lastSeq[n]
        /\ boots[n] = 0 /\ Len(sent[n]) < IdSpace =>
              /\ lastSeq[n] = Len(sent[n])
              /\ \A k \in DOMAIN sent[n] : numbers[n][k] = k

\* Only broadcasters broadcast, and only messages sent to a node are acked.
SentInv ==
    \A n \in Nodes :
        /\ \A k \in DOMAIN sent[n] : sent[n][k] = Broadcast => n \in Broadcasters
        /\ \A k \in Nat : <<n, k>> \in acked => /\ k \in DOMAIN sent[n]
                                                /\ sent[n][k] \in Nodes

\* Message k of n was sent to m, or to all, with this number.
SentTo(n, k, m, id) ==
    /\ k \in DOMAIN sent[n]
    /\ sent[n][k] \in {m, Broadcast}
    /\ numbers[n][k] = id

\* A request in the radio of m holds a message of its sender to m; or m has
\* transmitted over it and will drop it; or m has broadcast over it and the
\* application will be given the broadcast.
ContentOK(m) ==
    rx[m] # NoPacket /\ ~rx[m].ack =>
        /\ rx[m].from # m
        /\ \/ \E k \in Nat : /\ SentTo(rx[m].from, k, m, rx[m].id)
                             /\ buf[m] = Message(rx[m].from, k)
           \/ phase[m] = "sent"
           \/ \E k \in DOMAIN sent[m] : sent[m][k] = Broadcast /\ buf[m] = Message(m, k)

ContentInv == \A m \in Nodes : ContentOK(m)

\* The application of m has been given a message of n with this number.
Given(n, m, id) ==
    \E j \in DOMAIN sent[n] : numbers[n][j] = id /\ IsDelivered(m, n, j)

\* Such is the number that a receiver has last seen, once it has seen any, and
\* that of an acknowledgement of its in the radio of the sender.
GivenOK(n, m) ==
    m \notin Broadcasters =>
        /\ seen[m][n] # 0 => Given(n, m, seen[m][n])
        /\ rx[n] # NoPacket /\ rx[n].ack /\ rx[n].from = m /\ rx[n].id # 0
              => Given(n, m, rx[n].id)

GivenInv == \A n, m \in Nodes : GivenOK(n, m)

\* The log of an intact receiver: entry i is message Place(m, i) of its sender.
Place(m, i) == delivered[m][i].body[2]

\* Entry i of the log of m is from n.
Of(n, m, i) == i \in DOMAIN delivered[m] /\ delivered[m][i].from = n

\* What an intact receiver m has of n was sent by n and is in order; the last of
\* it has the number last seen, and nothing of it is later than what is waiting
\* in the radio.
OrderOK(n, m) ==
    Intact(m) =>
        /\ \A i \in DOMAIN delivered[m] : Of(n, m, i) =>
              /\ Place(m, i) \in DOMAIN sent[n]
              /\ \/ numbers[n][Place(m, i)] = seen[m][n]
                 \/ \E j \in DOMAIN delivered[m] : j > i /\ Of(n, m, j)
        /\ \A j \in DOMAIN delivered[m] : \A i \in 1 .. j - 1 :
              Of(n, m, i) /\ Of(n, m, j) => Place(m, i) < Place(m, j)
        /\ rx[m] # NoPacket /\ ~rx[m].ack /\ rx[m].from = n /\ phase[m] # "sent" =>
              \A i \in DOMAIN delivered[m] : Of(n, m, i) => Place(m, i) <= buf[m][2]

OrderInv == \A n, m \in Nodes : OrderOK(n, m)

IInv ==
    /\ TypeOK
    /\ CallInv
    /\ NumbersInv
    /\ SentInv
    /\ ContentInv
    /\ GivenInv
    /\ AckedOrSameNumber
    /\ OrderInv

-----------------------------------------------------------------------------
(* The effect of a packet on the radios *)

\* A radio keeps what the sender left in it or, listening and addressed, takes
\* the packet.
LEMMA TransmitEffect ==
    ASSUME TypeOK, NEW a \in Nodes, NEW header, NEW body, NEW packets,
           Transmit(a, header, body, packets), NEW x \in Nodes
    PROVE  \/ rx'[x] = packets[x] /\ (x # a => buf'[x] = buf[x])
           \/ x # a /\ header.to \in {x, Broadcast} /\ rx'[x] = header /\ buf'[x] = body
BY DEF Transmit, TypeOK

\* Only the node that is acknowledged can receive the acknowledgement.
LEMMA AcknowledgeEffect ==
    ASSUME TypeOK, NEW a \in Nodes, rx[a] # NoPacket, Acknowledge(a), NEW x \in Nodes
    PROVE  \/ x = a /\ rx'[x] = NoPacket
           \/ x # a /\ rx'[x] = rx[x] /\ buf'[x] = buf[x]
           \/ /\ x # a
              /\ x = rx[a].from
              /\ rx'[x] = [from |-> a, to |-> x, id |-> rx[a].id, ack |-> TRUE]
<1> DEFINE header == [from |-> a, to |-> rx[a].from, id |-> rx[a].id, ack |-> TRUE]
           packets == [rx EXCEPT ![a] = NoPacket]
<1>1. rx[a].from \in Nodes /\ rx[a].from # Broadcast
  BY RadioAssumption DEF TypeOK, Headers
<1>2. header.to = rx[a].from
  OBVIOUS
<1>3. Transmit(a, header, AckBody, packets)
  BY DEF Acknowledge
<1>4. packets[x] = IF x = a THEN NoPacket ELSE rx[x]
  BY DEF TypeOK
<1>5. header = [from |-> a, to |-> rx[a].from, id |-> rx[a].id, ack |-> TRUE]
  OBVIOUS
<1> HIDE DEF header, packets
<1>6. \/ rx'[x] = packets[x] /\ (x # a => buf'[x] = buf[x])
      \/ x # a /\ header.to \in {x, Broadcast} /\ rx'[x] = header
  BY <1>3, TransmitEffect
<1> QED
  BY <1>1, <1>2, <1>4, <1>5, <1>6

-----------------------------------------------------------------------------
(* Messages, their numbers, and the logs only grow *)

\* What a sequence keeps and gains when something is appended to it.
LEMMA AppendKeeps ==
    ASSUME NEW S, NEW s \in Seq(S), NEW e \in S
    PROVE  /\ Len(s) \in Nat /\ DOMAIN s = 1 .. Len(s)
           /\ Len(Append(s, e)) = Len(s) + 1
           /\ DOMAIN Append(s, e) = 1 .. Len(s) + 1
           /\ \A i \in 1 .. Len(s) : Append(s, e)[i] = s[i]
           /\ Append(s, e)[Len(s) + 1] = e
  OBVIOUS

\* The call adds one message, with the next number.
LEMMA SendtoWaitEffect ==
    ASSUME TypeOK, NumbersInv, NEW a \in Nodes, NEW d \in Addressees(a), SendtoWait(a, d)
    PROVE  /\ d \in Nodes \cup {Broadcast} /\ lastSeq'[a] \in Ids
           /\ \A n \in Nodes : n # a => sent'[n] = sent[n] /\ numbers'[n] = numbers[n]
           /\ Len(sent[a]) \in Nat /\ DOMAIN sent[a] = 1 .. Len(sent[a])
           /\ Len(sent'[a]) = Len(sent[a]) + 1 /\ Len(numbers'[a]) = Len(sent[a]) + 1
           /\ DOMAIN sent'[a] = 1 .. Len(sent[a]) + 1
           /\ \A k \in 1 .. Len(sent[a]) : /\ sent'[a][k] = sent[a][k]
                                           /\ numbers'[a][k] = numbers[a][k]
           /\ sent'[a][Len(sent[a]) + 1] = d
           /\ numbers'[a][Len(sent[a]) + 1] = lastSeq'[a]
<1>1. d \in Nodes \cup {Broadcast}
  BY DEF Addressees
<1>2. lastSeq'[a] \in Ids
  BY RadioAssumption DEF SendtoWait, TypeOK, Ids
<1>3. sent[a] \in Seq(Nodes \cup {Broadcast}) /\ numbers[a] \in Seq(Ids)
      /\ Len(numbers[a]) = Len(sent[a])
  BY DEF TypeOK, NumbersInv
<1>4. sent'[a] = Append(sent[a], d) /\ numbers'[a] = Append(numbers[a], lastSeq'[a])
      /\ \A n \in Nodes : n # a => sent'[n] = sent[n] /\ numbers'[n] = numbers[n]
  BY DEF SendtoWait, TypeOK
<1> QED
  BY <1>1, <1>2, <1>3, <1>4, AppendKeeps

\* Only a call adds messages.
LEMMA OnlyCallsSend ==
    ASSUME [Next]_vars
    PROVE  \/ UNCHANGED <<sent, numbers>>
           \/ \E a \in Nodes : \E d \in Addressees(a) : SendtoWait(a, d)
  BY DEF Next, vars, TransmitMessage, WaitNothing, WaitAcked, WaitOther, Timeout,
         RecvNothing, RecvRequest, RecvAck, Reboot

\* A message keeps its destination and its number.
LEMMA MessagesKept ==
    ASSUME TypeOK, NumbersInv, [Next]_vars, NEW n \in Nodes, NEW k \in DOMAIN sent[n]
    PROVE  k \in DOMAIN sent'[n] /\ sent'[n][k] = sent[n][k] /\ numbers'[n][k] = numbers[n][k]
<1>1. CASE UNCHANGED <<sent, numbers>>
  BY <1>1
<1>2. ASSUME NEW a \in Nodes, NEW d \in Addressees(a), SendtoWait(a, d)
      PROVE  k \in DOMAIN sent'[n] /\ sent'[n][k] = sent[n][k] /\ numbers'[n][k] = numbers[n][k]
  <2>1. CASE n # a
    BY <1>2, <2>1, SendtoWaitEffect
  <2>2. CASE n = a
    BY <1>2, <2>2, SendtoWaitEffect
  <2> QED
    BY <2>1, <2>2
<1> QED
  BY <1>1, <1>2, OnlyCallsSend

\* What RecvRequest adds to the log: the sender in the packet's header and what
\* is in the buffer, unless the number is that of a repeat.
LEMMA RecvRequestEffect ==
    ASSUME TypeOK, NEW a \in Nodes, RecvRequest(a)
    PROVE  /\ rx[a] # NoPacket /\ ~rx[a].ack /\ phase[a] = "idle" /\ phase' = phase
           /\ rx[a].from \in Nodes /\ rx[a].id \in Ids
           /\ UNCHANGED <<lastSeq, sent, numbers, boots, acked>>
           /\ Len(delivered[a]) \in Nat /\ DOMAIN delivered[a] = 1 .. Len(delivered[a])
           /\ IsRepeat(a, rx[a]) => UNCHANGED <<seen, delivered>>
           /\ ~IsRepeat(a, rx[a]) =>
                 /\ DOMAIN delivered'[a] = 1 .. Len(delivered[a]) + 1
                 /\ \A i \in 1 .. Len(delivered[a]) : delivered'[a][i] = delivered[a][i]
                 /\ delivered'[a][Len(delivered[a]) + 1] = [from |-> rx[a].from, body |-> buf[a]]
                 /\ \A m \in Nodes : m # a => delivered'[m] = delivered[m]
                 /\ \A n, m \in Nodes : seen'[m][n] = IF m = a /\ n = rx[a].from
                                                      THEN rx[a].id ELSE seen[m][n]
<1> DEFINE entry == [from |-> rx[a].from, body |-> buf[a]]
<1>1. /\ rx[a] # NoPacket /\ ~rx[a].ack /\ phase[a] = "idle" /\ phase' = phase
      /\ UNCHANGED <<lastSeq, sent, numbers, boots, acked>>
      /\ IsRepeat(a, rx[a]) => UNCHANGED <<seen, delivered>>
  BY DEF RecvRequest
<1>2. rx[a] \in Headers /\ buf[a] \in Bodies /\ delivered[a] \in Seq(Entries)
  BY <1>1 DEF TypeOK
<1>3. rx[a].from \in Nodes /\ rx[a].id \in Ids /\ entry \in Entries
  BY <1>2 DEF Headers, Entries
<1>4. ASSUME ~IsRepeat(a, rx[a])
      PROVE  /\ delivered'[a] = Append(delivered[a], entry)
             /\ \A m \in Nodes : m # a => delivered'[m] = delivered[m]
             /\ seen' = [seen EXCEPT ![a][rx[a].from] = rx[a].id]
  BY <1>4 DEF RecvRequest, TypeOK
<1>5. entry = [from |-> rx[a].from, body |-> buf[a]]
  OBVIOUS
<1>6. ASSUME ~IsRepeat(a, rx[a]), NEW n \in Nodes, NEW m \in Nodes
      PROVE  seen'[m][n] = IF m = a /\ n = rx[a].from THEN rx[a].id ELSE seen[m][n]
  <2>1. seen \in [Nodes -> [Nodes -> Ids]]
    BY DEF TypeOK
  <2>2. PICK f, id : f = rx[a].from /\ id = rx[a].id
    OBVIOUS
  <2>3. seen' = [seen EXCEPT ![a][f] = id] /\ f \in Nodes
    BY <1>3, <1>4, <1>6, <2>2
  <2>4. seen'[m][n] = IF m = a /\ n = f THEN id ELSE seen[m][n]
    BY <2>1, <2>3
  <2> QED
    BY <2>2, <2>4
<1> HIDE DEF entry
<1> QED
  BY <1>1, <1>2, <1>3, <1>4, <1>5, <1>6, AppendKeeps

\* What an application has been given stays given, and at its place.
LEMMA DeliveredKept ==
    ASSUME TypeOK, [Next]_vars, NEW m \in Nodes, NEW i \in DOMAIN delivered[m]
    PROVE  i \in DOMAIN delivered'[m] /\ delivered'[m][i] = delivered[m][i]
<1>1. CASE UNCHANGED delivered
  BY <1>1
<1>2. ASSUME NEW a \in Nodes, RecvRequest(a)
      PROVE  i \in DOMAIN delivered'[m] /\ delivered'[m][i] = delivered[m][i]
  <2>1. CASE IsRepeat(a, rx[a]) \/ m # a
    BY <1>2, <2>1, RecvRequestEffect
  <2>2. CASE ~IsRepeat(a, rx[a]) /\ m = a
    <3>1. /\ Len(delivered[a]) \in Nat /\ DOMAIN delivered[a] = 1 .. Len(delivered[a])
          /\ DOMAIN delivered'[a] = 1 .. Len(delivered[a]) + 1
          /\ \A x \in 1 .. Len(delivered[a]) : delivered'[a][x] = delivered[a][x]
      BY <1>2, <2>2, RecvRequestEffect
    <3> QED
      BY <2>2, <3>1
  <2> QED
    BY <2>1, <2>2
<1> QED
  BY <1>1, <1>2
  DEF Next, vars, SendtoWait, TransmitMessage, WaitNothing, WaitAcked, WaitOther, Timeout,
      RecvNothing, RecvAck, Reboot

\* So a number that was given stays given.
LEMMA GivenKept ==
    ASSUME TypeOK, NumbersInv, [Next]_vars, NEW n \in Nodes, NEW m \in Nodes, NEW id,
           Given(n, m, id)
    PROVE  Given(n, m, id)'
<1>1. PICK j \in DOMAIN sent[n] : numbers[n][j] = id /\ IsDelivered(m, n, j)
  BY DEF Given
<1>2. j \in DOMAIN sent'[n] /\ numbers'[n][j] = id
  BY <1>1, MessagesKept
<1>3. IsDelivered(m, n, j)'
  BY <1>1, DeliveredKept DEF IsDelivered
<1> QED
  BY <1>2, <1>3 DEF Given

\* A number below the modulus is its own remainder.
LEMMA SmallRemainder ==
    ASSUME NEW x \in Nat, NEW y \in Nat \ {0}, x < y
    PROVE  x % y = x
OBVIOUS

\* Every step keeps the numbers.
LEMMA NumbersStep == TypeOK /\ CallInv /\ NumbersInv /\ [Next]_vars => NumbersInv'
<1> SUFFICES ASSUME TypeOK, CallInv, NumbersInv, [Next]_vars PROVE NumbersInv'
  OBVIOUS
<1>1. ASSUME NEW a \in Nodes, NEW d \in Addressees(a), SendtoWait(a, d) PROVE NumbersInv'
  <2> SUFFICES ASSUME NEW n \in Nodes
               PROVE  /\ Len(numbers'[n]) = Len(sent'[n])
                      /\ phase'[n] # "idle" => numbers'[n][Len(sent'[n])] = lastSeq'[n]
                      /\ boots'[n] = 0 /\ Len(sent'[n]) < IdSpace =>
                            /\ lastSeq'[n] = Len(sent'[n])
                            /\ \A k \in DOMAIN sent'[n] : numbers'[n][k] = k
    BY DEF NumbersInv
  <2>1. /\ boots' = boots
        /\ lastSeq' = [lastSeq EXCEPT ![a] = (@ + 1) % IdSpace]
        /\ phase' = [phase EXCEPT ![a] = "send"]
    BY <1>1 DEF SendtoWait
  <2>2. CASE n # a
    <3>1. /\ sent'[n] = sent[n] /\ numbers'[n] = numbers[n]
          /\ phase'[n] = phase[n] /\ lastSeq'[n] = lastSeq[n]
      BY <1>1, <2>1, <2>2, SendtoWaitEffect DEF TypeOK
    <3> QED
      BY <2>1, <3>1 DEF NumbersInv
  <2>3. CASE n = a
    <3> DEFINE len == Len(sent[a])
    <3>1. /\ len \in Nat /\ Len(sent'[a]) = len + 1 /\ Len(numbers'[a]) = len + 1
          /\ DOMAIN sent[a] = 1 .. len /\ DOMAIN sent'[a] = 1 .. len + 1
          /\ numbers'[a][len + 1] = lastSeq'[a]
          /\ \A k \in 1 .. len : numbers'[a][k] = numbers[a][k]
      BY <1>1, SendtoWaitEffect
    <3>2. ASSUME boots'[a] = 0, len + 1 < IdSpace
          PROVE  lastSeq'[a] = len + 1 /\ \A k \in 1 .. len : numbers'[a][k] = k
      <4>1. IdSpace \in Nat \ {0} /\ len < IdSpace
        BY <3>1, <3>2, RadioAssumption
      <4>2. lastSeq[a] = len /\ \A k \in 1 .. len : numbers[a][k] = k
        BY <2>1, <3>1, <3>2, <4>1 DEF NumbersInv
      <4>3. lastSeq'[a] = (len + 1) % IdSpace
        BY <2>1, <4>2 DEF TypeOK
      <4>4. (len + 1) % IdSpace = len + 1
        BY <3>1, <3>2, <4>1, SmallRemainder
      <4> QED
        BY <3>1, <4>2, <4>3, <4>4
    <3> HIDE DEF len
    <3>3. ASSUME boots'[a] = 0, len + 1 < IdSpace, NEW k \in 1 .. len + 1
          PROVE  numbers'[a][k] = k
      <4>1. CASE k = len + 1
        BY <3>1, <3>2, <3>3, <4>1
      <4>2. CASE k \in 1 .. len
        BY <3>2, <3>3, <4>2
      <4> QED
        BY <3>1, <4>1, <4>2
    <3> QED
      BY <2>3, <3>1, <3>2, <3>3
  <2> QED
    BY <2>2, <2>3
<1>2. ASSUME NEW a \in Nodes, Reboot(a) PROVE NumbersInv'
  <2>1. UNCHANGED <<sent, numbers>>
    BY <1>2 DEF Reboot
  <2>2. /\ phase' = [phase EXCEPT ![a] = "idle"] /\ boots'[a] # 0
        /\ \A n \in Nodes : n # a => lastSeq'[n] = lastSeq[n] /\ boots'[n] = boots[n]
    BY <1>2 DEF Reboot, TypeOK
  <2>3. \A n \in Nodes : phase'[n] # "idle" => n # a /\ phase[n] # "idle"
    BY <2>2 DEF TypeOK
  <2> QED
    BY <2>1, <2>2, <2>3 DEF NumbersInv
<1>3. CASE /\ UNCHANGED <<sent, numbers, boots, lastSeq>>
           /\ \A n \in Nodes : phase'[n] # "idle" => phase[n] # "idle"
  BY <1>3 DEF NumbersInv
<1>4. ASSUME NEW a \in Nodes,
             \/ TransmitMessage(a) \/ WaitNothing(a) \/ WaitAcked(a) \/ WaitOther(a)
             \/ Timeout(a) \/ RecvNothing(a) \/ RecvRequest(a) \/ RecvAck(a)
      PROVE  /\ UNCHANGED <<sent, numbers, boots, lastSeq>>
             /\ \A n \in Nodes : phase'[n] # "idle" => phase[n] # "idle"
  <2>1. UNCHANGED <<sent, numbers, boots, lastSeq>>
    BY <1>4 DEF TransmitMessage, WaitNothing, WaitAcked, WaitOther, Timeout, RecvNothing,
                RecvRequest, RecvAck
  <2>2. CASE TransmitMessage(a) \/ Timeout(a)
    BY <2>2 DEF TransmitMessage, Timeout, TypeOK
  <2>3. CASE WaitNothing(a) \/ WaitAcked(a) \/ WaitOther(a)
    BY <2>3 DEF WaitNothing, WaitAcked, WaitOther, Waiting, TypeOK
  <2>4. CASE RecvNothing(a) \/ RecvRequest(a) \/ RecvAck(a)
    BY <2>4 DEF RecvNothing, RecvRequest, RecvAck
  <2> QED
    BY <1>4, <2>1, <2>2, <2>3, <2>4
<1>5. CASE UNCHANGED vars
  BY <1>3, <1>5 DEF vars
<1> QED
  BY <1>1, <1>2, <1>3, <1>4, <1>5 DEF Next

\* Every step keeps what is known of the messages sent and acknowledged.
LEMMA SentStep == IInv /\ [Next]_vars => SentInv'
<1> SUFFICES ASSUME IInv, [Next]_vars PROVE SentInv'
  OBVIOUS
<1>1. TypeOK /\ SentInv /\ CallInv
  BY DEF IInv
<1>2. CASE UNCHANGED <<sent, acked>>
  BY <1>1, <1>2 DEF SentInv
<1>3. ASSUME NEW a \in Nodes, NEW d \in Addressees(a), SendtoWait(a, d) PROVE SentInv'
  <2>1. d \in Nodes \cup {Broadcast} /\ (d = Broadcast => a \in Broadcasters)
    BY <1>3, RadioAssumption DEF Addressees
  <2>2. acked' = acked /\ sent' = [sent EXCEPT ![a] = Append(@, d)]
    BY <1>3 DEF SendtoWait
  <2>3. ASSUME NEW n \in Nodes, NEW k \in DOMAIN sent'[n]
        PROVE  \/ k \in DOMAIN sent[n] /\ sent'[n][k] = sent[n][k]
               \/ n = a /\ sent'[n][k] = d
    BY <1>1, <2>1, <2>2 DEF TypeOK
  <2>4. ASSUME NEW n \in Nodes, NEW k \in DOMAIN sent[n]
        PROVE  k \in DOMAIN sent'[n] /\ sent'[n][k] = sent[n][k]
    BY <1>1, <2>1, <2>2 DEF TypeOK
  <2> QED
    BY <1>1, <2>1, <2>2, <2>3, <2>4 DEF SentInv
<1>4. ASSUME NEW a \in Nodes, WaitAcked(a) PROVE SentInv'
  <2>1. sent' = sent /\ acked' = acked \cup {<<a, Len(sent[a])>>}
    BY <1>4 DEF WaitAcked, Message, Current
  <2>2. Len(sent[a]) \in DOMAIN sent[a]
    <3>1. sent[a] \in Seq(Nodes \cup {Broadcast}) /\ Len(sent[a]) > 0
      BY <1>1, <1>4 DEF WaitAcked, Waiting, CallInv, TypeOK
    <3> QED
      BY <3>1
  <2>3. sent[a][Len(sent[a])] \in Nodes
    BY <1>1, <1>4 DEF WaitAcked, IsMyAck, TypeOK, Headers, Dest, Current
  <2> QED
    BY <1>1, <2>1, <2>2, <2>3 DEF SentInv
<1> QED
  BY <1>2, <1>3, <1>4
  DEF Next, vars, TransmitMessage, WaitNothing, WaitOther, Timeout,
      RecvNothing, RecvRequest, RecvAck, Reboot

-----------------------------------------------------------------------------
(* What is in the radios *)

\* A radio whose packet is left alone, taken or replaced by an acknowledgement
\* keeps ContentOK.
LEMMA ContentStays ==
    ASSUME ContentInv, NEW m \in Nodes, UNCHANGED <<sent, numbers>>,
           \/ rx'[m] = NoPacket
           \/ rx'[m] # NoPacket /\ rx'[m].ack
           \/ /\ rx'[m] = rx[m] /\ buf'[m] = buf[m]
              /\ phase[m] = "sent" => phase'[m] = "sent"
    PROVE  ContentOK(m)'
<1>1. CASE rx'[m] = NoPacket \/ rx'[m].ack
  BY <1>1 DEF ContentOK
<1>2. CASE /\ rx'[m] = rx[m] /\ buf'[m] = buf[m]
           /\ phase[m] = "sent" => phase'[m] = "sent"
  BY <1>2 DEF ContentInv, ContentOK, SentTo
<1> QED
  BY <1>1, <1>2

\* A new message does not change the earlier ones.
LEMMA SendtoWaitContent ==
    ASSUME TypeOK, NumbersInv, ContentInv, NEW a \in Nodes, NEW d \in Addressees(a),
           SendtoWait(a, d), NEW m \in Nodes
    PROVE  ContentOK(m)'
<1>1. [Next]_vars
  BY DEF Next
<1>2. ASSUME NEW n \in Nodes, NEW k \in DOMAIN sent[n]
      PROVE  /\ k \in DOMAIN sent'[n] /\ sent'[n][k] = sent[n][k]
             /\ numbers'[n][k] = numbers[n][k]
  BY <1>1, MessagesKept
<1>3. rx' = rx /\ buf' = buf /\ (phase[m] = "sent" => phase'[m] = "sent")
  BY DEF SendtoWait, TypeOK
<1>4. rx[m] # NoPacket => rx[m].from \in Nodes
  BY DEF TypeOK, Headers
<1>5. ContentOK(m)
  BY DEF ContentInv
<1> QED
  BY <1>2, <1>3, <1>4, <1>5 DEF ContentOK, SentTo

\* Whoever hears a message has it intact, and the sender's own buffer now holds
\* the message, which the application will see only if it was a broadcast.
LEMMA TransmitMessageContent ==
    ASSUME TypeOK, CallInv, NumbersInv, ContentInv, NEW a \in Nodes, TransmitMessage(a),
           NEW m \in Nodes
    PROVE  ContentOK(m)'
<1> DEFINE header == [from |-> a, to |-> Dest(a), id |-> lastSeq[a], ack |-> FALSE]
<1>1. /\ UNCHANGED <<sent, numbers, lastSeq>>
      /\ phase' = [phase EXCEPT ![a] = IF Dest(a) = Broadcast THEN "idle" ELSE "sent"]
      /\ Transmit(a, header, Message(a, Current(a)), rx)
  BY DEF TransmitMessage
<1>2. /\ Current(a) \in DOMAIN sent[a] /\ Current(a) \in Nat
      /\ sent[a][Current(a)] = Dest(a) /\ numbers[a][Current(a)] = lastSeq[a]
  <2>1. sent[a] \in Seq(Nodes \cup {Broadcast}) /\ Len(sent[a]) > 0
    BY DEF TransmitMessage, CallInv, TypeOK
  <2>2. Len(sent[a]) \in DOMAIN sent[a] /\ Len(sent[a]) \in Nat
    BY <2>1
  <2>3. numbers[a][Len(sent[a])] = lastSeq[a]
    BY DEF TransmitMessage, NumbersInv
  <2> QED
    BY <2>2, <2>3 DEF Current, Dest
<1>3. CASE m = a
  <2>1. rx'[a] = rx[a] /\ buf'[a] = Message(a, Current(a))
    BY <1>1 DEF Transmit, TypeOK
  <2>2. rx[a] # NoPacket /\ ~rx[a].ack => rx[a].from # a
    BY DEF ContentInv, ContentOK
  <2>3. CASE Dest(a) = Broadcast
    BY <1>1, <1>2, <1>3, <2>1, <2>2, <2>3 DEF ContentOK
  <2>4. CASE Dest(a) # Broadcast
    <3>1. phase'[a] = "sent"
      BY <1>1, <2>4 DEF TypeOK
    <3> QED
      BY <1>3, <2>1, <2>2, <3>1 DEF ContentOK
  <2> QED
    BY <2>3, <2>4
<1>4. CASE m # a
  <2>1. header.from = a /\ header.to = Dest(a) /\ header.id = lastSeq[a]
    OBVIOUS
  <2> HIDE DEF header
  <2>2. phase'[m] = phase[m]
    BY <1>1, <1>4 DEF TypeOK
  <2>3. CASE rx'[m] = rx[m] /\ buf'[m] = buf[m]
    <3>1. ContentOK(m)
      BY DEF ContentInv
    <3> QED
      BY <1>1, <2>2, <2>3, <3>1 DEF ContentOK, SentTo
  <2>4. CASE /\ header.to \in {m, Broadcast}
             /\ rx'[m] = header /\ buf'[m] = Message(a, Current(a))
    <3>1. PICK k \in Nat : k = Current(a)
      BY <1>2
    <3>2. SentTo(a, k, m, lastSeq[a])'
      BY <1>1, <1>2, <2>1, <2>4, <3>1 DEF SentTo
    <3>3. buf'[m] = Message(a, k) /\ rx'[m].from = a /\ rx'[m].id = lastSeq[a]
      BY <2>1, <2>4, <3>1
    <3> QED
      BY <1>1, <1>4, <3>2, <3>3 DEF ContentOK, Message
  <2> QED
    BY <1>1, <1>4, <2>3, <2>4, TransmitEffect
<1> QED
  BY <1>3, <1>4

\* Every other step only takes packets from the radios and puts
\* acknowledgements into them.
LEMMA ContentStep == IInv /\ [Next]_vars => ContentInv'
<1> SUFFICES ASSUME IInv, [Next]_vars, NEW m \in Nodes PROVE ContentOK(m)'
  BY DEF ContentInv
<1>1. TypeOK /\ CallInv /\ NumbersInv /\ ContentInv
  BY DEF IInv
<1>2. ASSUME NEW a \in Nodes, NEW d \in Addressees(a), SendtoWait(a, d)
      PROVE  ContentOK(m)'
  BY <1>1, <1>2, SendtoWaitContent
<1>3. ASSUME NEW a \in Nodes, TransmitMessage(a) PROVE ContentOK(m)'
  BY <1>1, <1>3, TransmitMessageContent
<1>4. ASSUME NEW a \in Nodes, WaitNothing(a) \/ Timeout(a) \/ RecvNothing(a)
      PROVE  ContentOK(m)'
  <2>1. UNCHANGED <<sent, numbers, buf, rx>>
    BY <1>4 DEF WaitNothing, Timeout, RecvNothing, Listen
  <2>2. rx[m] = NoPacket \/ (phase[m] = "sent" => phase'[m] = "sent")
    BY <1>1, <1>4 DEF WaitNothing, Timeout, RecvNothing, Listen, TypeOK
  <2> QED
    BY <1>1, <2>1, <2>2, ContentStays
<1>5. ASSUME NEW a \in Nodes, WaitAcked(a) \/ WaitOther(a) \/ RecvRequest(a) \/ RecvAck(a)
      PROVE  ContentOK(m)'
  <2>1. UNCHANGED <<sent, numbers>> /\ rx[a] # NoPacket
    BY <1>5 DEF WaitAcked, WaitOther, RecvRequest, RecvAck
  <2>2. m # a => phase'[m] = phase[m]
    BY <1>1, <1>5 DEF WaitAcked, WaitOther, RecvRequest, RecvAck, TypeOK
  <2>3. CASE Take(a)
    <3>1. rx'[m] = (IF m = a THEN NoPacket ELSE rx[m]) /\ buf' = buf
      BY <1>1, <2>3 DEF Take, TypeOK
    <3> QED
      BY <1>1, <2>1, <2>2, <3>1, ContentStays
  <2>4. CASE Acknowledge(a)
    <3>1. CASE rx'[m] = NoPacket
      BY <1>1, <2>1, <3>1, ContentStays
    <3>2. CASE m # a /\ rx'[m] = rx[m] /\ buf'[m] = buf[m]
      BY <1>1, <2>1, <2>2, <3>2, ContentStays
    <3>3. CASE rx'[m] = [from |-> a, to |-> m, id |-> rx[a].id, ack |-> TRUE]
      <4>1. rx'[m].ack
        BY <3>3
      <4> QED
        BY <4>1 DEF ContentOK
    <3> QED
      BY <1>1, <2>1, <2>4, <3>1, <3>2, <3>3, AcknowledgeEffect
  <2> QED
    BY <1>5, <2>3, <2>4 DEF WaitAcked, WaitOther, RecvRequest, RecvAck
<1>6. ASSUME NEW a \in Nodes, Reboot(a) PROVE ContentOK(m)'
  <2>1. UNCHANGED <<sent, numbers>>
    BY <1>6 DEF Reboot
  <2>2. \/ rx'[m] = NoPacket
        \/ rx'[m] = rx[m] /\ buf'[m] = buf[m] /\ phase'[m] = phase[m]
    BY <1>1, <1>6 DEF Reboot, TypeOK
  <2> QED
    BY <1>1, <2>1, <2>2, ContentStays
<1>7. CASE UNCHANGED vars
  BY <1>1, <1>7, ContentStays DEF vars
<1> QED
  BY <1>2, <1>3, <1>4, <1>5, <1>6, <1>7 DEF Next

\* A receiver that does not broadcast finds in its buffer what the header says.
LEMMA RequestContent ==
    ASSUME IInv, NEW a \in Nodes, a \notin Broadcasters,
           rx[a] # NoPacket, ~rx[a].ack, phase[a] # "sent"
    PROVE  /\ rx[a].from \in Nodes /\ rx[a].from # a
           /\ \E k \in Nat : /\ SentTo(rx[a].from, k, a, rx[a].id)
                             /\ buf[a] = Message(rx[a].from, k)
<1>1. ContentOK(a) /\ rx[a].from \in Nodes
  BY DEF IInv, ContentInv, TypeOK, Headers
<1>2. \A k \in DOMAIN sent[a] : sent[a][k] # Broadcast
  BY DEF IInv, SentInv
<1> QED
  BY <1>1, <1>2 DEF ContentOK

-----------------------------------------------------------------------------
(* What has been given and acknowledged *)

\* A request that recvfromAck() takes has been given to the application with its
\* number, unless the number is the zero that _seenIds begins with.
LEMMA RecvRequestGives ==
    ASSUME IInv, NEW a \in Nodes, a \notin Broadcasters, RecvRequest(a),
           NEW n, NEW id, n = rx[a].from, id = rx[a].id, id # 0
    PROVE  Given(n, a, id)'
<1>1. TypeOK /\ NumbersInv /\ GivenInv /\ [Next]_vars
  BY DEF IInv, Next
<1>2. /\ rx[a] # NoPacket /\ ~rx[a].ack /\ phase[a] = "idle"
      /\ UNCHANGED <<sent, numbers>>
  BY <1>1, RecvRequestEffect
<1>3. n \in Nodes
  BY <1>2, RequestContent
<1>4. CASE IsRepeat(a, rx[a])
  <2>1. seen[a][n] = id
    BY <1>4 DEF IsRepeat
  <2>2. Given(n, a, id)
    BY <1>1, <1>3, <2>1 DEF GivenInv, GivenOK
  <2> QED
    BY <1>1, <1>3, <2>2, GivenKept
<1>5. CASE ~IsRepeat(a, rx[a])
  <2>1. PICK k \in Nat : SentTo(n, k, a, id) /\ buf[a] = Message(n, k)
    BY <1>2, <1>3, RequestContent
  <2>2. /\ Len(delivered[a]) \in Nat /\ DOMAIN delivered'[a] = 1 .. Len(delivered[a]) + 1
        /\ delivered'[a][Len(delivered[a]) + 1] = [from |-> n, body |-> Message(n, k)]
    BY <1>1, <1>3, <1>5, <2>1, RecvRequestEffect
  <2>3. Len(delivered[a]) + 1 \in DOMAIN delivered'[a]
    BY <2>2
  <2>4. IsDelivered(a, n, k)'
    BY <2>2, <2>3 DEF IsDelivered, Message
  <2> QED
    BY <1>2, <2>1, <2>4 DEF Given, SentTo
<1> QED
  BY <1>4, <1>5

\* The number last seen changes only where it is that of a request just given,
\* or back to zero.
LEMMA SeenGiven ==
    ASSUME IInv, [Next]_vars, NEW n \in Nodes, NEW m \in Nodes, m \notin Broadcasters,
           seen'[m][n] # 0
    PROVE  Given(n, m, seen[m][n])'
<1>1. TypeOK /\ NumbersInv /\ GivenOK(n, m)
  BY DEF IInv, GivenInv
<1>2. CASE seen'[m][n] = seen[m][n]
  <2>1. PICK id : id = seen[m][n] /\ id = seen'[m][n]
    BY <1>2
  <2>2. Given(n, m, id)'
    BY <1>1, <2>1, GivenKept DEF GivenOK
  <2> QED
    BY <2>1, <2>2 DEF Given
<1>3. ASSUME NEW a \in Nodes, RecvRequest(a) PROVE Given(n, m, seen[m][n])'
  <2>1. CASE m = a /\ n = rx[a].from /\ ~IsRepeat(a, rx[a])
    <3>1. PICK id : id = rx[a].id /\ id = seen'[m][n]
      BY <1>1, <1>3, <2>1, RecvRequestEffect
    <3>2. Given(n, m, id)'
      BY <1>3, <2>1, <3>1, RecvRequestGives
    <3> QED
      BY <3>1, <3>2 DEF Given
  <2>2. CASE ~(m = a /\ n = rx[a].from /\ ~IsRepeat(a, rx[a]))
    <3>1. seen'[m][n] = seen[m][n]
      <4>1. CASE IsRepeat(a, rx[a])
        BY <1>1, <1>3, <4>1, RecvRequestEffect
      <4>2. CASE ~IsRepeat(a, rx[a])
        <5>1. \A x, y \in Nodes : seen'[y][x] = IF y = a /\ x = rx[a].from
                                                THEN rx[a].id ELSE seen[y][x]
          BY <1>1, <1>3, <4>2, RecvRequestEffect
        <5> QED
          BY <2>2, <4>2, <5>1
      <4> QED
        BY <4>1, <4>2
    <3> QED
      BY <1>2, <3>1
  <2> QED
    BY <2>1, <2>2
<1>4. ASSUME NEW a \in Nodes, Reboot(a) PROVE seen'[m][n] = seen[m][n] \/ seen'[m][n] = 0
  <2>1. seen' = [seen EXCEPT ![a] = [x \in Nodes |-> 0]] /\ seen \in [Nodes -> [Nodes -> Ids]]
    BY <1>1, <1>4 DEF Reboot, TypeOK
  <2> QED
    BY <2>1
<1> QED
  BY <1>2, <1>3, <1>4
  DEF Next, vars, SendtoWait, TransmitMessage, WaitNothing, WaitAcked, WaitOther, Timeout,
      RecvNothing, RecvAck

\* A radio takes an acknowledgement only of a request just given.
LEMMA AckGiven ==
    ASSUME IInv, [Next]_vars, NEW n \in Nodes, NEW m \in Nodes, m \notin Broadcasters,
           rx'[n] # NoPacket, rx'[n].ack, rx'[n].from = m, rx'[n].id # 0
    PROVE  Given(n, m, rx[n].id)'
<1>1. TypeOK /\ NumbersInv /\ GivenOK(n, m)
  BY DEF IInv, GivenInv
<1>2. CASE rx'[n] = rx[n]
  <2>1. PICK id : id = rx[n].id /\ id = rx'[n].id
    BY <1>2
  <2>2. Given(n, m, id)'
    BY <1>1, <1>2, <2>1, GivenKept DEF GivenOK
  <2> QED
    BY <2>1, <2>2 DEF Given
<1>3. ASSUME NEW a \in Nodes, WaitOther(a) \/ RecvRequest(a), Acknowledge(a),
             rx'[n] # rx[n]
      PROVE  Given(n, m, rx[n].id)'
  <2>1. rx[a] # NoPacket
    BY <1>3 DEF WaitOther, RecvRequest
  <2>2. m = a /\ n = rx[a].from /\ rx'[n].id = rx[a].id
    <3>1. /\ n = rx[a].from
          /\ rx'[n] = [from |-> a, to |-> n, id |-> rx[a].id, ack |-> TRUE]
      BY <1>1, <1>3, <2>1, AcknowledgeEffect
    <3>2. rx'[n].from = a /\ rx'[n].id = rx[a].id
      BY <3>1
    <3> QED
      BY <3>1, <3>2
  <2>3. PICK id : id = rx[a].id /\ id = rx'[n].id /\ id # 0
    BY <2>2
  <2>4. Given(n, m, id)'
    <3>1. CASE RecvRequest(a)
      BY <2>2, <2>3, <3>1, RecvRequestGives
    <3>2. CASE WaitOther(a) /\ IsRepeat(a, rx[a])
      <4>1. seen[m][n] = id
        BY <2>2, <2>3, <3>2 DEF IsRepeat
      <4>2. Given(n, m, id)
        BY <1>1, <2>3, <4>1 DEF GivenOK
      <4> QED
        BY <1>1, <4>2, GivenKept
    <3>3. CASE WaitOther(a) /\ Take(a)
      <4>1. rx' = [rx EXCEPT ![a] = NoPacket]
        BY <3>3 DEF Take
      <4> QED
        BY <1>1, <1>3, <4>1 DEF TypeOK
    <3> QED
      BY <1>3, <3>1, <3>2, <3>3 DEF WaitOther
  <2> QED
    BY <2>3, <2>4 DEF Given
<1>4. ASSUME NEW a \in Nodes, TransmitMessage(a) PROVE rx'[n] = rx[n] \/ ~rx'[n].ack
  <2> DEFINE header == [from |-> a, to |-> Dest(a), id |-> lastSeq[a], ack |-> FALSE]
  <2>1. Transmit(a, header, Message(a, Current(a)), rx)
    BY <1>4 DEF TransmitMessage
  <2>2. ~header.ack
    OBVIOUS
  <2> HIDE DEF header
  <2> QED
    BY <1>1, <2>1, <2>2, TransmitEffect
<1>5. ASSUME NEW a \in Nodes, Take(a) PROVE rx'[n] = rx[n] \/ rx'[n] = NoPacket
  BY <1>1, <1>5 DEF Take, TypeOK
<1>6. ASSUME NEW a \in Nodes, Reboot(a) PROVE rx'[n] = rx[n] \/ rx'[n] = NoPacket
  BY <1>1, <1>6 DEF Reboot, TypeOK
<1>7. ASSUME NEW a \in Nodes,
             \/ \E d \in Addressees(a) : SendtoWait(a, d)
             \/ WaitNothing(a) \/ Timeout(a) \/ RecvNothing(a)
      PROVE  rx'[n] = rx[n]
  BY <1>7 DEF SendtoWait, WaitNothing, Timeout, RecvNothing, Listen
<1>8. ASSUME NEW a \in Nodes, WaitAcked(a) \/ WaitOther(a) \/ RecvRequest(a) \/ RecvAck(a)
      PROVE  Given(n, m, rx[n].id)'
  <2>1. CASE Take(a)
    BY <1>2, <1>5, <2>1
  <2>2. CASE WaitOther(a) /\ Acknowledge(a)
    BY <1>2, <1>3, <2>2
  <2>3. CASE RecvRequest(a) /\ Acknowledge(a)
    BY <1>2, <1>3, <2>3
  <2> QED
    BY <1>8, <2>1, <2>2, <2>3 DEF WaitAcked, WaitOther, RecvRequest, RecvAck
<1>9. CASE UNCHANGED vars
  BY <1>2, <1>9 DEF vars
<1> QED
  BY <1>2, <1>3, <1>4, <1>5, <1>6, <1>7, <1>8, <1>9 DEF Next

\* So every step keeps GivenInv.
LEMMA GivenStep == IInv /\ [Next]_vars => GivenInv'
<1> SUFFICES ASSUME IInv, [Next]_vars, NEW n \in Nodes, NEW m \in Nodes, m \notin Broadcasters
             PROVE  /\ seen'[m][n] # 0 => Given(n, m, seen[m][n])'
                    /\ rx'[n] # NoPacket /\ rx'[n].ack /\ rx'[n].from = m /\ rx'[n].id # 0
                          => Given(n, m, rx[n].id)'
  BY DEF GivenInv, GivenOK, Given
<1> QED
  BY SeenGiven, AckGiven

\* An acknowledged message keeps the message of the same number that was given,
\* and a call that takes its acknowledgement has one.
LEMMA AckedStep == IInv /\ [Next]_vars => AckedOrSameNumber'
<1> SUFFICES ASSUME IInv, [Next]_vars, NEW n \in Nodes, NEW k \in DOMAIN sent'[n],
                    <<n, k>> \in acked', sent'[n][k] \notin Broadcasters, numbers'[n][k] # 0
             PROVE  (\E j \in 1 .. k : /\ numbers[n][j] = numbers[n][k]
                                       /\ IsDelivered(sent[n][k], n, j))'
  BY DEF AckedOrSameNumber
<1>1. TypeOK /\ CallInv /\ NumbersInv /\ SentInv /\ GivenInv /\ AckedOrSameNumber
  BY DEF IInv
<1>2. k \in Nat
  <2>1. TypeOK'
    BY <1>1, TypeStep
  <2>2. sent'[n] \in Seq(Nodes \cup {Broadcast})
    BY <2>1 DEF TypeOK
  <2> QED
    BY <2>2
<1>3. CASE <<n, k>> \in acked
  <2>1. k \in DOMAIN sent[n] /\ sent[n][k] \in Nodes
    BY <1>1, <1>2, <1>3 DEF SentInv
  <2>2. PICK m, id : m \in Nodes /\ m = sent[n][k] /\ id = numbers[n][k]
    BY <2>1
  <2>3. sent'[n][k] = m /\ numbers'[n][k] = id
    BY <1>1, <2>1, <2>2, MessagesKept
  <2>4. PICK j \in 1 .. k : numbers[n][j] = id /\ IsDelivered(m, n, j)
    BY <1>1, <1>3, <2>1, <2>2, <2>3 DEF AckedOrSameNumber
  <2>5. j \in DOMAIN sent[n]
    <3>1. sent[n] \in Seq(Nodes \cup {Broadcast})
      BY <1>1 DEF TypeOK
    <3> QED
      BY <1>2, <2>1, <2>4, <3>1
  <2>6. numbers'[n][j] = id
    BY <1>1, <2>4, <2>5, MessagesKept
  <2>7. IsDelivered(m, n, j)'
    BY <1>1, <2>2, <2>4, DeliveredKept DEF IsDelivered
  <2> QED
    BY <2>3, <2>4, <2>6, <2>7 DEF IsDelivered
<1>4. ASSUME NEW a \in Nodes, WaitAcked(a), <<n, k>> \notin acked
      PROVE  (\E j \in 1 .. k : /\ numbers[n][j] = numbers[n][k]
                                /\ IsDelivered(sent[n][k], n, j))'
  <2>1. /\ n = a /\ k = Len(sent[a])
        /\ rx[a] # NoPacket /\ IsMyAck(a, rx[a]) /\ phase[a] # "idle"
        /\ UNCHANGED <<sent, numbers, delivered>>
    BY <1>4 DEF WaitAcked, Message, Current, Waiting
  <2>2. numbers[n][k] = lastSeq[n]
    BY <1>1, <2>1 DEF NumbersInv
  <2>3. PICK m, id : m \in Nodes /\ m = sent[n][k] /\ id = numbers[n][k]
    BY <1>1, <2>1 DEF IsMyAck, Dest, Current, TypeOK, Headers
  <2>4. rx[n].ack /\ rx[n].from = m /\ rx[n].id = id /\ id # 0 /\ m \notin Broadcasters
    BY <2>1, <2>2, <2>3 DEF IsMyAck, Dest, Current
  <2>5. Given(n, m, id)
    BY <1>1, <2>1, <2>3, <2>4 DEF GivenInv, GivenOK
  <2>6. PICK j \in DOMAIN sent[n] : numbers[n][j] = id /\ IsDelivered(m, n, j)
    BY <2>5 DEF Given
  <2>7. j \in 1 .. k
    <3>1. sent[n] \in Seq(Nodes \cup {Broadcast})
      BY <1>1 DEF TypeOK
    <3> QED
      BY <2>1, <2>6, <3>1
  <2> QED
    BY <2>1, <2>3, <2>6, <2>7 DEF IsDelivered
<1> QED
  BY <1>3, <1>4
  DEF Next, vars, SendtoWait, TransmitMessage, WaitNothing, WaitOther, Timeout,
      RecvNothing, RecvRequest, RecvAck, Reboot

-----------------------------------------------------------------------------
(* The order in the logs of intact receivers *)

\* A receiver that is intact was so before.
LEMMA IntactBefore ==
    ASSUME TypeOK, [Next]_vars, NEW m \in Nodes, Intact(m)'
    PROVE  Intact(m)
<1>1. CASE UNCHANGED boots
  BY <1>1 DEF Intact
<1>2. ASSUME NEW a \in Nodes, Reboot(a) PROVE Intact(m)
  BY <1>2 DEF Reboot, Intact, TypeOK
<1> QED
  BY <1>1, <1>2
  DEF Next, vars, SendtoWait, TransmitMessage, WaitNothing, WaitAcked, WaitOther, Timeout,
      RecvNothing, RecvRequest, RecvAck

\* The order stays where the log and the number last seen are left alone, and no
\* request of n comes into the radio but its latest.
LEMMA OrderStays ==
    ASSUME IInv, [Next]_vars, NEW n \in Nodes, NEW m \in Nodes,
           delivered'[m] = delivered[m], seen'[m] = seen[m],
           \/ rx'[m] = NoPacket \/ rx'[m].ack \/ rx'[m].from # n \/ phase'[m] = "sent"
           \/ /\ rx'[m] = rx[m] /\ buf'[m] = buf[m]
              /\ phase[m] = "sent" => phase'[m] = "sent"
           \/ buf'[m][2] = Len(sent[n])
    PROVE  OrderOK(n, m)'
<1> SUFFICES ASSUME Intact(m)'
             PROVE  OrderOK(n, m)'
  BY DEF OrderOK
<1>1. TypeOK /\ NumbersInv /\ OrderOK(n, m) /\ Intact(m)
  BY IntactBefore DEF IInv, OrderInv
<1>2. /\ \A i \in DOMAIN delivered[m] : Of(n, m, i) =>
            /\ Place(m, i) \in DOMAIN sent[n]
            /\ \/ numbers[n][Place(m, i)] = seen[m][n]
               \/ \E j \in DOMAIN delivered[m] : j > i /\ Of(n, m, j)
      /\ \A j \in DOMAIN delivered[m] : \A i \in 1 .. j - 1 :
            Of(n, m, i) /\ Of(n, m, j) => Place(m, i) < Place(m, j)
      /\ rx[m] # NoPacket /\ ~rx[m].ack /\ rx[m].from = n /\ phase[m] # "sent" =>
            \A i \in DOMAIN delivered[m] : Of(n, m, i) => Place(m, i) <= buf[m][2]
  BY <1>1 DEF OrderOK
<1>3. \A i : /\ Of(n, m, i)' <=> Of(n, m, i)
             /\ Place(m, i)' = Place(m, i)
  BY DEF Of, Place
<1>4. (\A i \in DOMAIN delivered[m] : Of(n, m, i) =>
          /\ Place(m, i) \in DOMAIN sent[n]
          /\ \/ numbers[n][Place(m, i)] = seen[m][n]
             \/ \E j \in DOMAIN delivered[m] : j > i /\ Of(n, m, j))'
  <2> SUFFICES ASSUME NEW i \in DOMAIN delivered[m], Of(n, m, i)
               PROVE  /\ Place(m, i) \in DOMAIN sent'[n]
                      /\ \/ numbers'[n][Place(m, i)] = seen[m][n]
                         \/ \E j \in DOMAIN delivered[m] : j > i /\ Of(n, m, j)
    BY <1>3
  <2>1. PICK p : p = Place(m, i) /\ p \in DOMAIN sent[n]
    BY <1>2
  <2>2. p \in DOMAIN sent'[n] /\ numbers'[n][p] = numbers[n][p]
    BY <1>1, <2>1, MessagesKept
  <2> QED
    BY <1>2, <2>1, <2>2
<1>5. (\A j \in DOMAIN delivered[m] : \A i \in 1 .. j - 1 :
          Of(n, m, i) /\ Of(n, m, j) => Place(m, i) < Place(m, j))'
  BY <1>2, <1>3
<1>6. (rx[m] # NoPacket /\ ~rx[m].ack /\ rx[m].from = n /\ phase[m] # "sent" =>
          \A i \in DOMAIN delivered[m] : Of(n, m, i) => Place(m, i) <= buf[m][2])'
  <2>1. CASE \/ rx'[m] = NoPacket \/ rx'[m].ack \/ rx'[m].from # n \/ phase'[m] = "sent"
             \/ /\ rx'[m] = rx[m] /\ buf'[m] = buf[m]
                /\ phase[m] = "sent" => phase'[m] = "sent"
    BY <1>2, <1>3, <2>1
  <2>2. CASE buf'[m][2] = Len(sent[n])
    <3>1. sent[n] \in Seq(Nodes \cup {Broadcast})
      BY <1>1 DEF TypeOK
    <3>2. \A i \in DOMAIN delivered[m] : Of(n, m, i) => Place(m, i) <= Len(sent[n])
      BY <1>2, <3>1
    <3> QED
      BY <1>3, <2>2, <3>2
  <2> QED
    BY <2>1, <2>2
<1> QED
  BY <1>4, <1>5, <1>6 DEF OrderOK

\* What an intact receiver is given is later than all it had of the sender, and
\* has the number last seen.
LEMMA RecvRequestOrder ==
    ASSUME IInv, NEW a \in Nodes, RecvRequest(a), ~IsRepeat(a, rx[a]), NEW n \in Nodes
    PROVE  OrderOK(n, a)'
<1> SUFFICES ASSUME Intact(a)'
             PROVE  OrderOK(n, a)'
  BY DEF OrderOK
<1>1. TypeOK /\ NumbersInv /\ OrderOK(n, a) /\ Intact(a)
  BY IntactBefore DEF IInv, OrderInv, Next
<1>2. PICK len \in Nat :
      /\ rx[a] # NoPacket /\ ~rx[a].ack /\ phase[a] = "idle"
      /\ UNCHANGED <<sent, numbers>>
      /\ DOMAIN delivered[a] = 1 .. len /\ DOMAIN delivered'[a] = 1 .. len + 1
      /\ \A i \in 1 .. len : delivered'[a][i] = delivered[a][i]
      /\ delivered'[a][len + 1] = [from |-> rx[a].from, body |-> buf[a]]
      /\ \A x, y \in Nodes : seen'[y][x] = IF y = a /\ x = rx[a].from
                                           THEN rx[a].id ELSE seen[y][x]
  <2>1. PICK len \in Nat : len = Len(delivered[a])
    BY <1>1, RecvRequestEffect
  <2> QED
    BY <1>1, <2>1, RecvRequestEffect
<1>3. rx'[a] = NoPacket \/ (rx'[a] # NoPacket /\ rx'[a].ack)
  <2>1. CASE Take(a)
    BY <1>1, <2>1 DEF Take, TypeOK
  <2>2. CASE Acknowledge(a)
    BY <1>1, <1>2, <2>2, AcknowledgeEffect
  <2> QED
    BY <2>1, <2>2 DEF RecvRequest
<1>4. PICK f \in Nodes, id \in Nat, k \in Nat :
          /\ f = rx[a].from /\ id = rx[a].id
          /\ SentTo(f, k, a, id) /\ buf[a] = Message(f, k)
  <2>1. a \notin Broadcasters
    BY <1>1 DEF Intact
  <2>2. PICK k \in Nat : SentTo(rx[a].from, k, a, rx[a].id) /\ buf[a] = Message(rx[a].from, k)
    BY <1>2, <2>1, RequestContent
  <2>3. rx[a].from \in Nodes /\ rx[a].id \in Nat
    <3>1. rx[a] \in Headers
      BY <1>1, <1>2 DEF TypeOK
    <3> QED
      BY <3>1, RadioAssumption DEF Headers, Ids
  <2> QED
    BY <2>2, <2>3
<1>5. seen[a][f] # id
  BY <1>2, <1>4 DEF IsRepeat
<1>6. /\ \A i \in 1 .. len : Of(n, a, i) =>
            /\ Place(a, i) \in DOMAIN sent[n]
            /\ \/ numbers[n][Place(a, i)] = seen[a][n]
               \/ \E j \in 1 .. len : j > i /\ Of(n, a, j)
      /\ \A j \in 1 .. len : \A i \in 1 .. j - 1 :
            Of(n, a, i) /\ Of(n, a, j) => Place(a, i) < Place(a, j)
      /\ f = n => \A i \in 1 .. len : Of(n, a, i) => Place(a, i) <= k
  <2>1. f = n => buf[a][2] = k
    BY <1>4 DEF Message
  <2> QED
    BY <1>1, <1>2, <1>4, <2>1 DEF OrderOK
<1>7. sent[n] \in Seq(Nodes \cup {Broadcast}) /\ DOMAIN sent[n] \subseteq Nat
  BY <1>1 DEF TypeOK
<1>8. \A i \in 1 .. len : /\ Of(n, a, i)' <=> Of(n, a, i)
                          /\ Place(a, i)' = Place(a, i)
  BY <1>2 DEF Of, Place
<1>9. /\ Of(n, a, len + 1)' <=> n = f
      /\ Place(a, len + 1)' = k
  BY <1>2, <1>4 DEF Of, Place, Message
<1>10. n = f => \A i \in 1 .. len : Of(n, a, i) => Place(a, i) < k
  <2> SUFFICES ASSUME n = f, NEW i \in 1 .. len, Of(n, a, i) PROVE Place(a, i) < k
    OBVIOUS
  <2>1. PICK p \in Nat : p = Place(a, i) /\ p <= k
    BY <1>6, <1>7
  <2>2. SUFFICES ASSUME p = k PROVE FALSE
    BY <2>1
  <2>3. numbers[n][p] # seen[a][n]
    BY <1>4, <1>5, <2>2 DEF SentTo
  <2>4. PICK j \in 1 .. len : j > i /\ Of(n, a, j)
    BY <1>6, <2>1, <2>3
  <2>5. i \in 1 .. j - 1
    BY <2>4
  <2>6. PICK q \in Nat : q = Place(a, j) /\ q <= k
    BY <1>6, <1>7, <2>4
  <2>7. p < q
    BY <1>6, <2>1, <2>4, <2>5, <2>6
  <2> QED
    BY <2>2, <2>6, <2>7
<1>11. (\A i \in DOMAIN delivered[a] : Of(n, a, i) =>
          /\ Place(a, i) \in DOMAIN sent[n]
          /\ \/ numbers[n][Place(a, i)] = seen[a][n]
             \/ \E j \in DOMAIN delivered[a] : j > i /\ Of(n, a, j))'
  <2> SUFFICES ASSUME NEW i \in 1 .. len + 1, Of(n, a, i)'
               PROVE  /\ Place(a, i)' \in DOMAIN sent[n]
                      /\ \/ numbers[n][Place(a, i)'] = seen'[a][n]
                         \/ \E j \in 1 .. len + 1 : j > i /\ Of(n, a, j)'
    BY <1>2
  <2>1. CASE i = len + 1
    <3>1. n = f /\ Place(a, i)' = k
      BY <1>9, <2>1
    <3>2. seen'[a][n] = id /\ k \in DOMAIN sent[n] /\ numbers[n][k] = id
      BY <1>2, <1>4, <3>1 DEF SentTo
    <3> QED
      BY <3>1, <3>2
  <2>2. CASE i \in 1 .. len
    <3>1. Of(n, a, i) /\ Place(a, i)' = Place(a, i) /\ Place(a, i) \in DOMAIN sent[n]
      BY <1>6, <1>8, <2>2
    <3>2. CASE n = f
      BY <1>2, <1>9, <2>2, <3>1, <3>2
    <3>3. CASE n # f
      <4>1. seen'[a][n] = seen[a][n]
        BY <1>2, <1>4, <3>3
      <4>2. CASE numbers[n][Place(a, i)] = seen[a][n]
        BY <3>1, <4>1, <4>2
      <4>3. CASE \E j \in 1 .. len : j > i /\ Of(n, a, j)
        BY <1>2, <1>8, <3>1, <4>3
      <4> QED
        BY <1>6, <2>2, <3>1, <4>2, <4>3
    <3> QED
      BY <3>2, <3>3
  <2> QED
    BY <1>2, <2>1, <2>2
<1>12. (\A j \in DOMAIN delivered[a] : \A i \in 1 .. j - 1 :
          Of(n, a, i) /\ Of(n, a, j) => Place(a, i) < Place(a, j))'
  <2> SUFFICES ASSUME NEW j \in 1 .. len + 1, NEW i \in 1 .. j - 1,
                      Of(n, a, i)', Of(n, a, j)'
               PROVE  Place(a, i)' < Place(a, j)'
    BY <1>2
  <2>1. i \in 1 .. len /\ Of(n, a, i) /\ Place(a, i)' = Place(a, i)
    BY <1>2, <1>8
  <2>2. CASE j = len + 1
    BY <1>9, <1>10, <2>1, <2>2
  <2>3. CASE j \in 1 .. len
    BY <1>6, <1>8, <2>1, <2>3
  <2> QED
    BY <1>2, <2>2, <2>3
<1>13. (rx[a] # NoPacket /\ ~rx[a].ack /\ rx[a].from = n /\ phase[a] # "sent" =>
          \A i \in DOMAIN delivered[a] : Of(n, a, i) => Place(a, i) <= buf[a][2])'
  BY <1>3
<1> QED
  BY <1>11, <1>12, <1>13 DEF OrderOK

\* Every other step leaves the logs alone, and what comes into the radio of a
\* receiver is an acknowledgement or the latest message of its sender.
LEMMA OrderStep == IInv /\ [Next]_vars => OrderInv'
<1> SUFFICES ASSUME IInv, [Next]_vars, NEW n \in Nodes, NEW m \in Nodes, Intact(m)'
             PROVE  OrderOK(n, m)'
  BY DEF OrderInv, OrderOK
<1>1. TypeOK /\ CallInv /\ SentInv /\ Intact(m)
  BY IntactBefore DEF IInv
<1>2. ASSUME NEW a \in Nodes, NEW d \in Addressees(a), SendtoWait(a, d)
      PROVE  OrderOK(n, m)'
  <2>1. /\ UNCHANGED <<delivered, seen, rx, buf>>
        /\ phase[m] = "sent" => phase'[m] = "sent"
    BY <1>1, <1>2 DEF SendtoWait, TypeOK
  <2> QED
    BY <2>1, OrderStays
<1>3. ASSUME NEW a \in Nodes, TransmitMessage(a) PROVE OrderOK(n, m)'
  <2> DEFINE header == [from |-> a, to |-> Dest(a), id |-> lastSeq[a], ack |-> FALSE]
  <2>1. /\ UNCHANGED <<delivered, seen, sent>> /\ phase[a] = "send"
        /\ phase' = [phase EXCEPT ![a] = IF Dest(a) = Broadcast THEN "idle" ELSE "sent"]
        /\ Transmit(a, header, Message(a, Current(a)), rx)
    BY <1>3 DEF TransmitMessage
  <2>2. header.from = a /\ Message(a, Current(a))[2] = Len(sent[a])
    BY DEF Message, Current
  <2> HIDE DEF header
  <2>3. CASE m = a
    <3>1. Len(sent[a]) \in DOMAIN sent[a]
      <4>1. sent[a] \in Seq(Nodes \cup {Broadcast}) /\ Len(sent[a]) > 0
        BY <1>1, <2>1 DEF CallInv, TypeOK
      <4> QED
        BY <4>1
    <3>2. Dest(a) # Broadcast
      BY <1>1, <2>3, <3>1 DEF SentInv, Intact, Dest, Current
    <3>3. phase'[m] = "sent"
      BY <1>1, <2>1, <2>3, <3>2 DEF TypeOK
    <3> QED
      BY <2>1, <3>3, OrderStays
  <2>4. CASE m # a
    <3>1. phase'[m] = phase[m]
      BY <1>1, <2>1, <2>4 DEF TypeOK
    <3>2. CASE rx'[m] = rx[m] /\ buf'[m] = buf[m]
      BY <2>1, <3>1, <3>2, OrderStays
    <3>3. CASE rx'[m] = header /\ buf'[m] = Message(a, Current(a))
      BY <2>1, <2>2, <3>3, OrderStays
    <3> QED
      BY <1>1, <2>1, <2>4, <3>2, <3>3, TransmitEffect
  <2> QED
    BY <2>3, <2>4
<1>4. ASSUME NEW a \in Nodes, WaitNothing(a) \/ Timeout(a) \/ RecvNothing(a)
      PROVE  OrderOK(n, m)'
  <2>1. UNCHANGED <<delivered, seen, rx, buf>>
    BY <1>4 DEF WaitNothing, Timeout, RecvNothing, Listen
  <2>2. rx'[m] = NoPacket \/ (phase[m] = "sent" => phase'[m] = "sent")
    BY <1>1, <1>4 DEF WaitNothing, Timeout, RecvNothing, Listen, TypeOK
  <2> QED
    BY <2>1, <2>2, OrderStays
<1>5. ASSUME NEW a \in Nodes, rx[a] # NoPacket, Take(a) \/ Acknowledge(a),
             m # a => phase'[m] = phase[m],
             delivered'[m] = delivered[m], seen'[m] = seen[m]
      PROVE  OrderOK(n, m)'
  <2>1. CASE Take(a)
    <3>1. rx'[m] = (IF m = a THEN NoPacket ELSE rx[m]) /\ buf' = buf
      BY <1>1, <2>1 DEF Take, TypeOK
    <3> QED
      BY <1>5, <3>1, OrderStays
  <2>2. CASE Acknowledge(a)
    <3>1. CASE rx'[m] = NoPacket
      BY <1>5, <3>1, OrderStays
    <3>2. CASE m # a /\ rx'[m] = rx[m] /\ buf'[m] = buf[m]
      BY <1>5, <3>2, OrderStays
    <3>3. CASE rx'[m] = [from |-> a, to |-> m, id |-> rx[a].id, ack |-> TRUE]
      <4>1. rx'[m].ack
        BY <3>3
      <4> QED
        BY <1>5, <4>1, OrderStays
    <3> QED
      BY <1>1, <1>5, <2>2, <3>1, <3>2, <3>3, AcknowledgeEffect
  <2> QED
    BY <1>5, <2>1, <2>2
<1>6. ASSUME NEW a \in Nodes, WaitAcked(a) \/ WaitOther(a) \/ RecvAck(a)
      PROVE  OrderOK(n, m)'
  <2>1. rx[a] # NoPacket /\ UNCHANGED <<delivered, seen>>
    BY <1>6 DEF WaitAcked, WaitOther, RecvAck
  <2>2. m # a => phase'[m] = phase[m]
    BY <1>1, <1>6 DEF WaitAcked, WaitOther, RecvAck, TypeOK
  <2> QED
    BY <1>5, <1>6, <2>1, <2>2 DEF WaitAcked, WaitOther, RecvAck
<1>7. ASSUME NEW a \in Nodes, RecvRequest(a) PROVE OrderOK(n, m)'
  <2>1. rx[a] # NoPacket /\ phase' = phase
    BY <1>1, <1>7, RecvRequestEffect
  <2>2. CASE m = a /\ ~IsRepeat(a, rx[a])
    BY <1>7, <2>2, RecvRequestOrder
  <2>3. CASE m # a \/ IsRepeat(a, rx[a])
    <3>1. delivered'[m] = delivered[m] /\ seen'[m] = seen[m]
      <4>1. CASE IsRepeat(a, rx[a])
        BY <1>1, <1>7, <4>1, RecvRequestEffect
      <4>2. CASE m # a
        BY <1>1, <1>7, <4>2 DEF RecvRequest, TypeOK
      <4> QED
        BY <2>3, <4>1, <4>2
    <3> QED
      BY <1>5, <1>7, <2>1, <3>1 DEF RecvRequest
  <2> QED
    BY <2>2, <2>3
<1>8. ASSUME NEW a \in Nodes, Reboot(a) PROVE OrderOK(n, m)'
  <2>1. m # a
    BY <1>1, <1>8 DEF Reboot, Intact, TypeOK
  <2>2. /\ delivered'[m] = delivered[m] /\ seen'[m] = seen[m]
        /\ rx'[m] = rx[m] /\ buf'[m] = buf[m] /\ phase'[m] = phase[m]
    BY <1>1, <1>8, <2>1 DEF Reboot, TypeOK
  <2> QED
    BY <2>2, OrderStays
<1>9. CASE UNCHANGED vars
  BY <1>9, OrderStays DEF vars
<1> QED
  BY <1>2, <1>3, <1>4, <1>6, <1>7, <1>8, <1>9 DEF Next

-----------------------------------------------------------------------------
(* The invariant is inductive *)

\* At first nothing has been sent, seen or given.
LEMMA InitInv == Init => IInv
<1> SUFFICES ASSUME Init PROVE IInv
  OBVIOUS
<1>1. ASSUME NEW k PROVE k \notin DOMAIN <<>>
  <2>1. Len(<<>>) = 0 /\ <<>> \in Seq({})
    OBVIOUS
  <2>2. DOMAIN <<>> = 1 .. Len(<<>>)
    BY <2>1
  <2> QED
    BY <2>1, <2>2
<1>2. \A n \in Nodes : /\ sent[n] = <<>> /\ numbers[n] = <<>> /\ delivered[n] = <<>>
                       /\ lastSeq[n] = 0 /\ phase[n] = "idle" /\ rx[n] = NoPacket
                       /\ \A m \in Nodes : seen[n][m] = 0
  BY DEF Init
<1>3. acked = {}
  BY DEF Init
<1>4. NumbersInv
  <2>1. Len(<<>>) = 0
    OBVIOUS
  <2> QED
    BY <1>1, <1>2, <2>1 DEF NumbersInv
<1>5. SentInv /\ AckedOrSameNumber
  BY <1>1, <1>2, <1>3 DEF SentInv, AckedOrSameNumber
<1>6. ContentInv /\ GivenInv
  BY <1>2 DEF ContentInv, ContentOK, GivenInv, GivenOK
<1>7. OrderInv
  BY <1>1, <1>2 DEF OrderInv, OrderOK
<1> QED
  BY <1>4, <1>5, <1>6, <1>7, InitType DEF IInv

\* The invariant is inductive.
THEOREM Inductive == Spec => []IInv
<1>1. IInv /\ [Next]_vars => IInv'
  <2> SUFFICES ASSUME IInv, [Next]_vars PROVE IInv'
    OBVIOUS
  <2>1. TypeOK' /\ CallInv' /\ NumbersInv'
    BY TypeStep, CallStep, NumbersStep DEF IInv
  <2>2. SentInv' /\ ContentInv' /\ GivenInv' /\ AckedOrSameNumber' /\ OrderInv'
    BY SentStep, ContentStep, GivenStep, AckedStep, OrderStep
  <2> QED
    BY <2>1, <2>2 DEF IInv
<1> QED
  BY InitInv, <1>1, PTL DEF Spec

\* Type correctness, with reboots, broadcasts and any number of messages.
THEOREM TypeCorrect == Spec => []TypeOK
<1>1. IInv => TypeOK
  BY DEF IInv
<1> QED
  BY Inductive, <1>1, PTL

\* Where sendtoWait() returned true for a message to a node that does not
\* broadcast, that node's application has a message of the same number, even
\* though the sender restarts and its numbers come round any number of times.
THEOREM AckedHaveNumber == Spec => []AckedOrSameNumber
<1>1. IInv => AckedOrSameNumber
  BY DEF IInv
<1> QED
  BY Inductive, <1>1, PTL

\* And it is that very message, for any two nodes that have not restarted, while
\* the sender's numbers have not come round.
THEOREM AckedAreDelivered == Spec => []AckMeansDelivered
<1>1. IInv => AckMeansDelivered
  <2> SUFFICES ASSUME IInv, NEW n \in Nodes, NEW k \in DOMAIN sent[n],
                      <<n, k>> \in acked, Steady(n, sent[n][k])
               PROVE  IsDelivered(sent[n][k], n, k)
    BY DEF AckMeansDelivered
  <2>1. /\ boots[n] = 0 /\ Len(sent[n]) < IdSpace /\ sent[n][k] \notin Broadcasters
    BY DEF Steady, Intact
  <2>2. \A j \in DOMAIN sent[n] : numbers[n][j] = j
    BY <2>1 DEF IInv, NumbersInv
  <2>3. DOMAIN sent[n] = 1 .. Len(sent[n]) /\ Len(sent[n]) \in Nat
    <3>1. sent[n] \in Seq(Nodes \cup {Broadcast})
      BY DEF IInv, TypeOK
    <3> QED
      BY <3>1
  <2>4. numbers[n][k] = k /\ k # 0 /\ \A j \in 1 .. k : numbers[n][j] = j
    BY <2>2, <2>3
  <2>5. PICK j \in 1 .. k : numbers[n][j] = numbers[n][k] /\ IsDelivered(sent[n][k], n, j)
    BY <2>1, <2>4 DEF IInv, AckedOrSameNumber
  <2>6. j = k
    BY <2>4, <2>5
  <2> QED
    BY <2>5, <2>6
<1> QED
  BY Inductive, <1>1, PTL

\* An application whose node has not restarted and does not broadcast receives
\* the messages of each sender in order and at most once, whatever the sender
\* does.
THEOREM ReceivedInOrder == Spec => []InOrderOnce
<1>1. IInv => InOrderOnce
  <2> SUFFICES ASSUME IInv, NEW m \in Nodes, NEW j \in DOMAIN delivered[m],
                      NEW i \in 1 .. j - 1, Intact(m),
                      delivered[m][i].from = delivered[m][j].from
               PROVE  delivered[m][i].body[2] < delivered[m][j].body[2]
    BY DEF InOrderOnce
  <2>1. delivered[m] \in Seq(Entries)
    BY DEF IInv, TypeOK
  <2>2. PICK n \in Nodes : n = delivered[m][j].from
    <3>1. delivered[m][j] \in Entries
      BY <2>1
    <3> QED
      BY <3>1 DEF Entries
  <2>3. i \in DOMAIN delivered[m]
    BY <2>1
  <2>4. Of(n, m, i) /\ Of(n, m, j)
    BY <2>2, <2>3 DEF Of
  <2> QED
    BY <2>4 DEF IInv, OrderInv, OrderOK, Place
<1> QED
  BY Inductive, <1>1, PTL

-----------------------------------------------------------------------------
(* The protocol implements AckedLink *)

\* The receivers that are intact, and the pairs that are steady, as AckedLink
\* sees them.
IntactNodes == {m \in Nodes : Intact(m)}
SteadyPairs == {pair \in Nodes \X Nodes : Steady(pair[1], pair[2])}

\* Membership of a node and of a pair.
LEMMA InIntactSteady ==
    ASSUME NEW n \in Nodes, NEW m \in Nodes
    PROVE  /\ m \in IntactNodes <=> Intact(m)
           /\ <<n, m>> \in SteadyPairs <=> Steady(n, m)
BY DEF IntactNodes, SteadyPairs

\* The receivers of the steady pairs are intact.
LEMMA SteadyAreIntact == SteadyPairs \subseteq Nodes \X IntactNodes
BY DEF SteadyPairs, IntactNodes, Steady

\* A pair that is steady was so before.
LEMMA SteadyBefore ==
    ASSUME TypeOK, [Next]_vars, NEW n \in Nodes, NEW m \in Nodes, Steady(n, m)'
    PROVE  Steady(n, m)
<1>1. Intact(m)
  BY IntactBefore DEF Steady
<1>2. CASE UNCHANGED <<sent, boots>>
  BY <1>2 DEF Steady, Intact
<1>3. ASSUME NEW a \in Nodes, NEW d \in Addressees(a), SendtoWait(a, d)
      PROVE  Steady(n, m)
  <2>1. d \in Nodes \cup {Broadcast}
    BY <1>3 DEF Addressees
  <2>2. Len(sent'[n]) >= Len(sent[n]) /\ Len(sent[n]) \in Nat
    <3>1. sent[n] \in Seq(Nodes \cup {Broadcast})
      BY DEF TypeOK
    <3>2. sent'[n] = sent[n] \/ sent'[n] = Append(sent[n], d)
      BY <1>3 DEF SendtoWait, TypeOK
    <3> QED
      BY <2>1, <3>1, <3>2
  <2>3. boots' = boots
    BY <1>3 DEF SendtoWait
  <2> QED
    BY <1>1, <2>2, <2>3, RadioAssumption DEF Steady
<1>4. ASSUME NEW a \in Nodes, Reboot(a) PROVE Steady(n, m)
  BY <1>1, <1>4 DEF Reboot, Steady, TypeOK
<1> QED
  BY <1>2, <1>3, <1>4
  DEF Next, vars, TransmitMessage, WaitNothing, WaitAcked, WaitOther, Timeout,
      RecvNothing, RecvRequest, RecvAck

\* No receiver becomes intact and no pair becomes steady.
LEMMA Shrink ==
    ASSUME TypeOK, [Next]_vars
    PROVE  /\ IntactNodes' \subseteq IntactNodes
           /\ SteadyPairs' \subseteq SteadyPairs \cap (Nodes \X IntactNodes')
<1>1. ASSUME NEW m \in Nodes, Intact(m)' PROVE Intact(m)
  BY <1>1, IntactBefore
<1>2. ASSUME NEW pair \in Nodes \X Nodes, Steady(pair[1], pair[2])'
      PROVE  Steady(pair[1], pair[2]) /\ Intact(pair[2])'
  BY <1>2, SteadyBefore DEF Steady
<1>3. ASSUME NEW pair \in SteadyPairs'
      PROVE  pair \in SteadyPairs /\ pair \in Nodes \X IntactNodes'
  <2>1. pair \in Nodes \X Nodes /\ Steady(pair[1], pair[2])'
    BY <1>3 DEF SteadyPairs
  <2> QED
    BY <1>2, <2>1 DEF SteadyPairs, IntactNodes
<1>4. IntactNodes' \subseteq IntactNodes
  BY <1>1 DEF IntactNodes
<1> QED
  BY <1>3, <1>4

\* Giving the application a new request is a Deliver of AckedLink, or a Spoil
\* where the node has broadcast over the request.
LEMMA RecvRequestDelivers ==
    ASSUME IInv, NEW a \in Nodes, RecvRequest(a), ~IsRepeat(a, rx[a])
    PROVE  \E n \in Nodes : \/ \E k \in DOMAIN sent[n] : Link!Deliver(n, a, k)
                            \/ \E k \in DOMAIN sent[a] : Link!Spoil(n, a, k)
<1>1. TypeOK /\ SentInv /\ rx[a] # NoPacket /\ ~rx[a].ack /\ phase[a] = "idle"
  BY DEF IInv, RecvRequest
<1>2. PICK n \in Nodes : n = rx[a].from /\ n # a
  BY <1>1 DEF IInv, TypeOK, Headers, ContentInv, ContentOK
<1>3. delivered' = [delivered EXCEPT ![a] = Append(@, [from |-> n, body |-> buf[a]])]
  BY <1>1, <1>2 DEF RecvRequest
<1>4. /\ sent' = sent /\ phase' = phase /\ acked' = acked
      /\ IntactNodes' = IntactNodes /\ SteadyPairs' = SteadyPairs
  BY DEF RecvRequest, IntactNodes, SteadyPairs, Steady, Intact
<1>5. CASE \E k \in Nat : SentTo(n, k, a, rx[a].id) /\ buf[a] = Message(n, k)
  <2>1. PICK k \in Nat : SentTo(n, k, a, rx[a].id) /\ buf[a] = Message(n, k)
    BY <1>5
  <2>2. delivered' = [delivered EXCEPT ![a] = Append(@, [from |-> n, body |-> <<n, k>>])]
    BY <1>3, <2>1 DEF Message
  <2>3. ASSUME a \in IntactNodes, NEW i \in DOMAIN delivered[a], delivered[a][i].from = n
        PROVE  delivered[a][i].body[2] < k
    <3>1. OrderOK(n, a)' /\ Intact(a)' /\ TypeOK
      BY <1>1, <1>4, <2>3, RecvRequestOrder DEF IntactNodes
    <3>2. PICK len \in Nat :
            /\ DOMAIN delivered[a] = 1 .. len /\ DOMAIN delivered'[a] = 1 .. len + 1
            /\ \A x \in 1 .. len : delivered'[a][x] = delivered[a][x]
            /\ delivered'[a][len + 1] = [from |-> n, body |-> buf[a]]
      <4>1. PICK len \in Nat : len = Len(delivered[a])
        BY <1>1, RecvRequestEffect
      <4> QED
        BY <1>1, <1>2, <4>1, RecvRequestEffect
    <3>3. i \in 1 .. len /\ len + 1 \in DOMAIN delivered'[a] /\ i \in 1 .. (len + 1) - 1
      BY <2>3, <3>2
    <3>4. Of(n, a, i)' /\ Of(n, a, len + 1)'
      BY <2>3, <3>2, <3>3 DEF Of
    <3>5. Place(a, i)' = delivered[a][i].body[2] /\ Place(a, len + 1)' = k
      BY <2>1, <3>2, <3>3 DEF Place, Message
    <3>6. Place(a, i)' < Place(a, len + 1)'
      BY <3>1, <3>3, <3>4 DEF OrderOK
    <3> QED
      BY <3>5, <3>6
  <2>4. Link!Deliver(n, a, k)
    BY <1>2, <1>4, <2>1, <2>2, <2>3
    DEF Link!Deliver, Link!Received, IntactNodes, SteadyPairs, SentTo
  <2> QED
    BY <2>1, <2>4 DEF SentTo
<1>6. CASE \E k \in DOMAIN sent[a] : sent[a][k] = Broadcast /\ buf[a] = Message(a, k)
  <2>1. PICK k \in DOMAIN sent[a] : sent[a][k] = Broadcast /\ buf[a] = Message(a, k)
    BY <1>6
  <2>2. delivered' = [delivered EXCEPT ![a] = Append(@, [from |-> n, body |-> <<a, k>>])]
    BY <1>3, <2>1 DEF Message
  <2>3. a \notin IntactNodes
    BY <1>1, <2>1 DEF SentInv, IntactNodes, Intact
  <2>4. Link!Spoil(n, a, k)
    BY <1>4, <2>1, <2>2, <2>3 DEF Link!Spoil, IntactNodes, SteadyPairs
  <2> QED
    BY <2>1, <2>4
<1> QED
  BY <1>1, <1>2, <1>5, <1>6 DEF IInv, ContentInv, ContentOK

\* A call that ends with no acknowledgement.
LEMMA EndsUnacked ==
    ASSUME TypeOK, NEW a \in Nodes, phase[a] # "idle", phase' = [phase EXCEPT ![a] = "idle"],
           UNCHANGED <<sent, delivered, acked>>, [Next]_vars
    PROVE  Link!LinkNext
<1> DEFINE open == [n \in Nodes |-> phase[n] # "idle"]
<1>1. open[a] /\ open' = [open EXCEPT ![a] = FALSE]
  BY DEF TypeOK
<1>2. Link!EndUnacked(a)
  BY <1>1, Shrink DEF Link!EndUnacked, Link!Unsettle, IntactNodes, SteadyPairs
<1> QED
  BY <1>2 DEF Link!LinkNext

\* Every step is a step of AckedLink or leaves its variables alone.
LEMMA LinkStep ==
    ASSUME IInv, [Next]_vars
    PROVE  [Link!LinkNext]_(Link!linkVars)
<1> DEFINE open == [n \in Nodes |-> phase[n] # "idle"]
           stutter == /\ sent' = sent /\ open' = open /\ delivered' = delivered
                      /\ acked' = acked
                      /\ IntactNodes' = IntactNodes /\ SteadyPairs' = SteadyPairs
<1>1. TypeOK /\ SentInv /\ CallInv /\ IntactNodes' \subseteq IntactNodes
      /\ SteadyPairs' \subseteq SteadyPairs \cap (Nodes \X IntactNodes')
  BY Shrink DEF IInv
<1>2. SUFFICES stutter \/ Link!LinkNext
  BY DEF Link!linkVars, IntactNodes, SteadyPairs
<1>3. ASSUME sent' = sent, boots' = boots
      PROVE  IntactNodes' = IntactNodes /\ SteadyPairs' = SteadyPairs
  BY <1>3 DEF IntactNodes, SteadyPairs, Steady, Intact
<1>4. ASSUME NEW a \in Nodes, NEW d \in Addressees(a), SendtoWait(a, d)
      PROVE  Link!LinkNext
  <2>1. d \in Nodes \cup {Broadcast} /\ d # a
    BY RadioAssumption DEF Addressees
  <2>2. phase[a] = "idle" /\ phase' = [phase EXCEPT ![a] = "send"]
    BY <1>4 DEF SendtoWait
  <2>3. open' = [open EXCEPT ![a] = TRUE] /\ ~open[a]
    BY <1>1, <2>2 DEF TypeOK
  <2>4. Link!Call(a, d)
    BY <1>1, <1>4, <2>1, <2>3
    DEF SendtoWait, Link!Call, Link!Unsettle, IntactNodes, SteadyPairs
  <2> QED
    BY <2>1, <2>4 DEF Link!LinkNext
<1>5. ASSUME NEW a \in Nodes, TransmitMessage(a) PROVE stutter \/ Link!LinkNext
  <2>1. phase[a] = "send" /\ UNCHANGED <<sent, boots, delivered, acked>>
    BY <1>5 DEF TransmitMessage
  <2>2. CASE phase' = [phase EXCEPT ![a] = "sent"]
    <3>1. open' = open
      BY <1>1, <2>1, <2>2 DEF TypeOK
    <3> QED
      BY <1>3, <2>1, <3>1
  <2>3. CASE phase' = [phase EXCEPT ![a] = "idle"]
    BY <1>1, <2>1, <2>3, EndsUnacked
  <2> QED
    BY <1>5, <2>2, <2>3 DEF TransmitMessage
<1>6. ASSUME NEW a \in Nodes, WaitNothing(a) \/ WaitOther(a) PROVE stutter
  <2>1. phase[a] # "idle" /\ phase' = [phase EXCEPT ![a] = "wait"]
    BY <1>6 DEF WaitNothing, WaitOther, Waiting
  <2>2. open' = open
    BY <1>1, <2>1 DEF TypeOK
  <2> QED
    BY <1>3, <1>6, <2>2 DEF WaitNothing, WaitOther
<1>7. ASSUME NEW a \in Nodes, WaitAcked(a) PROVE Link!LinkNext
  <2>1. /\ phase[a] # "idle" /\ phase' = [phase EXCEPT ![a] = "idle"]
        /\ rx[a] # NoPacket /\ IsMyAck(a, rx[a])
        /\ acked' = acked \cup {<<a, Len(sent[a])>>}
        /\ UNCHANGED <<sent, boots, delivered>>
    BY <1>7 DEF WaitAcked, Waiting, Message, Current
  <2>2. open[a] /\ open' = [open EXCEPT ![a] = FALSE]
    BY <1>1, <2>1 DEF TypeOK
  <2>3. Dest(a) \in Nodes /\ Dest(a) = rx[a].from
    BY <1>1, <2>1 DEF TypeOK, Headers, IsMyAck
  <2>4. ASSUME Steady(a, Dest(a)) PROVE IsDelivered(Dest(a), a, Len(sent[a]))
    <3>1. boots[a] = 0 /\ Len(sent[a]) < IdSpace /\ Dest(a) \notin Broadcasters
      BY <2>4 DEF Steady, Intact
    <3>2. PICK len \in Nat : len = Len(sent[a]) /\ len # 0 /\ DOMAIN sent[a] = 1 .. len
      <4>1. sent[a] \in Seq(Nodes \cup {Broadcast}) /\ Len(sent[a]) > 0
        BY <1>1, <2>1 DEF CallInv, TypeOK
      <4> QED
        BY <4>1
    <3>3. rx[a].id = len /\ \A k \in 1 .. len : numbers[a][k] = k
      BY <2>1, <3>1, <3>2 DEF IInv, NumbersInv, IsMyAck
    <3>4. PICK m \in Nodes : m = Dest(a)
      BY <2>3
    <3>5. Given(a, m, len)
      <4>1. rx[a].id # 0 /\ rx[a].ack /\ rx[a].from = m /\ m \notin Broadcasters
        BY <2>1, <2>3, <3>1, <3>2, <3>3, <3>4 DEF IsMyAck
      <4>2. GivenOK(a, m)
        BY <3>4 DEF IInv, GivenInv
      <4>3. Given(a, m, rx[a].id)
        BY <2>1, <4>1, <4>2 DEF GivenOK
      <4> QED
        BY <3>3, <4>3
    <3>6. IsDelivered(m, a, len)
      BY <3>2, <3>3, <3>5 DEF Given
    <3> QED
      BY <3>2, <3>4, <3>6
  <2>5. <<a, Dest(a)>> \in SteadyPairs => Link!IsDelivered(Dest(a), a, Len(sent[a]))
    BY <2>3, <2>4, InIntactSteady DEF IsDelivered, Link!IsDelivered, Link!Received, Message
  <2>6. IntactNodes' = IntactNodes /\ SteadyPairs' = SteadyPairs
    BY <1>3, <2>1
  <2>7. Link!ReturnTrue(a)
    BY <2>1, <2>2, <2>3, <2>5, <2>6
    DEF Link!ReturnTrue, IntactNodes, SteadyPairs, Dest, Current
  <2> QED
    BY <2>7 DEF Link!LinkNext
<1>8. ASSUME NEW a \in Nodes, Timeout(a) PROVE stutter \/ Link!LinkNext
  <2>1. phase[a] = "wait" /\ UNCHANGED <<sent, boots, delivered, acked>>
    BY <1>8 DEF Timeout
  <2>2. CASE phase' = [phase EXCEPT ![a] = "send"]
    <3>1. open' = open
      BY <1>1, <2>1, <2>2 DEF TypeOK
    <3> QED
      BY <1>3, <2>1, <3>1
  <2>3. CASE phase' = [phase EXCEPT ![a] = "idle"]
    BY <1>1, <2>1, <2>3, EndsUnacked
  <2> QED
    BY <1>8, <2>2, <2>3 DEF Timeout
<1>9. ASSUME NEW a \in Nodes, RecvRequest(a) PROVE stutter \/ Link!LinkNext
  <2>1. CASE IsRepeat(a, rx[a])
    BY <1>3, <1>9, <2>1 DEF RecvRequest
  <2>2. CASE ~IsRepeat(a, rx[a])
    BY <1>9, <2>2, RecvRequestDelivers DEF Link!LinkNext
  <2> QED
    BY <2>1, <2>2
<1>10. ASSUME NEW a \in Nodes, RecvNothing(a) \/ RecvAck(a) PROVE stutter
  BY <1>3, <1>10 DEF RecvNothing, RecvAck
<1>11. ASSUME NEW a \in Nodes, Reboot(a) PROVE Link!LinkNext
  <2>1. phase' = [phase EXCEPT ![a] = "idle"] /\ UNCHANGED <<sent, delivered, acked>>
    BY <1>11 DEF Reboot
  <2>2. CASE phase[a] # "idle"
    BY <1>1, <2>1, <2>2, EndsUnacked
  <2>3. CASE phase[a] = "idle"
    <3>1. open' = open
      BY <1>1, <2>1, <2>3 DEF TypeOK
    <3> QED
      BY <1>1, <2>1, <3>1 DEF Link!LinkNext, Link!Unsettle, IntactNodes, SteadyPairs
  <2> QED
    BY <2>2, <2>3
<1>12. CASE UNCHANGED vars
  BY <1>3, <1>12 DEF vars
<1> QED
  BY <1>4, <1>5, <1>6, <1>7, <1>8, <1>9, <1>10, <1>11, <1>12 DEF Next

\* Every behaviour of the protocol is one of AckedLink, for any nodes, messages,
\* retries, broadcasters and restarts: between two ends that are steady true
\* means delivered, at a receiver that is intact each message arrives at most
\* once and in order, and anywhere an application is given only what was sent to
\* it or, where it broadcasts, a broadcast of its own.
THEOREM Refinement == Spec => ImplementsLink
<1>1. Init => Link!LinkInit
  <2>1. IntactNodes \subseteq Nodes
    BY DEF IntactNodes
  <2> QED
    BY <2>1, SteadyAreIntact DEF Init, Link!LinkInit, IntactNodes, SteadyPairs
<1>2. IInv /\ [Next]_vars => [Link!LinkNext]_(Link!linkVars)
  BY LinkStep
<1> QED
  BY <1>1, <1>2, Inductive, PTL DEF Spec, ImplementsLink, Link!LinkSpec
=============================================================================
