-------------------------- MODULE Collection_proof --------------------------
(***************************************************************************)
(* Proofs about the collection of measurements, for any set of nodes that    *)
(* the array of the board has room for, any orbits, any number of lines and  *)
(* any size of the serial buffer.                                           *)
(***************************************************************************)
EXTENDS Collection, FiniteSetTheorems, TLAPS

-----------------------------------------------------------------------------
(* The array of the board *)

\* In listen() there is room in the array, and the round has not begun; request()
\* asks and waits for a node of the array; the nodes that have answered are
\* before that one.
Rounds ==
    /\ board = "listen" => Len(avail) < WsnNum /\ index = 1 /\ answered = {}
    /\ board \in {"ask", "wait"} => index <= Len(avail)
    /\ \A n \in answered : \E j \in 1 .. index - 1 : avail[j] = n

\* The thread's orbit has three digits.
OrbitRead == orbitFile # Unset => orbitFile >= 100

\* A node that is sending a line has offered one.
LineOffered == \A n \in Nodes : phase[n] = "line" => offered[n] > 0

\* What is stored for what _Radio.listen() returns.
LEMMA Stored ==
    /\ \A n \in Nodes : n % 256 = n /\ n # Broadcast /\ n > 0
    /\ EndOfFile % 256 = Broadcast
<1>1. \A n \in Nodes : n \in 1 .. 254
  BY MuleRadioAssumption, SMT DEF Broadcast
<1>2. \A i \in 1 .. 254 : i % 256 = i
  BY SMT
<1>3. \A i \in Int : i + 1 = 0 => i % 256 = 255
  BY SMT
<1>4. EndOfFile \in Int /\ EndOfFile + 1 = 0
  BY SMT DEF EndOfFile
<1>5. EndOfFile % 256 = 255
  BY <1>3, <1>4
<1> QED
  BY <1>1, <1>2, <1>5, SMT DEF Broadcast

\* Storing an address.
LEMMA EnlistType ==
    ASSUME TypeOK, NEW r \in Nodes \cup {EndOfFile}
    PROVE  /\ Enlist(r) \in Seq(Nodes \cup {Broadcast})
           /\ Len(Enlist(r)) = Len(avail) + 1
           /\ \A j \in 1 .. Len(avail) : Enlist(r)[j] = avail[j]
           /\ Enlist(r)[Len(avail) + 1] = IF r = EndOfFile THEN Broadcast ELSE r
<1> DEFINE a == r % 256
<1>1. a \in Nodes \cup {Broadcast} /\ a = IF r = EndOfFile THEN Broadcast ELSE r
  <2>1. CASE r = EndOfFile
    BY <2>1, Stored
  <2>2. CASE r \in Nodes
    BY <2>2, Stored DEF EndOfFile
  <2> QED
    BY <2>1, <2>2
<1>2. avail \in Seq(Nodes \cup {Broadcast})
  BY DEF TypeOK
<1> HIDE DEF a
<1>3. /\ Append(avail, a) \in Seq(Nodes \cup {Broadcast})
      /\ Len(Append(avail, a)) = Len(avail) + 1
      /\ \A j \in 1 .. Len(avail) : Append(avail, a)[j] = avail[j]
      /\ Append(avail, a)[Len(avail) + 1] = a
  BY <1>1, <1>2
<1>4. Enlist(r) = Append(avail, a)
  BY DEF Enlist, a
<1> QED
  BY <1>1, <1>3, <1>4

\* What is printed for a message is a line or the notice.
LEMMA ReceiveType ==
    ASSUME TypeOK, LineOffered, NEW n \in Nodes, Receive(n)
    PROVE  /\ taken' \in [Nodes -> BOOLEAN]
           /\ serial' \in Seq(Lines \cup {EndNotice})
           /\ Result(n) \in Nodes \cup {EndOfFile}
<1>1. Printed(n) \in Lines \cup {EndNotice}
  BY DEF Printed, LineOffered, TypeOK, Lines
<1>2. serial' \in Seq(Lines \cup {EndNotice})
  <2> DEFINE S == Lines \cup {EndNotice}
             p == Printed(n)
  <2>1. serial \in Seq(S) /\ p \in S
    BY <1>1 DEF TypeOK
  <2>2. serial' = serial \/ serial' = Append(serial, p)
    BY DEF Receive
  <2> HIDE DEF S, p
  <2>3. serial' \in Seq(S)
    BY <2>1, <2>2
  <2> QED
    BY <2>3 DEF S
<1>3. taken' \in [Nodes -> BOOLEAN]
  BY DEF Receive, TypeOK
<1> QED
  BY <1>2, <1>3 DEF Result

-----------------------------------------------------------------------------
(* Types *)

LEMMA InitType == CollectionInit => TypeOK /\ Rounds /\ OrbitRead /\ LineOffered
<1> SUFFICES ASSUME CollectionInit PROVE TypeOK /\ Rounds /\ OrbitRead /\ LineOffered
  OBVIOUS
<1> USE DEF CollectionInit, RadioInit
<1>1. avail \in Seq(Nodes \cup {Broadcast}) /\ Len(avail) = 0 /\ WsnNum > 0
  BY MuleRadioAssumption
<1>2. serial \in Seq(Lines \cup {EndNotice})
  OBVIOUS
<1>3. reports \in Seq({"CR:WSNcontact"}) /\ filed \in Seq(Entries)
  OBVIOUS
<1>4. /\ orbit \in [Nodes -> 1 .. 999]
      /\ phase \in [Nodes -> Phases]
      /\ taken \in [Nodes -> BOOLEAN]
      /\ offered \in [Nodes -> Nat]
  BY MuleRadioAssumption DEF Phases
<1>5. /\ Len(avail) <= WsnNum
      /\ index \in 1 .. Len(avail) + 1
      /\ orbitFile \in 0 .. 999
      /\ contact \in 0 .. 1
  BY <1>1, MuleRadioAssumption DEF Unset
<1>6. TypeOK
  BY <1>1, <1>2, <1>3, <1>4, <1>5 DEF TypeOK, BoardLocations
<1>7. Rounds
  BY <1>1 DEF Rounds
<1>8. OrbitRead /\ LineOffered
  BY DEF OrbitRead, LineOffered
<1> QED
  BY <1>6, <1>7, <1>8

\* The part of the type that the nodes and the board change.
LEMMA NodeType ==
    ASSUME TypeOK, NEW n \in Nodes, NodeStep(n), UNCHANGED threadVars
    PROVE  TypeOK'
<1>1. ASSUME NEW to \in Phases, Turn(n, to)
      PROVE  phase' \in [Nodes -> Phases] /\ taken' \in [Nodes -> BOOLEAN]
  BY <1>1 DEF Turn, TypeOK
<1>2. {"ready", "announce", "line", "end", "send", "await", "away"} \subseteq Phases
  BY DEF Phases, Calling
<1>3. CASE Approach(n)
  BY <1>1, <1>2, <1>3 DEF Approach, TypeOK, boardVars, threadVars
<1>4. CASE ReadyReturns(n)
  BY <1>1, <1>2, <1>4 DEF ReadyReturns, TypeOK, boardVars, threadVars
<1>5. CASE AnnounceReturns(n)
  BY <1>1, <1>2, <1>5 DEF AnnounceReturns, TypeOK, boardVars, threadVars
<1>6. CASE Depart(n)
  BY <1>1, <1>2, <1>6 DEF Depart, TypeOK, boardVars, threadVars
<1>7. CASE OfferLine(n)
  <2>1. offered' \in [Nodes -> Nat]
    BY <1>7 DEF OfferLine, TypeOK
  <2> QED
    BY <1>1, <1>2, <1>7, <2>1 DEF OfferLine, TypeOK, boardVars, threadVars
<1>8. CASE LineReturns(n)
  BY <1>1, <1>2, <1>8 DEF LineReturns, TypeOK, boardVars, threadVars
<1>9. CASE OfferEnd(n)
  BY <1>1, <1>2, <1>9 DEF OfferEnd, TypeOK, boardVars, threadVars
<1>10. CASE EndReturns(n)
  BY <1>1, <1>2, <1>10 DEF EndReturns, TypeOK, boardVars, threadVars
<1>11. CASE NextOrbit(n)
  <2>1. orbit' \in [Nodes -> 1 .. 999]
    <3>1. orbit[n] \in 1 .. 999 /\ LastOrbit[n] \in 1 .. 999
      BY MuleRadioAssumption DEF TypeOK
    <3>2. orbit[n] < LastOrbit[n]
      BY <1>11 DEF NextOrbit
    <3>3. \A i, j \in 1 .. 999 : i < j => i + 1 \in 1 .. 999
      OBVIOUS
    <3>4. orbit[n] + 1 \in 1 .. 999
      BY <3>1, <3>2, <3>3, Zenon
    <3> QED
      BY <1>11, <3>4, Zenon DEF NextOrbit, TypeOK
  <2> QED
    BY <1>11, <2>1 DEF NextOrbit, TypeOK, boardVars, threadVars
<1> QED
  BY <1>3, <1>4, <1>5, <1>6, <1>7, <1>8, <1>9, <1>10, <1>11 DEF NodeStep

\* The part of the type that the messages change.
LEMMA BoardType ==
    ASSUME TypeOK, Rounds, LineOffered,
           BoardStep \/ \E n \in Nodes : ListenHears(n) \/ Obey(n) \/ WaitHears(n),
           UNCHANGED threadVars
    PROVE  TypeOK'
<1>1. CASE ListenTimeout
  BY <1>1 DEF ListenTimeout, TypeOK, nodeVars, threadVars, BoardLocations
<1>2. CASE RequestNext
  <2>1. CASE board' = "ask" /\ UNCHANGED <<avail, index, answered>>
    BY <1>2, <2>1 DEF RequestNext, TypeOK, nodeVars, threadVars, BoardLocations
  <2>2. CASE board' = "listen" /\ avail' = <<>> /\ index' = 1 /\ answered' = {}
    <3>1. avail' \in Seq(Nodes \cup {Broadcast}) /\ Len(avail') = 0
      BY <2>2
    <3>2. index' \in 1 .. Len(avail') + 1 /\ Len(avail') <= WsnNum
      BY <2>2, <3>1, MuleRadioAssumption
    <3> QED
      BY <1>2, <2>2, <3>1, <3>2
         DEF RequestNext, TypeOK, nodeVars, threadVars, BoardLocations
  <2> QED
    BY <1>2, <2>1, <2>2 DEF RequestNext
<1>3. ASSUME board \in {"ask", "wait"}
      PROVE  /\ avail[index] \in Nodes \cup {Broadcast}
             /\ index + 1 \in 1 .. Len(avail) + 1
  <2>1. index \in 1 .. Len(avail) /\ avail \in Seq(Nodes \cup {Broadcast})
    BY <1>3 DEF Rounds, TypeOK
  <2> QED
    BY <2>1
<1>4. CASE AskAnswered
  BY <1>3, <1>4 DEF AskAnswered, TypeOK, nodeVars, threadVars, BoardLocations
<1>5. CASE AskUnanswered
  BY <1>5 DEF AskUnanswered, TypeOK, nodeVars, threadVars, BoardLocations
<1>6. ASSUME NEW n \in Nodes, ListenHears(n) PROVE TypeOK'
  <2>1. /\ taken' \in [Nodes -> BOOLEAN]
        /\ serial' \in Seq(Lines \cup {EndNotice})
        /\ Result(n) \in Nodes \cup {EndOfFile}
    BY <1>6, ReceiveType DEF ListenHears
  <2>2. avail' = avail \/ avail' = Enlist(Result(n))
    BY <1>6 DEF ListenHears
  <2>3. /\ avail' \in Seq(Nodes \cup {Broadcast})
        /\ Len(avail') \in {Len(avail), Len(avail) + 1}
    BY <2>1, <2>2, EnlistType DEF TypeOK
  <2>4. Len(avail) < WsnNum /\ Len(avail) \in Nat /\ WsnNum \in Nat /\ index = 1
    BY <1>6, MuleRadioAssumption DEF ListenHears, Rounds, TypeOK
  <2>5. Len(avail') <= WsnNum /\ index \in 1 .. Len(avail') + 1
    BY <2>3, <2>4
  <2> QED
    BY <1>6, <2>1, <2>3, <2>5
       DEF ListenHears, TypeOK, nodeVars, threadVars, BoardLocations
<1>7. ASSUME NEW n \in Nodes, Obey(n) PROVE TypeOK'
  <2>1. phase' \in [Nodes -> Phases]
    BY <1>7 DEF Obey, TypeOK, Phases
  <2>2. got' \subseteq Nodes
    BY <1>7 DEF Obey, TypeOK
  <2> QED
    BY <1>7, <2>1, <2>2 DEF Obey, TypeOK, threadVars
<1>8. ASSUME NEW n \in Nodes, WaitHears(n) PROVE TypeOK'
  <2>1. /\ taken' \in [Nodes -> BOOLEAN]
        /\ serial' \in Seq(Lines \cup {EndNotice})
    BY <1>8, ReceiveType DEF WaitHears
  <2>2. CASE board' = "next" /\ index' = index + 1 /\ UNCHANGED avail
    BY <1>3, <1>8, <2>1, <2>2
       DEF WaitHears, TypeOK, nodeVars, threadVars, BoardLocations
  <2>3. CASE Len(avail) < WsnNum /\ avail' = Enlist(n) /\ UNCHANGED <<board, index>>
    <3>1. /\ avail' \in Seq(Nodes \cup {Broadcast})
          /\ Len(avail') = Len(avail) + 1
      BY <2>3, EnlistType
    <3>2. Len(avail) \in Nat /\ WsnNum \in Nat /\ index \in 1 .. Len(avail) + 1
      BY MuleRadioAssumption DEF TypeOK
    <3>3. Len(avail') <= WsnNum /\ index \in 1 .. Len(avail') + 1
      BY <2>3, <3>1, <3>2
    <3> QED
      BY <1>8, <2>1, <2>3, <3>1, <3>3 DEF WaitHears, TypeOK, nodeVars, threadVars
  <2>4. CASE board' = "spoiled" /\ UNCHANGED <<avail, index>>
    BY <1>8, <2>1, <2>4 DEF WaitHears, TypeOK, nodeVars, threadVars, BoardLocations
  <2>5. CASE UNCHANGED <<board, avail, index>>
    BY <1>8, <2>1, <2>5 DEF WaitHears, TypeOK, nodeVars, threadVars, BoardLocations
  <2> QED
    BY <1>8, <2>2, <2>3, <2>4, <2>5 DEF WaitHears
<1> QED
  BY <1>1, <1>2, <1>4, <1>5, <1>6, <1>7, <1>8 DEF BoardStep

\* What the thread reads.
LEMMA LineType ==
    ASSUME TypeOK, ReadLine
    PROVE  /\ serial' \in Seq(Lines \cup {EndNotice})
           /\ Line \in Lines \cup {EndNotice}
<1> DEFINE S == Lines \cup {EndNotice}
<1>1. serial \in Seq(S) /\ serial # <<>> /\ serial' = Tail(serial)
  BY DEF TypeOK, ReadLine
<1> HIDE DEF S
<1>2. Tail(serial) \in Seq(S) /\ Head(serial) \in S
  BY <1>1
<1> QED
  BY <1>1, <1>2 DEF S, Line

\* The part of the type that the thread changes.
LEMMA ThreadType ==
    ASSUME TypeOK, OrbitRead, ThreadStep
    PROVE  TypeOK'
<1> USE DEF boardVars, nodeVars, threadVars
<1>1. CASE ReadEnd
  <2>1. serial' \in Seq(Lines \cup {EndNotice})
    BY <1>1, LineType DEF ReadEnd
  <2> QED
    BY <1>1, <2>1 DEF ReadEnd, TypeOK
<1>2. CASE ReadData
  <2>1. serial' \in Seq(Lines \cup {EndNotice}) /\ Line \in Lines
    BY <1>2, LineType DEF ReadData
  <2>2. orbitFile' \in 0 .. 999
    BY <1>2, <2>1 DEF ReadData, FileUnder, TypeOK, Lines
  <2>3. orbitFile' # Unset => Entry(Line, orbitFile') \in Entries
    BY <2>1, <2>2 DEF Entry, Entries, Lines, Unset
  <2>4. filed' \in Seq(Entries)
    <3>1. filed \in Seq(Entries)
      BY DEF TypeOK
    <3>2. \/ filed' = filed
          \/ orbitFile' # Unset /\ filed' = Append(filed, Entry(Line, orbitFile'))
      BY <1>2 DEF ReadData, FileUnder
    <3> HIDE DEF boardVars, nodeVars, threadVars
    <3> DEFINE e == Entry(Line, orbitFile')
               S == Entries
    <3>3. filed \in Seq(S) /\ (filed' = filed \/ (e \in S /\ filed' = Append(filed, e)))
      BY <2>3, <3>1, <3>2
    <3> HIDE DEF e, S
    <3>4. filed' \in Seq(S)
      BY <3>3
    <3> QED
      BY <3>4 DEF S
  <2>5. reports' \in Seq({"CR:WSNcontact"}) /\ contact' \in 0 .. 1
    BY <1>2 DEF ReadData, Tell, TypeOK
  <2> QED
    BY <1>2, <2>1, <2>2, <2>4, <2>5 DEF ReadData, TypeOK
<1>3. CASE ReadDies
  <2>1. serial' \in Seq(Lines \cup {EndNotice})
    BY <1>3, LineType DEF ReadDies
  <2> QED
    BY <1>3, <2>1 DEF ReadDies, TypeOK
<1> QED
  BY <1>1, <1>2, <1>3 DEF ThreadStep

\* Every step keeps the types.
LEMMA TypeStep == TypeOK /\ Rounds /\ OrbitRead /\ LineOffered /\ [Next]_vars => TypeOK'
<1> SUFFICES ASSUME TypeOK, Rounds, OrbitRead, LineOffered, [Next]_vars PROVE TypeOK'
  OBVIOUS
<1>1. CASE RadioNext /\ UNCHANGED threadVars
  BY <1>1, BoardType, NodeType DEF RadioNext
<1>2. CASE ThreadStep
  BY <1>2, ThreadType
<1>3. CASE UNCHANGED vars
  BY <1>3 DEF vars, radioVars, boardVars, nodeVars, threadVars, TypeOK
<1> QED
  BY <1>1, <1>2, <1>3 DEF Next

\* Every step keeps what the types rest on.
LEMMA OrbitReadStep == OrbitRead /\ TypeOK /\ [Next]_vars => OrbitRead'
<1> SUFFICES ASSUME OrbitRead, TypeOK, [Next]_vars PROVE OrbitRead'
  OBVIOUS
<1>1. CASE ReadData
  <2>1. orbitFile' = IF Line.orbit >= 100 THEN Line.orbit ELSE orbitFile
    BY <1>1 DEF ReadData, FileUnder, HasOrbitField
  <2> QED
    BY <2>1 DEF OrbitRead
<1>2. CASE UNCHANGED orbitFile
  BY <1>2 DEF OrbitRead
<1> QED
  BY <1>1, <1>2 DEF Next, ThreadStep, ReadEnd, ReadDies, vars, threadVars

LEMMA LineOfferedStep == LineOffered /\ TypeOK /\ [Next]_vars => LineOffered'
<1> SUFFICES ASSUME LineOffered, TypeOK, [Next]_vars PROVE LineOffered'
  OBVIOUS
<1> USE DEF nodeVars, boardVars, radioVars
<1>1. CASE UNCHANGED nodeVars
  BY <1>1 DEF LineOffered
<1>2. ASSUME NEW n \in Nodes, Obey(n) PROVE LineOffered'
  BY <1>2 DEF Obey, LineOffered, TypeOK
<1>3. ASSUME NEW n \in Nodes, OfferLine(n) PROVE LineOffered'
  <2>1. /\ offered' = [offered EXCEPT ![n] = offered[n] + 1]
        /\ phase' = [phase EXCEPT ![n] = "line"]
    BY <1>3 DEF OfferLine, Turn
  <2>2. offered[n] + 1 > 0
    BY DEF TypeOK
  <2> QED
    BY <2>1, <2>2, Zenon DEF LineOffered, TypeOK
<1>4. ASSUME NEW n \in Nodes, NodeStep(n), ~OfferLine(n) PROVE LineOffered'
  <2>1. offered' = offered
    BY <1>4 DEF NodeStep, Approach, ReadyReturns, AnnounceReturns, Depart, LineReturns,
                OfferEnd, EndReturns, NextOrbit
  <2>2. phase' = phase \/ \E to \in Phases \ {"line"} : phase' = [phase EXCEPT ![n] = to]
    BY <1>4 DEF NodeStep, Approach, ReadyReturns, AnnounceReturns, Depart, LineReturns,
                OfferEnd, EndReturns, NextOrbit, Turn, Phases, Calling
  <2> QED
    BY <2>1, <2>2 DEF LineOffered, TypeOK
<1>5. CASE BoardStep \/ ThreadStep \/ UNCHANGED vars \/ \E n \in Nodes : ListenHears(n) \/ WaitHears(n)
  <2>1. UNCHANGED nodeVars
    BY <1>5 DEF BoardStep, ListenTimeout, RequestNext, AskAnswered, AskUnanswered,
                ThreadStep, ReadEnd, ReadData, ReadDies, ListenHears, WaitHears, vars
  <2> QED
    BY <1>1, <2>1
<1> QED
  BY <1>2, <1>3, <1>4, <1>5 DEF Next, RadioNext

-----------------------------------------------------------------------------
(* The rounds of the board: no step but those of the board and what it hears *)
(* changes the array.                                                        *)

BoardInv == Rounds /\ ListedOnce /\ SpoiledOnlyByStrayEnd /\ WaitsForTheUnanswered

\* A step that leaves the board alone.
LEMMA BoardKept == BoardInv /\ UNCHANGED boardVars => BoardInv'
BY DEF BoardInv, boardVars, Rounds, ListedOnce, SpoiledOnlyByStrayEnd, WaitsForTheUnanswered,
       Listed

\* Storing an address that is not in the array, or that of an end of file, lists
\* no node twice.
LEMMA EnlistOnce ==
    ASSUME TypeOK, BoardInv, NEW r \in Nodes \cup {EndOfFile}, avail' = Enlist(r),
           r \in Nodes => IsAvailable(r)
    PROVE  /\ ListedOnce'
           /\ Broadcast \in Listed => (Broadcast \in Listed)'
           /\ \A i \in 1 .. Len(avail) : avail'[i] = avail[i]
           /\ Len(avail') = Len(avail) + 1
           /\ Len(avail) \in Nat
<1>1. /\ avail' \in Seq(Nodes \cup {Broadcast})
      /\ Len(avail') = Len(avail) + 1
      /\ \A j \in 1 .. Len(avail) : avail'[j] = avail[j]
      /\ avail'[Len(avail) + 1] = IF r = EndOfFile THEN Broadcast ELSE r
  BY EnlistType
<1>2. /\ avail \in Seq(Nodes \cup {Broadcast})
      /\ Len(avail) \in Nat
      /\ DOMAIN avail = 1 .. Len(avail)
      /\ DOMAIN avail' = 1 .. Len(avail) + 1
  BY <1>1 DEF TypeOK
<1>3. ASSUME NEW i \in DOMAIN avail', NEW j \in DOMAIN avail',
             avail'[i] = avail'[j], avail'[i] # Broadcast
      PROVE  i = j
  <2>1. CASE i \in 1 .. Len(avail) /\ j \in 1 .. Len(avail)
    BY <1>1, <1>2, <1>3, <2>1 DEF BoardInv, ListedOnce
  <2>2. ASSUME NEW k \in 1 .. Len(avail), avail'[k] = avail'[Len(avail) + 1],
               avail'[k] # Broadcast
        PROVE  FALSE
    <3>1. r \in Nodes /\ avail[k] = r
      BY <1>1, <2>2
    <3> QED
      BY <1>2, <3>1 DEF IsAvailable, Listed
  <2>3. \A k \in DOMAIN avail' : k \in 1 .. Len(avail) \/ k = Len(avail) + 1
    BY <1>2
  <2> QED
    BY <1>3, <2>1, <2>2, <2>3
<1>4. Broadcast \in Listed => (Broadcast \in Listed)'
  <2>1. ASSUME NEW j \in DOMAIN avail, avail[j] = Broadcast
        PROVE  j \in DOMAIN avail' /\ avail'[j] = Broadcast
    BY <1>1, <1>2, <2>1
  <2> QED
    BY <2>1 DEF Listed
<1> QED
  BY <1>1, <1>2, <1>3, <1>4 DEF ListedOnce

\* An array full of different nodes has no room for another, nor need of it: there
\* are no more than WsnNum nodes.
LEMMA NodesFit ==
    ASSUME TypeOK, ListedOnce, Broadcast \notin Listed, NEW n \in Nodes, n \notin Listed
    PROVE  Len(avail) < WsnNum
<1> DEFINE D == 1 .. Len(avail)
           T == Nodes \ {n}
<1>1. /\ avail \in Seq(Nodes \cup {Broadcast})
      /\ Len(avail) \in Nat
      /\ DOMAIN avail = 1 .. Len(avail)
  BY DEF TypeOK
<1>2. \A j \in D : avail[j] \in T
  <2> SUFFICES ASSUME NEW j \in D PROVE avail[j] \in T
    OBVIOUS
  <2>1. avail[j] \in Nodes \cup {Broadcast} /\ avail[j] \in Listed
    BY <1>1 DEF Listed
  <2> QED
    BY <2>1
<1>3. IsFiniteSet(Nodes) /\ Cardinality(Nodes) <= WsnNum /\ WsnNum \in Nat
  BY MuleRadioAssumption
<1>4. IsFiniteSet(T) /\ Cardinality(T) = Cardinality(Nodes) - 1 /\ Cardinality(Nodes) \in Nat
  BY <1>3, FS_RemoveElement, FS_CardinalityType
<1>5. IsFiniteSet(D) /\ Cardinality(D) = Len(avail)
  <2>1. Cardinality(1 .. Len(avail)) = IF 1 > Len(avail) THEN 0 ELSE Len(avail) - 1 + 1
    BY <1>1, FS_Interval
  <2> QED
    BY <1>1, <2>1, FS_Interval
<1>6. avail \in [D -> T]
  <2>1. avail \in [D -> Nodes \cup {Broadcast}]
    BY <1>1
  <2> QED
    BY <1>2, <2>1
<1>7. ~(Cardinality(T) < Cardinality(D))
  <2> SUFFICES ASSUME Cardinality(T) < Cardinality(D) PROVE FALSE
    OBVIOUS
  <2>1. \E x, y \in D : x # y /\ avail[x] = avail[y]
    BY <1>4, <1>5, <1>6, FS_PigeonHole
  <2>2. \A x \in D : avail[x] # Broadcast
    BY <1>1 DEF Listed
  <2> QED
    BY <1>1, <2>1, <2>2 DEF ListedOnce
<1> QED
  BY <1>1, <1>3, <1>4, <1>5, <1>7

LEMMA ListenHearsInv ==
    ASSUME TypeOK, LineOffered, BoardInv, NEW n \in Nodes, ListenHears(n)
    PROVE  BoardInv'
<1>1. /\ Result(n) \in Nodes \cup {EndOfFile}
      /\ board = "listen" /\ index = 1 /\ answered = {} /\ Len(avail) < WsnNum
      /\ UNCHANGED <<index, answered>>
      /\ board' = IF Len(avail') = WsnNum THEN "next" ELSE "listen"
  BY ReceiveType DEF ListenHears, BoardInv, Rounds
<1>2. Len(avail) \in Nat /\ WsnNum \in Nat
  BY MuleRadioAssumption DEF TypeOK
<1>3. CASE UNCHANGED avail
  BY <1>1, <1>2, <1>3
     DEF BoardInv, Rounds, ListedOnce, SpoiledOnlyByStrayEnd, WaitsForTheUnanswered
<1>4. CASE avail' = Enlist(Result(n)) /\ IsAvailable(Result(n))
  <2>1. ListedOnce' /\ Len(avail') = Len(avail) + 1
    BY <1>1, <1>4, EnlistOnce
  <2> QED
    BY <1>1, <1>2, <2>1
       DEF BoardInv, Rounds, SpoiledOnlyByStrayEnd, WaitsForTheUnanswered
<1> QED
  BY <1>3, <1>4 DEF ListenHears

LEMMA WaitHearsInv ==
    ASSUME TypeOK, BoardInv, NEW n \in Nodes, WaitHears(n)
    PROVE  BoardInv'
<1>1. /\ board = "wait"
      /\ index \in 1 .. Len(avail)
      /\ avail[index] \in Nodes \ answered
      /\ answered' = answered
      /\ \A m \in answered : \E j \in 1 .. index - 1 : avail[j] = m
  BY DEF WaitHears, BoardInv, Rounds, WaitsForTheUnanswered, TypeOK
<1>2. CASE board' = "next" /\ index' = index + 1 /\ UNCHANGED avail
  <2>1. Rounds'
    BY <1>1, <1>2 DEF Rounds
  <2> QED
    BY <1>2, <2>1 DEF BoardInv, ListedOnce, SpoiledOnlyByStrayEnd, WaitsForTheUnanswered
<1>3. CASE IsAvailable(n) /\ avail' = Enlist(n) /\ UNCHANGED <<board, index>>
  <2>1. /\ ListedOnce'
        /\ \A i \in 1 .. Len(avail) : avail'[i] = avail[i]
        /\ Len(avail') = Len(avail) + 1
        /\ Len(avail) \in Nat
    BY <1>3, EnlistOnce
  <2>2. Rounds'
    BY <1>1, <1>3, <2>1 DEF Rounds
  <2>3. SpoiledOnlyByStrayEnd' /\ WaitsForTheUnanswered'
    BY <1>1, <1>3, <2>1 DEF SpoiledOnlyByStrayEnd, WaitsForTheUnanswered
  <2> QED
    BY <2>1, <2>2, <2>3 DEF BoardInv
<1>4. CASE /\ IsAvailable(n)
           /\ Len(avail) >= WsnNum
           /\ board' = "spoiled"
           /\ UNCHANGED <<avail, index>>
  <2>1. Broadcast \in Listed
    <3>1. ~(Len(avail) < WsnNum)
      BY <1>4, MuleRadioAssumption DEF TypeOK
    <3>2. n \notin Listed
      BY <1>4 DEF IsAvailable
    <3> QED
      BY <3>1, <3>2, NodesFit DEF BoardInv
  <2>2. SpoiledOnlyByStrayEnd'
    BY <1>4, <2>1 DEF SpoiledOnlyByStrayEnd, Listed
  <2> QED
    BY <1>1, <1>4, <2>2 DEF BoardInv, Rounds, ListedOnce, WaitsForTheUnanswered
<1>5. CASE UNCHANGED <<board, avail, index>>
  BY <1>1, <1>5
     DEF BoardInv, Rounds, ListedOnce, SpoiledOnlyByStrayEnd, WaitsForTheUnanswered, Listed
<1> QED
  BY <1>2, <1>3, <1>4, <1>5 DEF WaitHears

LEMMA RequestNextInv == ASSUME TypeOK, BoardInv, RequestNext PROVE BoardInv'
<1>1. CASE board' = "ask" /\ index <= Len(avail) /\ UNCHANGED <<avail, index, answered>>
  BY <1>1 DEF BoardInv, Rounds, ListedOnce, SpoiledOnlyByStrayEnd, WaitsForTheUnanswered
<1>2. CASE board' = "listen" /\ avail' = <<>> /\ index' = 1 /\ answered' = {}
  <2>1. Len(avail') = 0 /\ DOMAIN avail' = {} /\ WsnNum > 0
    BY <1>2, MuleRadioAssumption
  <2> QED
    BY <1>2, <2>1
       DEF BoardInv, Rounds, ListedOnce, SpoiledOnlyByStrayEnd, WaitsForTheUnanswered
<1> QED
  BY <1>1, <1>2 DEF RequestNext

\* Sending the command: the node that is asked comes after those that have answered.
LEMMA AskInv ==
    ASSUME TypeOK, BoardInv, AskAnswered \/ AskUnanswered
    PROVE  BoardInv'
<1>1. /\ board = "ask"
      /\ index \in 1 .. Len(avail)
      /\ avail \in Seq(Nodes \cup {Broadcast})
      /\ DOMAIN avail = 1 .. Len(avail)
      /\ Len(avail) \in Nat
      /\ avail' = avail
      /\ \A m \in answered : \E j \in 1 .. index - 1 : avail[j] = m
      /\ ListedOnce
  BY DEF AskAnswered, AskUnanswered, BoardInv, Rounds, TypeOK
<1>2. ListedOnce'
  BY <1>1 DEF ListedOnce
<1>3. CASE AskAnswered
  <2>1. /\ board' = "next"
        /\ index' = index + 1
        /\ answered' = answered \cup ({avail[index]} \ {Broadcast})
    BY <1>3 DEF AskAnswered
  <2>2. \A m \in answered' : \E j \in 1 .. index' - 1 : avail'[j] = m
    <3> SUFFICES ASSUME NEW m \in answered' PROVE \E j \in 1 .. index : avail[j] = m
      BY <1>1, <2>1
    <3>1. CASE m \in answered
      BY <1>1, <3>1
    <3>2. CASE m = avail[index]
      BY <1>1, <3>2
    <3> QED
      BY <2>1, <3>1, <3>2
  <2> QED
    BY <1>1, <1>2, <2>1, <2>2
       DEF BoardInv, Rounds, SpoiledOnlyByStrayEnd, WaitsForTheUnanswered
<1>4. CASE AskUnanswered
  <2>1. board' = "wait" /\ UNCHANGED <<index, answered>> /\ avail[index] # Broadcast
    BY <1>4 DEF AskUnanswered
  <2>2. avail[index] \in Nodes
    BY <1>1, <2>1
  <2>3. avail[index] \notin answered
    <3> SUFFICES ASSUME avail[index] \in answered PROVE FALSE
      OBVIOUS
    <3>1. PICK j \in 1 .. index - 1 : avail[j] = avail[index]
      BY <1>1
    <3>2. j \in DOMAIN avail /\ index \in DOMAIN avail /\ j # index
      BY <1>1, <3>1
    <3> QED
      BY <1>1, <2>1, <3>1, <3>2 DEF ListedOnce
  <2> QED
    BY <1>1, <1>2, <2>1, <2>2, <2>3
       DEF BoardInv, Rounds, SpoiledOnlyByStrayEnd, WaitsForTheUnanswered
<1> QED
  BY <1>3, <1>4

LEMMA BoardInvStep == TypeOK /\ LineOffered /\ BoardInv /\ [Next]_vars => BoardInv'
<1> SUFFICES ASSUME TypeOK, LineOffered, BoardInv, [Next]_vars PROVE BoardInv'
  OBVIOUS
<1>1. CASE ListenTimeout
  BY <1>1 DEF ListenTimeout, BoardInv, Rounds, ListedOnce, SpoiledOnlyByStrayEnd,
              WaitsForTheUnanswered
<1>2. CASE RequestNext \/ AskAnswered \/ AskUnanswered
  BY <1>2, RequestNextInv, AskInv
<1>3. ASSUME NEW n \in Nodes, ListenHears(n) \/ WaitHears(n) PROVE BoardInv'
  BY <1>3, ListenHearsInv, WaitHearsInv
<1>4. ASSUME NEW n \in Nodes, Obey(n) PROVE BoardInv'
  BY <1>4 DEF Obey, BoardInv, Rounds, ListedOnce, SpoiledOnlyByStrayEnd,
              WaitsForTheUnanswered, Listed
<1>5. CASE ThreadStep \/ UNCHANGED vars \/ \E n \in Nodes : NodeStep(n)
  <2>1. UNCHANGED boardVars
    BY <1>5 DEF ThreadStep, ReadEnd, ReadData, ReadDies, NodeStep, Approach, ReadyReturns,
                AnnounceReturns, Depart, OfferLine, LineReturns, OfferEnd, EndReturns,
                NextOrbit, vars, radioVars
  <2> QED
    BY <2>1, BoardKept
<1> QED
  BY <1>1, <1>2, <1>3, <1>4, <1>5 DEF Next, RadioNext, BoardStep

-----------------------------------------------------------------------------
(* The board that asks with "Transfer" *)

\* The board is not programmed again.
LEMMA CommandKept == [Next]_vars => command' = command
<1> SUFFICES ASSUME [Next]_vars PROVE command' = command
  OBVIOUS
<1>1. CASE BoardStep
  BY <1>1 DEF BoardStep, ListenTimeout, RequestNext, AskAnswered, AskUnanswered
<1>2. ASSUME NEW n \in Nodes, ListenHears(n) \/ Obey(n) \/ WaitHears(n)
      PROVE  command' = command
  BY <1>2 DEF ListenHears, Obey, WaitHears
<1>3. ASSUME NEW n \in Nodes, NodeStep(n) PROVE command' = command
  BY <1>3 DEF NodeStep, Approach, ReadyReturns, AnnounceReturns, Depart, OfferLine,
              LineReturns, OfferEnd, EndReturns, NextOrbit
<1>4. CASE ThreadStep \/ UNCHANGED vars
  BY <1>4 DEF ThreadStep, ReadEnd, ReadData, ReadDies, vars, radioVars
<1> QED
  BY <1>1, <1>2, <1>3, <1>4 DEF Next, RadioNext

LEMMA NoTransferInit == CollectionInit => NoTransferBySource
BY DEF CollectionInit, RadioInit, NoTransferBySource, Listed

\* A message that is neither a line nor an end of file leaves the buffer as it is, and
\* its result is the address of its sender.
LEMMA SourceReceives ==
    ASSUME NEW n \in Nodes, Receive(n), phase[n] \notin {"line", "end"}
    PROVE  serial' = serial /\ Result(n) = n
BY DEF Receive, Result

\* Storing a node does not store an end of file.
LEMMA EnlistNode ==
    ASSUME TypeOK, NEW n \in Nodes, avail' = Enlist(n), Broadcast \notin Listed
    PROVE  (Broadcast \notin Listed)'
<1>1. /\ Enlist(n) \in Seq(Nodes \cup {Broadcast})
      /\ Len(Enlist(n)) = Len(avail) + 1
      /\ \A j \in 1 .. Len(avail) : Enlist(n)[j] = avail[j]
      /\ Enlist(n)[Len(avail) + 1] = IF n = EndOfFile THEN Broadcast ELSE n
  BY EnlistType
<1>2. n # EndOfFile /\ n # Broadcast
  BY MuleRadioAssumption, SMT DEF EndOfFile, Broadcast
<1>3. DOMAIN avail = 1 .. Len(avail) /\ Len(avail) \in Nat
  BY DEF TypeOK
<1>4. ASSUME NEW j \in DOMAIN avail' PROVE avail'[j] # Broadcast
  <2>1. j \in 1 .. Len(avail) \/ j = Len(avail) + 1
    BY <1>1, <1>3
  <2>2. CASE j \in 1 .. Len(avail)
    BY <1>1, <1>3, <2>2 DEF Listed
  <2>3. CASE j = Len(avail) + 1
    BY <1>1, <1>2, <2>3
  <2> QED
    BY <2>1, <2>2, <2>3
<1> QED
  BY <1>4 DEF Listed

LEMMA NoTransferStep == TypeOK /\ NoTransferBySource /\ [Next]_vars => NoTransferBySource'
<1> SUFFICES ASSUME TypeOK, NoTransferBySource, [Next]_vars,
                    command' = "Transfer"
             PROVE  /\ \A n \in Nodes : phase'[n] \notin {"send", "line", "end"}
                    /\ serial' = <<>>
                    /\ filed' = <<>>
                    /\ (Broadcast \notin Listed)'
  BY DEF NoTransferBySource
<1>0. command = "Transfer"
  BY CommandKept
<1>1. /\ \A n \in Nodes : phase[n] \notin {"send", "line", "end"}
      /\ serial = <<>>
      /\ filed = <<>>
      /\ Broadcast \notin Listed
  BY <1>0 DEF NoTransferBySource
<1> USE DEF nodeVars, boardVars, threadVars, radioVars
<1>2. CASE RadioNext /\ UNCHANGED threadVars
  <2>1. CASE BoardStep
    <3>1. UNCHANGED <<phase, serial, filed>>
      BY <1>2, <2>1 DEF BoardStep, ListenTimeout, RequestNext, AskAnswered, AskUnanswered
    <3>2. avail' = avail \/ avail' = <<>>
      BY <2>1 DEF BoardStep, ListenTimeout, RequestNext, AskAnswered, AskUnanswered
    <3>3. (Broadcast \notin Listed)'
      BY <1>1, <3>2 DEF Listed
    <3> QED
      BY <1>1, <3>1, <3>3
  <2>2. ASSUME NEW n \in Nodes, ListenHears(n) \/ WaitHears(n)
        PROVE  /\ UNCHANGED <<phase, serial, filed>>
               /\ (Broadcast \notin Listed)'
    <3>1. Receive(n) /\ UNCHANGED <<phase, filed>>
      BY <1>2, <2>2 DEF ListenHears, WaitHears
    <3>2. serial' = serial /\ Result(n) = n
      BY <1>1, <3>1, SourceReceives
    <3>3. avail' = avail \/ avail' = Enlist(n)
      BY <2>2, <3>2 DEF ListenHears, WaitHears
    <3>4. (Broadcast \notin Listed)'
      BY <1>1, <3>3, EnlistNode DEF Listed
    <3> QED
      BY <3>1, <3>2, <3>4
  <2>3. ASSUME NEW n \in Nodes, Obey(n) PROVE UNCHANGED <<phase, serial, filed, avail>>
    BY <1>0, <1>2, <2>3 DEF Obey
  <2>4. ASSUME NEW n \in Nodes, NodeStep(n)
        PROVE  /\ UNCHANGED <<serial, filed, avail>>
               /\ \/ phase' = phase
                  \/ \E to \in {"ready", "announce", "await", "away"} :
                        phase' = [phase EXCEPT ![n] = to]
    BY <1>0, <1>1, <1>2, <2>4
       DEF NodeStep, Approach, ReadyReturns, AnnounceReturns, Depart, OfferLine,
           LineReturns, OfferEnd, EndReturns, NextOrbit, Turn
  <2>5. ASSUME NEW n \in Nodes, NodeStep(n)
        PROVE  \A m \in Nodes : phase'[m] \notin {"send", "line", "end"}
    BY <1>1, <2>4, <2>5 DEF TypeOK
  <2> QED
    BY <1>1, <1>2, <2>1, <2>2, <2>3, <2>4, <2>5 DEF RadioNext, Listed
<1>3. CASE ThreadStep
  BY <1>1, <1>3 DEF ThreadStep, ReadEnd, ReadData, ReadDies, ReadLine
<1>4. CASE UNCHANGED vars
  BY <1>1, <1>4 DEF vars, Listed
<1> QED
  BY <1>2, <1>3, <1>4 DEF Next

-----------------------------------------------------------------------------
(* The names of the files *)

LEMMA FiledStep ==
    TypeOK /\ OrbitRead /\ FiledUnderItsOrbit /\ [Next]_vars => FiledUnderItsOrbit'
<1> SUFFICES ASSUME TypeOK, OrbitRead, FiledUnderItsOrbit, [Next]_vars
             PROVE  FiledUnderItsOrbit'
  OBVIOUS
<1>1. ASSUME ReadData, orbitFile' # Unset, filed' = Append(filed, Entry(Line, orbitFile'))
      PROVE  FiledUnderItsOrbit'
  <2> DEFINE e == Entry(Line, orbitFile')
  <2>1. /\ e.name = orbitFile'
        /\ e.orbit = Line.orbit
        /\ Line.orbit >= 100 => orbitFile' = Line.orbit
        /\ orbitFile' >= 100
    BY <1>1, OrbitReadStep DEF ReadData, FileUnder, HasOrbitField, Entry, OrbitRead
  <2>2. e.name = e.orbit <=> e.orbit >= 100
    BY <2>1
  <2>3. filed \in Seq(Entries) /\ e \in Entries
    <3>1. Line \in Lines /\ orbitFile' \in 0 .. 999
      BY <1>1, LineType, ThreadType DEF ReadData, ThreadStep, TypeOK
    <3> QED
      BY <1>1, <3>1 DEF TypeOK, Entry, Entries, Lines, Unset
  <2> HIDE DEF e
  <2>4. \A j \in DOMAIN Append(filed, e) :
            \/ j \in DOMAIN filed /\ Append(filed, e)[j] = filed[j]
            \/ Append(filed, e)[j] = e
    BY <2>3
  <2>5. filed' = Append(filed, e)
    BY <1>1 DEF e
  <2> QED
    BY <2>2, <2>4, <2>5 DEF FiledUnderItsOrbit
<1>2. CASE UNCHANGED filed
  BY <1>2 DEF FiledUnderItsOrbit
<1>3. CASE ThreadStep
  BY <1>1, <1>2, <1>3 DEF ThreadStep, ReadEnd, ReadData, FileUnder, ReadDies, threadVars
<1> QED
  BY <1>2, <1>3 DEF Next, vars, threadVars

-----------------------------------------------------------------------------
(* The order of the lines *)

\* For each node the number of the last line that the board may have printed.
Last ==
    [n \in Nodes |-> IF phase[n] = "line" /\ ~taken[n] THEN offered[n] - 1 ELSE offered[n]]

\* Nothing that is printed or filed comes after it.
Numbered ==
    /\ \A j \in DOMAIN serial :
        serial[j] # EndNotice => serial[j].number <= Last[serial[j].node]
    /\ \A j \in DOMAIN filed : filed[j].number <= Last[filed[j].node]

OrderInv == InOrder /\ Numbered

LEMMA OrderInit == CollectionInit => OrderInv
BY DEF CollectionInit, RadioInit, OrderInv, InOrder, Numbered

\* Last is a number.
LEMMA LastType ==
    ASSUME TypeOK, LineOffered
    PROVE  \A n \in Nodes : Last[n] \in Nat /\ Last[n] <= offered[n] /\ offered[n] \in Nat
BY DEF TypeOK, LineOffered, Last

\* A step that only moves the last line forward keeps the order.
LEMMA OrderKept ==
    ASSUME TypeOK, OrderInv, UNCHANGED <<serial, filed>>,
           \A n \in Nodes : Last[n] \in Nat /\ Last'[n] \in Nat /\ Last[n] <= Last'[n]
    PROVE  OrderInv'
<1>1. InOrder'
  BY DEF OrderInv, InOrder
<1>2. ASSUME NEW j \in DOMAIN serial, serial[j] # EndNotice
      PROVE  serial[j].number <= Last'[serial[j].node]
  <2>1. serial[j] \in Lines
    BY <1>2 DEF TypeOK
  <2>2. serial[j].node \in Nodes /\ serial[j].number \in Nat
    BY <2>1 DEF Lines
  <2>3. serial[j].number <= Last[serial[j].node]
    BY <1>2 DEF OrderInv, Numbered
  <2> QED
    BY <2>2, <2>3
<1>3. ASSUME NEW j \in DOMAIN filed
      PROVE  filed[j].number <= Last'[filed[j].node]
  <2>1. filed[j] \in Entries
    BY <1>3 DEF TypeOK
  <2>2. filed[j].node \in Nodes /\ filed[j].number \in Nat
    BY <2>1 DEF Entries
  <2>3. filed[j].number <= Last[filed[j].node]
    BY <1>3 DEF OrderInv, Numbered
  <2> QED
    BY <2>2, <2>3
<1> QED
  BY <1>1, <1>2, <1>3 DEF OrderInv, Numbered

\* A node does not take a line back.
LEMMA NodeLast ==
    ASSUME TypeOK, NEW n \in Nodes, NodeStep(n), NEW m \in Nodes
    PROVE  Last[m] <= Last'[m]
<1>1. offered[m] \in Nat
  BY DEF TypeOK
<1>2. CASE OfferLine(n)
  <2>1. /\ phase[n] = "send"
        /\ offered' = [offered EXCEPT ![n] = offered[n] + 1]
        /\ phase' = [phase EXCEPT ![n] = "line"]
        /\ taken' = [taken EXCEPT ![n] = FALSE]
    BY <1>2 DEF OfferLine, Turn
  <2>2. CASE m = n
    <3>1. offered'[m] = offered[m] + 1 /\ Last[m] = offered[m]
      BY <2>1, <2>2 DEF TypeOK, Last
    <3> QED
      BY <1>1, <3>1 DEF Last
  <2>3. CASE m # n
    BY <1>1, <2>1, <2>3 DEF TypeOK, Last
  <2> QED
    BY <2>2, <2>3
<1>3. CASE ~OfferLine(n)
  <2>1. offered' = offered
    BY <1>3 DEF NodeStep, Approach, ReadyReturns, AnnounceReturns, Depart, LineReturns,
                OfferEnd, EndReturns, NextOrbit
  <2>2. \/ UNCHANGED <<phase, taken>>
        \/ \E to \in Phases \ {"line"} :
              /\ phase' = [phase EXCEPT ![n] = to]
              /\ taken' = [taken EXCEPT ![n] = FALSE]
    BY <1>3 DEF NodeStep, Approach, ReadyReturns, AnnounceReturns, Depart, LineReturns,
                OfferEnd, EndReturns, NextOrbit, Turn, Phases, Calling
  <2>3. CASE UNCHANGED <<phase, taken>>
    BY <1>1, <2>1, <2>3 DEF Last
  <2>4. ASSUME NEW to \in Phases \ {"line"},
               phase' = [phase EXCEPT ![n] = to],
               taken' = [taken EXCEPT ![n] = FALSE]
        PROVE  Last[m] <= Last'[m]
    <3>1. CASE m = n
      <4>1. Last'[m] = offered[m]
        BY <2>1, <2>4, <3>1 DEF TypeOK, Last
      <4> QED
        BY <1>1, <4>1 DEF Last
    <3>2. CASE m # n
      BY <1>1, <2>1, <2>4, <3>2 DEF TypeOK, Last
    <3> QED
      BY <3>1, <3>2
  <2> QED
    BY <2>2, <2>3, <2>4
<1> QED
  BY <1>2, <1>3

\* Taking a message does not either; a line that is printed is the last one.
LEMMA ReceiveLast ==
    ASSUME TypeOK, LineOffered, NEW n \in Nodes, Receive(n), UNCHANGED nodeVars
    PROVE  /\ \A m \in Nodes : Last[m] <= Last'[m]
           /\ phase[n] = "line" => Last[n] = offered[n] - 1 /\ Last'[n] = offered[n]
<1>1. /\ phase' = phase /\ offered' = offered
      /\ taken' = [taken EXCEPT ![n] = TRUE]
      /\ taken[n] = FALSE
      /\ taken \in [Nodes -> BOOLEAN]
  BY DEF Receive, nodeVars, TypeOK
<1>2. \A m \in Nodes : offered[m] \in Nat
  BY DEF TypeOK
<1>3. \A m \in Nodes : m # n => Last'[m] = Last[m]
  BY <1>1 DEF Last
<1>4. phase[n] = "line" => Last[n] = offered[n] - 1 /\ Last'[n] = offered[n]
  BY <1>1 DEF Last
<1>5. phase[n] # "line" => Last'[n] = Last[n]
  BY <1>1 DEF Last
<1> QED
  BY <1>2, <1>3, <1>4, <1>5, LastType

\* What is printed comes after all lines of its node.
LEMMA ReceiveOrder ==
    ASSUME TypeOK, LineOffered, OrderInv, NEW n \in Nodes, Receive(n),
           UNCHANGED nodeVars, UNCHANGED threadVars
    PROVE  OrderInv'
<1> DEFINE p == Printed(n)
<1>1. \A m \in Nodes : /\ Last[m] \in Nat /\ Last'[m] \in Nat /\ Last[m] <= Last'[m]
                       /\ offered[m] \in Nat
  <2>1. \A m \in Nodes : Last[m] \in Nat /\ offered[m] \in Nat
    BY LastType
  <2>2. \A m \in Nodes : Last'[m] \in {Last[m], offered[m]}
    BY DEF Receive, nodeVars, Last, TypeOK
  <2> QED
    BY <2>1, <2>2, ReceiveLast
<1>2. filed' = filed
  BY DEF threadVars
<1>3. CASE serial' = serial
  BY <1>1, <1>2, <1>3, OrderKept
<1>4. CASE serial' = Append(serial, p)
  <2>1. /\ p \in Lines \cup {EndNotice}
        /\ p # EndNotice =>
              /\ p.node = n
              /\ p.number = offered[n]
              /\ Last[n] = offered[n] - 1
              /\ Last'[n] = offered[n]
    <3>1. CASE phase[n] = "line"
      <4>1. p = [node |-> n, number |-> offered[n], orbit |-> orbit[n]]
        BY <3>1 DEF Printed
      <4>2. p \in Lines
        BY <3>1, <4>1 DEF LineOffered, TypeOK, Lines
      <4> QED
        BY <3>1, <4>1, <4>2, ReceiveLast
    <3>2. CASE phase[n] # "line"
      BY <3>2 DEF Printed
    <3> QED
      BY <3>1, <3>2
  <2>2. \A l \in Lines : l # EndNotice /\ l.node \in Nodes /\ l.number \in Nat /\ l.node # 0
    BY MuleRadioAssumption DEF Lines, EndNotice
  <2> HIDE DEF p
  <2>3. /\ serial \in Seq(Lines \cup {EndNotice})
        /\ Len(serial) \in Nat
        /\ DOMAIN serial = 1 .. Len(serial)
        /\ DOMAIN serial' = 1 .. Len(serial) + 1
        /\ \A j \in 1 .. Len(serial) : serial'[j] = serial[j]
        /\ serial'[Len(serial) + 1] = p
    <3>1. serial \in Seq(Lines \cup {EndNotice})
      BY DEF TypeOK
    <3> DEFINE S == Lines \cup {EndNotice}
    <3>2. serial \in Seq(S) /\ p \in S
      BY <2>1, <3>1
    <3> HIDE DEF S
    <3>3. /\ Len(Append(serial, p)) = Len(serial) + 1
          /\ Len(serial) \in Nat
          /\ DOMAIN serial = 1 .. Len(serial)
          /\ DOMAIN Append(serial, p) = 1 .. Len(serial) + 1
          /\ \A j \in 1 .. Len(serial) : Append(serial, p)[j] = serial[j]
          /\ Append(serial, p)[Len(serial) + 1] = p
      BY <3>2
    <3> QED
      BY <1>4, <3>1, <3>3
  <2>4. \A j \in DOMAIN serial : serial[j] # EndNotice =>
            /\ serial[j] \in Lines
            /\ serial[j].number <= Last[serial[j].node]
    BY <2>3 DEF OrderInv, Numbered
  <2>5. \A j \in DOMAIN filed :
            /\ filed[j].node \in Nodes
            /\ filed[j].number \in Nat
            /\ filed[j].number <= Last[filed[j].node]
    <3> SUFFICES ASSUME NEW j \in DOMAIN filed
                 PROVE  /\ filed[j].node \in Nodes
                        /\ filed[j].number \in Nat
                        /\ filed[j].number <= Last[filed[j].node]
      OBVIOUS
    <3>1. filed[j] \in Entries
      BY DEF TypeOK
    <3> QED
      BY <3>1 DEF Entries, OrderInv, Numbered
  <2>6. \A j \in DOMAIN serial' : j \in DOMAIN serial \/ j = Len(serial) + 1
    BY <2>3
  <2>7. EndNotice.node = 0 /\ 0 \notin Nodes
    BY MuleRadioAssumption DEF EndNotice
  <2>8. ASSUME NEW i \in DOMAIN serial', NEW j \in DOMAIN serial', i < j,
               serial'[i].node = serial'[j].node, serial'[i] # EndNotice
        PROVE  serial'[i].number < serial'[j].number
    <3>1. i \in DOMAIN serial /\ serial'[i] = serial[i]
      BY <2>3, <2>8
    <3>2. CASE j \in DOMAIN serial
      BY <2>3, <2>8, <3>1, <3>2 DEF OrderInv, InOrder
    <3>3. CASE j = Len(serial) + 1
      <4>1. serial[i] \in Lines /\ serial[i].number <= Last[serial[i].node]
        BY <2>4, <2>8, <3>1
      <4>2. p.node = serial[i].node /\ p # EndNotice
        BY <2>2, <2>3, <2>7, <2>8, <3>1, <3>3, <4>1
      <4>3. serial[i].number < p.number
        BY <1>1, <2>1, <2>2, <4>1, <4>2
      <4> QED
        BY <2>3, <3>1, <3>3, <4>3
    <3> QED
      BY <2>6, <3>2, <3>3
  <2>9. ASSUME NEW i \in DOMAIN filed, NEW j \in DOMAIN serial',
               filed[i].node = serial'[j].node
        PROVE  filed[i].number < serial'[j].number
    <3>1. CASE j \in DOMAIN serial
      BY <2>3, <2>9, <3>1 DEF OrderInv, InOrder
    <3>2. CASE j = Len(serial) + 1
      <4>1. p.node = filed[i].node /\ p # EndNotice
        BY <2>3, <2>5, <2>7, <2>9, <3>2
      <4>2. filed[i].number < p.number
        BY <1>1, <2>1, <2>5, <4>1
      <4> QED
        BY <2>3, <3>2, <4>2
    <3> QED
      BY <2>6, <3>1, <3>2
  <2>10. InOrder'
    BY <1>2, <2>8, <2>9 DEF InOrder, OrderInv
  <2>11. ASSUME NEW j \in DOMAIN serial', serial'[j] # EndNotice
         PROVE  serial'[j].number <= Last'[serial'[j].node]
    <3>1. CASE j \in DOMAIN serial
      <4>1. serial'[j] = serial[j]
        BY <2>3, <3>1
      <4> QED
        BY <1>1, <2>2, <2>4, <2>11, <3>1, <4>1
    <3>2. CASE j = Len(serial) + 1
      <4>1. serial'[j] = p
        BY <2>3, <3>2
      <4> QED
        BY <1>1, <2>1, <2>11, <4>1
    <3> QED
      BY <2>6, <3>1, <3>2
  <2>12. ASSUME NEW j \in DOMAIN filed PROVE filed[j].number <= Last'[filed[j].node]
    BY <1>1, <2>5
  <2> QED
    BY <1>2, <2>10, <2>11, <2>12 DEF OrderInv, Numbered
<1> QED
  BY <1>3, <1>4 DEF Receive

\* The line that is read is the first of the buffer, and the others move up.
LEMMA LineRead ==
    ASSUME TypeOK, ReadLine
    PROVE  /\ Len(serial) \in Nat
           /\ DOMAIN serial = 1 .. Len(serial)
           /\ 1 \in DOMAIN serial
           /\ Line = serial[1]
           /\ DOMAIN serial' = 1 .. Len(serial) - 1
           /\ \A j \in DOMAIN serial' : j + 1 \in DOMAIN serial /\ serial'[j] = serial[j + 1]
<1> DEFINE S == Lines \cup {EndNotice}
<1>1. serial \in Seq(S) /\ serial # <<>> /\ serial' = Tail(serial) /\ Line = Head(serial)
  BY DEF TypeOK, ReadLine, Line
<1> HIDE DEF S
<1>2. /\ Len(serial) \in Nat
      /\ DOMAIN serial = 1 .. Len(serial)
      /\ Head(serial) = serial[1]
      /\ Len(serial) > 0
  BY <1>1
<1>3. /\ DOMAIN Tail(serial) = 1 .. Len(serial) - 1
      /\ \A j \in 1 .. Len(serial) - 1 : Tail(serial)[j] = serial[j + 1]
  BY <1>1, <1>2
<1> QED
  BY <1>1, <1>2, <1>3

\* What is filed is what was read.
LEMMA EntryFiled ==
    ASSUME TypeOK, OrbitRead, ReadData
    PROVE  \/ filed' = filed
           \/ \E e \in Entries : /\ e.node = Line.node
                                 /\ e.number = Line.number
                                 /\ filed' = Append(filed, e)
<1>1. CASE filed' = filed
  BY <1>1
<1>2. CASE orbitFile' # Unset /\ filed' = Append(filed, Entry(Line, orbitFile'))
  <2>1. Line \in Lines /\ orbitFile' \in 0 .. 999
    BY LineType, ThreadType DEF ReadData, ThreadStep, TypeOK
  <2>2. Entry(Line, orbitFile') \in Entries
    BY <1>2, <2>1 DEF Entry, Entries, Lines, Unset
  <2>3. Entry(Line, orbitFile').node = Line.node /\ Entry(Line, orbitFile').number = Line.number
    BY DEF Entry
  <2> QED
    BY <1>2, <2>2, <2>3
<1> QED
  BY <1>1, <1>2 DEF ReadData, FileUnder

\* The thread keeps the order.
LEMMA ThreadOrder ==
    ASSUME TypeOK, LineOffered, OrbitRead, OrderInv, ThreadStep
    PROVE  OrderInv'
<1>1. ReadLine /\ UNCHANGED nodeVars /\ UNCHANGED taken
  BY DEF ThreadStep, ReadEnd, ReadData, ReadDies
<1>2. Last' = Last
  BY <1>1 DEF Last, nodeVars
<1>3. /\ Len(serial) \in Nat
      /\ DOMAIN serial = 1 .. Len(serial)
      /\ 1 \in DOMAIN serial
      /\ Line = serial[1]
      /\ DOMAIN serial' = 1 .. Len(serial) - 1
      /\ \A j \in DOMAIN serial' : j + 1 \in DOMAIN serial /\ serial'[j] = serial[j + 1]
  BY <1>1, LineRead
<1>4. ASSUME NEW i \in DOMAIN serial', NEW j \in DOMAIN serial', i < j,
             serial'[i].node = serial'[j].node, serial'[i] # EndNotice
      PROVE  serial'[i].number < serial'[j].number
  <2>1. i + 1 < j + 1
    BY <1>3, <1>4
  <2> QED
    BY <1>3, <1>4, <2>1 DEF OrderInv, InOrder
<1>5. ASSUME NEW j \in DOMAIN serial', serial'[j] # EndNotice
      PROVE  serial'[j].number <= Last[serial'[j].node]
  BY <1>3, <1>5 DEF OrderInv, Numbered
<1>6. ASSUME NEW i \in DOMAIN filed, NEW j \in DOMAIN serial', filed[i].node = serial'[j].node
      PROVE  filed[i].number < serial'[j].number
  BY <1>3, <1>6 DEF OrderInv, InOrder
<1>7. CASE filed' = filed
  BY <1>2, <1>4, <1>5, <1>6, <1>7 DEF OrderInv, InOrder, Numbered
<1>8. ASSUME ReadData, NEW e \in Entries, e.node = Line.node, e.number = Line.number,
             filed' = Append(filed, e)
      PROVE  OrderInv'
  <2>1. Line \in Lines /\ Line # EndNotice
    BY <1>8, LineType DEF ReadData
  <2>2. Line.node # 0 /\ Line.node \in Nodes /\ Line.number \in Nat
    BY <2>1, MuleRadioAssumption DEF Lines
  <2>3. /\ Len(filed) \in Nat
        /\ DOMAIN filed = 1 .. Len(filed)
        /\ DOMAIN filed' = 1 .. Len(filed) + 1
        /\ \A j \in 1 .. Len(filed) : filed'[j] = filed[j]
        /\ filed'[Len(filed) + 1] = e
    <3>1. filed \in Seq(Entries) /\ e \in Entries
      BY <1>8 DEF TypeOK
    <3> DEFINE S == Entries
    <3>2. filed \in Seq(S) /\ e \in S
      BY <3>1
    <3> HIDE DEF S
    <3>3. /\ Len(filed) \in Nat
          /\ DOMAIN filed = 1 .. Len(filed)
          /\ DOMAIN Append(filed, e) = 1 .. Len(filed) + 1
          /\ \A j \in 1 .. Len(filed) : Append(filed, e)[j] = filed[j]
          /\ Append(filed, e)[Len(filed) + 1] = e
      BY <3>2
    <3> QED
      BY <1>8, <3>3
  <2>4. \A j \in DOMAIN filed' : j \in DOMAIN filed \/ j = Len(filed) + 1
    BY <2>3
  <2>5. ASSUME NEW i \in DOMAIN filed', NEW j \in DOMAIN filed', i < j,
               filed'[i].node = filed'[j].node
        PROVE  filed'[i].number < filed'[j].number
    <3>1. i \in DOMAIN filed /\ filed'[i] = filed[i]
      BY <2>3, <2>5
    <3>2. CASE j \in DOMAIN filed
      BY <2>3, <2>5, <3>1, <3>2 DEF OrderInv, InOrder
    <3>3. CASE j = Len(filed) + 1
      BY <1>3, <1>8, <2>3, <2>5, <3>1, <3>3 DEF OrderInv, InOrder
    <3> QED
      BY <2>4, <3>2, <3>3
  <2>6. ASSUME NEW i \in DOMAIN filed', NEW j \in DOMAIN serial',
               filed'[i].node = serial'[j].node
        PROVE  filed'[i].number < serial'[j].number
    <3>1. CASE i \in DOMAIN filed
      BY <1>6, <2>3, <2>6, <3>1
    <3>2. CASE i = Len(filed) + 1
      <4>1. j + 1 \in DOMAIN serial /\ 1 < j + 1 /\ serial'[j] = serial[j + 1]
        BY <1>3
      <4>2. serial[1].node = serial[j + 1].node /\ serial[1] # EndNotice
        BY <1>3, <1>8, <2>1, <2>3, <2>6, <3>2, <4>1
      <4>3. serial[1].number < serial[j + 1].number
        BY <1>3, <4>1, <4>2 DEF OrderInv, InOrder
      <4> QED
        BY <1>3, <1>8, <2>3, <3>2, <4>1, <4>3
    <3> QED
      BY <2>4, <3>1, <3>2
  <2>7. ASSUME NEW i \in DOMAIN filed' PROVE filed'[i].number <= Last[filed'[i].node]
    <3>1. CASE i \in DOMAIN filed
      BY <2>3, <3>1 DEF OrderInv, Numbered
    <3>2. CASE i = Len(filed) + 1
      BY <1>3, <1>8, <2>1, <2>3, <3>2 DEF OrderInv, Numbered
    <3> QED
      BY <2>4, <3>1, <3>2
  <2> QED
    BY <1>2, <1>4, <1>5, <2>5, <2>6, <2>7 DEF OrderInv, InOrder, Numbered
<1>9. CASE ReadData
  BY <1>7, <1>8, <1>9, EntryFiled
<1> QED
  BY <1>7, <1>9 DEF ThreadStep, ReadEnd, ReadDies, threadVars

LEMMA OrderInvStep ==
    TypeOK /\ LineOffered /\ OrbitRead /\ OrderInv /\ [Next]_vars => OrderInv'
<1> SUFFICES ASSUME TypeOK, LineOffered, OrbitRead, OrderInv, [Next]_vars PROVE OrderInv'
  OBVIOUS
<1>1. \A n \in Nodes : Last[n] \in Nat /\ Last[n] <= offered[n] /\ offered[n] \in Nat
  BY LastType
<1>2. CASE ThreadStep
  BY <1>2, ThreadOrder
<1>3. ASSUME NEW n \in Nodes, ListenHears(n) \/ WaitHears(n), UNCHANGED threadVars
      PROVE  OrderInv'
  BY <1>3, ReceiveOrder DEF ListenHears, WaitHears
<1>4. CASE UNCHANGED <<nodeVars, taken, serial, threadVars>>
  <2>1. Last' = Last
    BY <1>4 DEF Last, nodeVars
  <2> QED
    BY <1>1, <1>4, <2>1, OrderKept DEF threadVars
<1>5. ASSUME NEW n \in Nodes, Obey(n), UNCHANGED threadVars PROVE OrderInv'
  <2>1. /\ phase[n] = "await"
        /\ phase' = [phase EXCEPT ![n] = "send"] \/ phase' = phase
        /\ UNCHANGED <<offered, taken, serial>>
    BY <1>5 DEF Obey
  <2>2. \A m \in Nodes : phase'[m] = "line" <=> phase[m] = "line"
    BY <2>1 DEF TypeOK
  <2>3. Last' = Last
    BY <2>1, <2>2 DEF Last
  <2> QED
    BY <1>1, <1>5, <2>1, <2>3, OrderKept DEF threadVars
<1>6. ASSUME NEW n \in Nodes, NodeStep(n), UNCHANGED threadVars PROVE OrderInv'
  <2>1. serial' = serial
    BY <1>6 DEF NodeStep, Approach, ReadyReturns, AnnounceReturns, Depart, OfferLine,
                LineReturns, OfferEnd, EndReturns, NextOrbit
  <2>2. TypeOK'
    BY <1>6, NodeType
  <2>3. LineOffered'
    BY <1>6, LineOfferedStep DEF Next, RadioNext
  <2>4. \A m \in Nodes : Last'[m] \in Nat
    <3>1. \A m \in Nodes : offered'[m] \in Nat /\ (phase'[m] = "line" => offered'[m] > 0)
      BY <2>2, <2>3 DEF TypeOK, LineOffered
    <3> QED
      BY <3>1 DEF Last
  <2> QED
    BY <1>1, <1>6, <2>1, <2>4, NodeLast, OrderKept DEF threadVars
<1>7. CASE BoardStep /\ UNCHANGED threadVars
  BY <1>4, <1>7 DEF BoardStep, ListenTimeout, RequestNext, AskAnswered, AskUnanswered
<1>8. CASE UNCHANGED vars
  BY <1>4, <1>8 DEF vars, radioVars
<1> QED
  BY <1>2, <1>3, <1>5, <1>6, <1>7, <1>8 DEF Next, RadioNext

-----------------------------------------------------------------------------
(* The refinement *)

\* The executive has been told if and only if there has been a line.
Told ==
    /\ reports = IF contact = 0 THEN <<>> ELSE <<"CR:WSNcontact">>
    /\ contact = 0 => filed = <<>>

LEMMA ToldInit == CollectionInit => Told
BY DEF CollectionInit, Told

LEMMA ToldStep == TypeOK /\ Told /\ [Next]_vars => Told'
<1> SUFFICES ASSUME TypeOK, Told, [Next]_vars PROVE Told'
  OBVIOUS
<1>1. CASE ReadData
  <2>1. contact' = 1 /\ reports' = IF contact = 0 THEN Append(reports, "CR:WSNcontact") ELSE reports
    BY <1>1 DEF ReadData, Tell
  <2>2. CASE contact = 0
    <3>1. reports = <<>>
      BY <2>2 DEF Told
    <3>2. Append(<<>>, "CR:WSNcontact") = <<"CR:WSNcontact">>
      OBVIOUS
    <3> QED
      BY <2>1, <2>2, <3>1, <3>2 DEF Told
  <2>3. CASE contact # 0
    BY <2>1, <2>3 DEF Told
  <2> QED
    BY <2>2, <2>3
<1>2. CASE UNCHANGED <<contact, reports, filed>>
  BY <1>2 DEF Told
<1> QED
  BY <1>1, <1>2 DEF Next, ThreadStep, ReadEnd, ReadDies, vars, threadVars

\* The files as the abstract specification sees them.
FiledLog == [j \in DOMAIN filed |-> [node |-> filed[j].node, number |-> filed[j].number]]

LEMMA LogInitial == CollectionInit => Log!LogInit
BY DEF CollectionInit, RadioInit, Log!LogInit

\* A line that is filed is the abstract one.
LEMMA LogAppend ==
    ASSUME TypeOK, NEW e \in Entries, filed' = Append(filed, e)
    PROVE  FiledLog' = Append(FiledLog, [node |-> e.node, number |-> e.number])
<1> DEFINE f(x) == [node |-> x.node, number |-> x.number]
           S == Entries
<1>1. filed \in Seq(S) /\ e \in S
  BY DEF TypeOK
<1> HIDE DEF S
<1>2. /\ Len(filed) \in Nat
      /\ DOMAIN filed = 1 .. Len(filed)
      /\ DOMAIN Append(filed, e) = 1 .. Len(filed) + 1
      /\ \A j \in 1 .. Len(filed) : Append(filed, e)[j] = filed[j]
      /\ Append(filed, e)[Len(filed) + 1] = e
  BY <1>1
<1> DEFINE g == [j \in 1 .. Len(filed) |-> f(filed[j])]
           T == [node : Nodes, number : Nat]
<1>3. \A x \in Entries : f(x) \in T
  BY DEF Entries
<1>4. \A j \in 1 .. Len(filed) : filed[j] \in Entries
  BY <1>1, <1>2 DEF S
<1> HIDE DEF f, T
<1>5. \A j \in 1 .. Len(filed) : f(filed[j]) \in T
  BY <1>3, <1>4
<1>6. g \in [1 .. Len(filed) -> T]
  BY <1>5
<1>7. g \in Seq(T) /\ Len(g) = Len(filed)
  BY <1>2, <1>6
<1> HIDE DEF g
<1> DEFINE y == f(e)
<1>8. y \in T
  BY <1>3
<1> HIDE DEF y
<1>9. /\ Append(g, y) \in [1 .. Len(filed) + 1 -> T]
      /\ \A j \in 1 .. Len(filed) : Append(g, y)[j] = g[j]
      /\ Append(g, y)[Len(filed) + 1] = y
  <2>1. Append(g, y) \in Seq(T) /\ Len(Append(g, y)) = Len(g) + 1
    BY <1>7, <1>8
  <2>2. \A j \in 1 .. Len(g) : Append(g, y)[j] = g[j]
    BY <1>7, <1>8
  <2>3. Append(g, y)[Len(g) + 1] = y
    BY <1>7, <1>8
  <2>4. Append(g, y) \in [1 .. Len(g) + 1 -> T]
    <3> DEFINE h == Append(g, y)
    <3>1. h \in Seq(T) /\ Len(h) = Len(g) + 1
      BY <2>1
    <3> HIDE DEF h
    <3>2. h \in [1 .. Len(h) -> T]
      BY <3>1
    <3>3. h \in [1 .. Len(g) + 1 -> T]
      BY <3>1, <3>2
    <3> QED
      BY <3>3 DEF h
  <2> QED
    BY <1>7, <2>2, <2>3, <2>4
<1>10. [j \in 1 .. Len(filed) + 1 |-> f(Append(filed, e)[j])] = Append(g, y)
  <2>1. \A j \in 1 .. Len(filed) + 1 : j \in 1 .. Len(filed) \/ j = Len(filed) + 1
    BY <1>2
  <2>2. \A j \in 1 .. Len(filed) : g[j] = f(filed[j])
    BY DEF g
  <2>3. \A j \in 1 .. Len(filed) + 1 : f(Append(filed, e)[j]) = Append(g, y)[j]
    BY <1>2, <1>9, <2>1, <2>2 DEF y
  <2> QED
    BY <1>9, <2>3
<1>11. FiledLog = g
  BY <1>2 DEF FiledLog, g, f
<1>12. FiledLog' = [j \in 1 .. Len(filed) + 1 |-> f(Append(filed, e)[j])]
  BY <1>2 DEF FiledLog, f
<1> QED
  BY <1>10, <1>11, <1>12 DEF f, y

LEMMA LogStep ==
    TypeOK /\ LineOffered /\ OrbitRead /\ OrderInv /\ Told /\ [Next]_vars
        => [Log!LogNext]_Log!logVars
<1> SUFFICES ASSUME TypeOK, LineOffered, OrbitRead, OrderInv, Told, [Next]_vars
             PROVE  Log!LogNext \/ UNCHANGED <<offered, FiledLog, reports>>
  BY DEF Log!logVars, FiledLog
<1>1. CASE ReadData
  <2>1. /\ ReadLine
        /\ Line # EndNotice
        /\ UNCHANGED offered
        /\ reports' = IF contact = 0 THEN Append(reports, "CR:WSNcontact") ELSE reports
    BY <1>1 DEF ReadData, Tell, nodeVars
  <2>2. Line \in Lines /\ Line = serial[1] /\ 1 \in DOMAIN serial
    BY <2>1, LineType, LineRead
  <2>3. Line.node \in Nodes /\ Line.number \in Nat \ {0}
    BY <2>2 DEF Lines
  <2>4. Line.number <= offered[Line.node] /\ offered[Line.node] \in Nat
    <3>1. Line.number <= Last[Line.node]
      BY <2>1, <2>2 DEF OrderInv, Numbered
    <3> QED
      BY <2>3, <3>1, LastType
  <2>5. Log!Tell \/ (reports # <<>> /\ UNCHANGED reports)
    <3>1. CASE contact = 0
      <4>1. reports = <<>> /\ reports' = Append(<<>>, "CR:WSNcontact")
        BY <2>1, <3>1 DEF Told
      <4>2. Append(<<>>, "CR:WSNcontact") = <<"CR:WSNcontact">>
        OBVIOUS
      <4>3. offered[Line.node] > 0
        BY <2>3, <2>4
      <4> QED
        BY <2>3, <4>1, <4>2, <4>3 DEF Log!Tell, Log!Contact
    <3>2. CASE contact # 0
      BY <2>1, <3>2 DEF Told
    <3> QED
      BY <3>1, <3>2
  <2>6. \/ \E n \in Nodes : \E k \in 1 .. offered[n] : Log!File(n, k)
        \/ UNCHANGED FiledLog
    <3>1. CASE filed' = filed
      BY <3>1 DEF FiledLog
    <3>2. ASSUME NEW e \in Entries, e.node = Line.node, e.number = Line.number,
                 filed' = Append(filed, e)
          PROVE  \E n \in Nodes : \E k \in 1 .. offered[n] : Log!File(n, k)
      <4>1. PICK n \in Nodes : n = Line.node
        BY <2>3
      <4>2. PICK k \in 1 .. offered[n] : k = Line.number
        BY <2>3, <2>4, <4>1
      <4>3. \A j \in DOMAIN FiledLog : FiledLog[j].node = n => FiledLog[j].number < k
        BY <2>2, <4>1, <4>2 DEF FiledLog, OrderInv, InOrder
      <4>4. FiledLog' = Append(FiledLog, [node |-> n, number |-> k])
        BY <3>2, <4>1, <4>2, LogAppend
      <4>5. Log!File(n, k)
        BY <4>3, <4>4 DEF Log!File, FiledLog
      <4> QED
        BY <4>5
    <3> QED
      BY <1>1, <2>3, <3>1, <3>2, EntryFiled
  <2>7. Log!Read
    BY <2>1, <2>5, <2>6 DEF Log!Read, FiledLog
  <2> QED
    BY <2>7 DEF Log!LogNext
<1>2. ASSUME NEW n \in Nodes, OfferLine(n), UNCHANGED threadVars
      PROVE  Log!LogNext
  <2>1. Log!Offer(n)
    BY <1>2 DEF OfferLine, Log!Offer, threadVars
  <2> QED
    BY <2>1 DEF Log!LogNext
<1>3. CASE UNCHANGED <<offered, filed, reports>>
  BY <1>3 DEF FiledLog
<1>4. ASSUME NEW n \in Nodes, NodeStep(n), ~OfferLine(n), UNCHANGED threadVars
      PROVE  UNCHANGED <<offered, filed, reports>>
  BY <1>4 DEF NodeStep, Approach, ReadyReturns, AnnounceReturns, Depart, LineReturns,
              OfferEnd, EndReturns, NextOrbit, threadVars
<1>5. ASSUME NEW n \in Nodes, ListenHears(n) \/ Obey(n) \/ WaitHears(n), UNCHANGED threadVars
      PROVE  UNCHANGED <<offered, filed, reports>>
  BY <1>5 DEF ListenHears, Obey, WaitHears, nodeVars, threadVars
<1>6. CASE BoardStep /\ UNCHANGED threadVars
  BY <1>3, <1>6 DEF BoardStep, ListenTimeout, RequestNext, AskAnswered, AskUnanswered,
                    nodeVars, threadVars
<1>7. CASE ReadEnd \/ ReadDies \/ UNCHANGED vars
  BY <1>3, <1>7 DEF ReadEnd, ReadDies, vars, radioVars, nodeVars, threadVars
<1> QED
  BY <1>1, <1>2, <1>3, <1>4, <1>5, <1>6, <1>7 DEF Next, RadioNext, ThreadStep

-----------------------------------------------------------------------------
(* The theorems *)

IInv ==
    /\ TypeOK
    /\ OrbitRead
    /\ LineOffered
    /\ BoardInv
    /\ NoTransferBySource
    /\ FiledUnderItsOrbit
    /\ OrderInv
    /\ Told

LEMMA IInvInit == CollectionInit => IInv
<1> SUFFICES ASSUME CollectionInit PROVE IInv
  OBVIOUS
<1>1. BoardInv
  <2>1. board = "listen" /\ DOMAIN avail = {}
    BY DEF CollectionInit, RadioInit
  <2> QED
    BY <2>1, InitType
       DEF BoardInv, ListedOnce, SpoiledOnlyByStrayEnd, WaitsForTheUnanswered
<1>2. FiledUnderItsOrbit
  BY DEF CollectionInit, FiledUnderItsOrbit
<1> QED
  BY <1>1, <1>2, InitType, NoTransferInit, OrderInit, ToldInit DEF IInv

LEMMA IInvStep == IInv /\ [Next]_vars => IInv'
<1> SUFFICES ASSUME IInv, [Next]_vars PROVE IInv'
  OBVIOUS
<1>1. TypeOK' /\ OrbitRead' /\ LineOffered'
  BY TypeStep, OrbitReadStep, LineOfferedStep DEF IInv, BoardInv
<1>2. BoardInv'
  BY BoardInvStep DEF IInv
<1>3. NoTransferBySource' /\ FiledUnderItsOrbit' /\ OrderInv' /\ Told'
  BY NoTransferStep, FiledStep, OrderInvStep, ToldStep DEF IInv
<1> QED
  BY <1>1, <1>2, <1>3 DEF IInv

LEMMA IInvHolds == Spec => []IInv
BY IInvInit, IInvStep, PTL DEF Spec

\* The variables keep their types, and the array of available nodes its bound, for
\* any nodes, orbits and numbers of lines.
THEOREM TypeCorrect == Spec => []TypeOK
<1>1. IInv => TypeOK
  BY DEF IInv
<1> QED
  BY <1>1, IInvHolds, PTL

\* No node is in the array of available nodes twice, however it repeats its call and
\* however often its messages are lost.
THEOREM ListedOnceHolds == Spec => []ListedOnce
<1>1. IInv => ListedOnce
  BY DEF IInv, BoardInv
<1> QED
  BY <1>1, IInvHolds, PTL

\* The array is overrun only if an end of file was stored in it as an address, for any
\* number of nodes that it has room for.
THEOREM SpoiledOnlyByStrayEndHolds == Spec => []SpoiledOnlyByStrayEnd
<1>1. IInv => SpoiledOnlyByStrayEnd
  BY DEF IInv, BoardInv
<1> QED
  BY <1>1, IInvHolds, PTL

\* request() never waits for a node whose acknowledgement it has had in this round.
THEOREM WaitsForTheUnansweredHolds == Spec => []WaitsForTheUnanswered
<1>1. IInv => WaitsForTheUnanswered
  BY DEF IInv, BoardInv
<1> QED
  BY <1>1, IInvHolds, PTL

\* A board that asks with the string of the source never gets a line of data.
THEOREM NoTransferBySourceHolds == Spec => []NoTransferBySource
<1>1. IInv => NoTransferBySource
  BY DEF IInv
<1> QED
  BY <1>1, IInvHolds, PTL

\* Such a board, once it waits for a node, waits for ever.
THEOREM SourceWaitsForEverHolds == Spec => SourceWaitsForEver
<1>1. ASSUME IInv, [Next]_vars, command = "Transfer", board = "wait"
      PROVE  board' = "wait"
  <2>1. /\ \A n \in Nodes : phase[n] # "end"
        /\ Broadcast \notin Listed
    BY <1>1 DEF IInv, NoTransferBySource
  <2>2. ASSUME NEW n \in Nodes, WaitHears(n) PROVE board' = "wait"
    <3>1. Result(n) = n /\ n # EndOfFile
      BY <2>1, MuleRadioAssumption, SMT DEF Result, EndOfFile, Broadcast
    <3>2. ~(IsAvailable(n) /\ Len(avail) >= WsnNum)
      <4>1. IsAvailable(n) => Len(avail) < WsnNum
        BY <1>1, <2>1, NodesFit DEF IInv, BoardInv, IsAvailable
      <4>2. Len(avail) \in Nat /\ WsnNum \in Nat
        BY <1>1, MuleRadioAssumption DEF IInv, TypeOK
      <4> QED
        BY <4>1, <4>2
    <3> QED
      BY <1>1, <2>2, <3>1, <3>2 DEF WaitHears
  <2>3. CASE BoardStep
    BY <1>1, <2>3 DEF BoardStep, ListenTimeout, RequestNext, AskAnswered, AskUnanswered
  <2>4. ASSUME NEW n \in Nodes, ListenHears(n) \/ Obey(n) PROVE board' = "wait"
    BY <1>1, <2>4 DEF ListenHears, Obey
  <2>5. CASE ThreadStep \/ UNCHANGED vars \/ \E n \in Nodes : NodeStep(n)
    <3>1. UNCHANGED boardVars
      BY <2>5 DEF ThreadStep, ReadEnd, ReadData, ReadDies, NodeStep, Approach, ReadyReturns,
                  AnnounceReturns, Depart, OfferLine, LineReturns, OfferEnd, EndReturns,
                  NextOrbit, vars, radioVars
    <3> QED
      BY <1>1, <3>1 DEF boardVars
  <2> QED
    BY <1>1, <2>2, <2>3, <2>4, <2>5 DEF Next, RadioNext
<1>2. IInv /\ [Next]_vars
        => [command = "Transfer" /\ board = "wait" => board' = "wait"]_vars
  BY <1>1
<1> QED
  BY <1>2, IInvHolds, PTL DEF Spec, SourceWaitsForEver

\* Exactly the lines of orbits with three digits are filed under their own orbit.
THEOREM FiledUnderItsOrbitHolds == Spec => []FiledUnderItsOrbit
<1>1. IInv => FiledUnderItsOrbit
  BY DEF IInv
<1> QED
  BY <1>1, IInvHolds, PTL

\* The lines of a node are printed and filed in the order it sent them, none twice.
THEOREM InOrderHolds == Spec => []InOrder
<1>1. IInv => InOrder
  BY DEF IInv, OrderInv
<1> QED
  BY <1>1, IInvHolds, PTL

\* The collection of measurements implements the line log.
THEOREM Refinement == Spec => ImplementsLog
<1>1. IInv /\ [Next]_vars => [Log!LogNext]_Log!logVars
  BY LogStep DEF IInv
<1> QED
  BY <1>1, IInvHolds, LogInitial, PTL DEF Spec, ImplementsLog, Log!LogSpec
=============================================================================
