-------------------------- MODULE SensorNode_proof --------------------------
(***************************************************************************)
(* The safety of the sensor node's files, for any numbers of orbits, boots *)
(* and lines and however many opens fail: types, files without gaps, one   *)
(* run and one orbit per file, headers that do not promise too much, lines *)
(* sent once.                                                              *)
(***************************************************************************)
EXTENDS SensorNode, FiniteSetTheorems, TLAPS

Running == pc \notin {"boot", "scan", "halted"}

\* What the memory says of the scan and of the current file.
MemoryInv ==
    /\ pc # "halted" => file = orbit
    /\ pc \in {"boot", "scan"} => position = 0
    /\ pc = "scan" => IsLast(scan.last)

\* The files that exist: no gaps below, none above the current one.
CardInv ==
    /\ NoGaps
    /\ \A f \in File : lines[f] # <<>> => f \in made
    /\ Running => /\ 1..(file - 1) \subseteq made
                  /\ \A f \in made \cap Named : f <= file
    /\ pc = "create" => file \notin made \cap Named
    /\ pc = "science" => file \in made

\* Where the lines are from.
LinesInv ==
    /\ \A f \in Named : \A k \in DOMAIN lines[f] : lines[f][k].orbit = f
    /\ \A f \in Named : \A k, m \in DOMAIN lines[f] : lines[f][k].boot = lines[f][m].boot
    /\ Running /\ file \in Named => \A k \in DOMAIN lines[file] : lines[file][k].boot = boots

\* What has been sent of the current file, and of the others.
SentInv ==
    /\ \A k \in 1..position : <<file, k>> \in offered
    /\ \A f \in File, k \in Nat : <<f, k>> \in offered => f \in made
    /\ Running /\ file \in Named => \A k \in Nat : <<file, k>> \in offered => k <= position
    /\ read => pc = "send" /\ position > 0
    /\ status = 1 => position > 0

\* What the headers say.
HeadInv ==
    /\ CompleteUpToPosition
    /\ OnlySentIsOverwritten
    /\ pc = "mark" /\ faults = 0 => position = Len(lines[file])

IInv == NodeTypeOK /\ MemoryInv /\ CardInv /\ LinesInv /\ SentInv /\ HeadInv

\* Steps that leave the card, the numbers and the history alone.
Quiet ==
    \/ TimeUp \/ NotYet \/ PollLatitude \/ Top \/ WaitScienceFinish
    \/ Ready \/ Announce \/ Await \/ WaitOrbitFinish \/ Fix

-----------------------------------------------------------------------------

\* Sets of file numbers can be counted.
LEMMA UnreadIsFinite ==
    ASSUME NodeAssumption, NEW n \in 0..MaxOrbit, NEW S \in SUBSET (1..n)
    PROVE  Cardinality(S) \in Nat
  <1>1. n \in Int
    BY DEF NodeAssumption
  <1>2. IsFiniteSet(1..n)
    BY <1>1, FS_Interval
  <1>3. IsFiniteSet(S)
    BY <1>2, FS_Subset
  <1> QED
    BY <1>3, FS_CardinalityType

\* The initial state.
LEMMA InitInv == Init /\ NodeAssumption => IInv
  <1> SUFFICES ASSUME Init, NodeAssumption PROVE IInv
    OBVIOUS
  <1> USE DEF Init, NoScan, NodeAssumption, File, Named
  <1>1. NodeTypeOK
    <2>1. lines \in [File -> Seq(Line)]
      OBVIOUS
    <2>2. head \in [File -> Header]
      BY DEF Header, NoHeader
    <2>3. pc \in Locations /\ latitude \in Latitudes
      BY DEF Locations, Latitudes
    <2>4. scan \in [last : 0..MaxOrbit, i : Nat \ {0}, count : Nat, unfinished : Nat]
      OBVIOUS
    <2>5. orbit \in 1..(MaxOrbit + 2) /\ file \in File /\ boots \in 1..MaxBoots
          /\ faults \in 0..MaxFaults
      OBVIOUS
    <2>6. made \subseteq File /\ offered \subseteq (File \X (Nat \ {0})) /\ position \in Nat
          /\ status \in 0..1
      OBVIOUS
    <2>7. setup \in BOOLEAN /\ lock \in BOOLEAN /\ read \in BOOLEAN
      OBVIOUS
    <2> HIDE DEF Init, NoScan, File
    <2> QED
      BY <2>1, <2>2, <2>3, <2>4, <2>5, <2>6, <2>7 DEF NodeTypeOK
  <1>2. MemoryInv
    BY DEF MemoryInv
  <1>3. CardInv
    BY DEF CardInv, NoGaps, Running
  <1>4. LinesInv
    BY DEF LinesInv, Running
  <1>5. SentInv
    BY DEF SentInv, Running
  <1>6. HeadInv
    BY DEF HeadInv, CompleteUpToPosition, OnlySentIsOverwritten, NoHeader
  <1> QED
    BY <1>1, <1>2, <1>3, <1>4, <1>5, <1>6 DEF IInv

-----------------------------------------------------------------------------
(* Types. *)

\* Writing a header leaves headers ...
LEMMA HeaderType ==
    ASSUME NodeTypeOK, NEW f \in File, NEW st \in 0..1, NEW pos \in Nat
    PROVE  WithHeader(f, st, pos) \in [File -> Header]
  BY DEF WithHeader, NodeTypeOK, Header

\* ... and changes that of one file, unless this is empty.
LEMMA WithHeaderAt ==
    ASSUME NodeTypeOK, NEW f \in File, NEW st, NEW pos, NEW g \in File
    PROVE  WithHeader(f, st, pos)[g] =
               IF g = f /\ lines[f] # <<>>
               THEN [status |-> st, position |-> pos, written |-> TRUE] ELSE head[g]
  <1>1. head \in [File -> Header]
    BY DEF NodeTypeOK
  <1> QED
    BY <1>1 DEF WithHeader

\* The outcomes of setLatitude().
LEMMA LatitudeType ==
    ASSUME NodeTypeOK, NEW result \in BOOLEAN, SetLatitude(result)
    PROVE  lock' \in BOOLEAN /\ latitude' \in Latitudes
  BY DEF SetLatitude, NodeTypeOK, gps

\* The count of failed opens stays within its bound.
LEMMA OpensType ==
    ASSUME NodeTypeOK, NodeAssumption, NEW ok \in BOOLEAN, Opens(ok)
    PROVE  faults' \in 0..MaxFaults
  BY DEF Opens, NodeTypeOK, NodeAssumption

\* Where the loops are left for.
LEMMA ArriveType ==
    ASSUME NodeTypeOK, pc \in Polls, Arrive(Leave(pc))
    PROVE  pc' \in Locations \ {"boot", "scan", "create", "halted", "science", "mark", "send"}
           /\ setup' \in BOOLEAN
  BY DEF NodeTypeOK, Arrive, Leave, AfterScience, AfterListening, Polls, Locations

\* What a quiet step changes, and from where to where it leads.
LEMMA QuietType ==
    ASSUME NodeTypeOK, Quiet
    PROVE  /\ pc' \in Locations \ {"boot", "scan", "create", "halted", "mark"}
           /\ pc' = "science" => pc = "science"
           /\ pc \notin {"boot", "scan", "create", "halted", "mark", "send"}
           /\ setup' \in BOOLEAN /\ lock' \in BOOLEAN /\ latitude' \in Latitudes
           /\ UNCHANGED <<card, scan, orbitVars, read, boots, faults, offered>>
  <1>1. CASE TimeUp
    BY <1>1, ArriveType DEF TimeUp, gps, NodeTypeOK, Polls, Locations
  <1>2. CASE NotYet
    BY <1>2 DEF NotYet, gps, NodeTypeOK, Polls, Again, Locations
  <1>3. CASE PollLatitude
    <2>1. lock' \in BOOLEAN /\ latitude' \in Latitudes
      BY <1>3, LatitudeType DEF PollLatitude
    <2> QED
      BY <1>3, <2>1, ArriveType DEF PollLatitude, NodeTypeOK, Polls, Again, Locations
  <1>4. CASE Top
    BY <1>4 DEF Top, gps, NodeTypeOK, Locations
  <1>5. CASE WaitScienceFinish
    BY <1>5, LatitudeType DEF WaitScienceFinish, gps, NodeTypeOK, Locations
  <1>6. CASE Ready \/ Announce \/ Await
    BY <1>6 DEF Ready, Announce, Await, gps, NodeTypeOK, Polls, Locations
  <1>7. CASE WaitOrbitFinish
    BY <1>7, LatitudeType DEF WaitOrbitFinish, gps, NodeTypeOK, Locations
  <1>8. CASE Fix
    BY <1>8 DEF Fix, NodeTypeOK, Locations
  <1> QED
    BY <1>1, <1>2, <1>3, <1>4, <1>5, <1>6, <1>7, <1>8 DEF Quiet
\* Every step keeps the types.
LEMMA TypeStep ==
    ASSUME NodeAssumption, IInv, [Next]_vars
    PROVE  NodeTypeOK'
  <1> USE DEF IInv, card, orbitVars, gps
  <1>1. CASE Quiet
    <2>1. /\ pc' \in Locations /\ setup' \in BOOLEAN /\ lock' \in BOOLEAN
          /\ latitude' \in Latitudes
          /\ UNCHANGED <<card, scan, orbitVars, read, boots, faults, offered>>
      BY <1>1, QuietType
    <2> QED
      BY <2>1 DEF NodeTypeOK
  <1>2. CASE Boot
    <2>1. PICK n \in 0..MaxOrbit, unread \in SUBSET Named :
             /\ unread \subseteq {f \in 1..n : Status(f) = 0}
             /\ faults + Cardinality(unread) <= MaxFaults
             /\ faults' = faults + Cardinality(unread)
             /\ scan' = [last |-> n, i |-> 1, count |-> 0, unfinished |->
                            Cardinality({f \in 1..n : Status(f) = 0} \ unread)]
      BY <1>2 DEF Boot
    <2>2. Cardinality(unread) \in Nat
      BY <2>1, UnreadIsFinite
    <2>3. Cardinality({f \in 1..n : Status(f) = 0} \ unread) \in Nat
      BY UnreadIsFinite
    <2>4. faults' \in 0..MaxFaults
      BY <2>1, <2>2 DEF NodeTypeOK, NodeAssumption
    <2>5. scan' \in [last : 0..MaxOrbit, i : Nat \ {0}, count : Nat, unfinished : Nat]
      BY <2>1, <2>3
    <2>6. pc' \in Locations
      BY <1>2 DEF Boot, Locations
    <2> QED
      BY <1>2, <2>4, <2>5, <2>6 DEF Boot, NodeTypeOK
  <1>3. CASE NoCard
    BY <1>3, OpensType DEF NoCard, NodeTypeOK, Locations
  <1>4. CASE Scan
    <2>1. PICK ok \in BOOLEAN :
             /\ Opens(ok)
             /\ \/ scan' = [scan EXCEPT !.count = @ + 1,
                                        !.i = NextFile(@, scan.count + 1)]
                \/ scan' = [scan EXCEPT !.i = @ + 1]
      BY <1>4 DEF Scan
    <2>2. NextFile(scan.i, scan.count + 1) \in Nat \ {0}
      <3>1. CASE scan.count + 1 <= scan.unfinished /\ scan.unfinished - (scan.count + 1) < 5
        <4>1. scan.unfinished - (scan.count + 1) \in 0..4
          BY <3>1 DEF NodeTypeOK
        <4> QED
          BY <3>1, <4>1 DEF NextFile, Unfinished
      <3>2. CASE ~(scan.count + 1 <= scan.unfinished /\ scan.unfinished - (scan.count + 1) < 5)
        BY <3>2 DEF NextFile, NodeTypeOK
      <3> QED
        BY <3>1, <3>2
    <2>3. scan' \in [last : 0..MaxOrbit, i : Nat \ {0}, count : Nat, unfinished : Nat]
      <3>1. scan.last \in 0..MaxOrbit /\ scan.i + 1 \in Nat \ {0} /\ scan.count + 1 \in Nat
            /\ scan \in [last : 0..MaxOrbit, i : Nat \ {0}, count : Nat, unfinished : Nat]
        BY DEF NodeTypeOK
      <3> DEFINE next == NextFile(scan.i, scan.count + 1)
      <3>2. next \in Nat \ {0}
        BY <2>2
      <3>3. \/ scan' = [scan EXCEPT !.count = scan.count + 1, !.i = next]
            \/ scan' = [scan EXCEPT !.i = scan.i + 1]
        BY <2>1
      <3> HIDE DEF next
      <3> QED
        BY <3>1, <3>2, <3>3
    <2>4. faults' \in 0..MaxFaults
      BY <2>1, OpensType
    <2> QED
      BY <1>4, <2>3, <2>4 DEF Scan, NodeTypeOK
  <1>5. CASE Number
    <2>1. orbit' \in 1..(MaxOrbit + 2) /\ file' \in File
      BY <1>5 DEF Number, FirstOrbit, NodeTypeOK, File, NodeAssumption
    <2>2. pc' \in Locations
      BY <1>5 DEF Number, Locations
    <2>3. scan' \in [last : 0..MaxOrbit, i : Nat \ {0}, count : Nat, unfinished : Nat]
      BY <1>5 DEF Number, NoScan, NodeAssumption
    <2> QED
      BY <1>5, <2>1, <2>2, <2>3 DEF Number, NodeTypeOK
  <1>6. CASE Create
    <2>1. head' \in [File -> Header]
      <3>1. WithHeader(file, status, position) \in [File -> Header]
        BY HeaderType DEF NodeTypeOK
      <3> QED
        BY <1>6, <3>1 DEF Create, NodeTypeOK
    <2>2. faults' \in 0..MaxFaults
      BY <1>6 DEF Create, Opens, NodeTypeOK, NodeAssumption
    <2>3. made' \subseteq File /\ pc' \in Locations
      BY <1>6 DEF Create, NodeTypeOK, Locations
    <2> QED
      BY <1>6, <2>1, <2>2, <2>3 DEF Create, NodeTypeOK
  <1>7. CASE Open
    <2>1. faults' \in 0..MaxFaults
      BY <1>7, OpensType DEF Open
    <2>2. made' \subseteq File /\ pc' \in Locations
      BY <1>7 DEF Open, AfterScience, NodeTypeOK, Locations, Polls
    <2> QED
      BY <1>7, <2>1, <2>2 DEF Open, NodeTypeOK
  <1>8. CASE Sample
    <2>1. [boot |-> boots, orbit |-> orbit] \in Line
      BY <1>8 DEF Sample, NodeTypeOK, MemoryInv, Line
    <2>2. lines' \in [File -> Seq(Line)]
      BY <1>8, <2>1 DEF Sample, NodeTypeOK
    <2> QED
      BY <1>8, <2>2 DEF Sample, NodeTypeOK
  <1>9. CASE Check
    <2>1. faults' \in 0..MaxFaults
      BY <1>9 DEF Check, NodeTypeOK, NodeAssumption
    <2>2. pc' \in Locations
      BY <1>9 DEF Check, Locations
    <2> QED
      BY <1>9, <2>1, <2>2 DEF Check, NodeTypeOK
  <1>10. CASE SendLine
    <2>1. position' \in Nat \ {0} /\ offered' \subseteq (File \X (Nat \ {0})) /\ read' \in BOOLEAN
      BY <1>10 DEF SendLine, NodeTypeOK
    <2> QED
      BY <1>10, <2>1 DEF SendLine, NodeTypeOK
  <1>11. CASE SendDone
    <2>1. faults' \in 0..MaxFaults
      BY <1>11, OpensType DEF SendDone, NodeTypeOK
    <2>2. pc' \in Locations /\ status' \in 0..1
      BY <1>11 DEF SendDone, TransferStatus, Locations
    <2>3. read' \in BOOLEAN
      BY <1>11 DEF SendDone
    <2> QED
      BY <1>11, <2>1, <2>2, <2>3 DEF SendDone, NodeTypeOK
  <1>12. CASE Mark
    <2>1. head' \in [File -> Header] /\ faults' \in 0..MaxFaults
      BY <1>12, HeaderType, OpensType DEF Mark, NodeTypeOK
    <2>2. pc' \in Locations
      BY <1>12 DEF Mark, Locations, Polls
    <2> QED
      BY <1>12, <2>1, <2>2 DEF Mark, NodeTypeOK
  <1>13. CASE Stay
    <2>1. faults' \in 0..MaxFaults
      BY <1>13, OpensType DEF Stay, NodeTypeOK
    <2>2. pc' \in Locations
      BY <1>13 DEF Stay, Locations
    <2> QED
      BY <1>13, <2>1, <2>2 DEF Stay, NodeTypeOK
  <1>14. CASE NextOrbit
    <2>1. orbit' \in 1..(MaxOrbit + 2) /\ file' \in File
      BY <1>14 DEF NextOrbit, NodeTypeOK, File, NodeAssumption
    <2>2. PICK ok \in BOOLEAN :
             /\ Opens(ok)
             /\ made' = IF ok THEN made \cup {file'} ELSE made
             /\ head' = IF ok THEN WithHeader(file', 0, 0) ELSE head
      BY <1>14 DEF NextOrbit
    <2>3. head' \in [File -> Header]
      BY <2>1, <2>2, HeaderType DEF NodeTypeOK
    <2>4. made' \subseteq File /\ faults' \in 0..MaxFaults
      BY <2>1, <2>2, OpensType DEF NodeTypeOK
    <2>5. pc' \in Locations
      BY <1>14 DEF NextOrbit, Locations
    <2> QED
      BY <1>14, <2>1, <2>3, <2>4, <2>5 DEF NextOrbit, NodeTypeOK
  <1>15. CASE Exhausted
    <2>1. orbit' \in 1..(MaxOrbit + 2)
      BY <1>15 DEF Exhausted, NodeTypeOK, MemoryInv, File, NodeAssumption
    <2>2. pc' \in Locations
      BY <1>15 DEF Exhausted, Locations
    <2> QED
      BY <1>15, <2>1, <2>2 DEF Exhausted, NodeTypeOK
  <1>16. CASE Restart
    <2>1. orbit' \in 1..(MaxOrbit + 2) /\ file' \in File /\ boots' \in 1..MaxBoots
      BY <1>16 DEF Restart, NodeTypeOK, File, NodeAssumption
    <2>2. pc' \in Locations /\ latitude' \in Latitudes
      BY <1>16 DEF Restart, Locations, Latitudes
    <2>3. scan' \in [last : 0..MaxOrbit, i : Nat \ {0}, count : Nat, unfinished : Nat]
      BY <1>16 DEF Restart, NoScan, NodeAssumption
    <2>4. setup' \in BOOLEAN /\ lock' \in BOOLEAN /\ read' \in BOOLEAN
      BY <1>16 DEF Restart
    <2> QED
      BY <1>16, <2>1, <2>2, <2>3, <2>4 DEF Restart, NodeTypeOK
  <1>17. CASE UNCHANGED vars
    BY <1>17 DEF vars, NodeTypeOK
  <1> QED
    BY <1>1, <1>2, <1>3, <1>4, <1>5, <1>6, <1>7, <1>8, <1>9, <1>10, <1>11, <1>12, <1>13,
       <1>14, <1>15, <1>16, <1>17 DEF Next, Run, Quiet
-----------------------------------------------------------------------------
(* The numbers of orbits and files. *)

\* Steps of a running node that leave files, numbers and lines alone.
Still ==
    \/ Quiet \/ Check \/ SendLine \/ SendDone \/ Mark \/ Stay

\* What all those steps have in common.
LEMMA StillFacts ==
    ASSUME NodeTypeOK, Still
    PROVE  /\ Running /\ Running' /\ pc # "create" /\ pc' # "create"
           /\ pc' = "science" => pc = "science"
           /\ UNCHANGED <<made, lines, scan, orbit, file, boots>>
  <1> USE DEF Running, card, orbitVars
  <1>1. CASE Quiet
    BY <1>1, QuietType
  <1>2. CASE Check
    BY <1>2 DEF Check
  <1>3. CASE SendLine
    BY <1>3 DEF SendLine
  <1>4. CASE SendDone
    BY <1>4 DEF SendDone
  <1>5. CASE Mark
    BY <1>5 DEF Mark
  <1>6. CASE Stay
    BY <1>6 DEF Stay
  <1> QED
    BY <1>1, <1>2, <1>3, <1>4, <1>5, <1>6 DEF Still

\* The number after a restart is that of the first file that does not exist.
LEMMA NumberFacts ==
    ASSUME NodeAssumption, IInv, Number
    PROVE  /\ file' = scan.last + 1 /\ orbit' = file'
           /\ 1..(file' - 1) \subseteq made
           /\ \A f \in made \cap Named : f <= scan.last
           /\ file' \notin made \cap Named
  <1> USE DEF IInv, NodeAssumption
  <1>1. scan.last \in 0..MaxOrbit /\ IsLast(scan.last)
    BY DEF Number, MemoryInv, NodeTypeOK
  <1>2. file' = scan.last + 1 /\ orbit' = file'
    BY <1>1 DEF Number, FirstOrbit
  <1>3. 1..(file' - 1) \subseteq made
    BY <1>1, <1>2 DEF IsLast
  <1>4. ASSUME NEW f \in made \cap Named PROVE f <= scan.last
    <2>1. f \in 1..MaxOrbit /\ 1..f \subseteq made
      BY DEF CardInv, NoGaps, Named
    <2>2. CASE scan.last = MaxOrbit
      BY <2>1, <2>2
    <2>3. CASE scan.last + 1 \notin made
      BY <2>1, <2>3, <1>1
    <2> QED
      BY <2>2, <2>3, <1>1 DEF IsLast
  <1>5. file' \notin made \cap Named
    <2>1. CASE scan.last = MaxOrbit
      BY <2>1, <1>1, <1>2 DEF Named
    <2>2. CASE scan.last + 1 \notin made
      BY <2>2, <1>2
    <2> QED
      BY <2>1, <2>2, <1>1 DEF IsLast
  <1> QED
    BY <1>2, <1>3, <1>4, <1>5

\* The next orbit has a new file, right after the last.
LEMMA NextFacts ==
    ASSUME NodeAssumption, IInv, NextOrbit
    PROVE  /\ file' = file + 1 /\ orbit' = file' /\ file' \in Named /\ file' \in File
           /\ 1..file \subseteq made
           /\ \A f \in made \cap Named : f < file'
           /\ file' \notin made
           /\ lines[file'] = <<>>
  <1> USE DEF IInv, NodeAssumption
  <1>1. Running /\ file = orbit /\ file \in 1..(MaxOrbit + 1)
    BY DEF NextOrbit, MemoryInv, NodeTypeOK, File, Running
  <1>2. file' = file + 1 /\ orbit' = file' /\ file' \in Named /\ file' \in File /\ file \in Named
    BY <1>1 DEF NextOrbit, Named, File
  <1>3. file \in made
    BY <1>2 DEF NextOrbit, HasData, CardInv, File, Named
  <1>4. 1..file \subseteq made
    BY <1>2, <1>3 DEF CardInv, NoGaps
  <1>5. \A f \in made \cap Named : f <= file
    BY <1>1 DEF CardInv
  <1>6. \A f \in made \cap Named : f < file'
    BY <1>1, <1>2, <1>5 DEF Named
  <1>7. file' \notin made
    BY <1>2, <1>6 DEF Named
  <1>8. lines[file'] = <<>>
    BY <1>2, <1>7 DEF CardInv
  <1> QED
    BY <1>2, <1>4, <1>6, <1>7, <1>8

\* Every step keeps the numbers in memory right.
LEMMA MemoryStep ==
    ASSUME NodeAssumption, IInv, [Next]_vars
    PROVE  MemoryInv'
  <1> USE DEF IInv, MemoryInv
  <1>1. CASE Still
    <2>1. Running /\ Running' /\ UNCHANGED <<orbit, file>>
      BY <1>1, StillFacts
    <2> QED
      BY <2>1 DEF Running
  <1>2. CASE Boot
    <2>1. IsLast(scan'.last) /\ pc' = "scan" /\ UNCHANGED <<made, orbit, file, position>>
      BY <1>2 DEF Boot, orbitVars, card
    <2> QED
      BY <1>2, <2>1 DEF Boot, IsLast
  <1>9. CASE NoCard
    BY <1>9 DEF NoCard, orbitVars
  <1>3. CASE Scan
    <2>1. scan'.last = scan.last
      BY <1>3 DEF Scan, NodeTypeOK
    <2> QED
      BY <1>3, <2>1 DEF Scan, orbitVars, card, IsLast
  <1>4. CASE Number
    BY <1>4, NumberFacts DEF Number
  <1>5. CASE Create \/ Open \/ Sample
    BY <1>5 DEF Create, Open, Sample, AfterScience, orbitVars
  <1>6. CASE NextOrbit
    BY <1>6, NextFacts DEF NextOrbit
  <1>7. CASE Exhausted \/ Restart
    BY <1>7 DEF Exhausted, Restart
  <1>8. CASE UNCHANGED vars
    BY <1>8 DEF vars, card, orbitVars, IsLast
  <1> QED
    BY <1>1, <1>2, <1>3, <1>4, <1>5, <1>6, <1>7, <1>8, <1>9 DEF Next, Run, Quiet, Still

\* Every step leaves the files without gaps.
LEMMA CardStep ==
    ASSUME NodeAssumption, IInv, [Next]_vars
    PROVE  CardInv'
  <1> USE DEF IInv, CardInv, NoGaps
  <1>1. CASE Still
    <2>1. /\ Running /\ Running' /\ pc' # "create"
          /\ pc' = "science" => pc = "science"
          /\ UNCHANGED <<made, lines, file>>
      BY <1>1, StillFacts
    <2> QED
      BY <2>1
  <1>2. CASE Boot \/ NoCard \/ Scan \/ Exhausted \/ Restart
    <2>1. /\ pc' \in {"boot", "scan", "halted"}
          /\ UNCHANGED <<made, lines>>
      BY <1>2 DEF Boot, NoCard, Scan, Exhausted, Restart, card
    <2> QED
      BY <2>1 DEF Running
  <1>3. CASE Number
    <2>1. /\ file' = scan.last + 1
          /\ 1..(file' - 1) \subseteq made
          /\ \A f \in made \cap Named : f <= scan.last
          /\ file' \notin made \cap Named
      BY <1>3, NumberFacts
    <2>2. UNCHANGED <<made, lines>> /\ pc' = "create"
      BY <1>3 DEF Number, card
    <2>3. scan.last \in Nat
      BY DEF NodeTypeOK
    <2>4. \A f \in made' \cap Named : f <= file'
      BY <2>1, <2>2, <2>3 DEF Named
    <2> QED
      BY <2>1, <2>2, <2>4 DEF Running
  <1>4. CASE Create \/ Open
    <2>1. /\ Running
          /\ made' \in {made, made \cup {file}}
          /\ pc' = "science" => file \in made'
          /\ pc' \notin {"create", "boot", "scan", "halted"}
          /\ UNCHANGED <<lines, file>>
      BY <1>4 DEF Create, Open, AfterScience, orbitVars, Running
    <2>2. file \in Nat
      BY DEF NodeTypeOK, File
    <2>3. NoGaps'
      <3> SUFFICES ASSUME NEW f \in made' \cap Named PROVE 1..f \subseteq made'
        BY DEF NoGaps
      <3>1. CASE f \in made
        BY <3>1, <2>1
      <3>2. CASE f = file
        BY <3>2, <2>1, <2>2
      <3> QED
        BY <3>1, <3>2, <2>1
    <2>4. \A f \in made' \cap Named : f <= file
      BY <2>1, <2>2
    <2> QED
      BY <2>1, <2>3, <2>4
  <1>5. CASE Sample
    <2>1. /\ file \in made /\ Running /\ Running' /\ pc' = "science"
          /\ UNCHANGED <<made, file>>
          /\ \A f \in File : f # file => lines'[f] = lines[f]
      BY <1>5 DEF Sample, orbitVars, Running, NodeTypeOK
    <2> QED
      BY <2>1
  <1>6. CASE NextOrbit
    <2>1. /\ file' = file + 1
          /\ 1..file \subseteq made
          /\ \A f \in made \cap Named : f < file'
      BY <1>6, NextFacts
    <2>2. /\ made' \in {made, made \cup {file'}}
          /\ UNCHANGED lines /\ pc' = "top"
      BY <1>6 DEF NextOrbit
    <2>3. file \in Nat
      BY DEF NodeTypeOK, File
    <2>4. 1..(file' - 1) \subseteq made'
      BY <2>1, <2>2, <2>3
    <2>5. NoGaps'
      <3> SUFFICES ASSUME NEW f \in made' \cap Named PROVE 1..f \subseteq made'
        BY DEF NoGaps
      <3>1. CASE f \in made
        BY <3>1, <2>2
      <3>2. CASE f = file'
        BY <3>2, <2>1, <2>2, <2>3
      <3> QED
        BY <3>1, <3>2, <2>2
    <2>6. \A f \in made' \cap Named : f <= file'
      BY <2>1, <2>2, <2>3 DEF Named
    <2> QED
      BY <2>2, <2>4, <2>5, <2>6
  <1>7. CASE UNCHANGED vars
    BY <1>7 DEF vars, card, orbitVars, Running
  <1> QED
    BY <1>1, <1>2, <1>3, <1>4, <1>5, <1>6, <1>7 DEF Next, Run, Quiet, Still
-----------------------------------------------------------------------------
(* The lines. *)

\* Every step keeps lines of one orbit and one run in a file.
LEMMA LinesStep ==
    ASSUME NodeAssumption, IInv, [Next]_vars
    PROVE  LinesInv'
  <1> USE DEF IInv, LinesInv
  <1>1. CASE Still
    <2>1. Running /\ UNCHANGED <<lines, file, boots>>
      BY <1>1, StillFacts
    <2> QED
      BY <2>1
  <1>2. CASE Boot \/ NoCard \/ Scan \/ Exhausted \/ Restart
    <2>1. pc' \in {"boot", "scan", "halted"} /\ UNCHANGED lines
      BY <1>2 DEF Boot, NoCard, Scan, Exhausted, Restart, card
    <2> QED
      BY <2>1 DEF Running
  <1>3. CASE Number
    <2>1. file' \notin made \cap Named /\ UNCHANGED lines
      BY <1>3, NumberFacts DEF Number, card
    <2>2. file' \in Named => lines[file'] = <<>>
      BY <2>1 DEF CardInv, Named, File
    <2> QED
      BY <2>1, <2>2
  <1>4. CASE Create \/ Open
    <2>1. Running /\ UNCHANGED <<lines, file, boots>>
      BY <1>4 DEF Create, Open, orbitVars, Running
    <2> QED
      BY <2>1
  <1>5. CASE Sample
    <2> DEFINE line == [boot |-> boots, orbit |-> orbit]
    <2>1. /\ Running /\ UNCHANGED <<file, boots>>
          /\ orbit = file /\ file \in File
          /\ lines' = [lines EXCEPT ![file] = Append(lines[file], line)]
          /\ lines \in [File -> Seq(Line)] /\ boots \in 1..MaxBoots
      BY <1>5 DEF Sample, orbitVars, Running, MemoryInv, NodeTypeOK
    <2>2. line \in Line /\ line.boot = boots /\ line.orbit = file
      BY <2>1 DEF Line
    <2>3. \A f \in File : f # file => lines'[f] = lines[f]
      BY <2>1
    <2>4. lines'[file] = Append(lines[file], line) /\ lines[file] \in Seq(Line)
      BY <2>1
    <2> HIDE DEF line
    <2>5. ASSUME NEW k \in DOMAIN lines'[file]
          PROVE  \/ k \in DOMAIN lines[file] /\ lines'[file][k] = lines[file][k]
                 \/ lines'[file][k] = line
      BY <2>2, <2>4
    <2>6. CASE file \in Named
      <3>1. ASSUME NEW k \in DOMAIN lines'[file]
            PROVE  lines'[file][k].orbit = file /\ lines'[file][k].boot = boots
        BY <2>1, <2>2, <2>5, <2>6
      <3>2. ASSUME NEW f \in Named, f # file PROVE lines'[f] = lines[f]
        BY <2>3, <3>2 DEF Named, File
      <3> QED
        BY <2>1, <3>1, <3>2
    <2>7. CASE file \notin Named
      <3>1. \A f \in Named : lines'[f] = lines[f]
        BY <2>3, <2>7 DEF Named, File
      <3> QED
        BY <2>1, <2>7, <3>1
    <2> QED
      BY <2>6, <2>7
  <1>6. CASE NextOrbit
    <2>1. lines[file'] = <<>> /\ UNCHANGED lines
      BY <1>6, NextFacts DEF NextOrbit
    <2> QED
      BY <2>1
  <1>7. CASE UNCHANGED vars
    BY <1>7 DEF vars, card, orbitVars, Running
  <1> QED
    BY <1>1, <1>2, <1>3, <1>4, <1>5, <1>6, <1>7 DEF Next, Run, Quiet, Still

-----------------------------------------------------------------------------
(* What has been sent, and what the headers say. *)

\* Every step keeps the account of what has been sent.
LEMMA SentStep ==
    ASSUME NodeAssumption, IInv, [Next]_vars
    PROVE  SentInv'
  <1> USE DEF IInv, SentInv
  <1>1. CASE Quiet
    <2>1. UNCHANGED <<made, file, position, status, read, offered>> /\ Running
      BY <1>1, QuietType DEF card, orbitVars, Running
    <2>2. ~read
      BY <1>1, QuietType
    <2> QED
      BY <2>1, <2>2
  <1>2. CASE Check \/ Stay \/ Mark
    <2>1. UNCHANGED <<made, file, position, status, read, offered>> /\ Running /\ pc # "send"
      BY <1>2 DEF Check, Stay, Mark, card, orbitVars, Running
    <2> QED
      BY <2>1
  <1>3. CASE SendLine
    <2>1. /\ position < Len(lines[file])
          /\ offered' = offered \cup {<<file, position + 1>>}
          /\ position' = position + 1 /\ pc' = "send"
          /\ UNCHANGED <<made, file, status>> /\ Running
      BY <1>3 DEF SendLine, card, Running
    <2>2. position \in Nat /\ file \in File
      BY DEF NodeTypeOK
    <2>3. file \in made
      BY <2>1, <2>2 DEF CardInv
    <2>4. \A k \in 1..position' : <<file, k>> \in offered'
      BY <2>1, <2>2
    <2>5. \A f \in File, k \in Nat : <<f, k>> \in offered' => f \in made
      BY <2>1, <2>3
    <2>6. file \in Named => \A k \in Nat : <<file, k>> \in offered' => k <= position'
      BY <2>1, <2>2
    <2> QED
      BY <2>1, <2>2, <2>4, <2>5, <2>6
  <1>4. CASE SendDone
    <2>1. UNCHANGED <<made, file, position, offered>> /\ Running /\ read' = FALSE
      BY <1>4 DEF SendDone, card, Running
    <2>2. status' = 1 => position > 0
      BY <1>4 DEF SendDone, TransferStatus
    <2> QED
      BY <2>1, <2>2
  <1>5. CASE Boot \/ NoCard \/ Scan \/ Exhausted
    <2>1. /\ UNCHANGED <<made, file, position, status, read, offered>>
          /\ pc' \in {"boot", "scan", "halted"} /\ pc # "send"
      BY <1>5 DEF Boot, NoCard, Scan, Exhausted, card, orbitVars
    <2> QED
      BY <2>1 DEF Running
  <1>6. CASE Number
    <2>1. position = 0 /\ UNCHANGED <<made, position, status, read, offered>> /\ pc # "send"
      BY <1>6 DEF Number, MemoryInv, card
    <2>2. file' \notin made \cap Named
      BY <1>6, NumberFacts
    <2>3. file' \in Named => \A k \in Nat : <<file', k>> \notin offered
      BY <2>2 DEF Named, File
    <2> QED
      BY <2>1, <2>3
  <1>7. CASE Create \/ Open
    <2>1. /\ UNCHANGED <<file, position, status, read, offered>>
          /\ made \subseteq made' /\ Running /\ pc # "send"
      BY <1>7 DEF Create, Open, orbitVars, Running
    <2> QED
      BY <2>1
  <1>8. CASE Sample
    <2>1. /\ UNCHANGED <<made, file, position, status, read, offered>> /\ Running /\ pc # "send"
      BY <1>8 DEF Sample, orbitVars, Running
    <2> QED
      BY <2>1
  <1>9. CASE NextOrbit
    <2>1. /\ position' = 0 /\ status' = 0 /\ UNCHANGED <<read, offered>> /\ pc # "send"
          /\ made \subseteq made'
      BY <1>9 DEF NextOrbit
    <2>2. file' \notin made /\ file' \in File
      BY <1>9, NextFacts
    <2>3. \A k \in Nat : <<file', k>> \notin offered
      BY <2>2
    <2> QED
      BY <2>1, <2>3
  <1>10. CASE Restart
    <2>1. /\ position' = 0 /\ status' = 0 /\ read' = FALSE /\ pc' = "boot"
          /\ UNCHANGED <<made, offered>>
      BY <1>10 DEF Restart, card
    <2> QED
      BY <2>1 DEF Running
  <1>11. CASE UNCHANGED vars
    BY <1>11 DEF vars, card, orbitVars, Running
  <1> QED
    BY <1>1, <1>2, <1>3, <1>4, <1>5, <1>6, <1>7, <1>8, <1>9, <1>10, <1>11
       DEF Next, Run, Quiet

\* A header that may promise something keeps its promise.
HeadOK(f) ==
    /\ head[f].status = 1 =>
          /\ head[f].position > 0
          /\ \A k \in 1..head[f].position : <<f, k>> \in offered
    /\ faults = 0 => (head[f].written => <<f, 1>> \in offered)

\* The two properties of headers, file by file.
LEMMA HeadInvByFile ==
    (CompleteUpToPosition /\ OnlySentIsOverwritten) <=> \A f \in Named : HeadOK(f)
  BY DEF CompleteUpToPosition, OnlySentIsOverwritten, HeadOK

\* Steps that write no header.
LEMMA HeadKept ==
    ASSUME NodeTypeOK, HeadInv, UNCHANGED head, offered \subseteq offered', faults <= faults'
    PROVE  \A f \in Named : HeadOK(f)'
  <1>1. \A f \in Named : HeadOK(f)
    BY HeadInvByFile DEF HeadInv
  <1>2. faults \in Nat /\ (faults' = 0 => faults = 0)
    BY DEF NodeTypeOK
  <1> QED
    BY <1>1, <1>2 DEF HeadOK

\* Every step keeps the headers true.
LEMMA HeadStep ==
    ASSUME NodeAssumption, IInv, [Next]_vars
    PROVE  HeadInv'
  <1> USE DEF IInv
  <1> SUFFICES /\ \A f \in Named : HeadOK(f)'
               /\ (pc = "mark" /\ faults = 0 => position = Len(lines[file]))'
    BY HeadInvByFile DEF HeadInv, CompleteUpToPosition, OnlySentIsOverwritten, HeadOK
  <1>1. CASE Quiet
    <2>1. UNCHANGED <<head, offered, faults>> /\ pc' # "mark" /\ faults <= faults'
      BY <1>1, QuietType DEF card, NodeTypeOK
    <2> QED
      BY <2>1, HeadKept
  <1>2. CASE Boot \/ NoCard \/ Scan \/ Number \/ Open \/ Sample \/ Check \/ SendLine
             \/ Stay \/ Exhausted \/ Restart
    <2>1. UNCHANGED head /\ offered \subseteq offered' /\ pc' # "mark"
      BY <1>2 DEF Boot, NoCard, Scan, Number, Open, Sample, Check, SendLine, Stay, Exhausted,
                  Restart, AfterScience, card
    <2>2. faults <= faults'
      <3>1. CASE Boot
        <4>1. PICK n \in 0..MaxOrbit, unread \in SUBSET Named :
                 /\ unread \subseteq {f \in 1..n : Status(f) = 0}
                 /\ faults' = faults + Cardinality(unread)
          BY <3>1 DEF Boot
        <4>2. Cardinality(unread) \in Nat
          BY <4>1, UnreadIsFinite
        <4> QED
          BY <4>1, <4>2 DEF NodeTypeOK
      <3>2. CASE ~Boot
        BY <1>2, <3>2 DEF NoCard, Scan, Number, Open, Sample, Check, SendLine, Stay, Exhausted,
                          Restart, Opens, NodeTypeOK
      <3> QED
        BY <3>1, <3>2
    <2> QED
      BY <2>1, <2>2, HeadKept
  <1>3. CASE SendDone
    <2>1. UNCHANGED <<head, offered, position, lines, file>> /\ faults <= faults'
      BY <1>3 DEF SendDone, Opens, card, NodeTypeOK
    <2>2. faults' = 0 => position = Len(lines[file])
      BY <1>3 DEF SendDone, Opens, NodeTypeOK
    <2> QED
      BY <2>1, <2>2, HeadKept
  <1>4. CASE Create
    <2>1. /\ faults <= faults' /\ UNCHANGED <<offered, lines, file>> /\ pc' # "mark"
          /\ head' \in {head, WithHeader(file, status, position)}
      BY <1>4 DEF Create, Opens, orbitVars, NodeTypeOK
    <2>2. \A f \in Named : head'[f] = head[f]
      <3>1. pc = "create" /\ file \in File
        BY <1>4 DEF Create, NodeTypeOK
      <3>2. CASE file \in Named
        <4>1. lines[file] = <<>>
          BY <3>1, <3>2 DEF CardInv
        <4> QED
          BY <2>1, <4>1 DEF WithHeader
      <3>3. CASE file \notin Named
        <4>1. \A f \in Named : f \in File /\ f # file
          BY <3>3 DEF Named, File, NodeAssumption
        <4>2. ASSUME NEW f \in Named PROVE head'[f] = head[f]
          <5>1. f \in File /\ f # file /\ file \in File
            BY <3>1, <4>1
          <5>2. CASE head' = WithHeader(file, status, position)
            <6>1. head \in [File -> Header]
              BY DEF NodeTypeOK
            <6> QED
              BY <5>1, <5>2, <6>1 DEF WithHeader
          <5> QED
            BY <2>1, <5>2
        <4> QED
          BY <4>2
      <3> QED
        BY <3>2, <3>3
    <2>3. \A f \in Named : HeadOK(f)
      BY HeadInvByFile DEF HeadInv
    <2>4. faults' = 0 => faults = 0
      BY <2>1 DEF NodeTypeOK
    <2> QED
      BY <2>1, <2>2, <2>3, <2>4 DEF HeadOK
  <1>5. CASE Mark
    <2>1. /\ faults <= faults' /\ UNCHANGED <<offered, lines, file, position>> /\ pc' # "mark"
          /\ head' \in {head, WithHeader(file, status, position)}
          /\ pc = "mark"
      BY <1>5 DEF Mark, Opens, orbitVars, NodeTypeOK
    <2>2. \A f \in Named : HeadOK(f)
      BY HeadInvByFile DEF HeadInv
    <2>3. faults' = 0 => faults = 0
      BY <2>1 DEF NodeTypeOK
    <2>4. ASSUME NEW f \in Named PROVE HeadOK(f)'
      <3>1. CASE head'[f] = head[f]
        BY <3>1, <2>1, <2>2, <2>3 DEF HeadOK
      <3>2. CASE head'[f] # head[f]
        <4>1. /\ f = file /\ lines[file] # <<>>
              /\ head'[f] = [status |-> status, position |-> position, written |-> TRUE]
          <5>1. file \in File /\ f \in File
            BY DEF NodeTypeOK, Named, File
          <5>2. head' = WithHeader(file, status, position)
            BY <2>1, <3>2
          <5> QED
            BY <5>1, <5>2, <3>2, WithHeaderAt
        <4>2. status = 1 => position > 0 /\ \A k \in 1..position : <<file, k>> \in offered
          BY DEF SentInv
        <4>3. faults = 0 => <<file, 1>> \in offered
          <5> SUFFICES ASSUME faults = 0 PROVE <<file, 1>> \in offered
            OBVIOUS
          <5>1. position = Len(lines[file]) /\ lines[file] \in Seq(Line)
            BY <2>1 DEF HeadInv, NodeTypeOK
          <5>2. 1 \in 1..position
            BY <5>1, <4>1
          <5> QED
            BY <5>2 DEF SentInv
        <4> QED
          BY <4>1, <4>2, <4>3, <2>1, <2>3 DEF HeadOK
      <3> QED
        BY <3>1, <3>2
    <2> QED
      BY <2>1, <2>4
  <1>6. CASE NextOrbit
    <2>1. lines[file'] = <<>>
      BY <1>6, NextFacts
    <2>2. UNCHANGED <<head, offered>> /\ faults <= faults' /\ pc' # "mark"
      BY <1>6, <2>1 DEF NextOrbit, WithHeader, Opens, NodeTypeOK
    <2> QED
      BY <2>2, HeadKept
  <1>7. CASE UNCHANGED vars
    <2>1. UNCHANGED <<head, offered, faults, pc, position, lines, file>>
      BY <1>7 DEF vars, card, orbitVars
    <2>2. faults <= faults'
      BY <2>1 DEF NodeTypeOK
    <2> QED
      BY <2>1, <2>2, HeadKept DEF HeadInv
  <1> QED
    BY <1>1, <1>2, <1>3, <1>4, <1>5, <1>6, <1>7 DEF Next, Run, Quiet
-----------------------------------------------------------------------------
(* The theorems. *)

\* The invariant holds in every state of the specification.
LEMMA Inductive == NodeSpec => []IInv
  <1>1. Init => IInv
    BY InitInv, NodeAssumption
  <1>2. IInv /\ [Next]_vars => IInv'
    BY TypeStep, MemoryStep, CardStep, LinesStep, SentStep, HeadStep, NodeAssumption DEF IInv
  <1> QED
    BY <1>1, <1>2, PTL DEF NodeSpec

\* The variables of a node have their types: in particular no step names a file
\* that set() cannot name or reads a header that is not there.
THEOREM NodeTypes == NodeSpec => []NodeTypeOK
  <1>1. IInv => NodeTypeOK
    BY DEF IInv
  <1> QED
    BY <1>1, Inductive, PTL

\* An orbit file holds the lines of its own orbit and of one run of the node,
\* over any number of restarts and failing opens (AndesiteFile.cpp:51-67).
THEOREM OneOrbitPerFile == NodeSpec => []FileHoldsItsOrbit
  <1>1. IInv => FileHoldsItsOrbit
    <2> SUFFICES ASSUME IInv, NEW f \in Named, NEW k \in DOMAIN lines[f]
                 PROVE  lines[f][k].orbit = f /\ lines[f][k].boot = lines[f][1].boot
      BY DEF FileHoldsItsOrbit
    <2>1. lines[f] \in Seq(Line)
      BY NodeAssumption DEF IInv, NodeTypeOK, Named, File, NodeAssumption
    <2>2. 1 \in DOMAIN lines[f]
      BY <2>1
    <2> QED
      BY <2>2 DEF IInv, LinesInv
  <1> QED
    BY <1>1, Inductive, PTL

\* The scan of the next boot finds every orbit file (AndesiteFile.cpp:342-350).
THEOREM NoFileIsMissed == NodeSpec => []NoGaps
  <1>1. IInv => NoGaps
    BY DEF IInv, CardInv
  <1> QED
    BY <1>1, Inductive, PTL

\* A header never claims more than has been passed to the radio
\* (AndesiteWSN.cpp:352-370).
THEOREM HeadersAreTrue == NodeSpec => []CompleteUpToPosition
  <1>1. IInv => CompleteUpToPosition
    BY DEF IInv, HeadInv
  <1> QED
    BY <1>1, Inductive, PTL

\* While no open fails, a header overwrites nothing that has not been sent
\* (AndesiteOrbit.cpp:145-146).
THEOREM OverwrittenWasSent == NodeSpec => []OnlySentIsOverwritten
  <1>1. IInv => OnlySentIsOverwritten
    BY DEF IInv, HeadInv
  <1> QED
    BY <1>1, Inductive, PTL

\* No line is passed to the radio twice, however often the MULE asks
\* (AndesiteFile.cpp:104-137).
THEOREM NoLineTwice == NodeSpec => SentOnce
  <1> DEFINE Once == pc = "send" /\ position' # position /\ file \in Named
                       => <<file, position'>> \notin offered
  <1>1. IInv /\ [Next]_vars => Once
    <2> SUFFICES ASSUME IInv, [Next]_vars, pc = "send", position' # position, file \in Named
                 PROVE  <<file, position'>> \notin offered
      OBVIOUS
    <2>1. position \in Nat /\ Running
      BY DEF IInv, NodeTypeOK, Running
    <2>2. \A k \in Nat : <<file, k>> \in offered => k <= position
      BY <2>1 DEF IInv, SentInv
    <2>3. CASE SendLine
      BY <2>1, <2>2, <2>3 DEF SendLine
    <2>4. CASE Restart
      <3>1. position' = 0
        BY <2>4 DEF Restart
      <3>2. <<file, 0>> \notin offered
        BY DEF IInv, NodeTypeOK
      <3> QED
        BY <3>1, <3>2
    <2>5. CASE SendDone \/ UNCHANGED vars
      BY <2>5 DEF SendDone, vars, orbitVars
    <2> QED
      BY <2>3, <2>4, <2>5 DEF Next, Run, Boot, NoCard, Scan, Number, Create, Fix, TimeUp, NotYet,
         PollLatitude, Top, Open, WaitScienceFinish, Check, Ready, Announce, Await, Mark,
         WaitOrbitFinish, Stay, NextOrbit, Exhausted, Sample, Polls
  <1> QED
    BY <1>1, Inductive, PTL DEF NodeSpec, SentOnce

\* A lost fix stays lost until the next boot (AndesiteOrbit.cpp:51-75 and its
\* callers).
THEOREM FixStaysLost == NodeSpec => LostFixStaysLost
  <1> DEFINE Lost == ~lock /\ lock' => pc = "fix"
  <1>1. [Next]_vars => Lost
    <2> SUFFICES ASSUME [Next]_vars, ~lock, lock', pc # "fix" PROVE FALSE
      OBVIOUS
    <2>1. CASE TimeUp \/ NotYet \/ Top \/ Ready \/ Announce \/ Await
      BY <2>1 DEF TimeUp, NotYet, Top, Ready, Announce, Await, gps
    <2>2. CASE PollLatitude
      BY <2>2 DEF PollLatitude, ByClock
    <2>3. CASE WaitScienceFinish \/ WaitOrbitFinish
      BY <2>3 DEF WaitScienceFinish, WaitOrbitFinish, gps
    <2>4. CASE Boot \/ NoCard \/ Scan \/ Number \/ Create \/ Open \/ Sample \/ Check
      BY <2>4 DEF Boot, NoCard, Scan, Number, Create, Open, Sample, Check, gps
    <2>5. CASE SendLine \/ SendDone \/ Mark \/ Stay \/ NextOrbit \/ Exhausted
      BY <2>5 DEF SendLine, SendDone, Mark, Stay, NextOrbit, Exhausted, gps
    <2>6. CASE Fix \/ Restart \/ UNCHANGED vars
      BY <2>6 DEF Fix, Restart, vars, gps
    <2> QED
      BY <2>1, <2>2, <2>3, <2>4, <2>5, <2>6 DEF Next, Run
  <1> QED
    BY <1>1, PTL DEF NodeSpec, LostFixStaysLost

-----------------------------------------------------------------------------
(* The scan of the card ends. *)

\* One pass fewer.
LEMMA OneFewer ==
    ASSUME NEW x \in Nat, NEW d \in Nat \ {0}
    PROVE  x * d = x * (d - 1) + x /\ x * (d - 1) \in Nat
  OBVIOUS

\* The file that is looked at next is one of those there are, or past the last.
LEMMA NextFileIs ==
    ASSUME NodeTypeOK, scan.i <= scan.last, NEW count \in Nat
    PROVE  /\ NextFile(scan.i, count) \in 1..(scan.last + 1)
           /\ count > scan.unfinished => NextFile(scan.i, count) = scan.i + 1
  <1>1. /\ scan.i \in Nat \ {0} /\ scan.last \in Nat /\ scan.unfinished \in Nat
        /\ scan.i + 1 \in 1..(scan.last + 1)
    BY DEF NodeTypeOK
  <1>2. CASE count <= scan.unfinished /\ scan.unfinished - count < 5
    <2>1. scan.unfinished - count \in 0..4
      BY <1>1, <1>2
    <2>2. Unfinished[scan.unfinished - count] \in {0, 1}
      BY <2>1 DEF Unfinished
    <2> QED
      BY <1>1, <1>2, <2>2 DEF NextFile
  <1>3. CASE ~(count <= scan.unfinished /\ scan.unfinished - count < 5)
    BY <1>1, <1>3 DEF NextFile
  <1> QED
    BY <1>1, <1>2, <1>3

\* A round of the scan counts an unfinished file, which makes up for going back
\* to the first files, or goes on to the next.
LEMMA ScanFewer ==
    ASSUME NodeTypeOK, Scan
    PROVE  ScanLeft > 0 /\ ScanLeft' \in 0..(ScanLeft - 1)
  <1> DEFINE last == scan.last
             i == scan.i
             count == scan.count
             uncounted == IF count < scan.unfinished THEN scan.unfinished - count ELSE 0
             passes == (last + 1) * uncounted
  <1>1. /\ last \in Nat /\ i \in 1..last /\ count \in Nat /\ scan.unfinished \in Nat
        /\ scan \in [last : 0..MaxOrbit, i : Nat \ {0}, count : Nat, unfinished : Nat]
    BY DEF NodeTypeOK, Scan
  <1>2. \/ scan' = [scan EXCEPT !.count = count + 1, !.i = NextFile(i, count + 1)]
        \/ scan' = [scan EXCEPT !.i = i + 1]
    BY DEF Scan
  <1>3. ScanLeft = passes + (last + 1 - i)
    BY DEF ScanLeft
  <1>4. ScanLeft' = (last + 1) * uncounted' + (last + 1 - i')
    BY <1>1, <1>2 DEF ScanLeft
  <1>5. NextFile(i, count + 1) \in 1..(last + 1)
        /\ (count + 1 > scan.unfinished => NextFile(i, count + 1) = i + 1)
    BY <1>1, NextFileIs
  <1>6. uncounted \in Nat /\ passes \in Nat
    <2>1. uncounted \in Nat
      BY <1>1
    <2> HIDE DEF uncounted
    <2> QED
      BY <1>1, <2>1
  <1>7. CASE count < scan.unfinished
             /\ scan' = [scan EXCEPT !.count = count + 1, !.i = NextFile(i, count + 1)]
    <2>1. uncounted' = uncounted - 1 /\ uncounted \in Nat \ {0}
      BY <1>1, <1>7
    <2>2. i' \in 1..(last + 1)
      BY <1>1, <1>5, <1>7
    <2>3. passes = (last + 1) * uncounted' + (last + 1) /\ (last + 1) * uncounted' \in Nat
      <3>1. last + 1 \in Nat
        BY <1>1
      <3> HIDE DEF uncounted, last
      <3> QED
        BY <2>1, <3>1, OneFewer
    <2> HIDE DEF last, i, passes, uncounted
    <2> QED
      BY <1>1, <1>3, <1>4, <2>2, <2>3
  <1>8. CASE \/ ~(count < scan.unfinished)
             \/ scan' = [scan EXCEPT !.i = i + 1]
    <2>1. uncounted' = uncounted /\ i' = i + 1
      <3>1. CASE scan' = [scan EXCEPT !.i = i + 1]
        BY <1>1, <3>1
      <3>2. CASE ~(count < scan.unfinished)
                 /\ scan' = [scan EXCEPT !.count = count + 1, !.i = NextFile(i, count + 1)]
        <4>1. scan'.i = NextFile(i, count + 1) /\ scan'.count = count + 1
              /\ scan'.unfinished = scan.unfinished
          BY <1>1, <3>2
        <4>2. NextFile(i, count + 1) = i + 1
          BY <1>1, <1>5, <3>2
        <4> QED
          BY <1>1, <3>2, <4>1, <4>2
      <3> QED
        BY <1>2, <1>8, <3>1, <3>2
    <2> HIDE DEF last, i, uncounted
    <2> QED
      BY <1>1, <1>3, <1>4, <1>6, <2>1
  <1> QED
    BY <1>2, <1>7, <1>8

\* The loop that sets its own index (AndesiteFile.cpp:358-366) ends, whatever is
\* on the card, whichever opens fail and however many orbits there are: each
\* round takes at least one from a number that cannot pass zero.
THEOREM ScanComesToAnEnd == NodeSpec => ScanEnds
  <1> DEFINE Fewer == pc = "scan" /\ pc' = "scan" => ScanLeft > 0 /\ ScanLeft' \in 0..(ScanLeft - 1)
  <1>1. IInv /\ [Next]_vars => [Fewer]_vars
    <2> SUFFICES ASSUME IInv, Next, pc = "scan", pc' = "scan"
                 PROVE  ScanLeft > 0 /\ ScanLeft' \in 0..(ScanLeft - 1)
      OBVIOUS
    <2>1. Scan
      BY DEF Next, Run, Boot, NoCard, Number, Create, Fix, TimeUp, NotYet, PollLatitude, Top,
         Open, WaitScienceFinish, Check, Ready, Announce, Await, SendLine, SendDone, Mark,
         WaitOrbitFinish, Stay, NextOrbit, Exhausted, Sample, Restart, Polls
    <2> QED
      BY <2>1, ScanFewer DEF IInv
  <1> QED
    BY <1>1, Inductive, PTL DEF NodeSpec, ScanEnds

-----------------------------------------------------------------------------
(* The card and the downlink implement OrbitArchive. *)

\* The files, with their lines, and the lines sent, as OrbitArchive sees them.
Begun == made \cap Named
Kept == [f \in Begun |-> lines[f]]
SentNamed == {line \in offered : line[1] \in Named}

\* Steps that add no file, no line and send nothing leave them alone.
LEMMA KeptStays ==
    ASSUME UNCHANGED <<made, lines, offered>>
    PROVE  Kept' = Kept /\ SentNamed' = SentNamed
  BY DEF Kept, Begun, SentNamed

\* What is done to a file past the last number is not seen.
LEMMA KeptUnnamed ==
    ASSUME NEW file0, file0 \notin Named, UNCHANGED offered,
           made' \in {made, made \cup {file0}}, \A f \in Named : lines'[f] = lines[f]
    PROVE  Kept' = Kept /\ SentNamed' = SentNamed
  BY DEF Kept, Begun, SentNamed

\* The current file, when the card has it, is the newest.
LEMMA CurrentIsNewest ==
    ASSUME NodeAssumption, IInv, Running, file \in made, file \in Named
    PROVE  file \in Begun /\ Archive!Newest(file)
  <1>1. \A f \in made \cap Named : f <= file
    BY DEF IInv, CardInv
  <1>2. file \in Begun /\ file \in Nat
    BY DEF Begun, Named
  <1>3. file + 1 \notin Begun
    BY <1>1, <1>2 DEF Begun
  <1> QED
    BY <1>2, <1>3 DEF Archive!Newest, Begun

\* A file that is created, if it is not there yet and has a name, is the next.
LEMMA CreateBegins ==
    ASSUME NodeAssumption, IInv, NEW g \in File,
           made' \in {made, made \cup {g}}, UNCHANGED <<lines, offered>>,
           1..(g - 1) \subseteq made
    PROVE  (Kept' = Kept /\ SentNamed' = SentNamed) \/ Archive!ArchiveNext
  <1>1. CASE made' = made \/ g \in made
    <2>1. made' = made
      BY <1>1
    <2> QED
      BY <2>1, KeptStays
  <1>2. CASE g \notin Named
    BY <1>2, KeptUnnamed
  <1>3. CASE made' = made \cup {g} /\ g \notin made /\ g \in Named
    <2>1. lines[g] = <<>>
      BY <1>3 DEF IInv, CardInv
    <2>2. g \notin Begun /\ Begun' = Begun \cup {g}
      BY <1>3 DEF Begun
    <2>3. g = 1 \/ g - 1 \in Begun
      BY <1>3, NodeAssumption DEF Begun, Named, NodeAssumption
    <2>4. Kept' = [f \in Begun \cup {g} |-> IF f = g THEN <<>> ELSE Kept[f]]
      BY <2>1, <2>2 DEF Kept
    <2>5. SentNamed' = SentNamed
      BY DEF SentNamed
    <2>6. Archive!Begin(g)
      BY <2>2, <2>3, <2>4, <2>5 DEF Archive!Begin, Kept, Begun, SentNamed
    <2> QED
      BY <1>3, <2>6 DEF Archive!ArchiveNext
  <1> QED
    BY <1>1, <1>2, <1>3

\* A sample is added to the newest file, which holds lines of this run only.
LEMMA SampleAdds ==
    ASSUME NodeAssumption, IInv, Sample
    PROVE  (Kept' = Kept /\ SentNamed' = SentNamed) \/ Archive!ArchiveNext
  <1>0. PICK line : line = [boot |-> boots, orbit |-> orbit]
    OBVIOUS
  <1>1. /\ Running /\ UNCHANGED <<made, offered>>
        /\ orbit = file /\ file \in File /\ file \in made
        /\ lines' = [lines EXCEPT ![file] = Append(@, line)]
        /\ lines \in [File -> Seq(Line)] /\ boots \in 1..MaxBoots
    BY <1>0 DEF Sample, Running, IInv, MemoryInv, CardInv, NodeTypeOK
  <1>2. line \in Line /\ line.boot = boots /\ line.orbit = file
    BY <1>0, <1>1 DEF Line
  <1>3. CASE file \notin Named
    <2>1. \A f \in Named : lines'[f] = lines[f]
      BY <1>1, <1>3 DEF Named, File
    <2> QED
      BY <1>1, <1>3, <2>1, KeptUnnamed
  <1>4. CASE file \in Named
    <2>1. file \in Begun /\ Archive!Newest(file)
      BY <1>1, <1>4, CurrentIsNewest
    <2>2. \A k \in DOMAIN Kept[file] : Kept[file][k].boot = line.boot
      BY <1>1, <1>2, <1>4, <2>1 DEF Kept, IInv, LinesInv
    <2>3. Kept' = [Kept EXCEPT ![file] = Append(@, line)]
      <3>1. Begun' = Begun /\ Begun \subseteq File
        BY <1>1 DEF Begun, Named, File
      <3>2. Kept' = [f \in Begun |-> IF f = file THEN Append(Kept[f], line) ELSE Kept[f]]
        BY <1>1, <2>1, <3>1 DEF Kept
      <3> QED
        BY <3>2 DEF Kept
    <2>4. SentNamed' = SentNamed
      BY <1>1 DEF SentNamed
    <2>5. Archive!Add(file, line)
      BY <1>2, <2>1, <2>2, <2>3, <2>4 DEF Archive!Add, Kept, Begun, SentNamed
    <2> QED
      BY <1>2, <1>4, <2>5 DEF Archive!ArchiveNext
  <1> QED
    BY <1>3, <1>4

\* What send() passes to the radio is the first line of the newest file that it
\* has not passed yet.
LEMMA SendLineSends ==
    ASSUME NodeAssumption, IInv, SendLine
    PROVE  (Kept' = Kept /\ SentNamed' = SentNamed) \/ Archive!ArchiveNext
  <1>1. /\ Running /\ UNCHANGED <<made, lines>>
        /\ position < Len(lines[file]) /\ position \in Nat /\ file \in File
        /\ offered' = offered \cup {<<file, position + 1>>}
        /\ lines[file] \in Seq(Line)
    BY DEF SendLine, Running, card, IInv, NodeTypeOK
  <1>2. Kept' = Kept
    BY <1>1 DEF Kept, Begun
  <1>3. CASE file \notin Named
    <2>1. SentNamed' = SentNamed
      BY <1>1, <1>3 DEF SentNamed
    <2> QED
      BY <1>2, <2>1
  <1>4. CASE file \in Named
    <2>1. lines[file] # <<>>
      BY <1>1
    <2>2. file \in Begun /\ Archive!Newest(file)
      BY <1>1, <1>4, <2>1, CurrentIsNewest DEF IInv, CardInv
    <2>3. position + 1 \in DOMAIN Kept[file]
      BY <1>1, <2>2 DEF Kept
    <2>4. <<file, position + 1>> \notin SentNamed
      BY <1>1, <1>4 DEF SentNamed, IInv, SentInv
    <2>5. \A i \in 1..position : <<file, i>> \in SentNamed
      BY <1>4 DEF SentNamed, IInv, SentInv
    <2>6. SentNamed' = SentNamed \cup {<<file, position + 1>>}
      BY <1>1, <1>4 DEF SentNamed
    <2>7. PICK k \in Nat : k = position + 1 /\ k - 1 = position
      BY <1>1
    <2>8. Archive!Send(file, k)
      BY <1>2, <2>2, <2>3, <2>4, <2>5, <2>6, <2>7
      DEF Archive!Send, Kept, Begun, SentNamed
    <2> QED
      BY <1>4, <2>2, <2>3, <2>7, <2>8 DEF Archive!ArchiveNext, Kept, Begun
  <1> QED
    BY <1>3, <1>4

\* Every step is a step of OrbitArchive or leaves its variables alone.
LEMMA ArchiveStep ==
    ASSUME NodeAssumption, IInv, [Next]_vars
    PROVE  [Archive!ArchiveNext]_(Archive!archiveVars)
  <1>1. SUFFICES (Kept' = Kept /\ SentNamed' = SentNamed) \/ Archive!ArchiveNext
    BY DEF Archive!archiveVars, Kept, Begun, SentNamed
  <1>2. CASE Quiet \/ Check \/ SendDone \/ Mark \/ Stay \/ UNCHANGED vars
    <2>1. UNCHANGED <<made, lines, offered>>
      BY <1>2, QuietType DEF IInv, Check, SendDone, Mark, Stay, vars, card
    <2> QED
      BY <2>1, KeptStays
  <1>3. CASE Boot \/ NoCard \/ Scan \/ Number \/ Exhausted \/ Restart
    <2>1. UNCHANGED <<made, lines, offered>>
      BY <1>3 DEF Boot, NoCard, Scan, Number, Exhausted, Restart, card
    <2> QED
      BY <2>1, KeptStays
  <1>4. CASE Create \/ Open
    <2>1. /\ made' \in {made, made \cup {file}} /\ UNCHANGED <<lines, offered>>
          /\ Running /\ file \in File
      BY <1>4 DEF Create, Open, Running, IInv, NodeTypeOK
    <2>2. 1..(file - 1) \subseteq made
      BY <2>1 DEF IInv, CardInv
    <2> QED
      BY <2>1, <2>2, CreateBegins
  <1>5. CASE NextOrbit
    <2>1. /\ file' = file + 1 /\ file' \in File /\ 1..file \subseteq made
          /\ file \in Nat
      BY <1>5, NextFacts DEF IInv, NodeTypeOK, File
    <2>2. made' \in {made, made \cup {file + 1}} /\ UNCHANGED <<lines, offered>>
      BY <1>5, <2>1 DEF NextOrbit
    <2>3. 1..((file + 1) - 1) \subseteq made /\ file + 1 \in File
      BY <2>1
    <2> QED
      BY <2>2, <2>3, CreateBegins
  <1>6. CASE Sample
    BY <1>6, SampleAdds
  <1>7. CASE SendLine
    BY <1>7, SendLineSends
  <1> QED
    BY <1>2, <1>3, <1>4, <1>5, <1>6, <1>7 DEF Next, Run, Quiet

\* Over any number of restarts, failing opens and requests of the MULE, a node
\* keeps one file per orbit and sends it as OrbitArchive says: only the newest
\* file ever changes or is sent, in order, each line once.
THEOREM Refinement == NodeSpec => ImplementsArchive
  <1>1. Init => Archive!ArchiveInit
    BY DEF Init, Archive!ArchiveInit
  <1>2. IInv /\ [Next]_vars => [Archive!ArchiveNext]_(Archive!archiveVars)
    BY ArchiveStep, NodeAssumption
  <1> QED
    BY <1>1, <1>2, Inductive, PTL DEF NodeSpec, ImplementsArchive, Archive!ArchiveSpec
=============================================================================
