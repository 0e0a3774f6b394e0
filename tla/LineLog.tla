------------------------------ MODULE LineLog ------------------------------
(***************************************************************************)
(* What the collection of measurements promises the flight computer: every  *)
(* data line in its files was offered by a node, the lines of one node are  *)
(* filed in the order the node sent them and none of them twice, and the    *)
(* executive is told of the first contact once, before any line is filed.   *)
(* Lines may be lost.  There is no radio here, no polling of nodes and no   *)
(* serial line; and no report of a finished file.                           *)
(***************************************************************************)
EXTENDS Naturals, Sequences

CONSTANT Nodes

VARIABLES
    offered, \* offered[n]: the number of lines that node n has sent
    filed,   \* the lines in the files, as [node, number], as they were appended
    reports  \* the messages to the executive

logVars == <<offered, filed, reports>>

Contact == "CR:WSNcontact"

LogInit ==
    /\ offered = [n \in Nodes |-> 0]
    /\ filed = <<>>
    /\ reports = <<>>

\* Node n sends its next line.
Offer(n) ==
    /\ offered' = [offered EXCEPT ![n] = @ + 1]
    /\ UNCHANGED <<filed, reports>>

\* The executive is told of a contact, which is the line of a node.
Tell ==
    /\ reports = <<>>
    /\ \E n \in Nodes : offered[n] > 0
    /\ reports' = <<Contact>>

\* Line k of n is filed; all lines of n before it are filed already or lost.
File(n, k) ==
    /\ k \in 1 .. offered[n]
    /\ \A j \in DOMAIN filed : filed[j].node = n => filed[j].number < k
    /\ filed' = Append(filed, [node |-> n, number |-> k])

\* A line that is read may be the first contact, be filed, or both.
Read ==
    /\ Tell \/ (reports # <<>> /\ UNCHANGED reports)
    /\ (\E n \in Nodes : \E k \in 1 .. offered[n] : File(n, k)) \/ UNCHANGED filed
    /\ UNCHANGED offered

LogNext == (\E n \in Nodes : Offer(n)) \/ Read

LogSpec == LogInit /\ [][LogNext]_logVars
=============================================================================
