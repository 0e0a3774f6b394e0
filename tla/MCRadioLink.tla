---------------------------- MODULE MCRadioLink ----------------------------
(***************************************************************************)
(* The MULE and its sensor nodes, small enough for TLC.                    *)
(***************************************************************************)
EXTENDS RadioLink

CONSTANTS mule, wsn1, wsn2

\* The MULE sends one message more than there are numbers, and may restart
\* between any two; the node sends one.
Many == [n \in Nodes |-> IF n = mule THEN IdSpace + 1 ELSE 1]
MuleBoots == [n \in Nodes |-> IF n = mule THEN 1 ELSE 0]

\* The MULE sends one message, to a node or to all; a node sends two and may
\* restart; the other node only listens.
FewSends == [n \in Nodes |-> IF n = mule THEN 1 ELSE IF n = wsn1 THEN 2 ELSE 0]
NodeBoots == [n \in Nodes |-> IF n = wsn1 THEN 1 ELSE 0]

\* Two messages each, and no restarts.
Two == [n \in Nodes |-> 2]
None == [n \in Nodes |-> 0]
=============================================================================
