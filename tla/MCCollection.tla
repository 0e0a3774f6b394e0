---------------------------- MODULE MCCollection ----------------------------
(***************************************************************************)
(* Two nodes at the addresses 2 and 3; the first sends two lines, in the     *)
(* orbits 99 and 100, the second one line in orbit 200.                     *)
(***************************************************************************)
EXTENDS Collection

MCFirstOrbit == [n \in Nodes |-> IF n = 2 THEN 99 ELSE 200]
MCLastOrbit == [n \in Nodes |-> IF n = 2 THEN 100 ELSE 200]
MCMaxLines == [n \in Nodes |-> IF n = 2 THEN 2 ELSE 1]
=============================================================================
