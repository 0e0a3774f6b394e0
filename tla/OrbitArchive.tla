---------------------------- MODULE OrbitArchive ----------------------------
(***************************************************************************)
(* What a sensor node's card and downlink promise (AndesiteFile.h, the     *)
(* comments of AndesiteFile.cpp): one data file per orbit, numbered from   *)
(* one without a gap, which is added to and sent only until the next is    *)
(* begun, and then never touched again; lines of one run of the node in a  *)
(* file, sent from the first on and each once.  There is no memory here    *)
(* that a restart could lose, no GPS, no header and no failing open.       *)
(***************************************************************************)
EXTENDS Naturals, Sequences

CONSTANTS
    Files, \* the numbers of orbit files
    Lines  \* the lines that a file can have: the orbit and the run they are of

VARIABLES
    archive, \* the lines of each file that has been begun
    sent     \* the lines that have been sent, as <<file, number>>

archiveVars == <<archive, sent>>

ArchiveInit ==
    /\ archive = [f \in {} |-> <<>>]
    /\ sent = {}

\* The file that no other has been begun after.
Newest(f) ==
    /\ f \in DOMAIN archive
    /\ f + 1 \notin DOMAIN archive

\* The first file, or the one after the newest, is begun.
Begin(f) ==
    /\ f \notin DOMAIN archive
    /\ f = 1 \/ f - 1 \in DOMAIN archive
    /\ archive' = [g \in DOMAIN archive \cup {f} |-> IF g = f THEN <<>> ELSE archive[g]]
    /\ UNCHANGED sent

\* A line of its orbit, taken in the same run as the others, is added to the
\* newest file.
Add(f, line) ==
    /\ Newest(f)
    /\ line.orbit = f
    /\ \A k \in DOMAIN archive[f] : archive[f][k].boot = line.boot
    /\ archive' = [archive EXCEPT ![f] = Append(@, line)]
    /\ UNCHANGED sent

\* The first line of the newest file that has not been sent is sent.
Send(f, k) ==
    /\ Newest(f)
    /\ k \in DOMAIN archive[f]
    /\ <<f, k>> \notin sent
    /\ \A i \in 1..(k - 1) : <<f, i>> \in sent
    /\ sent' = sent \cup {<<f, k>>}
    /\ UNCHANGED archive

ArchiveNext ==
    \E f \in Files :
        \/ Begin(f)
        \/ \E line \in Lines : Add(f, line)
        \/ f \in DOMAIN archive /\ \E k \in DOMAIN archive[f] : Send(f, k)

ArchiveSpec == ArchiveInit /\ [][ArchiveNext]_archiveVars
=============================================================================
