----------------------------- MODULE Collection -----------------------------
(***************************************************************************)
(* The collection of measurements: the radio board and the nodes           *)
(* (MuleRadio), and the thread of the flight computer that reads what the   *)
(* board prints and appends the data lines to files (RFM22BThread.py).      *)
(***************************************************************************)
EXTENDS MuleRadio

VARIABLES
    thread,    \* "loop", or "dead" once loop() has raised
    orbitFile, \* self.orbitFile, 0 when there is no such attribute yet
    contact,   \* self.WSNcontact
    reports,   \* messages put into the executive's queue
    filed      \* lines as they were appended to files, with the orbit in the file's name

threadVars == <<thread, orbitFile, contact, reports, filed>>
vars == <<radioVars, threadVars>>

Unset == 0

CollectionInit ==
    /\ RadioInit
    /\ thread = "loop"
    /\ orbitFile = Unset
    /\ contact = 0
    /\ reports = <<>>
    /\ filed = <<>>

-----------------------------------------------------------------------------
(* loop(): one line.                                                         *)

\* readline(): the next line of the serial buffer.
Line == Head(serial)

ReadLine ==
    /\ thread = "loop"
    /\ serial # <<>>
    /\ serial' = Tail(serial)

\* Mutant: every line is told.
TellAgain ==
    /\ contact' = 1
    /\ reports' = Append(reports, "CR:WSNcontact")

\* The first data line is told to the executive.
Tell ==
    /\ contact' = 1
    /\ reports' = IF contact = 0 THEN Append(reports, "CR:WSNcontact") ELSE reports

\* The node puts its orbit number in front of the line as it is; the thread reads
\* three characters, which are a number when the orbit has three digits.
HasOrbitField(line) == line.orbit >= 100

\* A line in the file of its node and of the orbit called name.
Entry(line, name) ==
    [node |-> line.node, number |-> line.number, orbit |-> line.orbit, name |-> name]

\* Mutant: the shared attribute is set after the name is made of it.
FileUnderLast(line) ==
    /\ orbitFile' = IF HasOrbitField(line) THEN line.orbit ELSE orbitFile
    /\ \/ /\ orbitFile # Unset
          /\ filed' = Append(filed, Entry(line, orbitFile))
       \/ UNCHANGED filed

\* The name of the file has the orbit of the line, or the last orbit read from any
\* node; if there is none the name is never assigned.  The line is lost then, and
\* also when the file cannot be opened.
FileUnder(line) ==
    /\ orbitFile' = IF HasOrbitField(line) THEN line.orbit ELSE orbitFile
    /\ \/ /\ orbitFile' # Unset
          /\ filed' = Append(filed, Entry(line, orbitFile'))
       \/ UNCHANGED filed

\* The board's notice of an end of file is printed: sendDoneFile() wants an "E" in
\* its fourth place, and "::EOF reached." has it in its third.
ReadEnd ==
    /\ ReadLine
    /\ Line = EndNotice
    /\ UNCHANGED <<command, boardVars, nodeVars, taken, threadVars>>

\* A data line.
ReadData ==
    /\ ReadLine
    /\ Line # EndNotice
    /\ FileUnder(Line)
    /\ Tell
    /\ UNCHANGED <<command, boardVars, nodeVars, taken, thread>>

\* The length of a message supposes three digits: with fewer, octets beyond the
\* end of the string are sent, and decode() raises if they are not UTF-8.
ReadDies ==
    /\ ReadLine
    /\ Line # EndNotice
    /\ ~HasOrbitField(Line)
    /\ thread' = "dead"
    /\ UNCHANGED <<command, boardVars, nodeVars, taken, orbitFile, contact, reports, filed>>

ThreadStep == ReadEnd \/ ReadData \/ ReadDies

Next ==
    \/ RadioNext /\ UNCHANGED threadVars
    \/ ThreadStep

Spec == CollectionInit /\ [][Next]_vars

-----------------------------------------------------------------------------
(* Fairness: loop() of the board runs on, and its timer with it.  Nothing is  *)
(* supposed of the radio link, of the nodes or of the thread.               *)

FairSpec == Spec /\ WF_vars(BoardStep /\ UNCHANGED threadVars)

-----------------------------------------------------------------------------
(* Properties *)

Entries == [node : Nodes, number : Nat \ {0}, orbit : 1 .. 999, name : 1 .. 999]

\* The state is of its type; the array never holds more than its size.
TypeOK ==
    /\ command \in Commands
    /\ board \in BoardLocations
    /\ avail \in Seq(Nodes \cup {Broadcast})
    /\ Len(avail) <= WsnNum
    /\ index \in 1 .. Len(avail) + 1
    /\ got \subseteq Nodes
    /\ answered \subseteq Nodes
    /\ phase \in [Nodes -> Phases]
    /\ taken \in [Nodes -> BOOLEAN]
    /\ orbit \in [Nodes -> 1 .. 999]
    /\ offered \in [Nodes -> Nat]
    /\ serial \in Seq(Lines \cup {EndNotice})
    /\ thread \in {"loop", "dead"}
    /\ orbitFile \in 0 .. 999
    /\ contact \in 0 .. 1
    /\ reports \in Seq({"CR:WSNcontact"})
    /\ filed \in Seq(Entries)

\* No node is twice in the array of available nodes, so that request() asks
\* it once in a round; only the address that an end of file leaves there may be.
ListedOnce ==
    \A i, j \in DOMAIN avail : avail[i] = avail[j] /\ avail[i] # Broadcast => i = j

\* request() writes past the array only if an end of file was stored in it as an
\* address: calling nodes alone never overrun it.
SpoiledOnlyByStrayEnd == board = "spoiled" => Broadcast \in Listed

\* request() never waits for the data of a node whose acknowledgement it has had:
\* the result of sendCommand() is read the wrong way round, and the wait, which has
\* no timeout, is for those that did not answer.
WaitsForTheUnanswered ==
    board = "wait" => avail[index] \in Nodes /\ avail[index] \notin answered

\* A board that runs the source, which asks with "Transfer", collects nothing: no
\* node ever transfers, since nodes look for "TransferReady", and no end of file is
\* stored as an address.
NoTransferBySource ==
    command = "Transfer" =>
        /\ \A n \in Nodes : phase[n] \notin {"send", "line", "end"}
        /\ serial = <<>>
        /\ filed = <<>>
        /\ Broadcast \notin Listed

\* And once such a board waits for the data of a node, it waits for ever: no step of
\* the board, of a node or of the thread brings it back to its loop.
SourceWaitsForEver ==
    [][command = "Transfer" /\ board = "wait" => board' = "wait"]_vars

\* A line is in a file with its own orbit in the name exactly if the orbit has three
\* digits: the lines of the first 99 orbits are filed under a later orbit or not at all.
FiledUnderItsOrbit ==
    \A j \in DOMAIN filed : filed[j].name = filed[j].orbit <=> filed[j].orbit >= 100

\* The lines of a node are in the serial buffer in the order in which the node sent
\* them, and behind those in the files, in that order: no line comes twice.
InOrder ==
    /\ \A i, j \in DOMAIN serial :
        i < j /\ serial[i].node = serial[j].node /\ serial[i] # EndNotice
            => serial[i].number < serial[j].number
    /\ \A i, j \in DOMAIN filed :
        i < j /\ filed[i].node = filed[j].node => filed[i].number < filed[j].number
    /\ \A i \in DOMAIN filed, j \in DOMAIN serial :
        filed[i].node = serial[j].node => filed[i].number < serial[j].number

Log == INSTANCE LineLog WITH
    filed <- [j \in DOMAIN filed |->
                [node |-> filed[j].node, number |-> filed[j].number]]

\* The collection implements its abstract specification: nothing in the files that a
\* node did not send, the lines of a node in order and none twice, one report of the
\* first contact, before the first line is filed.
ImplementsLog == Log!LogSpec

\* Once a node has called, listen() ends, whatever the nodes do.
ListenEnds == (board = "listen" /\ avail # <<>>) ~> (board # "listen")
=============================================================================
