----------------------------- MODULE SensorNode -----------------------------
(***************************************************************************)
(* A sensor node: its modes (AndesiteWSN.cpp, AndesiteOrbit.cpp) and the   *)
(* orbit files on its SD card (AndesiteFile.cpp), over restarts, failing   *)
(* opens and a GPS that loses its fix.  The node numbers its orbits by the *)
(* files it finds on the card, keeps one file per orbit, and sends the     *)
(* current one line by line when the MULE asks for it.                     *)
(***************************************************************************)
EXTENDS Naturals, FiniteSets, Sequences

CONSTANTS
    MaxOrbit,  \* the last orbit number: 999
    MaxBoots,  \* bound: boots
    MaxLines,  \* bound: lines in a file
    MaxFaults  \* bound: opens of a file, or of the card, that fail

ASSUME NodeAssumption ==
    /\ MaxOrbit \in Nat \ {0}
    /\ MaxBoots \in Nat \ {0}
    /\ MaxLines \in Nat
    /\ MaxFaults \in Nat

VARIABLES
    \* on the card, by file number:
    made,      \* the files that exist
    lines,     \* the data lines of each file: where and when they were taken
    head,      \* what the header over the first bytes says, if there is one
    \* in memory:
    pc,        \* where the main program is
    setup,     \* it is still in AndesiteWSN::init()
    scan,      \* the variables of setUnfinishedFiles()
    orbit, position, status, \* _orbit, _position (in lines) and _status
    file,      \* _file, the name of the current file, as a number
    lock, latitude, \* _lock, and _latitude against the 65th parallel
    read,      \* the running send() has read a line
    \* history, and what is bounded:
    boots,     \* number of the current boot
    faults,    \* opens that have failed
    offered    \* the lines that have been passed to sendtoWait()

card == <<made, lines, head>>
orbitVars == <<orbit, position, status, file>>
gps == <<lock, latitude>>
vars == <<card, pc, setup, scan, orbitVars, gps, read, boots, faults, offered>>

\* "001.txt" ... "999.txt", and ":00.txt", the name that set() makes of 1000.
File == 1..(MaxOrbit + 1)
Named == 1..MaxOrbit

Line == [boot : 1..MaxBoots, orbit : File]
NoHeader == [status |-> 0, position |-> 0, written |-> FALSE]
Header == [status : 0..1, position : Nat, written : BOOLEAN]
Latitudes == {"below", "at", "above"}

\* The loops in which the node samples, or asks for or waits for the MULE, look
\* at the latitude or the clock once in every round, at these locations; and
\* this is where they go on unless the time is up.
Polls == {"science", "readyPoll", "announcePoll", "sentPoll", "awaitPoll"}
Again == [science |-> "science", readyPoll |-> "ready", announcePoll |-> "announce",
          sentPoll |-> "await", awaitPoll |-> "await"]

Locations == Polls \cup
    {"boot", "scan", "create", "fix", "top", "open", "finish", "check", "ready",
     "announce", "await", "send", "mark", "wait", "next", "halted"}

-----------------------------------------------------------------------------
(* The card. *)

\* An open that the code reports as failed; the bound is on their number.
Opens(ok) ==
    IF ok THEN UNCHANGED faults ELSE faults < MaxFaults /\ faults' = faults + 1

\* readHeader(f, 2) of a file that opens.  Without a header it finds the third
\* field of the first line, a voltage below one, or nothing: both convert to 0.
Status(f) == head[f].status

\* writeHeader() and the close() of its caller.  The File is passed by value
\* (DESTRUCTOR_CLOSES_FILE is 0), so that the size and the first cluster that
\* its copy gives to an empty file are lost: the header stays only where it
\* overwrites bytes that the file has.
WithHeader(f, st, pos) ==
    IF lines[f] = <<>> THEN head
    ELSE [head EXCEPT ![f] = [status |-> st, position |-> pos, written |-> TRUE]]

-----------------------------------------------------------------------------
(* Latitude and time. *)

\* setLatitude() returning result: a sentence of the GPS, with a fix or
\* without, or a timeout, which leaves the latitude of the last sentence.
SetLatitude(result) ==
    \/ lock' = result /\ latitude' \in Latitudes
    \/ ~result /\ UNCHANGED gps

\* What follows scienceMode() and listenMuleMessage() in init() and in loop().
AfterScience == IF setup THEN "announce" ELSE "finish"
AfterListeningAgain == IF setup THEN "announce" ELSE "wait" \* mutant: init() does not go on

AfterListening == IF setup THEN "top" ELSE "wait"

Leave(p) ==
    CASE p = "science"   -> AfterScience
      [] p = "readyPoll" -> "wait"
      [] OTHER           -> AfterListening

\* init() ends where listenMuleMessage() returns to it.
Arrive(to) ==
    /\ pc' = to
    /\ setup' = (setup /\ to # "top")

\* Calibration, the only sampling of init(), goes by the clock.
ByClockNever(p) == setup /\ p = "science" \* mutant: the GPS is read without a fix

ByClock(p) == ~lock \/ (setup /\ p = "science")

TimeUp ==
    /\ pc \in Polls
    /\ ByClock(pc)
    /\ Arrive(Leave(pc))
    /\ UNCHANGED <<card, scan, orbitVars, gps, read, boots, faults, offered>>

NotYet ==
    /\ pc \in Polls
    /\ ByClock(pc)
    /\ pc' = Again[pc]
    /\ UNCHANGED <<card, setup, scan, orbitVars, gps, read, boots, faults, offered>>

PollLatitude ==
    /\ pc \in Polls
    /\ ~ByClock(pc)
    /\ \E result \in BOOLEAN : SetLatitude(result)
    /\ IF latitude' = "above"
       THEN pc' = Again[pc] /\ UNCHANGED setup
       ELSE Arrive(Leave(pc))
    /\ UNCHANGED <<card, scan, orbitVars, read, boots, faults, offered>>

-----------------------------------------------------------------------------
(* AndesiteWSN::init(). *)

\* The variables are of no use after the scan.
NoScan == [last |-> 0, i |-> 1, count |-> 0, unfinished |-> 0]

\* setUnfinishedFiles(), the first loop: n is the last of the files 001.txt,
\* 002.txt, ... that exist; the files whose header cannot be read are not counted.
IsLast(n) ==
    /\ 1..n \subseteq made
    /\ n = MaxOrbit \/ n + 1 \notin made

Boot ==
    /\ pc = "boot"
    /\ \E n \in 0..MaxOrbit, unread \in SUBSET Named :
          /\ IsLast(n)
          /\ unread \subseteq {f \in 1..n : Status(f) = 0}
          /\ faults + Cardinality(unread) <= MaxFaults
          /\ faults' = faults + Cardinality(unread)
          /\ scan' = [last |-> n, i |-> 1, count |-> 0, unfinished |->
                         Cardinality({f \in 1..n : Status(f) = 0} \ unread)]
    /\ pc' = "scan"
    /\ UNCHANGED <<card, setup, orbitVars, gps, read, boots, offered>>

\* SD.begin() fails, and initErrorHalt() does not return.
NoCard ==
    /\ pc = "boot"
    /\ Opens(FALSE)
    /\ pc' = "halted"
    /\ UNCHANGED <<card, setup, scan, orbitVars, gps, read, boots, offered>>

\* _unfinished_files_arr, which nothing assigns to.
Unfinished == [x \in 0..4 |-> IF x = 0 THEN 1 ELSE 0]

\* Mutant: the comparison is a signed one.
NextFileSigned(i, count) ==
    IF count > scan.unfinished \/ scan.unfinished - count < 5 THEN Unfinished[0] + 1 ELSE i + 1

\* The second loop, which sets its own index from that array.  A negative
\* index is a large one in the comparison with the unsigned size.
NextFile(i, count) ==
    IF count <= scan.unfinished /\ scan.unfinished - count < 5
    THEN Unfinished[scan.unfinished - count] + 1
    ELSE i + 1

Scan ==
    /\ pc = "scan"
    /\ scan.i <= scan.last
    /\ \E ok \in BOOLEAN :
          /\ Opens(ok)
          /\ IF ok /\ Status(scan.i) = 0
             THEN scan' = [scan EXCEPT !.count = @ + 1,
                                       !.i = NextFile(@, scan.count + 1)]
             ELSE scan' = [scan EXCEPT !.i = @ + 1]
    /\ UNCHANGED <<card, pc, setup, orbitVars, gps, read, boots, offered>>

\* init() of AndesiteFile after the scan: the number and the name of the orbit.
FirstOrbitReused(last) == IF last > 0 THEN last ELSE 1 \* mutant: not plus one

FirstOrbitSkips(last) == IF last > 0 THEN last + 2 ELSE 1 \* mutant: one too many

FirstOrbit(last) == IF last > 0 THEN last + 1 ELSE 1

Number ==
    /\ pc = "scan"
    /\ scan.i > scan.last
    /\ orbit' = FirstOrbit(scan.last)
    /\ file' = orbit'
    /\ scan' = NoScan
    /\ pc' = "create"
    /\ UNCHANGED <<card, setup, position, status, gps, read, boots, faults, offered>>

\* ... and its file.  After a failed open it is opened, and perhaps created,
\* once more, but closed at once without a header.
Create ==
    /\ pc = "create"
    /\ \/ UNCHANGED faults /\ made' = made \cup {file} /\ head' = WithHeader(file, status, position)
       \/ Opens(FALSE) /\ made' = made \cup {file} /\ UNCHANGED head
       \/ /\ faults + 2 <= MaxFaults /\ faults' = faults + 2
          /\ UNCHANGED <<made, head>>
    /\ pc' = "fix"
    /\ UNCHANGED <<lines, setup, scan, orbitVars, gps, read, boots, offered>>

\* The wait for a fix, with a timeout, and then the calibration.
Fix ==
    /\ pc = "fix"
    /\ lock' \in BOOLEAN
    /\ latitude' \in Latitudes
    /\ pc' = "open"
    /\ UNCHANGED <<card, setup, scan, orbitVars, read, boots, faults, offered>>

-----------------------------------------------------------------------------
(* loop(): science mode. *)

\* isScienceMode().
Top ==
    /\ pc = "top"
    /\ pc' = IF lock => latitude # "below" THEN "open" ELSE "finish"
    /\ UNCHANGED <<card, setup, scan, orbitVars, gps, read, boots, faults, offered>>

Open ==
    /\ pc = "open"
    /\ \E ok \in BOOLEAN :
          /\ Opens(ok)
          /\ made' = IF ok THEN made \cup {file} ELSE made
          /\ pc' = IF ok THEN "science" ELSE AfterScience
    /\ UNCHANGED <<lines, head, setup, scan, orbitVars, gps, read, boots, offered>>

\* A sample is taken and its line is in the file when this is next closed.
Sample ==
    /\ pc = "science"
    /\ Len(lines[file]) < MaxLines
    /\ lines' = [lines EXCEPT ![file] = Append(@, [boot |-> boots, orbit |-> orbit])]
    /\ UNCHANGED <<made, head, pc, setup, scan, orbitVars, gps, read, boots, faults, offered>>

-----------------------------------------------------------------------------
(* loop(): transfer mode. *)

\* isTransferMode(): waitScienceFinish(), which gives up when the GPS does ...
WaitScienceFinish ==
    /\ pc = "finish"
    /\ IF lock /\ latitude # "below"
       THEN \E result \in BOOLEAN :
               /\ SetLatitude(result)
               /\ pc' = IF result /\ latitude' # "below" THEN "finish" ELSE "check"
       ELSE pc' = "check" /\ UNCHANGED gps
    /\ UNCHANGED <<card, setup, scan, orbitVars, read, boots, faults, offered>>

\* ... and the tests of the file, which is opened for each.  A file that does
\* not open is neither complete nor of any size.
IsTransferMode(headerOpens, sizeOpens) ==
    /\ ~(headerOpens /\ Status(file) = 1)
    /\ sizeOpens /\ lines[file] # <<>>

Check ==
    /\ pc = "check"
    /\ \E headerOpens, sizeOpens \in BOOLEAN :
          /\ faults' = faults + (IF headerOpens THEN 0 ELSE 1) + (IF sizeOpens THEN 0 ELSE 1)
          /\ faults' <= MaxFaults
          /\ pc' = IF IsTransferMode(headerOpens, sizeOpens) THEN "ready" ELSE "wait"
    /\ UNCHANGED <<card, setup, scan, orbitVars, gps, read, boots, offered>>

\* waitTransferStartCmd(): sendCommand() returns 0 when the MULE acknowledged.
Ready ==
    /\ pc = "ready"
    /\ pc' \in {"readyPoll", "announce"}
    /\ UNCHANGED <<card, setup, scan, orbitVars, gps, read, boots, faults, offered>>

\* listenMuleMessage(), the first loop, with the same reading of the result.
Announce ==
    /\ pc = "announce"
    /\ pc' \in {"announcePoll", "sentPoll"}
    /\ UNCHANGED <<card, setup, scan, orbitVars, gps, read, boots, faults, offered>>

\* The second loop: "TransferReady" from the MULE, or anything else, or nothing.
AwaitFromStart == \* mutant: every request starts at the beginning of the file
    /\ pc = "await"
    /\ pc' \in {"send", "awaitPoll"}
    /\ position' = 0
    /\ UNCHANGED <<card, setup, scan, orbit, status, file, gps, read, boots, faults, offered>>

Await ==
    /\ pc = "await"
    /\ pc' \in {"send", "awaitPoll"}
    /\ UNCHANGED <<card, setup, scan, orbitVars, gps, read, boots, faults, offered>>

\* send(): a line is read, passed to sendtoWait(), whose result is not looked
\* at, and the position moved on.  writeHeader() is called with a closed File.
SendLine ==
    /\ pc = "send"
    /\ position < Len(lines[file])
    /\ offered' = offered \cup {<<file, position + 1>>}
    /\ position' = position + 1
    /\ read' = TRUE
    /\ UNCHANGED <<card, pc, setup, scan, orbit, status, file, gps, boots, faults>>

\* There is no further line, or the file did not open; the end of file is
\* announced, and transferMode() sets the status.
TransferStatusAlways == 1 \* mutant: whatever send() returns

TransferStatus == IF read THEN 1 ELSE 0

SendDone ==
    /\ pc = "send"
    /\ \/ position = Len(lines[file]) /\ UNCHANGED faults
       \/ ~read /\ Opens(FALSE)
    /\ status' = TransferStatus
    /\ read' = FALSE
    /\ pc' = "mark"
    /\ UNCHANGED <<card, setup, scan, orbit, position, file, gps, boots, offered>>

Mark ==
    /\ pc = "mark"
    /\ \E ok \in BOOLEAN :
          /\ Opens(ok)
          /\ head' = IF ok THEN WithHeader(file, status, position) ELSE head
    /\ pc' = "awaitPoll"
    /\ UNCHANGED <<made, lines, setup, scan, orbitVars, gps, read, boots, offered>>

-----------------------------------------------------------------------------
(* loop(): the next orbit; and the power. *)

\* waitOrbitFinish(), which gives up when the GPS does.
WaitOrbitFinish ==
    /\ pc = "wait"
    /\ IF lock /\ latitude = "below"
       THEN \E result \in BOOLEAN :
               /\ SetLatitude(result)
               /\ pc' = IF result /\ latitude' = "below" THEN "wait" ELSE "next"
       ELSE pc' = "next" /\ UNCHANGED gps
    /\ UNCHANGED <<card, setup, scan, orbitVars, read, boots, faults, offered>>

\* update() keeps the orbit while its file is empty or does not open, and
\* hangs when the numbers are used up.
Stay ==
    /\ pc = "next"
    /\ \/ lines[file] = <<>> /\ UNCHANGED faults
       \/ Opens(FALSE)
    /\ pc' = "top"
    /\ UNCHANGED <<card, setup, scan, orbitVars, gps, read, boots, offered>>

HasDataAlways == TRUE \* mutant: the file is not looked at

HasData == lines[file] # <<>>

\* Mutant: the position in the old file is kept.
NextOrbitKeepsPosition ==
    /\ pc = "next"
    /\ HasData
    /\ orbit < MaxOrbit
    /\ orbit' = orbit + 1
    /\ file' = orbit'
    /\ status' = 0
    /\ \E ok \in BOOLEAN :
          /\ Opens(ok)
          /\ made' = IF ok THEN made \cup {file'} ELSE made
          /\ head' = IF ok THEN WithHeader(file', 0, 0) ELSE head
    /\ pc' = "top"
    /\ UNCHANGED <<lines, setup, scan, position, gps, read, boots, offered>>

NextOrbit ==
    /\ pc = "next"
    /\ HasData
    /\ orbit < MaxOrbit
    /\ orbit' = orbit + 1
    /\ file' = orbit'
    /\ position' = 0
    /\ status' = 0
    /\ \E ok \in BOOLEAN :
          /\ Opens(ok)
          /\ made' = IF ok THEN made \cup {file'} ELSE made
          /\ head' = IF ok THEN WithHeader(file', 0, 0) ELSE head
    /\ pc' = "top"
    /\ UNCHANGED <<lines, setup, scan, gps, read, boots, offered>>

Exhausted ==
    /\ pc = "next"
    /\ HasData
    /\ orbit >= MaxOrbit
    /\ orbit' = orbit + 1
    /\ pc' = "halted"
    /\ UNCHANGED <<card, setup, scan, position, status, file, gps, read, boots, faults, offered>>

\* The power is cut and comes back: the constructors run again.
Restart ==
    /\ boots < MaxBoots
    /\ boots' = boots + 1
    /\ pc' = "boot"
    /\ setup' = TRUE
    /\ scan' = NoScan
    /\ orbit' = 1 /\ position' = 0 /\ status' = 0 /\ file' = 1
    /\ lock' = FALSE /\ latitude' = "below"
    /\ read' = FALSE
    /\ UNCHANGED <<card, faults, offered>>

-----------------------------------------------------------------------------

Init ==
    /\ made = {}
    /\ lines = [f \in File |-> <<>>]
    /\ head = [f \in File |-> NoHeader]
    /\ pc = "boot"
    /\ setup = TRUE
    /\ scan = NoScan
    /\ orbit = 1 /\ position = 0 /\ status = 0 /\ file = 1
    /\ lock = FALSE /\ latitude = "below"
    /\ read = FALSE
    /\ boots = 1
    /\ faults = 0
    /\ offered = {}

Run ==
    \/ Boot \/ NoCard \/ Scan \/ Number \/ Create \/ Fix
    \/ TimeUp \/ NotYet \/ PollLatitude
    \/ Top \/ Open \/ WaitScienceFinish \/ Check
    \/ Ready \/ Announce \/ Await \/ SendLine \/ SendDone \/ Mark
    \/ WaitOrbitFinish \/ Stay \/ NextOrbit \/ Exhausted

Next == Run \/ Sample \/ Restart

NodeSpec == Init /\ [][Next]_vars

\* The program runs, and the clock of its timeouts does; nothing is assumed of
\* the GPS, the samples or the radio.
FairNodeSpec == NodeSpec /\ WF_vars(Run) /\ SF_vars(TimeUp)
-----------------------------------------------------------------------------
(* Properties. *)

\* The variables have their types: the file is one that set() can name, the
\* position is in the file, and only what is in a file has been sent.
NodeTypeOK ==
    /\ made \subseteq File
    /\ lines \in [File -> Seq(Line)]
    /\ head \in [File -> Header]
    /\ pc \in Locations
    /\ setup \in BOOLEAN
    /\ scan \in [last : 0..MaxOrbit, i : Nat \ {0}, count : Nat, unfinished : Nat]
    /\ orbit \in 1..(MaxOrbit + 2)
    /\ position \in Nat
    /\ status \in 0..1
    /\ file \in File
    /\ lock \in BOOLEAN
    /\ latitude \in Latitudes
    /\ read \in BOOLEAN
    /\ boots \in 1..MaxBoots
    /\ faults \in 0..MaxFaults
    /\ offered \subseteq (File \X (Nat \ {0}))

\* An orbit file holds lines of its own orbit, all from one run of the node:
\* "starting the data file on the correct orbit, regardless of system power
\* off" (AndesiteFile.cpp:52), for the numbers that have a name of their own.
FileHoldsItsOrbit ==
    \A f \in Named : \A k \in DOMAIN lines[f] :
        /\ lines[f][k].orbit = f
        /\ lines[f][k].boot = lines[f][1].boot

\* The files on the card have consecutive numbers, so that the scan of the
\* next boot, which stops at the first gap, finds them all; however often the node
\* restarts and whichever opens fail.  (SD.exists() itself is taken to answer
\* correctly: were it to deny a file in the scan, the node would resume below it.)
NoGaps ==
    \A f \in made \cap Named : 1..f \subseteq made

\* send() goes on where it stopped: however often the MULE asks, no line of a
\* file is passed to the radio twice.
SentOnce ==
    [][ pc = "send" /\ position' # position /\ file \in Named
          => <<file, position'>> \notin offered ]_vars

\* A header that says "complete" tells how far: something has been sent, and
\* everything up to the position it names.
CompleteUpToPosition ==
    \A f \in Named :
        head[f].status = 1 =>
            /\ head[f].position > 0
            /\ \A k \in 1..head[f].position : <<f, k>> \in offered

\* A header overwrites the first line of the file, and unless an open has
\* failed that line has been sent before.
OnlySentIsOverwritten ==
    faults = 0 => \A f \in Named : head[f].written => <<f, 1>> \in offered

\* A node that loses its fix does not look at the GPS again before the next
\* boot: setLatitude() is called only where _lock is true.
LostFixStaysLost ==
    [][ ~lock /\ lock' => pc = "fix" ]_vars

\* The second loop of setUnfinishedFiles() sets its own index back, and ends all
\* the same: each of its rounds leaves fewer, counting a pass over the files for
\* each unfinished one that it has still to count.
ScanLeft ==
    (scan.last + 1) * (IF scan.count < scan.unfinished THEN scan.unfinished - scan.count ELSE 0)
        + (scan.last + 1 - scan.i)

ScanEnds ==
    [][ pc = "scan" /\ pc' = "scan" => ScanLeft > 0 /\ ScanLeft' \in 0..(ScanLeft - 1) ]_vars

\* Whatever is restarted, fails or is asked for, the node keeps and sends its
\* orbit files as OrbitArchive says.
Archive == INSTANCE OrbitArchive
    WITH Files <- Named, Lines <- Line,
         archive <- [f \in made \cap Named |-> lines[f]],
         sent <- {line \in offered : line[1] \in Named}

ImplementsArchive == Archive!ArchiveSpec

\* The node comes round to the next science mode, or halts, over and over,
\* whatever the MULE and the radio do; unless it waits for ever for a latitude
\* that the GPS does not report.
WaitsForLatitude ==
    /\ lock
    /\ \/ pc \in {"finish", "ready", "announce", "await", "send", "mark"} \cup Polls
             /\ latitude # "below"
       \/ pc = "wait" /\ latitude = "below"

ComesRound ==
    []<>(pc \in {"top", "halted"}) \/ <>[]WaitsForLatitude

\* What isTransferMode() takes a status of 1 for: "File has already been
\* completed" (AndesiteWSN.cpp:325), that is, all of it has been sent.
CompletedIsSent ==
    pc = "check" /\ head[file].status = 1 =>
        \A k \in DOMAIN lines[file] : <<file, k>> \in offered

\* A node with a fix stops listening to the MULE for "Progressing to Science
\* Mode" (AndesiteWSN.cpp:405, 438), and so where science mode can be entered,
\* above the 65th parallel.
ListensUntilScience ==
    [][ (pc \in {"announcePoll", "sentPoll", "awaitPoll"} /\ pc' = AfterListening /\ lock /\ lock')
          => (latitude' # "below") ]_vars
=============================================================================
