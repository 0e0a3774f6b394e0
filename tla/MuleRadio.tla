----------------------------- MODULE MuleRadio -----------------------------
(***************************************************************************)
(* The radio board of the MULE (mule_radio.ino, AndesiteMule.cpp) and the   *)
(* sensor nodes it collects from, as far as they talk to each other.  The   *)
(* board listens until some node has called and half a second more, then    *)
(* asks the nodes it has heard for their data, one by one; what it receives *)
(* it prints on the serial line to the flight computer.                     *)
(*                                                                         *)
(* A message is one call of sendtoWait().  The link is that of AckedLink    *)
(* between steady ends: the other end's application takes the message at    *)
(* most once, while the call is open, and the call returns true only if it  *)
(* has been taken.                                                          *)
(***************************************************************************)
EXTENDS Integers, Sequences, FiniteSets

CONSTANTS
    Nodes,      \* addresses of the sensor nodes
    WsnNum,     \* ACDH_WSN_NUM, the size of _avail_wsn
    Commands,   \* the strings that request() may send: that of the source and
                \* that of the image built from it
    FirstOrbit, LastOrbit, \* bound: the orbits of each node
    MaxLines,   \* bound: the data lines of each node
    SerialBound \* lines that the flight computer's serial buffer holds

\* RF22_BROADCAST_ADDRESS, and what _radio.listen() returns for an end of file.
Broadcast == 255
EndOfFile == -1

ASSUME MuleRadioAssumption ==
    /\ Nodes \subseteq 1 .. (Broadcast - 1)
    /\ IsFiniteSet(Nodes)
    /\ WsnNum \in Nat \ {0}
    /\ Cardinality(Nodes) <= WsnNum
    /\ Commands \subseteq {"Transfer", "TransferReady"}
    /\ FirstOrbit \in [Nodes -> 1 .. 999]
    /\ LastOrbit \in [Nodes -> 1 .. 999]
    /\ MaxLines \in [Nodes -> Nat]
    /\ SerialBound \in Nat

VARIABLES
    command, \* the string in request(), fixed when the board was programmed
    board,   \* where the board is in loop()
    avail,   \* the first _num_avail elements of _avail_wsn
    index,   \* i of request(), from 1
    got,     \* nodes that have taken the command of the call that is open
    answered,\* history: nodes whose acknowledgement the board has had since
             \* request() was called
    phase,   \* where each node is
    taken,   \* taken[n]: n is in a call and the board has taken its message
    orbit,   \* _orbit of each node
    offered, \* history: the number of lines each node has passed to sendtoWait()
    serial   \* lines printed by the board that the flight computer has not read

boardVars == <<board, avail, index, got, answered>>
nodeVars == <<phase, orbit, offered>>
radioVars == <<command, boardVars, nodeVars, taken, serial>>

\* "listen": in listen(); "next": at the head of the loop of request(); "ask": in
\* sendCommand(); "wait": in the loop that waits for an end of file; "spoiled":
\* it has written past its array, and what it does next is not modelled.
BoardLocations == {"listen", "next", "ask", "wait", "spoiled"}

\* The calls of sendtoWait() that a node may be in: "::Ready" and
\* "::ReadyTesting", a data line, the end-of-file octet.  "send": in
\* transferMode() between two calls; "await": listening for the MULE; "away":
\* everywhere else.
Calling == {"ready", "announce", "line", "end"}
Phases == Calling \cup {"send", "await", "away"}

\* A data line, told by its sender and its number; the board's own notice of an
\* end of file.  The other notices change nothing where they are read.
Lines == [node : Nodes, number : Nat \ {0}, orbit : 1 .. 999]
EndNotice == [node |-> 0, number |-> 0, orbit |-> 0]

RadioInit ==
    /\ command \in Commands
    /\ board = "listen"
    /\ avail = <<>>
    /\ index = 1
    /\ got = {}
    /\ answered = {}
    /\ phase = [n \in Nodes |-> "away"]
    /\ taken = [n \in Nodes |-> FALSE]
    /\ orbit = FirstOrbit
    /\ offered = [n \in Nodes |-> 0]
    /\ serial = <<>>

-----------------------------------------------------------------------------
(* The board: receiving. *)

Listed == {avail[j] : j \in DOMAIN avail}

\* Mutant: the last address is not looked at.
IsAvailableButLast(addr) ==
    addr # 0 /\ \A j \in 1 .. Len(avail) - 1 : avail[j] # addr

\* isAvailable(): the argument is an int and the array holds octets, so that an
\* end of file, -1, is never found in it.
IsAvailable(addr) == addr # 0 /\ addr \notin Listed

\* Mutant: the array holds integers.
EnlistInteger(addr) == Append(avail, addr)

\* The array after addr has been stored in it.
Enlist(addr) == Append(avail, addr % 256)

\* The line that _Radio.listen() prints for the message of n.
Printed(n) ==
    IF phase[n] = "line"
    THEN [node |-> n, number |-> offered[n], orbit |-> orbit[n]]
    ELSE EndNotice

\* _Radio.listen(): the message of node n is taken, and printed if it tells anything
\* to who reads it.  What does not fit in the reader's buffer is lost.
Receive(n) ==
    /\ phase[n] \in Calling
    /\ ~taken[n]
    /\ taken' = [taken EXCEPT ![n] = TRUE]
    /\ serial' = IF phase[n] \in {"line", "end"} /\ Len(serial) < SerialBound
                 THEN Append(serial, Printed(n)) ELSE serial

\* What it returns.
Result(n) == IF phase[n] = "end" THEN EndOfFile ELSE n

\* listen(): before the first node has called, only addresses count.
ListenHears(n) ==
    /\ board = "listen"
    /\ Receive(n)
    /\ avail' = IF (avail = <<>> => Result(n) > 0) /\ IsAvailable(Result(n))
                THEN Enlist(Result(n)) ELSE avail
    /\ board' = IF Len(avail') = WsnNum THEN "next" ELSE "listen"
    /\ UNCHANGED <<command, index, got, answered, nodeVars>>

\* Mutant: the timer only counts when the array is full.
ListenTimeoutWhenFull ==
    /\ board = "listen"
    /\ Len(avail) = WsnNum
    /\ board' = "next"
    /\ UNCHANGED <<command, avail, index, got, answered, nodeVars, taken, serial>>

\* MULE_LISTEN_TIMEOUT after the first node has called.
ListenTimeout ==
    /\ board = "listen"
    /\ avail # <<>>
    /\ board' = "next"
    /\ UNCHANGED <<command, avail, index, got, answered, nodeVars, taken, serial>>

-----------------------------------------------------------------------------
(* The board: request(). *)

\* The next available node, or back to listen(), which clears the array.
RequestNext ==
    /\ board = "next"
    /\ \/ /\ index <= Len(avail)
          /\ board' = "ask"
          /\ UNCHANGED <<avail, index, answered>>
       \/ /\ index > Len(avail)
          /\ board' = "listen"
          /\ avail' = <<>>
          /\ index' = 1
          /\ answered' = {}
    /\ UNCHANGED <<command, got, nodeVars, taken, serial>>

\* Mutant: a node goes by the beginning of the string.
ObeyPrefix(n) ==
    /\ board = "ask"
    /\ avail[index] \in {n, Broadcast}
    /\ phase[n] = "await"
    /\ n \notin got
    /\ got' = got \cup {n}
    /\ \E next \in {"send", "await"} : phase' = [phase EXCEPT ![n] = next]
    /\ UNCHANGED <<command, board, avail, index, answered, orbit, offered, taken, serial>>

\* A listening node takes the command and compares it with "TransferReady"; it
\* looks for it where _message points, in a buffer that is no longer alive, and
\* may find something else.
Obey(n) ==
    /\ board = "ask"
    /\ avail[index] \in {n, Broadcast}
    /\ phase[n] = "await"
    /\ n \notin got
    /\ got' = got \cup {n}
    /\ \/ command = "TransferReady" /\ phase' = [phase EXCEPT ![n] = "send"]
       \/ UNCHANGED phase
    /\ UNCHANGED <<command, board, avail, index, answered, orbit, offered, taken, serial>>

\* Mutant: sendCommand() returns what its callers expect.
AskAnsweredWaits ==
    /\ board = "ask"
    /\ avail[index] \in got \cup {Broadcast}
    /\ board' = "wait"
    /\ got' = {}
    /\ answered' = answered \cup ({avail[index]} \ {Broadcast})
    /\ UNCHANGED <<command, avail, index, nodeVars, taken, serial>>

\* sendtoWait() returns true, as it does at once for a broadcast; sendCommand()
\* compares it with the error code 0 and returns 0, and request() moves on.
AskAnswered ==
    /\ board = "ask"
    /\ avail[index] \in got \cup {Broadcast}
    /\ board' = "next"
    /\ index' = index + 1
    /\ got' = {}
    /\ answered' = answered \cup ({avail[index]} \ {Broadcast})
    /\ UNCHANGED <<command, avail, nodeVars, taken, serial>>

\* It returns false, whether the command was taken or not; request() waits.
AskUnanswered ==
    /\ board = "ask"
    /\ avail[index] # Broadcast
    /\ board' = "wait"
    /\ got' = {}
    /\ UNCHANGED <<command, avail, index, answered, nodeVars, taken, serial>>

\* The wait: an end of file ends it, whoever sent it.  Another node that calls
\* is stored too, in an array whose size is not looked at.
WaitHears(n) ==
    /\ board = "wait"
    /\ Receive(n)
    /\ \/ /\ Result(n) = EndOfFile
          /\ board' = "next"
          /\ index' = index + 1
          /\ UNCHANGED avail
       \/ /\ Result(n) # EndOfFile
          /\ IsAvailable(n)
          /\ Len(avail) < WsnNum
          /\ avail' = Enlist(n)
          /\ UNCHANGED <<board, index>>
       \/ /\ Result(n) # EndOfFile
          /\ IsAvailable(n)
          /\ Len(avail) >= WsnNum
          /\ board' = "spoiled"
          /\ UNCHANGED <<avail, index>>
       \/ /\ Result(n) # EndOfFile
          /\ ~IsAvailable(n)
          /\ UNCHANGED <<board, avail, index>>
    /\ UNCHANGED <<command, got, answered, nodeVars>>

-----------------------------------------------------------------------------
(* A sensor node: each of its calls may return true if the board has taken the *)
(* message, and false in any case.  The result is read the wrong way round.   *)

\* Node n goes on, to another call or to something else.
Turn(n, to) ==
    /\ phase' = [phase EXCEPT ![n] = to]
    /\ taken' = [taken EXCEPT ![n] = FALSE]

\* It comes to the end of its science mode, or of init(), and calls the MULE.
Approach(n) ==
    /\ phase[n] = "away"
    /\ Turn(n, "ready") \/ Turn(n, "announce")
    /\ UNCHANGED <<command, boardVars, orbit, offered, serial>>

\* waitTransferStartCmd(): true counts as a failure, and the call is made again
\* unless the time is up; false is taken for an acknowledgement.
ReadyReturns(n) ==
    /\ phase[n] = "ready"
    /\ \/ taken[n] /\ (Turn(n, "ready") \/ Turn(n, "away"))
       \/ Turn(n, "announce")
    /\ UNCHANGED <<command, boardVars, orbit, offered, serial>>

\* listenMuleMessage(), the first loop, likewise.
AnnounceReturns(n) ==
    /\ phase[n] = "announce"
    /\ \/ taken[n] /\ Turn(n, "announce")
       \/ Turn(n, "await")
       \/ Turn(n, "away")
    /\ UNCHANGED <<command, boardVars, orbit, offered, serial>>

\* The second loop ends.
Depart(n) ==
    /\ phase[n] = "await"
    /\ Turn(n, "away")
    /\ UNCHANGED <<command, boardVars, orbit, offered, serial>>

\* send(): the next line of the file ...
OfferLine(n) ==
    /\ phase[n] = "send"
    /\ offered[n] < MaxLines[n]
    /\ offered' = [offered EXCEPT ![n] = @ + 1]
    /\ Turn(n, "line")
    /\ UNCHANGED <<command, boardVars, orbit, serial>>

\* Mutant: the call is made again when it returns true, like that of ReadyReturns.
LineReturnsAgain(n) ==
    /\ phase[n] = "line"
    /\ (taken[n] /\ Turn(n, "line")) \/ Turn(n, "send")
    /\ UNCHANGED <<command, boardVars, orbit, offered, serial>>

\* ... whose result is not looked at ...
LineReturns(n) ==
    /\ phase[n] = "line"
    /\ Turn(n, "send")
    /\ UNCHANGED <<command, boardVars, orbit, offered, serial>>

\* ... or, when there is none, the end of the file, in done().
OfferEnd(n) ==
    /\ phase[n] = "send"
    /\ Turn(n, "end")
    /\ UNCHANGED <<command, boardVars, orbit, offered, serial>>

EndReturns(n) ==
    /\ phase[n] = "end"
    /\ Turn(n, "await")
    /\ UNCHANGED <<command, boardVars, orbit, offered, serial>>

NextOrbit(n) ==
    /\ phase[n] = "away"
    /\ orbit[n] < LastOrbit[n]
    /\ orbit' = [orbit EXCEPT ![n] = @ + 1]
    /\ UNCHANGED <<command, boardVars, phase, offered, taken, serial>>

-----------------------------------------------------------------------------

\* What the board does without hearing anything.
BoardStep == ListenTimeout \/ RequestNext \/ AskAnswered \/ AskUnanswered

NodeStep(n) ==
    \/ Approach(n) \/ ReadyReturns(n) \/ AnnounceReturns(n) \/ Depart(n)
    \/ OfferLine(n) \/ LineReturns(n) \/ OfferEnd(n) \/ EndReturns(n)
    \/ NextOrbit(n)

RadioNext ==
    \/ BoardStep
    \/ \E n \in Nodes : ListenHears(n) \/ Obey(n) \/ WaitHears(n) \/ NodeStep(n)
=============================================================================
