--------------------------- MODULE FlightComputer ---------------------------
(***************************************************************************)
(* Low-power mode of the MULE flight computer: the main script of          *)
(* ExecutiveThread.py, the power thread that watches the battery           *)
(* (EPSThread.py), the attitude thread that is asked to stop the           *)
(* magnetorquer (ADCThread.py) and the turnstiles of all five workers      *)
(* (WorkerThread).  The threads talk through Queue.Queue objects; the      *)
(* executive's is the one modelled, the others by what their reader does.  *)
(***************************************************************************)
EXTENDS WorkerThread, Sequences

CONSTANTS
    Deployer, Power, Comm, RFM22B, ADC, \* the workers, as the main script names
                 \* them; Workers are those an instance takes in
    QueueBound \* bound: messages in the executive's queue when another is put

ASSUME FlightAssumption ==
    /\ Workers \subseteq {Deployer, Power, Comm, RFM22B, ADC}
    /\ Power \in Workers \ {Deployer, Comm, RFM22B, ADC}
    /\ QueueBound \in Nat

VARIABLES
    exec,      \* where the main script is
    calls,     \* calls it makes before it goes on, in order
    sampled,   \* elapsed_time as last read in lowPowerMode(): below 15 or not
    queue,     \* inputQueue of the executive
    globalstar,\* the GPIO pin P9_15, which powers the Globalstar radio
    lpm,       \* LPM of the power thread
    power,     \* where the power thread is in EPShealthupdate()
    fileLock,  \* EPSSemaphore, 0 or 1
    asked      \* "AE:DisableBDOT" is in the input queue of ADC

execVars == <<exec, calls, sampled, globalstar>>
powerVars == <<lpm, power, fileLock>>
flightVars == <<vars, execVars, queue, powerVars, asked>>

\* "drain": the only pass over the queue in the first 30 minutes; "wait": the
\* rest of them; "main": the loop that waits for the Globalstar; "bdot" and
\* "low": the two waits of lowPowerMode(), for ADC's answer and for the exit.
ExecLocations == {"drain", "wait", "main", "bdot", "low"}

\* "idle": not in EPShealthupdate(); "check": in it; "announced": it has put
\* "EP:lowPowerMode" and not released the file; "low": in LowPowerMode().
PowerLocations == {"idle", "check", "announced", "low"}

\* The messages that matter to lowPowerMode(), and all others.
LowPower == "EP:lowPowerMode"
LowPowerExit == "EP:lowPowerExit"
Report == "ER:Done"
BdotAnswers == {"EA:BDOTdisabled", "EA:disableFailure"}
Mail == {LowPower, LowPowerExit, Report} \cup BdotAnswers

-----------------------------------------------------------------------------
(* Calls of the main script on the workers and on the pin. *)

CallSet ==
    ({"construct", "finish", "pause", "resume"} \X {Deployer, Power, Comm, RFM22B, ADC})
        \cup ({"globalstar"} \X {"LOW", "HIGH"})

\* The constructors, in order, and the four workers that are let run.
BootCalls ==
    << <<"construct", Deployer>>, <<"finish", Deployer>>,
       <<"construct", Power>>, <<"finish", Power>>,
       <<"construct", Comm>>, <<"finish", Comm>>,
       <<"construct", RFM22B>>, <<"finish", RFM22B>>,
       <<"construct", ADC>>, <<"finish", ADC>>,
       <<"resume", ADC>>, <<"resume", Deployer>>, <<"resume", Power>>,
       <<"resume", RFM22B>> >>

\* After 30 minutes.
StartCalls == << <<"resume", Comm>>, <<"globalstar", "HIGH">> >>

\* Mutant: the radio is not paused.
ShedCommOnly == << <<"globalstar", "LOW">>, <<"pause", Comm>> >>

\* Entering low power.
ShedCalls == << <<"globalstar", "LOW">>, <<"pause", Comm>>, <<"pause", RFM22B>> >>

\* Mutant: the radio stays paused.
RestoreAllButRadio ==
    << <<"globalstar", "HIGH">>, <<"resume", ADC>>, <<"resume", Comm>>,
       <<"resume", Deployer>> >>

\* Mutant: "all threads" taken at its word.
RestoreEveryone ==
    << <<"globalstar", "HIGH">>, <<"resume", ADC>>, <<"resume", Comm>>,
       <<"resume", Deployer>>, <<"resume", RFM22B>>, <<"resume", Power>> >>

\* Leaving low power: two workers are resumed that were never paused.
RestoreCalls ==
    << <<"globalstar", "HIGH">>, <<"resume", ADC>>, <<"resume", Comm>>,
       <<"resume", Deployer>>, <<"resume", RFM22B>> >>

\* A call on a worker; one that an instance leaves out does nothing.
OnWorker(call, w) ==
    \/ w \notin Workers /\ UNCHANGED vars
    \/ /\ w \in Workers
       /\ \/ call = "construct" /\ Construct(w)
          \/ call = "finish" /\ FinishConstructor(w)
          \/ call = "pause" /\ Pause(w)
          \/ call = "resume" /\ Resume(w)

\* The next call, before the main script goes on.
ExecutiveCall ==
    /\ calls # <<>>
    /\ calls' = Tail(calls)
    /\ LET c == Head(calls)
       IN  \/ c[1] = "globalstar" /\ globalstar' = c[2] /\ UNCHANGED vars
           \/ c[1] # "globalstar" /\ OnWorker(c[1], c[2]) /\ UNCHANGED globalstar
    /\ UNCHANGED <<exec, sampled, queue, powerVars, asked>>

-----------------------------------------------------------------------------
(* The main script *)

Ready == calls = <<>>

\* Mutant: the main loop leaves the queue alone, as the one before it does.
DrainsOnce == exec = "drain"

\* The two loops that take messages and process them.
Drains == exec \in {"drain", "main"}

\* processMessage(): "EP:lowPowerMode" is lowPowerMode(), which first puts
\* "AE:DisableBDOT" in the queue of ADC; the rest moves flags and other queues.
ProcessMessage ==
    /\ Ready
    /\ Drains
    /\ queue # <<>>
    /\ queue' = Tail(queue)
    /\ \/ /\ Head(queue) = LowPower
          /\ exec' = "bdot"
          /\ asked' = TRUE
          /\ sampled' = "below"
       \/ Head(queue) # LowPower /\ UNCHANGED <<exec, asked, sampled>>
    /\ UNCHANGED <<vars, calls, globalstar, powerVars>>

\* queueEmpty is set, once and for all.
QueueEmpty ==
    /\ Ready
    /\ exec = "drain"
    /\ queue = <<>>
    /\ exec' = "wait"
    /\ UNCHANGED <<vars, calls, sampled, globalstar, queue, powerVars, asked>>

\* Thirty minutes after the start.
WaitThirty ==
    /\ Ready
    /\ exec = "wait"
    /\ exec' = "main"
    /\ calls' = StartCalls
    /\ UNCHANGED <<vars, sampled, globalstar, queue, powerVars, asked>>

\* The wait for ADC: a message is taken, whatever it is.  The time is read
\* before the message is waited for and tested after it has come, so at least
\* two are taken unless one is ADC's answer.
AwaitBdot ==
    /\ Ready
    /\ exec = "bdot"
    /\ queue # <<>>
    /\ queue' = Tail(queue)
    /\ \/ /\ Head(queue) \in BdotAnswers \/ sampled = "above"
          /\ exec' = "low"
          /\ calls' = ShedCalls
          /\ UNCHANGED sampled
       \/ /\ Head(queue) \notin BdotAnswers
          /\ sampled = "below"
          /\ sampled' \in {"below", "above"}
          /\ UNCHANGED <<exec, calls>>
    /\ UNCHANGED <<vars, globalstar, powerVars, asked>>

\* Mutant: any message ends low-power mode.
AwaitAnything ==
    /\ Ready
    /\ exec = "low"
    /\ queue # <<>>
    /\ queue' = Tail(queue)
    /\ exec' = "main"
    /\ calls' = RestoreCalls
    /\ UNCHANGED <<vars, sampled, globalstar, powerVars, asked>>

\* The wait for the exit: every other message is thrown away.
AwaitExit ==
    /\ Ready
    /\ exec = "low"
    /\ queue # <<>>
    /\ queue' = Tail(queue)
    /\ \/ /\ Head(queue) = LowPowerExit
          /\ exec' = "main"
          /\ calls' = RestoreCalls
       \/ Head(queue) # LowPowerExit /\ UNCHANGED <<exec, calls>>
    /\ UNCHANGED <<vars, sampled, globalstar, powerVars, asked>>

-----------------------------------------------------------------------------
(* The power thread *)

LoopReturns(w) == w \in Workers /\ LoopEnds(w) /\ pc'[w] = "acquire"
LoopRaises(w) == w \in Workers /\ LoopEnds(w) /\ pc'[w] = "loopFailed"

\* Another message fits in the executive's queue.
Room == Len(queue) < QueueBound

\* EPShealthupdate(), more than two minutes after init(): the first pass over
\* the queue is over.  The semaphore is asked for and not waited for.
HealthUpdate ==
    /\ pc[Power] = "loop"
    /\ power = "idle"
    /\ exec # "drain"
    /\ power' = "check"
    /\ fileLock' = 0
    /\ UNCHANGED <<vars, execVars, queue, lpm, asked>>

\* The battery is well, or is no worse than it was.
HealthWritten ==
    /\ power = "check"
    /\ power' = "idle"
    /\ fileLock' = 1
    /\ UNCHANGED <<vars, execVars, queue, lpm, asked>>

\* Mutant: the executive is told only after the file has been written.
BatteryLowUntold ==
    /\ power = "check"
    /\ Room
    /\ power' = "announced"
    /\ lpm' = 1
    /\ UNCHANGED <<vars, execVars, queue, fileLock, asked>>

\* Below 6.9 V: say so to the executive, with the file still open.
BatteryLow ==
    /\ power = "check"
    /\ Room
    /\ power' = "announced"
    /\ lpm' = 1
    /\ queue' = Append(queue, LowPower)
    /\ UNCHANGED <<vars, execVars, fileLock, asked>>

\* The file is closed and the semaphore released.
EnterLowPower ==
    /\ power = "announced"
    /\ power' = "low"
    /\ fileLock' = 1
    /\ UNCHANGED <<vars, execVars, queue, lpm, asked>>

\* At 7.75 V or above, and the thread has not died meanwhile: it leaves
\* EPShealthupdate().
BatteryRecovered ==
    /\ pc[Power] = "loop"
    /\ power = "low"
    /\ Room
    /\ power' = "idle"
    /\ lpm' = 0
    /\ queue' = Append(queue, LowPowerExit)
    /\ UNCHANGED <<vars, execVars, fileLock, asked>>

\* Mutant: a Semaphore where the main script has a BoundedSemaphore.
HealthRaisesUnbounded ==
    /\ power # "idle"
    /\ fileLock' = fileLock + 1
    /\ power' = "idle"
    /\ UNCHANGED <<vars, execVars, queue, lpm, asked>>

\* The I2C bus or the file fails, inside the bare except: the semaphore is
\* released, once too often in LowPowerMode(), and then that raises too.
HealthRaises ==
    /\ power # "idle"
    /\ \/ /\ fileLock = 0
          /\ fileLock' = 1
          /\ power' = "idle"
          /\ UNCHANGED vars
       \/ /\ fileLock = 1
          /\ LoopRaises(Power)
          /\ UNCHANGED <<power, fileLock>>
    /\ UNCHANGED <<execVars, queue, lpm, asked>>

\* Its own queue is empty: nothing sends it anything.
PowerLoopReturns ==
    /\ power = "idle"
    /\ LoopReturns(Power)
    /\ UNCHANGED <<execVars, queue, powerVars, asked>>

-----------------------------------------------------------------------------
(* The other workers' loop() *)

\* disableBDOT() calls a method that ADCThread does not have, before it answers.
AdcLoop ==
    /\ \/ asked /\ LoopRaises(ADC) /\ asked' = FALSE
       \/ ~asked /\ LoopReturns(ADC) /\ UNCHANGED asked
    /\ UNCHANGED <<execVars, queue, powerVars>>

\* A line from the radio board: nothing for the executive, a message for it, or
\* one that is too short for message[3].
RadioLoop ==
    /\ \/ (LoopReturns(RFM22B) \/ LoopRaises(RFM22B)) /\ UNCHANGED queue
       \/ Room /\ LoopReturns(RFM22B) /\ queue' = Append(queue, Report)
    /\ UNCHANGED <<execVars, powerVars, asked>>

\* SMS_pull_poll() always returns False, which routeUplink() cannot search.
CommLoop ==
    /\ LoopRaises(Comm)
    /\ UNCHANGED <<execVars, queue, powerVars, asked>>

\* Only the ground asks for a deployment, and the ground is not heard.
DeployerLoop ==
    /\ LoopReturns(Deployer)
    /\ UNCHANGED <<execVars, queue, powerVars, asked>>

\* run() outside loop().
Turnstile(w) ==
    /\ RunInit(w) \/ EnterTurnstile(w) \/ LeaveTurnstile(w) \/ CheckTerminating(w)
    /\ UNCHANGED <<execVars, queue, powerVars, asked>>

-----------------------------------------------------------------------------

FlightInit ==
    /\ Init
    /\ exec = "drain"
    /\ calls = BootCalls
    /\ sampled = "below"
    /\ queue = <<>>
    /\ globalstar = "LOW"
    /\ lpm = 0
    /\ power = "idle"
    /\ fileLock = 1
    /\ asked = FALSE

Executive ==
    \/ ExecutiveCall \/ ProcessMessage \/ QueueEmpty \/ WaitThirty
    \/ AwaitBdot \/ AwaitExit

FlightNext ==
    \/ Executive
    \/ HealthUpdate \/ HealthWritten \/ BatteryLow \/ EnterLowPower
    \/ BatteryRecovered \/ HealthRaises \/ PowerLoopReturns
    \/ AdcLoop \/ RadioLoop \/ CommLoop \/ DeployerLoop
    \/ \E w \in Workers : Turnstile(w)

FlightSpec == FlightInit /\ [][FlightNext]_flightVars

\* The main thread keeps running.  Nothing is assumed of the battery, of the
\* radio board or of the other threads.
FairFlightSpec == FlightSpec /\ WF_flightVars(Executive)

-----------------------------------------------------------------------------
(* Properties *)

FlightTypeOK ==
    /\ TypeOK
    /\ exec \in ExecLocations
    /\ calls \in Seq(CallSet)
    /\ sampled \in {"below", "above"}
    /\ queue \in Seq(Mail)
    /\ globalstar \in {"LOW", "HIGH"}
    /\ lpm \in {0, 1}
    /\ power \in PowerLocations
    /\ fileLock \in {0, 1}
    /\ asked \in BOOLEAN

InQueue(m) == \E i \in DOMAIN queue : queue[i] = m
InLowPower == exec \in {"bdot", "low"}

\* While the power thread is in low-power mode, the executive is in
\* lowPowerMode() too or has the message that will put it there still in its
\* queue: whatever it discards while it waits, and however many entries and
\* exits pile up in the first 30 minutes, it never runs on at full load.
LowPowerNeverMissed == lpm = 1 => InLowPower \/ InQueue(LowPower)

\* While the executive waits for the exit the Globalstar is off, and a paused
\* worker that was not inside its turnstile makes no second pass.
LoadIsShed ==
    exec = "low" /\ Ready =>
        /\ globalstar = "LOW"
        /\ \A w \in {Comm, RFM22B} \cap Workers :
              /\ wanted[w] = "pause"
              /\ held[w] => permit[w] = 0 /\ begun[w] <= 1

\* Outside low-power mode no worker is left paused: each was last asked to run,
\* and none is held up at its turnstile.
NobodyLeftPaused ==
    exec = "main" /\ Ready =>
        \A w \in Workers : wanted[w] = "run" /\ (pc[w] = "acquire" => permit[w] = 1)

\* The thread that must announce the end of low power is never killed by its
\* turnstile, as a resume() that it does not need could.
PowerPassesTurnstile == pc[Power] # "releaseFailed"

\* A low battery is always acted on or over, even when it was reported in the
\* first 30 minutes and the power thread has died since.
LowPowerHeeded == lpm = 1 ~> (InLowPower \/ lpm = 0)

\* What the comment in lowPowerMode() says it waits for: the message that the
\* power thread sends when low power is over.  It is still to come.
ExitIsStillToCome ==
    exec = "low" /\ Ready => lpm = 1 \/ InQueue(LowPowerExit)
=============================================================================
