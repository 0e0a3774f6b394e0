------------------------ MODULE FlightComputer_proof ------------------------
(***************************************************************************)
(* Proofs about the low-power mode of the flight computer, for any bound   *)
(* on its queue and any choice of workers.                                 *)
(***************************************************************************)
EXTENDS FlightComputer, WorkerThread_proof, TLAPS

-----------------------------------------------------------------------------
(* The flight computer is a use of WorkerThread. *)

\* A call of the main script on a worker is a step of WorkerThread or nothing.
LEMMA OnWorkerIsStep ==
    ASSUME NEW call, NEW w, OnWorker(call, w)
    PROVE  [Next]_vars
BY DEF OnWorker, Next

\* So is the end of a worker's loop().
LEMMA LoopIsStep ==
    ASSUME NEW w, LoopReturns(w) \/ LoopRaises(w)
    PROVE  [Next]_vars
BY DEF LoopReturns, LoopRaises, Next

\* Every step of the flight computer is a step of WorkerThread or leaves the
\* turnstiles alone.
LEMMA FlightStepIsStep == [FlightNext]_flightVars => [Next]_vars
<1> SUFFICES ASSUME [FlightNext]_flightVars PROVE [Next]_vars
  OBVIOUS
<1>1. CASE Executive
  BY <1>1, OnWorkerIsStep
  DEF Executive, ExecutiveCall, ProcessMessage, QueueEmpty, WaitThirty, AwaitBdot, AwaitExit
<1>2. CASE HealthUpdate \/ HealthWritten \/ BatteryLow \/ EnterLowPower \/ BatteryRecovered
  BY <1>2 DEF HealthUpdate, HealthWritten, BatteryLow, EnterLowPower, BatteryRecovered
<1>3. CASE HealthRaises \/ PowerLoopReturns \/ AdcLoop
  BY <1>3, LoopIsStep DEF HealthRaises, PowerLoopReturns, AdcLoop
<1>4. CASE RadioLoop \/ CommLoop \/ DeployerLoop
  BY <1>4, LoopIsStep DEF RadioLoop, CommLoop, DeployerLoop
<1>5. CASE \E w \in Workers : Turnstile(w)
  BY <1>5 DEF Turnstile, Next
<1>6. CASE UNCHANGED flightVars
  BY <1>6 DEF flightVars
<1> QED
  BY <1>1, <1>2, <1>3, <1>4, <1>5, <1>6 DEF FlightNext

\* The workers of the flight computer behave as WorkerThread specifies, although
\* the executive decides when they are paused and what their loop() does.
THEOREM Composition == FlightSpec => Spec
<1>1. FlightInit => Init
  BY DEF FlightInit
<1> QED
  BY <1>1, FlightStepIsStep, PTL DEF FlightSpec, Spec

-----------------------------------------------------------------------------
(* Types *)

\* The lists of calls are made of calls.
LEMMA CallLists ==
    /\ BootCalls \in Seq(CallSet)
    /\ StartCalls \in Seq(CallSet)
    /\ ShedCalls \in Seq(CallSet)
    /\ RestoreCalls \in Seq(CallSet)
<1>1. BootCalls \in Seq(CallSet)
  BY DEF BootCalls, CallSet
<1>2. /\ <<"globalstar", "HIGH">> \in CallSet
      /\ <<"globalstar", "LOW">> \in CallSet
      /\ \A w \in {Deployer, Power, Comm, RFM22B, ADC} :
            <<"pause", w>> \in CallSet /\ <<"resume", w>> \in CallSet
  BY DEF CallSet
<1>3. StartCalls \in Seq(CallSet)
  BY <1>2 DEF StartCalls
<1>4. ShedCalls \in Seq(CallSet)
  BY <1>2 DEF ShedCalls
<1>5. RestoreCalls \in Seq(CallSet)
  BY <1>2 DEF RestoreCalls
<1> QED
  BY <1>1, <1>3, <1>4, <1>5

\* What is left of a non-empty sequence after its head has been taken.
LEMMA TailOf ==
    ASSUME NEW S, NEW s \in Seq(S), s # <<>>
    PROVE  /\ Head(s) \in S
           /\ Head(s) = s[1]
           /\ Tail(s) \in Seq(S)
           /\ Len(s) \in Nat \ {0}
           /\ Len(Tail(s)) = Len(s) - 1
           /\ \A i \in 1 .. Len(s) - 1 : Tail(s)[i] = s[i + 1]
OBVIOUS

\* The variables of FlightComputer itself have their types after every step.
FlightVarsOK ==
    /\ exec \in ExecLocations
    /\ calls \in Seq(CallSet)
    /\ sampled \in {"below", "above"}
    /\ queue \in Seq(Mail)
    /\ globalstar \in {"LOW", "HIGH"}
    /\ lpm \in {0, 1}
    /\ power \in PowerLocations
    /\ fileLock \in {0, 1}
    /\ asked \in BOOLEAN

\* Every step keeps the types of the variables that FlightComputer adds.
LEMMA FlightVarsStep == FlightVarsOK /\ [FlightNext]_flightVars => FlightVarsOK'
<1> SUFFICES ASSUME FlightVarsOK, [FlightNext]_flightVars PROVE FlightVarsOK'
  OBVIOUS
<1> USE DEF FlightVarsOK, ExecLocations, PowerLocations
<1>1. CASE ExecutiveCall
  <2>1. Head(calls) \in CallSet /\ Tail(calls) \in Seq(CallSet)
    BY <1>1, TailOf DEF ExecutiveCall
  <2>2. globalstar' \in {"LOW", "HIGH"}
    BY <1>1, <2>1 DEF ExecutiveCall, CallSet
  <2> QED
    BY <1>1, <2>1, <2>2 DEF ExecutiveCall, powerVars
<1>2. CASE ProcessMessage \/ AwaitBdot \/ AwaitExit
  <2>1. queue' \in Seq(Mail)
    BY <1>2, TailOf DEF ProcessMessage, AwaitBdot, AwaitExit
  <2>2. calls' \in Seq(CallSet)
    BY <1>2, CallLists DEF ProcessMessage, AwaitBdot, AwaitExit
  <2> QED
    BY <1>2, <2>1, <2>2 DEF ProcessMessage, AwaitBdot, AwaitExit, powerVars
<1>3. CASE QueueEmpty \/ WaitThirty
  BY <1>3, CallLists DEF QueueEmpty, WaitThirty, powerVars
<1>4. CASE HealthUpdate \/ HealthWritten \/ EnterLowPower
  BY <1>4 DEF HealthUpdate, HealthWritten, EnterLowPower, execVars
<1>5. CASE BatteryLow \/ BatteryRecovered
  <2>1. queue' \in Seq(Mail)
    BY <1>5 DEF BatteryLow, BatteryRecovered, Mail
  <2> QED
    BY <1>5, <2>1 DEF BatteryLow, BatteryRecovered, execVars
<1>6. CASE HealthRaises \/ PowerLoopReturns
  BY <1>6 DEF HealthRaises, PowerLoopReturns, execVars, powerVars
<1>7. CASE AdcLoop \/ CommLoop \/ DeployerLoop
  BY <1>7 DEF AdcLoop, CommLoop, DeployerLoop, execVars, powerVars
<1>8. CASE RadioLoop
  <2>1. queue' \in Seq(Mail)
    BY <1>8 DEF RadioLoop, Mail
  <2> QED
    BY <1>8, <2>1 DEF RadioLoop, execVars, powerVars
<1>9. CASE \E w \in Workers : Turnstile(w)
  BY <1>9 DEF Turnstile, execVars, powerVars
<1>10. CASE UNCHANGED flightVars
  BY <1>10 DEF flightVars, execVars, powerVars
<1> QED
  BY <1>1, <1>2, <1>3, <1>4, <1>5, <1>6, <1>7, <1>8, <1>9, <1>10 DEF FlightNext, Executive

\* Types hold from the start on.
LEMMA FlightVarsAlways == FlightSpec => []FlightVarsOK
<1>1. FlightInit => FlightVarsOK
  <2> SUFFICES ASSUME FlightInit PROVE FlightVarsOK
    OBVIOUS
  <2>1. calls \in Seq(CallSet) /\ queue \in Seq(Mail)
    BY CallLists DEF FlightInit
  <2> QED
    BY <2>1 DEF FlightInit, FlightVarsOK, ExecLocations, PowerLocations
<1> QED
  BY <1>1, FlightVarsStep, PTL DEF FlightSpec

\* Type correctness of the flight computer.  The types of the turnstiles are
\* those proved of WorkerThread.
THEOREM FlightTypeCorrect == FlightSpec => []FlightTypeOK
<1>1. TypeOK /\ FlightVarsOK => FlightTypeOK
  BY DEF FlightVarsOK, FlightTypeOK
<1> QED
  BY <1>1, Composition, TypeCorrect, FlightVarsAlways, PTL

\* A pause of the executive that found its worker outside the turnstile holds.
THEOREM FlightPauseHolds == FlightSpec => []EffectivePauseHolds
BY Composition, PauseHolds, PTL

-----------------------------------------------------------------------------
(* The executive does not miss a low battery. *)

\* Of the messages of the power thread still in the queue, the last one says what
\* its LPM is; with none there, the executive knows.
LastWordIsLow ==
    lpm = 1 =>
        \/ \E i \in DOMAIN queue :
              /\ queue[i] = LowPower
              /\ \A j \in DOMAIN queue : queue[j] = LowPowerExit => j < i
        \/ InLowPower /\ ~InQueue(LowPowerExit)

\* Taking the first message and acting on it as the code does: "EP:lowPowerMode"
\* leads into low-power mode or is taken there, and only the exit leads out.
LEMMA TakeKeepsLastWord ==
    ASSUME FlightVarsOK, LastWordIsLow, queue # <<>>, queue' = Tail(queue), lpm' = lpm,
           Head(queue) = LowPower => InLowPower',
           Head(queue) # LowPowerExit /\ InLowPower => InLowPower'
    PROVE  LastWordIsLow'
<1> SUFFICES ASSUME lpm = 1
             PROVE  \/ \E i \in DOMAIN queue' :
                          /\ queue'[i] = LowPower
                          /\ \A j \in DOMAIN queue' : queue'[j] = LowPowerExit => j < i
                    \/ InLowPower' /\ ~\E j \in DOMAIN queue' : queue'[j] = LowPowerExit
  BY DEF LastWordIsLow, InQueue
<1> DEFINE n == Len(queue)
<1>1. /\ n \in Nat \ {0}
      /\ DOMAIN queue = 1 .. n
      /\ DOMAIN queue' = 1 .. n - 1
      /\ Head(queue) = queue[1]
      /\ \A i \in 1 .. n - 1 : queue'[i] = queue[i + 1]
  BY TailOf DEF FlightVarsOK
<1> HIDE DEF n
<1>2. CASE \E i \in DOMAIN queue :
              /\ queue[i] = LowPower
              /\ \A j \in DOMAIN queue : queue[j] = LowPowerExit => j < i
  <2> PICK i \in 1 .. n : /\ queue[i] = LowPower
                          /\ \A j \in 1 .. n : queue[j] = LowPowerExit => j < i
    BY <1>1, <1>2
  <2>1. CASE i = 1
    <3>1. \A j \in 1 .. n : queue[j] # LowPowerExit
      BY <1>1, <2>1
    <3>2. \A j \in 1 .. n - 1 : queue'[j] # LowPowerExit
      BY <1>1, <3>1
    <3> QED
      BY <1>1, <2>1, <3>2
  <2>2. CASE i # 1
    <3>1. i - 1 \in 1 .. n - 1 /\ queue'[i - 1] = LowPower
      BY <1>1, <2>2
    <3>2. \A j \in 1 .. n - 1 : queue'[j] = LowPowerExit => j < i - 1
      BY <1>1
    <3> QED
      BY <1>1, <3>1, <3>2
  <2> QED
    BY <2>1, <2>2
<1>3. CASE InLowPower /\ ~InQueue(LowPowerExit)
  <2>1. \A j \in 1 .. n : queue[j] # LowPowerExit
    BY <1>1, <1>3 DEF InQueue
  <2>2. \A j \in 1 .. n - 1 : queue'[j] # LowPowerExit
    BY <1>1, <2>1
  <2> QED
    BY <1>1, <1>3, <2>1, <2>2
<1> QED
  BY <1>2, <1>3 DEF LastWordIsLow

\* A message put at the end changes the last word only as LPM does.
LEMMA PutKeepsLastWord ==
    ASSUME FlightVarsOK, LastWordIsLow, NEW m \in Mail, queue' = Append(queue, m), exec' = exec,
           \/ m = LowPower
           \/ lpm' = 0
           \/ m = Report /\ lpm' = lpm
    PROVE  LastWordIsLow'
<1> DEFINE n == Len(queue)
<1>1. /\ n \in Nat
      /\ DOMAIN queue = 1 .. n
      /\ DOMAIN queue' = 1 .. n + 1
      /\ queue'[n + 1] = m
      /\ \A i \in 1 .. n : queue'[i] = queue[i]
  BY DEF FlightVarsOK
<1> HIDE DEF n
<1>2. CASE m = LowPower
  <2>1. \A j \in 1 .. n + 1 : queue'[j] = LowPowerExit => j < n + 1
    BY <1>1, <1>2 DEF LowPower, LowPowerExit
  <2> QED
    BY <1>1, <1>2, <2>1 DEF LastWordIsLow
<1>3. CASE lpm' = 0
  BY <1>3 DEF LastWordIsLow
<1>4. CASE m = Report /\ lpm' = lpm /\ lpm = 1
  <2>1. \A j \in 1 .. n + 1 : queue'[j] = LowPowerExit => j \in 1 .. n /\ queue[j] = LowPowerExit
    BY <1>1, <1>4 DEF Report, LowPowerExit
  <2>2. CASE \E i \in 1 .. n : /\ queue[i] = LowPower
                              /\ \A j \in 1 .. n : queue[j] = LowPowerExit => j < i
    <3> PICK i \in 1 .. n : /\ queue[i] = LowPower
                            /\ \A j \in 1 .. n : queue[j] = LowPowerExit => j < i
      BY <2>2
    <3>1. i \in 1 .. n + 1 /\ queue'[i] = LowPower
      BY <1>1
    <3> QED
      BY <1>1, <2>1, <3>1 DEF LastWordIsLow
  <2>3. CASE InLowPower /\ ~InQueue(LowPowerExit)
    BY <1>1, <2>1, <2>3 DEF LastWordIsLow, InLowPower, InQueue
  <2> QED
    BY <1>1, <1>4, <2>2, <2>3 DEF LastWordIsLow
<1> QED
  BY <1>2, <1>3, <1>4 DEF LastWordIsLow

\* The last word survives every step.
LEMMA LastWordStep ==
    FlightVarsOK /\ LastWordIsLow /\ [FlightNext]_flightVars => LastWordIsLow'
<1> SUFFICES ASSUME FlightVarsOK, LastWordIsLow, [FlightNext]_flightVars
             PROVE  LastWordIsLow'
  OBVIOUS
<1>1. ASSUME UNCHANGED <<exec, queue, lpm>> PROVE LastWordIsLow'
  BY <1>1 DEF LastWordIsLow, InLowPower, InQueue
<1>2. CASE ExecutiveCall
  BY <1>1, <1>2 DEF ExecutiveCall, powerVars
<1>3. CASE ProcessMessage
  BY <1>3, TakeKeepsLastWord DEF ProcessMessage, Drains, InLowPower, powerVars
<1>4. CASE QueueEmpty \/ WaitThirty
  BY <1>4 DEF QueueEmpty, WaitThirty, LastWordIsLow, InLowPower, InQueue, powerVars
<1>5. CASE AwaitBdot
  BY <1>5, TakeKeepsLastWord DEF AwaitBdot, InLowPower, powerVars
<1>6. CASE AwaitExit
  BY <1>6, TakeKeepsLastWord DEF AwaitExit, InLowPower, LowPower, LowPowerExit, powerVars
<1>7. CASE HealthUpdate \/ HealthWritten \/ EnterLowPower \/ HealthRaises \/ PowerLoopReturns
  BY <1>1, <1>7
  DEF HealthUpdate, HealthWritten, EnterLowPower, HealthRaises, PowerLoopReturns,
      execVars, powerVars
<1>8. CASE BatteryLow
  BY <1>8, PutKeepsLastWord DEF BatteryLow, Mail, execVars
<1>9. CASE BatteryRecovered
  BY <1>9, PutKeepsLastWord DEF BatteryRecovered, Mail, execVars
<1>10. CASE RadioLoop
  <2>1. CASE UNCHANGED queue
    BY <1>1, <1>10, <2>1 DEF RadioLoop, execVars, powerVars
  <2>2. CASE queue' = Append(queue, Report)
    BY <1>10, <2>2, PutKeepsLastWord DEF RadioLoop, Mail, execVars, powerVars
  <2> QED
    BY <1>10, <2>1, <2>2 DEF RadioLoop
<1>11. CASE AdcLoop \/ CommLoop \/ DeployerLoop
  BY <1>1, <1>11 DEF AdcLoop, CommLoop, DeployerLoop, execVars, powerVars
<1>12. CASE \E w \in Workers : Turnstile(w)
  BY <1>1, <1>12 DEF Turnstile, execVars, powerVars
<1>13. CASE UNCHANGED flightVars
  BY <1>1, <1>13 DEF flightVars, execVars, powerVars
<1> QED
  BY <1>2, <1>3, <1>4, <1>5, <1>6, <1>7, <1>8, <1>9, <1>10, <1>11, <1>12, <1>13
  DEF FlightNext, Executive

\* The executive never runs on at full load while the power thread is in
\* low-power mode and its message is nowhere: whatever lowPowerMode() throws
\* away, and however long the queue.
THEOREM NeverMissed == FlightSpec => []LowPowerNeverMissed
<1>1. FlightInit => LastWordIsLow
  BY DEF FlightInit, LastWordIsLow
<1>2. LastWordIsLow => LowPowerNeverMissed
  BY DEF LastWordIsLow, LowPowerNeverMissed, InQueue
<1> QED
  BY <1>1, <1>2, LastWordStep, FlightVarsAlways, PTL DEF FlightSpec

-----------------------------------------------------------------------------
(* What the main script's calls do to the workers. *)

Call(op, w) == <<op, w>>
Pending(op, w) == \E i \in DOMAIN calls : calls[i] = Call(op, w)

\* Once the pending calls are made, w is wanted to run: a resume is pending
\* behind every construction or pause of w, or w is so already.
WillRun(w) ==
    \/ \E i \in DOMAIN calls :
          /\ calls[i] = Call("resume", w)
          /\ \A j \in DOMAIN calls :
                calls[j] \in {Call("construct", w), Call("pause", w)} => j < i
    \/ wanted[w] = "run" /\ ~Pending("construct", w) /\ ~Pending("pause", w)

\* Once they are made, w is wanted to pause.
WillPause(w) == ~Pending("resume", w) /\ (Pending("pause", w) \/ wanted[w] = "pause")

\* Once they are made, the Globalstar is off.
WillBeOff ==
    /\ ~Pending("globalstar", "HIGH")
    /\ Pending("globalstar", "LOW") \/ globalstar = "LOW"

\* Who is to run and who is to pause, wherever the main script is.
WantInv ==
    /\ exec \in {"drain", "wait"} => \A w \in Workers \ {Comm} : WillRun(w)
    /\ exec \in {"main", "bdot"} => \A w \in Workers : WillRun(w)
    /\ exec = "low" =>
          /\ \A w \in Workers \ {Comm, RFM22B} : WillRun(w)
          /\ \A w \in {Comm, RFM22B} \cap Workers : WillPause(w)
          /\ WillBeOff

\* What a call changes of the two, by the kind of call.
LEMMA CallEffect ==
    ASSUME TypeOK, FlightVarsOK, ExecutiveCall
    PROVE  /\ \A w \in Workers : wanted'[w] # wanted[w] =>
                 \/ calls[1] = Call("resume", w) /\ wanted'[w] = "run"
                 \/ /\ calls[1] \in {Call("construct", w), Call("pause", w)}
                    /\ wanted'[w] = "pause"
           /\ \A w \in Workers :
                 /\ calls[1] = Call("resume", w) => wanted'[w] = "run"
                 /\ calls[1] = Call("pause", w) => wanted'[w] = "pause"
           /\ globalstar' = IF calls[1] = Call("globalstar", "HIGH") THEN "HIGH"
                            ELSE IF calls[1] = Call("globalstar", "LOW") THEN "LOW"
                            ELSE globalstar
<1>1. calls # <<>> /\ Head(calls) = calls[1] /\ calls[1] \in CallSet
  BY TailOf DEF ExecutiveCall, FlightVarsOK
<1>2. CASE calls[1] \in {"globalstar"} \X {"LOW", "HIGH"}
  <2> PICK b \in {"LOW", "HIGH"} : calls[1] = <<"globalstar", b>>
    BY <1>2
  <2>1. wanted' = wanted /\ globalstar' = b
    BY <1>1 DEF ExecutiveCall, vars
  <2>2. \A w \in Workers : calls[1] # Call("resume", w) /\ calls[1] # Call("pause", w)
    BY DEF Call
  <2>3. CASE b = "HIGH"
    BY <2>1, <2>2, <2>3 DEF Call
  <2>4. CASE b = "LOW"
    <3>1. calls[1] = Call("globalstar", "LOW") /\ calls[1] # Call("globalstar", "HIGH")
      BY <2>4 DEF Call
    <3> QED
      BY <2>1, <2>2, <2>4, <3>1
  <2> QED
    BY <2>3, <2>4
<1>3. CASE calls[1] \in {"construct", "finish", "pause", "resume"} \X {Deployer, Power, Comm, RFM22B, ADC}
  <2> PICK op \in {"construct", "finish", "pause", "resume"},
           v \in {Deployer, Power, Comm, RFM22B, ADC} : calls[1] = <<op, v>>
    BY <1>3
  <2>1. OnWorker(op, v) /\ globalstar' = globalstar
    BY <1>1 DEF ExecutiveCall
  <2>2. CASE v \notin Workers
    <3>1. wanted' = wanted
      BY <2>1, <2>2 DEF OnWorker, vars
    <3>2. \A w \in Workers :
             \A other : calls[1] # Call(other, w)
      BY <2>2 DEF Call
    <3>3. calls[1] # Call("globalstar", "HIGH") /\ calls[1] # Call("globalstar", "LOW")
      BY DEF Call
    <3> QED
      BY <2>1, <3>1, <3>2, <3>3
  <2>3. CASE v \in Workers /\ op = "construct"
    BY <2>1, <2>3 DEF OnWorker, Call, Construct, TypeOK
  <2>4. CASE v \in Workers /\ op = "finish"
    BY <2>1, <2>4 DEF OnWorker, Call, FinishConstructor
  <2>5. CASE v \in Workers /\ op = "pause"
    BY <2>1, <2>5 DEF OnWorker, Call, Pause, TypeOK
  <2>6. CASE v \in Workers /\ op = "resume"
    BY <2>1, <2>6 DEF OnWorker, Call, Resume, OpenTurnstile, TypeOK
  <2> QED
    BY <2>2, <2>3, <2>4, <2>5, <2>6
<1> QED
  BY <1>1, <1>2, <1>3 DEF CallSet

\* The pending calls after the first has been made.
LEMMA CallsLeft ==
    ASSUME FlightVarsOK, ExecutiveCall
    PROVE  /\ Len(calls) \in Nat \ {0}
           /\ DOMAIN calls = 1 .. Len(calls)
           /\ DOMAIN calls' = 1 .. Len(calls) - 1
           /\ \A i \in 1 .. Len(calls) - 1 : calls'[i] = calls[i + 1]
           /\ calls' \in Seq(CallSet)
<1>1. calls \in Seq(CallSet) /\ calls # <<>> /\ calls' = Tail(calls)
  BY DEF FlightVarsOK, ExecutiveCall
<1> QED
  BY <1>1, TailOf

\* Making a call takes its worker no further from where the calls will leave it.
LEMMA CallKeepsWillRun ==
    ASSUME TypeOK, FlightVarsOK, ExecutiveCall, NEW w \in Workers, WillRun(w)
    PROVE  WillRun(w)'
<1> DEFINE n == Len(calls)
<1>1. /\ n \in Nat \ {0}
      /\ DOMAIN calls = 1 .. n
      /\ DOMAIN calls' = 1 .. n - 1
      /\ \A i \in 1 .. n - 1 : calls'[i] = calls[i + 1]
  BY CallsLeft
<1>a. Workers' = Workers
  OBVIOUS
<1> HIDE DEF n
<1>2. CASE \E i \in 1 .. n :
              /\ calls[i] = Call("resume", w)
              /\ \A j \in 1 .. n :
                    calls[j] \in {Call("construct", w), Call("pause", w)} => j < i
  <2> PICK i \in 1 .. n : /\ calls[i] = Call("resume", w)
                          /\ \A j \in 1 .. n :
                                calls[j] \in {Call("construct", w), Call("pause", w)} => j < i
    BY <1>2
  <2>1. CASE i = 1
    <3>1. wanted'[w] = "run"
      BY CallEffect, <2>1
    <3>2. \A j \in 1 .. n - 1 : calls'[j] \notin {Call("construct", w), Call("pause", w)}
      BY <1>1, <2>1
    <3> QED
      BY <1>1, <3>1, <3>2 DEF WillRun, Pending, Call
  <2>2. CASE i # 1
    <3>1. i - 1 \in 1 .. n - 1 /\ calls'[i - 1] = Call("resume", w)
      BY <1>1, <2>2
    <3>2. \A j \in 1 .. n - 1 :
             calls'[j] \in {Call("construct", w), Call("pause", w)} => j < i - 1
      BY <1>1
    <3> QED
      BY <1>1, <3>1, <3>2 DEF WillRun, Call
  <2> QED
    BY <2>1, <2>2
<1>3. CASE wanted[w] = "run" /\ ~Pending("construct", w) /\ ~Pending("pause", w)
  <2>1. \A j \in 1 .. n : calls[j] \notin {Call("construct", w), Call("pause", w)}
    BY <1>1, <1>3 DEF Pending
  <2>2. wanted'[w] = "run"
    BY <1>1, <1>3, <2>1, CallEffect
  <2>3. \A j \in 1 .. n - 1 : calls'[j] \notin {Call("construct", w), Call("pause", w)}
    BY <1>1, <2>1
  <2> QED
    BY <1>1, <2>2, <2>3 DEF WillRun, Pending, Call
<1> QED
  BY <1>1, <1>2, <1>3 DEF WillRun

\* The same for a worker that is to pause and for the pin.
LEMMA CallKeepsWillPause ==
    ASSUME TypeOK, FlightVarsOK, ExecutiveCall
    PROVE  /\ \A w \in Workers : WillPause(w) => WillPause(w)'
           /\ WillBeOff => WillBeOff'
<1> DEFINE n == Len(calls)
<1>1. /\ n \in Nat \ {0}
      /\ DOMAIN calls = 1 .. n
      /\ DOMAIN calls' = 1 .. n - 1
      /\ \A i \in 1 .. n - 1 : calls'[i] = calls[i + 1]
  BY CallsLeft
<1> HIDE DEF n
<1>2. ASSUME NEW op, NEW v, Pending(op, v), calls[1] # Call(op, v)
      PROVE  \E i \in DOMAIN calls' : calls'[i] = Call(op, v)
  <2> PICK i \in 1 .. n : calls[i] = Call(op, v)
    BY <1>1, <1>2 DEF Pending
  <2>1. i # 1
    BY <1>2
  <2>2. i - 1 \in 1 .. n - 1 /\ calls'[i - 1] = Call(op, v)
    BY <1>1, <2>1
  <2> QED
    BY <1>1, <2>2
<1>3. ASSUME NEW op, NEW v, ~Pending(op, v)
      PROVE  /\ ~\E i \in DOMAIN calls' : calls'[i] = Call(op, v)
             /\ calls[1] # Call(op, v)
  BY <1>1, <1>3 DEF Pending
<1>4. ASSUME NEW w \in Workers, WillPause(w) PROVE WillPause(w)'
  <2>1. calls[1] # Call("resume", w) /\ ~\E i \in DOMAIN calls' : calls'[i] = Call("resume", w)
    BY <1>3, <1>4 DEF WillPause
  <2>2. CASE Pending("pause", w)
    BY <1>2, <2>1, <2>2, CallEffect DEF WillPause, Pending, Call
  <2>3. CASE wanted[w] = "pause"
    BY <2>1, <2>3, CallEffect DEF WillPause, Pending, Call
  <2> QED
    BY <1>4, <2>2, <2>3 DEF WillPause
<1>5. ASSUME WillBeOff PROVE WillBeOff'
  <2>1. /\ calls[1] # Call("globalstar", "HIGH")
        /\ ~\E i \in DOMAIN calls' : calls'[i] = Call("globalstar", "HIGH")
    BY <1>3, <1>5 DEF WillBeOff
  <2>2. CASE Pending("globalstar", "LOW")
    BY <1>2, <2>1, <2>2, CallEffect DEF WillBeOff, Pending, Call
  <2>3. CASE globalstar = "LOW"
    BY <2>1, <2>3, CallEffect DEF WillBeOff, Pending, Call
  <2> QED
    BY <1>5, <2>2, <2>3 DEF WillBeOff
<1> QED
  BY <1>4, <1>5

\* The lists that the main script sets its calls to, and what they leave.
Outcome ==
    \A w \in Workers :
        /\ calls = BootCalls /\ w # Comm => WillRun(w)
        /\ calls = StartCalls /\ (wanted[w] = "run" \/ w = Comm) => WillRun(w)
        /\ calls = ShedCalls /\ wanted[w] = "run" /\ w \notin {Comm, RFM22B} => WillRun(w)
        /\ calls = ShedCalls /\ w \in {Comm, RFM22B} => WillPause(w)
        /\ calls = ShedCalls => WillBeOff
        /\ calls = RestoreCalls /\ (wanted[w] = "run" \/ w \in {Comm, RFM22B}) => WillRun(w)

\* Each list has its outcome.
LEMMA NewCalls == Outcome
<1> SUFFICES ASSUME NEW w \in Workers
             PROVE  /\ calls = BootCalls /\ w # Comm => WillRun(w)
                    /\ calls = StartCalls /\ (wanted[w] = "run" \/ w = Comm) => WillRun(w)
                    /\ calls = ShedCalls /\ wanted[w] = "run" /\ w \notin {Comm, RFM22B}
                          => WillRun(w)
                    /\ calls = ShedCalls /\ w \in {Comm, RFM22B} => WillPause(w)
                    /\ calls = ShedCalls => WillBeOff
                    /\ calls = RestoreCalls /\ (wanted[w] = "run" \/ w \in {Comm, RFM22B})
                          => WillRun(w)
  BY DEF Outcome
<1> USE DEF Call, WillRun, WillPause, WillBeOff, Pending
<1>1. ASSUME calls = BootCalls, w # Comm PROVE WillRun(w)
  <2>1. DOMAIN calls = 1 .. 14
    BY <1>1 DEF BootCalls
  <2>2. \A j \in 11 .. 14 : calls[j] \notin {Call("construct", w), Call("pause", w)}
    BY <1>1 DEF BootCalls
  <2>3. PICK i \in 11 .. 14 : calls[i] = Call("resume", w)
    <3>1. w \in {ADC, Deployer, Power, RFM22B}
      BY <1>1, FlightAssumption
    <3>2. /\ calls[11] = <<"resume", ADC>> /\ calls[12] = <<"resume", Deployer>>
          /\ calls[13] = <<"resume", Power>> /\ calls[14] = <<"resume", RFM22B>>
      BY <1>1 DEF BootCalls
    <3>3. 11 \in 11 .. 14 /\ 12 \in 11 .. 14 /\ 13 \in 11 .. 14 /\ 14 \in 11 .. 14
      OBVIOUS
    <3> QED
      BY <3>1, <3>2, <3>3
  <2> QED
    BY <2>1, <2>2, <2>3
<1>2. ASSUME calls = StartCalls, wanted[w] = "run" \/ w = Comm PROVE WillRun(w)
  BY <1>2 DEF StartCalls
<1>3. ASSUME calls = ShedCalls PROVE DOMAIN calls = 1 .. 3
  BY <1>3 DEF ShedCalls
<1>4. ASSUME calls = ShedCalls, wanted[w] = "run", w \notin {Comm, RFM22B} PROVE WillRun(w)
  BY <1>3, <1>4 DEF ShedCalls
<1>5. ASSUME calls = ShedCalls, w \in {Comm, RFM22B} PROVE WillPause(w)
  BY <1>3, <1>5 DEF ShedCalls
<1>6. ASSUME calls = ShedCalls PROVE WillBeOff
  BY <1>3, <1>6 DEF ShedCalls
<1>7. ASSUME calls = RestoreCalls, wanted[w] = "run" \/ w \in {Comm, RFM22B} PROVE WillRun(w)
  <2>1. DOMAIN calls = 1 .. 5
    BY <1>7 DEF RestoreCalls
  <2>2. \A j \in 1 .. 5 : calls[j] \notin {Call("construct", w), Call("pause", w)}
    BY <1>7 DEF RestoreCalls
  <2>3. CASE wanted[w] = "run"
    BY <2>1, <2>2, <2>3
  <2>4. CASE w \in {Comm, RFM22B}
    <3>1. calls[3] = <<"resume", Comm>> /\ calls[5] = <<"resume", RFM22B>>
      BY <1>7 DEF RestoreCalls
    <3> QED
      BY <2>1, <2>2, <2>4, <3>1
  <2> QED
    BY <1>7, <2>3, <2>4
<1> QED
  BY <1>1, <1>2, <1>4, <1>5, <1>6, <1>7

\* With no call pending, what is to be is.
LEMMA NoCalls ==
    ASSUME calls = <<>>, NEW w
    PROVE  /\ WillRun(w) <=> wanted[w] = "run"
           /\ WillPause(w) <=> wanted[w] = "pause"
           /\ WillBeOff <=> globalstar = "LOW"
BY DEF WillRun, WillPause, WillBeOff, Pending

\* A step that makes no call and sets none leaves the outcome of the calls alone.
LEMMA SameCalls ==
    ASSUME TypeOK, UNCHANGED <<calls, globalstar>>, [Next]_vars,
           \A w \in Workers : wanted'[w] = wanted[w]
    PROVE  /\ \A w \in Workers : WillRun(w)' <=> WillRun(w)
           /\ \A w \in Workers : WillPause(w)' <=> WillPause(w)
           /\ WillBeOff' <=> WillBeOff
BY DEF WillRun, WillPause, WillBeOff, Pending

\* No thread changes what is wanted of a worker.
LEMMA ThreadsWantNothing ==
    ASSUME NEW w,
           \/ LoopReturns(w) \/ LoopRaises(w)
           \/ RunInit(w) \/ EnterTurnstile(w) \/ LeaveTurnstile(w) \/ CheckTerminating(w)
    PROVE  wanted' = wanted
BY DEF LoopReturns, LoopRaises, LoopEnds, RunInit, EnterTurnstile, LeaveTurnstile,
       CheckTerminating

\* No battery check comes before the end of the first pass over the queue.
NoEarlyCheck == exec = "drain" => power = "idle" /\ ~InQueue(LowPower)

\* The first pass over the queue stays free of the battery's messages.
LEMMA NoEarlyCheckStep ==
    FlightVarsOK /\ NoEarlyCheck /\ [FlightNext]_flightVars => NoEarlyCheck'
<1> SUFFICES ASSUME FlightVarsOK, NoEarlyCheck, [FlightNext]_flightVars, exec' = "drain"
             PROVE  power' = "idle" /\ \A i \in DOMAIN queue' : queue'[i] # LowPower
  BY DEF NoEarlyCheck, InQueue
<1>1. exec = "drain" => power = "idle" /\ \A i \in DOMAIN queue : queue[i] # LowPower
  BY DEF NoEarlyCheck, InQueue
<1>2. CASE ExecutiveCall \/ QueueEmpty \/ WaitThirty
  BY <1>1, <1>2 DEF ExecutiveCall, QueueEmpty, WaitThirty, powerVars
<1>3. CASE ProcessMessage
  <2>1. exec = "drain" /\ power' = power /\ queue # <<>> /\ queue' = Tail(queue)
    BY <1>3 DEF ProcessMessage, powerVars
  <2> QED
    BY <1>1, <2>1, TailOf DEF FlightVarsOK
<1>4. CASE AwaitBdot \/ AwaitExit
  BY <1>4 DEF AwaitBdot, AwaitExit
<1>5. CASE HealthUpdate \/ HealthWritten \/ BatteryLow \/ EnterLowPower \/ BatteryRecovered
  BY <1>1, <1>5
  DEF HealthUpdate, HealthWritten, BatteryLow, EnterLowPower, BatteryRecovered, execVars
<1>6. CASE HealthRaises \/ PowerLoopReturns \/ AdcLoop \/ CommLoop \/ DeployerLoop
  BY <1>1, <1>6
  DEF HealthRaises, PowerLoopReturns, AdcLoop, CommLoop, DeployerLoop, execVars, powerVars
<1>7. CASE RadioLoop
  <2>1. exec = "drain" /\ power' = power
    BY <1>7 DEF RadioLoop, execVars, powerVars
  <2>2. CASE UNCHANGED queue
    BY <1>1, <2>1, <2>2
  <2>3. CASE queue' = Append(queue, Report)
    BY <1>1, <2>1, <2>3 DEF FlightVarsOK, Report, LowPower
  <2> QED
    BY <1>7, <2>2, <2>3 DEF RadioLoop
<1>8. CASE \E w \in Workers : Turnstile(w)
  BY <1>1, <1>8 DEF Turnstile, execVars, powerVars
<1>9. CASE UNCHANGED flightVars
  BY <1>1, <1>9 DEF flightVars, execVars, powerVars
<1> QED
  BY <1>2, <1>3, <1>4, <1>5, <1>6, <1>7, <1>8, <1>9 DEF FlightNext, Executive

\* Who is to run and who to pause stays as it should, step by step.
LEMMA WantStep ==
    TypeOK /\ FlightVarsOK /\ NoEarlyCheck /\ WantInv /\ [FlightNext]_flightVars => WantInv'
<1> SUFFICES ASSUME TypeOK, FlightVarsOK, NoEarlyCheck, WantInv, [FlightNext]_flightVars
             PROVE  WantInv'
  OBVIOUS
<1>1. ASSUME UNCHANGED <<calls, globalstar, wanted>>,
             \/ exec' = exec
             \/ exec = "drain" /\ exec' = "wait"
             \/ exec = "main" /\ exec' = "bdot"
      PROVE  WantInv'
  <2>1. [Next]_vars
    BY FlightStepIsStep
  <2>2. /\ \A w \in Workers : WillRun(w)' <=> WillRun(w)
        /\ \A w \in Workers : WillPause(w)' <=> WillPause(w)
        /\ WillBeOff' <=> WillBeOff
    BY <1>1, <2>1, SameCalls
  <2> QED
    BY <1>1, <2>2 DEF WantInv
<1>2. CASE ExecutiveCall
  <2>1. exec' = exec
    BY <1>2 DEF ExecutiveCall
  <2>2. /\ \A w \in Workers : WillRun(w) => WillRun(w)'
        /\ \A w \in Workers : WillPause(w) => WillPause(w)'
        /\ WillBeOff => WillBeOff'
    BY <1>2, CallKeepsWillRun, CallKeepsWillPause
  <2> QED
    BY <2>1, <2>2 DEF WantInv
<1>3. CASE ProcessMessage \/ QueueEmpty
  <2>1. queue # <<>> => 1 \in DOMAIN queue /\ Head(queue) = queue[1]
    BY TailOf DEF FlightVarsOK
  <2>2. exec = "drain" /\ queue # <<>> => Head(queue) # LowPower
    BY <2>1 DEF NoEarlyCheck, InQueue
  <2> QED
    BY <1>1, <1>3, <2>2 DEF ProcessMessage, QueueEmpty, Drains, vars
<1>4. Outcome'
  BY NewCalls, PTL
<1>5. ASSUME Ready, wanted' = wanted,
             \/ exec = "wait" /\ exec' = "main" /\ calls' = StartCalls
             \/ exec = "bdot" /\ exec' = "low" /\ calls' = ShedCalls
             \/ exec = "low" /\ exec' = "main" /\ calls' = RestoreCalls
      PROVE  WantInv'
  <2>1. \A w \in Workers : /\ WillRun(w) <=> wanted[w] = "run"
                           /\ WillPause(w) <=> wanted[w] = "pause"
    BY <1>5, NoCalls DEF Ready
  <2>2. CASE exec = "wait" /\ exec' = "main" /\ calls' = StartCalls
    BY <1>4, <1>5, <2>1, <2>2 DEF WantInv, Outcome
  <2>3. CASE exec = "bdot" /\ exec' = "low" /\ calls' = ShedCalls
    <3>1. WillBeOff'
      BY <1>4, <2>3, FlightAssumption DEF Outcome
    <3>2. \A w \in Workers : wanted'[w] = "run"
      BY <1>5, <2>1, <2>3 DEF WantInv
    <3> QED
      BY <1>4, <2>3, <3>1, <3>2 DEF WantInv, Outcome
  <2>4. CASE exec = "low" /\ exec' = "main" /\ calls' = RestoreCalls
    BY <1>4, <1>5, <2>1, <2>4 DEF WantInv, Outcome
  <2> QED
    BY <1>5, <2>2, <2>3, <2>4
<1>6. CASE WaitThirty
  BY <1>5, <1>6 DEF WaitThirty, vars
<1>7. CASE AwaitBdot
  BY <1>1, <1>5, <1>7 DEF AwaitBdot, vars
<1>8. CASE AwaitExit
  BY <1>1, <1>5, <1>8 DEF AwaitExit, vars
<1>9. CASE HealthUpdate \/ HealthWritten \/ BatteryLow \/ EnterLowPower \/ BatteryRecovered
  BY <1>1, <1>9
  DEF HealthUpdate, HealthWritten, BatteryLow, EnterLowPower, BatteryRecovered, execVars, vars
<1>10. CASE HealthRaises \/ PowerLoopReturns \/ AdcLoop \/ RadioLoop \/ CommLoop \/ DeployerLoop
  <2>1. wanted' = wanted
    BY <1>10, ThreadsWantNothing
    DEF HealthRaises, PowerLoopReturns, AdcLoop, RadioLoop, CommLoop, DeployerLoop, vars
  <2> QED
    BY <1>1, <1>10, <2>1
    DEF HealthRaises, PowerLoopReturns, AdcLoop, RadioLoop, CommLoop, DeployerLoop, execVars
<1>11. CASE \E w \in Workers : Turnstile(w)
  <2>1. wanted' = wanted
    BY <1>11, ThreadsWantNothing DEF Turnstile
  <2> QED
    BY <1>1, <1>11, <2>1 DEF Turnstile, execVars
<1>12. CASE UNCHANGED flightVars
  BY <1>1, <1>12 DEF flightVars, execVars, vars
<1> QED
  BY <1>2, <1>3, <1>6, <1>7, <1>8, <1>9, <1>10, <1>11, <1>12 DEF FlightNext, Executive

\* Who is to run and who to pause is as it should be from the start on.
LEMMA WantAlways == FlightSpec => []WantInv
<1>1. FlightInit => WantInv
  BY NewCalls DEF FlightInit, WantInv, Outcome
<1>2. FlightTypeOK => TypeOK /\ FlightVarsOK
  BY DEF FlightTypeOK, FlightVarsOK
<1>3. FlightInit => NoEarlyCheck
  BY DEF FlightInit, NoEarlyCheck, InQueue
<1> QED
  BY <1>1, <1>2, <1>3, WantStep, NoEarlyCheckStep, FlightTypeCorrect, PTL DEF FlightSpec

\* While the executive waits for the exit the Globalstar is off, and the two
\* workers it has paused make no second pass unless the pause found them inside
\* their turnstile.
THEOREM Shed == FlightSpec => []LoadIsShed
<1>1. TypeOK /\ WantInv /\ EffectivePauseHolds => LoadIsShed
  <2> SUFFICES ASSUME WantInv, EffectivePauseHolds, exec = "low", Ready
               PROVE  /\ globalstar = "LOW"
                      /\ \A w \in {Comm, RFM22B} \cap Workers :
                            wanted[w] = "pause" /\ (held[w] => permit[w] = 0 /\ begun[w] <= 1)
    BY DEF LoadIsShed
  <2> QED
    BY NoCalls DEF WantInv, EffectivePauseHolds, Ready
<1> QED
  BY <1>1, WantAlways, FlightPauseHolds, Composition, TypeCorrect, PTL

\* Once the executive is back in its main loop nobody is left paused, whatever
\* its resumes met the workers doing.
THEOREM Restored == FlightSpec => []NobodyLeftPaused
<1>1. WantInv /\ NoLostWakeup => NobodyLeftPaused
  BY NoCalls DEF WantInv, NoLostWakeup, NobodyLeftPaused, Ready
<1> QED
  BY <1>1, WantAlways, Composition, WakeupIsNotLost, PTL

-----------------------------------------------------------------------------
(* The power thread and its turnstile. *)

\* The power thread is resumed once, when it is waiting or not yet there, and
\* never paused; so its permit is out whenever it is inside its turnstile.
PowerInv ==
    /\ constructed[Power] => pc[Power] # "new"
    /\ ~Pending("pause", Power)
    /\ \A i, j \in DOMAIN calls :
          calls[i] = Call("resume", Power) /\ calls[j] = Call("resume", Power) => i = j
    /\ Pending("resume", Power) =>
          /\ pc[Power] \in {"new", "init", "initFailed", "acquire"}
          /\ pc[Power] # "new" => permit[Power] = 0
    /\ pc[Power] = "release" => permit[Power] = 0
    /\ pc[Power] # "releaseFailed"

\* No list but the first one has a resume of the power thread, and none a pause.
PowerCalls ==
    /\ calls \in {StartCalls, ShedCalls, RestoreCalls} =>
          ~Pending("resume", Power) /\ ~Pending("pause", Power)
    /\ calls = BootCalls =>
          /\ ~Pending("pause", Power)
          /\ \A i, j \in DOMAIN calls :
                calls[i] = Call("resume", Power) /\ calls[j] = Call("resume", Power) => i = j

\* The lists are as said.
LEMMA PowerCallLists == PowerCalls
<1> USE FlightAssumption DEF Pending, Call
<1>1. calls = StartCalls => ~Pending("resume", Power) /\ ~Pending("pause", Power)
  BY DEF StartCalls
<1>2. calls = ShedCalls => ~Pending("resume", Power) /\ ~Pending("pause", Power)
  BY DEF ShedCalls
<1>3. calls = RestoreCalls => ~Pending("resume", Power) /\ ~Pending("pause", Power)
  BY DEF RestoreCalls
<1>4. ASSUME calls = BootCalls
      PROVE  DOMAIN calls = 1 .. 14
             /\ \A i \in 1 .. 14 : /\ calls[i] # Call("pause", Power)
                                   /\ calls[i] = Call("resume", Power) => i = 13
  BY <1>4 DEF BootCalls
<1> QED
  BY <1>1, <1>2, <1>3, <1>4 DEF PowerCalls

\* Where the turnstile of the power thread is left after a call of the main script.
LEMMA PowerCallStep ==
    ASSUME TypeOK, FlightVarsOK, PowerInv, ExecutiveCall
    PROVE  PowerInv'
<1> DEFINE n == Len(calls)
<1>1. /\ n \in Nat \ {0}
      /\ DOMAIN calls = 1 .. n
      /\ DOMAIN calls' = 1 .. n - 1
      /\ \A i \in 1 .. n - 1 : calls'[i] = calls[i + 1]
  BY CallsLeft
<1> HIDE DEF n
<1>2. Power \in Workers
  BY FlightAssumption
<1>3. /\ \A i \in 1 .. n - 1 : calls'[i] # Call("pause", Power)
      /\ calls[1] # Call("pause", Power)
  BY <1>1 DEF PowerInv, Pending
<1>4. \A i, j \in 1 .. n - 1 :
         calls'[i] = Call("resume", Power) /\ calls'[j] = Call("resume", Power) => i = j
  BY <1>1 DEF PowerInv
<1>5. (\E i \in 1 .. n - 1 : calls'[i] = Call("resume", Power)) =>
         Pending("resume", Power) /\ calls[1] # Call("resume", Power)
  BY <1>1 DEF PowerInv, Pending
<1>6. calls[1] = Call("resume", Power) => Pending("resume", Power)
  BY <1>1 DEF Pending
<1>7. Head(calls) = calls[1]
  BY TailOf DEF ExecutiveCall, FlightVarsOK
<1> DEFINE Same == /\ pc'[Power] = pc[Power] /\ permit'[Power] = permit[Power]
                   /\ constructed'[Power] = constructed[Power]
<1>8. \/ Same
      \/ Construct(Power) \/ FinishConstructor(Power)
      \/ calls[1] = Call("resume", Power) /\ Resume(Power)
  <2>1. CASE UNCHANGED vars
    BY <2>1 DEF vars
  <2>2. CASE ~UNCHANGED vars
    <3> PICK op, v : /\ op = Head(calls)[1] /\ v = Head(calls)[2]
                     /\ OnWorker(op, v) /\ v \in Workers
      BY <2>2 DEF ExecutiveCall, OnWorker
    <3>1. calls[1] = <<op, v>>
      BY <1>7, TailOf DEF ExecutiveCall, FlightVarsOK, CallSet
    <3>2. CASE v # Power
      BY <1>2, <2>2, <3>2
      DEF OnWorker, Construct, FinishConstructor, Pause, Resume, OpenTurnstile, TypeOK
    <3>3. CASE v = Power
      <4>1. op # "pause"
        BY <1>3, <3>1, <3>3 DEF Call
      <4> QED
        BY <2>2, <3>1, <3>3, <4>1 DEF OnWorker, Call
    <3> QED
      BY <3>2, <3>3
  <2> QED
    BY <2>1, <2>2
<1>9. CASE Same
  BY <1>1, <1>3, <1>4, <1>5, <1>9 DEF PowerInv, Pending
<1>10. CASE Construct(Power)
  BY <1>1, <1>2, <1>3, <1>4, <1>5, <1>10 DEF PowerInv, Pending, Construct, TypeOK
<1>11. CASE FinishConstructor(Power)
  BY <1>1, <1>2, <1>3, <1>4, <1>5, <1>11 DEF PowerInv, Pending, FinishConstructor, TypeOK
<1>12. CASE calls[1] = Call("resume", Power) /\ Resume(Power)
  <2>1. /\ constructed[Power] /\ pc[Power] \in {"new", "init", "initFailed", "acquire"}
        /\ pc' = pc /\ constructed' = constructed
    BY <1>6, <1>12 DEF PowerInv, Resume, OpenTurnstile
  <2> QED
    BY <1>1, <1>3, <1>4, <1>5, <1>12, <2>1 DEF PowerInv, Pending
<1> QED
  BY <1>8, <1>9, <1>10, <1>11, <1>12

\* No step of any thread leaves the power thread stuck in its turnstile.
LEMMA PowerStep ==
    TypeOK /\ FlightVarsOK /\ PowerInv /\ [FlightNext]_flightVars => PowerInv'
<1> SUFFICES ASSUME TypeOK, FlightVarsOK, PowerInv, [FlightNext]_flightVars PROVE PowerInv'
  OBVIOUS
<1>1. Power \in Workers
  BY FlightAssumption
<1>2. ASSUME UNCHANGED vars, calls' = calls PROVE PowerInv'
  BY <1>2 DEF vars, PowerInv, Pending
<1>3. PowerCalls'
  BY PowerCallLists, PTL
<1>4. ASSUME UNCHANGED vars, Ready, calls' \in {StartCalls, ShedCalls, RestoreCalls}
      PROVE  PowerInv'
  <2>1. ~Pending("resume", Power)' /\ ~Pending("pause", Power)'
    BY <1>3, <1>4 DEF PowerCalls
  <2>2. \A i \in DOMAIN calls' : calls'[i] # Call("resume", Power)
    BY <2>1 DEF Pending, Call
  <2> QED
    BY <1>4, <2>1, <2>2 DEF vars, PowerInv, Call
<1>5. ASSUME NEW w \in Workers, calls' = calls,
             \/ LoopReturns(w) \/ LoopRaises(w)
             \/ RunInit(w) \/ EnterTurnstile(w) \/ LeaveTurnstile(w) \/ CheckTerminating(w)
      PROVE  PowerInv'
  <2> USE DEF PowerInv, Pending
  <2>1. CASE w # Power
    BY <1>1, <1>5, <2>1
    DEF LoopReturns, LoopRaises, LoopEnds, RunInit, EnterTurnstile, LeaveTurnstile,
        CheckTerminating, TypeOK
  <2>2. CASE w = Power /\ (LoopReturns(w) \/ LoopRaises(w))
    BY <1>1, <1>5, <2>2 DEF LoopReturns, LoopRaises, LoopEnds, TypeOK
  <2>3. CASE w = Power /\ RunInit(w)
    BY <1>1, <1>5, <2>3 DEF RunInit, TypeOK
  <2>4. CASE w = Power /\ EnterTurnstile(w)
    BY <1>1, <1>5, <2>4 DEF EnterTurnstile, TypeOK
  <2>5. CASE w = Power /\ LeaveTurnstile(w)
    BY <1>1, <1>5, <2>5 DEF LeaveTurnstile, TypeOK
  <2>6. CASE w = Power /\ CheckTerminating(w)
    BY <1>1, <1>5, <2>6 DEF CheckTerminating, TypeOK
  <2> QED
    BY <1>5, <2>1, <2>2, <2>3, <2>4, <2>5, <2>6
<1>6. CASE ExecutiveCall
  BY <1>6, PowerCallStep
<1>7. CASE ProcessMessage \/ QueueEmpty
  BY <1>2, <1>7 DEF ProcessMessage, QueueEmpty
<1>8. CASE WaitThirty \/ AwaitBdot \/ AwaitExit
  BY <1>2, <1>4, <1>8 DEF WaitThirty, AwaitBdot, AwaitExit
<1>9. CASE HealthUpdate \/ HealthWritten \/ BatteryLow \/ EnterLowPower \/ BatteryRecovered
  BY <1>2, <1>9
  DEF HealthUpdate, HealthWritten, BatteryLow, EnterLowPower, BatteryRecovered, execVars
<1>10. CASE HealthRaises
  BY <1>1, <1>2, <1>5, <1>10 DEF HealthRaises, execVars
<1>11. CASE PowerLoopReturns \/ AdcLoop \/ RadioLoop \/ CommLoop \/ DeployerLoop
  BY <1>5, <1>11
  DEF PowerLoopReturns, AdcLoop, RadioLoop, CommLoop, DeployerLoop, LoopReturns, LoopRaises,
      execVars
<1>12. CASE \E w \in Workers : Turnstile(w)
  BY <1>5, <1>12 DEF Turnstile, execVars
<1>13. CASE UNCHANGED flightVars
  BY <1>2, <1>13 DEF flightVars, execVars
<1> QED
  BY <1>6, <1>7, <1>8, <1>9, <1>10, <1>11, <1>12, <1>13 DEF FlightNext, Executive

\* The thread that announces low power and its end never dies of its turnstile:
\* the executive resumes it once, at boot, when it cannot be inside.
THEOREM PowerSafe == FlightSpec => []PowerPassesTurnstile
<1>1. FlightInit => PowerInv
  <2> SUFFICES ASSUME FlightInit PROVE PowerInv
    OBVIOUS
  <2>1. Power \in Workers /\ pc[Power] = "new" /\ ~constructed[Power] /\ calls = BootCalls
    BY FlightAssumption DEF FlightInit, Init
  <2> QED
    BY <2>1, PowerCallLists DEF PowerInv, PowerCalls
<1>2. PowerInv => PowerPassesTurnstile
  BY DEF PowerInv, PowerPassesTurnstile
<1>3. FlightTypeOK => TypeOK /\ FlightVarsOK
  BY DEF FlightTypeOK, FlightVarsOK
<1> QED
  BY <1>1, <1>2, <1>3, PowerStep, FlightTypeCorrect, PTL DEF FlightSpec
=============================================================================
