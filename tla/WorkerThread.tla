---------------------------- MODULE WorkerThread ----------------------------
(***************************************************************************)
(* The pausable thread every part of the MULE flight computer is built on  *)
(* (worker_thread.py).  A worker passes through a turnstile, a             *)
(* BoundedSemaphore(1), before each call of its loop(); whoever holds a    *)
(* reference to the worker closes the turnstile with pause() and opens it  *)
(* with resume().  The turnstile is taken and given back by the worker in  *)
(* two steps, and pause() and resume() may come between them.              *)
(***************************************************************************)
EXTENDS Naturals

CONSTANTS
    Workers,     \* the threads built on WorkerThread
    EarlyReaders \* those whose init() reads attributes that the subclass
                 \* constructor assigns after WorkerThread.__init__

ASSUME EarlyReadersAssumption == EarlyReaders \subseteq Workers

VARIABLES
    pc,          \* where the thread of each worker is in run()
    permit,      \* value of __pauseSemaphore, 0 or 1
    terminating, \* __is_terminating
    constructed, \* the subclass constructor has returned
    wanted,      \* history: the last of pause/resume/terminate asked for "pause"
                 \* or for "run"
    held,        \* history: the last pause found the worker outside its turnstile
    begun,       \* history: loop() calls begun since the last pause, if it stands
    forced       \* history: a resume came during the last pass of the turnstile

vars == <<pc, permit, terminating, constructed, wanted, held, begun, forced>>

Locations == {"new", "init", "acquire", "release", "check", "loop",
              "returned", "initFailed", "releaseFailed", "loopFailed"}

\* The thread no longer runs, and nothing restarts it.
Gone(w) == pc[w] \in {"returned", "initFailed", "releaseFailed", "loopFailed"}

\* begun is counted up to 2: the properties tell none, one and several apart.
BegunBound == 2

TypeOK ==
    /\ pc \in [Workers -> Locations]
    /\ permit \in [Workers -> {0, 1}]
    /\ terminating \in [Workers -> BOOLEAN]
    /\ constructed \in [Workers -> BOOLEAN]
    /\ wanted \in [Workers -> {"run", "pause"}]
    /\ held \in [Workers -> BOOLEAN]
    /\ begun \in [Workers -> 0 .. BegunBound]
    /\ forced \in [Workers -> BOOLEAN]

Init ==
    /\ pc = [w \in Workers |-> "new"]
    /\ permit = [w \in Workers |-> 1]
    /\ terminating = [w \in Workers |-> FALSE]
    /\ constructed = [w \in Workers |-> FALSE]
    /\ wanted = [w \in Workers |-> "pause"]
    /\ held = [w \in Workers |-> FALSE]
    /\ begun = [w \in Workers |-> 0]
    /\ forced = [w \in Workers |-> FALSE]

-----------------------------------------------------------------------------
(* The thread itself. *)

\* WorkerThread.__init__: the turnstile is closed and the thread is started
\* from inside the constructor, so run() is concurrent with the rest of it.
Construct(w) ==
    /\ pc[w] = "new"
    /\ pc' = [pc EXCEPT ![w] = "init"]
    /\ permit' = [permit EXCEPT ![w] = 0]
    /\ wanted' = [wanted EXCEPT ![w] = "pause"]
    /\ held' = [held EXCEPT ![w] = TRUE]
    /\ UNCHANGED <<terminating, constructed, begun, forced>>

\* The attribute assignments after super().__init__ in the subclass.
FinishConstructor(w) ==
    /\ pc[w] # "new"
    /\ ~constructed[w]
    /\ constructed' = [constructed EXCEPT ![w] = TRUE]
    /\ UNCHANGED <<pc, permit, terminating, wanted, held, begun, forced>>

\* init() of an early reader raises AttributeError when it overtakes the
\* constructor; nothing in run() catches it.
RunInit(w) ==
    /\ pc[w] = "init"
    /\ pc' = [pc EXCEPT ![w] = IF w \in EarlyReaders /\ ~constructed[w]
                               THEN "initFailed" ELSE "acquire"]
    /\ UNCHANGED <<permit, terminating, constructed, wanted, held, begun, forced>>

\* Mutant: run() acquires without blocking, as pause() does.
EnterWithoutBlocking(w) ==
    /\ pc[w] = "acquire"
    /\ pc' = [pc EXCEPT ![w] = "release"]
    /\ permit' = [permit EXCEPT ![w] = 0]
    /\ forced' = [forced EXCEPT ![w] = FALSE]
    /\ UNCHANGED <<terminating, constructed, wanted, held, begun>>

\* Mutant: run() waits until the permit is there and does not take it.
EnterWithoutTaking(w) ==
    /\ pc[w] = "acquire"
    /\ permit[w] = 1
    /\ pc' = [pc EXCEPT ![w] = "release"]
    /\ forced' = [forced EXCEPT ![w] = FALSE]
    /\ UNCHANGED <<permit, terminating, constructed, wanted, held, begun>>

\* The blocking acquire(): the worker waits here while the permit is out.
EnterTurnstile(w) ==
    /\ pc[w] = "acquire"
    /\ permit[w] = 1
    /\ pc' = [pc EXCEPT ![w] = "release"]
    /\ permit' = [permit EXCEPT ![w] = 0]
    /\ forced' = [forced EXCEPT ![w] = FALSE]
    /\ UNCHANGED <<terminating, constructed, wanted, held, begun>>

\* Mutant: a Semaphore where the code has a BoundedSemaphore.
LeaveUnbounded(w) ==
    /\ pc[w] = "release"
    /\ pc' = [pc EXCEPT ![w] = "check"]
    /\ permit' = [permit EXCEPT ![w] = @ + 1]
    /\ UNCHANGED <<terminating, constructed, wanted, held, begun, forced>>

\* Mutant: run() does not give the permit back.
LeaveWithoutRelease(w) ==
    /\ pc[w] = "release"
    /\ pc' = [pc EXCEPT ![w] = IF permit[w] = 1 THEN "releaseFailed" ELSE "check"]
    /\ UNCHANGED <<permit, terminating, constructed, wanted, held, begun, forced>>

\* The worker's own release() is not inside a try: a permit that is back
\* already makes the bounded semaphore raise, and the thread dies.
LeaveTurnstile(w) ==
    /\ pc[w] = "release"
    /\ pc' = [pc EXCEPT ![w] = IF permit[w] = 1 THEN "releaseFailed" ELSE "check"]
    /\ permit' = [permit EXCEPT ![w] = 1]
    /\ forced' = [forced EXCEPT ![w] = permit[w] = 1 /\ @]
    /\ UNCHANGED <<terminating, constructed, wanted, held, begun>>

\* Return when terminating, otherwise call loop().
CheckTerminating(w) ==
    /\ pc[w] = "check"
    /\ pc' = [pc EXCEPT ![w] = IF terminating[w] THEN "returned" ELSE "loop"]
    /\ begun' = [begun EXCEPT ![w] = IF terminating[w] \/ wanted[w] = "run" \/ @ = BegunBound
                                     THEN @ ELSE @ + 1]
    /\ UNCHANGED <<permit, terminating, constructed, wanted, held, forced>>

\* loop() is the subclass's: it returns, or an exception leaves run() for good.
LoopEnds(w) ==
    /\ pc[w] = "loop"
    /\ \E next \in {"acquire", "loopFailed"} : pc' = [pc EXCEPT ![w] = next]
    /\ UNCHANGED <<permit, terminating, constructed, wanted, held, begun, forced>>

-----------------------------------------------------------------------------
(* The operations other threads call, once they have the reference. *)

\* acquire(blocking=False), its result ignored.
Pause(w) ==
    /\ constructed[w]
    /\ permit' = [permit EXCEPT ![w] = 0]
    /\ wanted' = [wanted EXCEPT ![w] = "pause"]
    /\ held' = [held EXCEPT ![w] = pc[w] # "release"]
    /\ begun' = [begun EXCEPT ![w] = IF held[w] THEN @ ELSE 0]
    /\ UNCHANGED <<pc, terminating, constructed, forced>>

\* release(), with the ValueError of a permit that is already back ignored.
OpenTurnstile(w) ==
    /\ permit' = [permit EXCEPT ![w] = 1]
    /\ wanted' = [wanted EXCEPT ![w] = "run"]
    /\ held' = [held EXCEPT ![w] = FALSE]
    /\ begun' = [begun EXCEPT ![w] = 0]
    /\ forced' = [forced EXCEPT ![w] = @ \/ pc[w] = "release"]
    /\ UNCHANGED <<pc, constructed>>

Resume(w) ==
    /\ constructed[w]
    /\ OpenTurnstile(w)
    /\ UNCHANGED terminating

\* Mutant: terminate() sets the flag and does not resume().
TerminateWithoutResume(w) ==
    /\ constructed[w]
    /\ terminating' = [terminating EXCEPT ![w] = TRUE]
    /\ wanted' = [wanted EXCEPT ![w] = "run"]
    /\ UNCHANGED <<pc, permit, constructed, held, begun, forced>>

\* terminate(): the flag, then resume() to let a paused worker see it.  The two
\* writes are one step: a worker that reads the flag between them does what one
\* that reads it after both does.
Terminate(w) ==
    /\ constructed[w]
    /\ terminating' = [terminating EXCEPT ![w] = TRUE]
    /\ OpenTurnstile(w)

\* singleRun(): takes the permit as pause() does, then calls loop() in the
\* calling thread; what that loop() does is the subclass's and changes nothing here.
SingleRun(w) == Pause(w)

-----------------------------------------------------------------------------

\* One step of the thread of w.
ThreadStep(w) ==
    \/ RunInit(w) \/ EnterTurnstile(w) \/ LeaveTurnstile(w)
    \/ CheckTerminating(w) \/ LoopEnds(w)

Next ==
    \E w \in Workers :
        \/ Construct(w) \/ FinishConstructor(w)
        \/ RunInit(w) \/ EnterTurnstile(w) \/ LeaveTurnstile(w)
        \/ CheckTerminating(w) \/ LoopEnds(w)
        \/ Pause(w) \/ Resume(w) \/ Terminate(w) \/ SingleRun(w)

Spec == Init /\ [][Next]_vars

\* Python schedules a runnable thread eventually, and loop() is assumed to end.
FairSpec == Spec /\ \A w \in Workers : WF_vars(ThreadStep(w))

-----------------------------------------------------------------------------
(* Properties *)

\* A pause that found the worker outside its turnstile works: the worker
\* finishes the iteration it was let into, begins no second one, and waits.
EffectivePauseHolds ==
    \A w \in Workers : held[w] => permit[w] = 0 /\ begun[w] <= 1

\* The thread's own release() raises only when some resume() or terminate()
\* came between its acquire() and its release().
ReleaseFailsOnlyIfForced ==
    \A w \in Workers : pc[w] = "releaseFailed" => forced[w]

\* No wake-up is lost: a worker that was last asked to run does not find its
\* turnstile closed, in whatever order the permit was taken and given back.
NoLostWakeup ==
    \A w \in Workers : wanted[w] = "run" /\ pc[w] = "acquire" => permit[w] = 1

\* A worker whose init() did not overtake its constructor is always loop()ing,
\* gone, or let in again after a resume that no pause follows: no order of
\* resume() and turnstile steps loses the wake-up.
ResumeTakesEffect ==
    \A w \in Workers :
        wanted[w] = "run" ~> (pc[w] = "loop" \/ Gone(w) \/ wanted[w] = "pause")

\* terminate() ends the thread, even one that was paused, unless it is paused
\* again before it looks at the flag.
TerminateStops ==
    \A w \in Workers : terminating[w] ~> (Gone(w) \/ wanted[w] = "pause")

\* What the comment in run() says of pause(): it blocks the thread.  The thread
\* may finish an iteration it was already let into, never begin a second one.
\* A pause() that comes between the worker's acquire() and release() is lost.
PauseBlocks ==
    \A w \in Workers : wanted[w] = "pause" => begun[w] <= 1
=============================================================================
