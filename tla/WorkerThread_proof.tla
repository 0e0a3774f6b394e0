------------------------ MODULE WorkerThread_proof ------------------------
(***************************************************************************)
(* Proofs about the turnstile of WorkerThread, for any set of workers.     *)
(***************************************************************************)
EXTENDS WorkerThread, TLAPS

\* What a held worker looks like: the permit is out, the worker is not about to
\* give it back, and it has begun at most the iteration it was let into.  (A thread
\* not yet started, which its constructor holds first, has begun none.)
HeldInv ==
    \A w \in Workers :
        /\ pc[w] = "new" => begun[w] = 0
        /\ held[w] => /\ permit[w] = 0
                      /\ pc[w] # "release"
                      /\ begun[w] <= 1
                      /\ pc[w] = "check" => begun[w] = 0

\* A permit that is back while the worker is in its turnstile was put there by
\* a resume, and so was the one its release() failed on.
ForcedInv ==
    \A w \in Workers :
        /\ pc[w] = "release" /\ permit[w] = 1 => forced[w]
        /\ pc[w] = "releaseFailed" => forced[w]

\* The permit of a worker that is to run is back, or the worker has it and is
\* about to give it back.
WakeInv ==
    \A w \in Workers : wanted[w] = "run" => permit[w] = 1 \/ pc[w] = "release"

IInv == TypeOK /\ HeldInv /\ ForcedInv /\ WakeInv

\* The initial states satisfy the inductive invariant: no worker is held and
\* no thread has been started.
LEMMA InitIInv == Init => IInv
BY DEF Init, IInv, TypeOK, HeldInv, ForcedInv, WakeInv, Locations, BegunBound

\* Every step of every thread, and every call made on it, keeps the types.
LEMMA TypeStep == TypeOK /\ [Next]_vars => TypeOK'
<1> SUFFICES ASSUME TypeOK, [Next]_vars PROVE TypeOK'
  OBVIOUS
<1> USE DEF TypeOK, Locations, BegunBound
<1>1. ASSUME NEW w \in Workers, Construct(w) PROVE TypeOK'
  BY <1>1 DEF Construct
<1>2. ASSUME NEW w \in Workers, FinishConstructor(w) PROVE TypeOK'
  BY <1>2 DEF FinishConstructor
<1>3. ASSUME NEW w \in Workers, RunInit(w) PROVE TypeOK'
  BY <1>3 DEF RunInit
<1>4. ASSUME NEW w \in Workers, EnterTurnstile(w) PROVE TypeOK'
  BY <1>4 DEF EnterTurnstile
<1>5. ASSUME NEW w \in Workers, LeaveTurnstile(w) PROVE TypeOK'
  BY <1>5 DEF LeaveTurnstile
<1>6. ASSUME NEW w \in Workers, CheckTerminating(w) PROVE TypeOK'
  BY <1>6 DEF CheckTerminating
<1>7. ASSUME NEW w \in Workers, LoopEnds(w) PROVE TypeOK'
  BY <1>7 DEF LoopEnds
<1>8. ASSUME NEW w \in Workers, Pause(w) PROVE TypeOK'
  BY <1>8 DEF Pause
<1>9. ASSUME NEW w \in Workers, Resume(w) PROVE TypeOK'
  BY <1>9 DEF Resume, OpenTurnstile
<1>10. ASSUME NEW w \in Workers, Terminate(w) PROVE TypeOK'
  BY <1>10 DEF Terminate, OpenTurnstile
<1>11. CASE UNCHANGED vars
  BY <1>11 DEF vars
<1> QED
  BY <1>1, <1>2, <1>3, <1>4, <1>5, <1>6, <1>7, <1>8, <1>9, <1>10, <1>11
  DEF Next, SingleRun

\* No step lets a held worker through its turnstile.
LEMMA HeldStep == TypeOK /\ HeldInv /\ [Next]_vars => HeldInv'
<1> SUFFICES ASSUME TypeOK, HeldInv, [Next]_vars PROVE HeldInv'
  OBVIOUS
<1> USE DEF TypeOK, HeldInv, Locations, BegunBound
<1>1. ASSUME NEW w \in Workers, Construct(w) PROVE HeldInv'
  BY <1>1 DEF Construct
<1>2. ASSUME NEW w \in Workers, FinishConstructor(w) PROVE HeldInv'
  BY <1>2 DEF FinishConstructor
<1>3. ASSUME NEW w \in Workers, RunInit(w) PROVE HeldInv'
  BY <1>3 DEF RunInit
<1>4. ASSUME NEW w \in Workers, EnterTurnstile(w) PROVE HeldInv'
  BY <1>4 DEF EnterTurnstile
<1>5. ASSUME NEW w \in Workers, LeaveTurnstile(w) PROVE HeldInv'
  BY <1>5 DEF LeaveTurnstile
<1>6. ASSUME NEW w \in Workers, CheckTerminating(w) PROVE HeldInv'
  BY <1>6 DEF CheckTerminating
<1>7. ASSUME NEW w \in Workers, LoopEnds(w) PROVE HeldInv'
  BY <1>7 DEF LoopEnds
<1>8. ASSUME NEW w \in Workers, Pause(w) PROVE HeldInv'
  BY <1>8 DEF Pause
<1>9. ASSUME NEW w \in Workers, Resume(w) PROVE HeldInv'
  BY <1>9 DEF Resume, OpenTurnstile
<1>10. ASSUME NEW w \in Workers, Terminate(w) PROVE HeldInv'
  BY <1>10 DEF Terminate, OpenTurnstile
<1>11. CASE UNCHANGED vars
  BY <1>11 DEF vars
<1> QED
  BY <1>1, <1>2, <1>3, <1>4, <1>5, <1>6, <1>7, <1>8, <1>9, <1>10, <1>11
  DEF Next, SingleRun

\* Only OpenTurnstile puts the permit back while the worker is in its turnstile.
LEMMA ForcedStep == TypeOK /\ ForcedInv /\ [Next]_vars => ForcedInv'
<1> SUFFICES ASSUME TypeOK, ForcedInv, [Next]_vars PROVE ForcedInv'
  OBVIOUS
<1> USE DEF TypeOK, ForcedInv, Locations
<1>1. ASSUME NEW w \in Workers, Construct(w) PROVE ForcedInv'
  BY <1>1 DEF Construct
<1>2. ASSUME NEW w \in Workers, FinishConstructor(w) PROVE ForcedInv'
  BY <1>2 DEF FinishConstructor
<1>3. ASSUME NEW w \in Workers, RunInit(w) PROVE ForcedInv'
  BY <1>3 DEF RunInit
<1>4. ASSUME NEW w \in Workers, EnterTurnstile(w) PROVE ForcedInv'
  BY <1>4 DEF EnterTurnstile
<1>5. ASSUME NEW w \in Workers, LeaveTurnstile(w) PROVE ForcedInv'
  BY <1>5 DEF LeaveTurnstile
<1>6. ASSUME NEW w \in Workers, CheckTerminating(w) PROVE ForcedInv'
  BY <1>6 DEF CheckTerminating
<1>7. ASSUME NEW w \in Workers, LoopEnds(w) PROVE ForcedInv'
  BY <1>7 DEF LoopEnds
<1>8. ASSUME NEW w \in Workers, Pause(w) PROVE ForcedInv'
  BY <1>8 DEF Pause
<1>9. ASSUME NEW w \in Workers, Resume(w) PROVE ForcedInv'
  BY <1>9 DEF Resume, OpenTurnstile
<1>10. ASSUME NEW w \in Workers, Terminate(w) PROVE ForcedInv'
  BY <1>10 DEF Terminate, OpenTurnstile
<1>11. CASE UNCHANGED vars
  BY <1>11 DEF vars
<1> QED
  BY <1>1, <1>2, <1>3, <1>4, <1>5, <1>6, <1>7, <1>8, <1>9, <1>10, <1>11
  DEF Next, SingleRun

\* Whoever takes the permit of a worker for good asks it to pause.
LEMMA WakeStep == TypeOK /\ WakeInv /\ [Next]_vars => WakeInv'
<1> SUFFICES ASSUME TypeOK, WakeInv, [Next]_vars PROVE WakeInv'
  OBVIOUS
<1> USE DEF TypeOK, WakeInv, Locations
<1>1. ASSUME NEW w \in Workers, Construct(w) PROVE WakeInv'
  BY <1>1 DEF Construct
<1>2. ASSUME NEW w \in Workers, FinishConstructor(w) PROVE WakeInv'
  BY <1>2 DEF FinishConstructor
<1>3. ASSUME NEW w \in Workers, RunInit(w) PROVE WakeInv'
  BY <1>3 DEF RunInit
<1>4. ASSUME NEW w \in Workers, EnterTurnstile(w) PROVE WakeInv'
  BY <1>4 DEF EnterTurnstile
<1>5. ASSUME NEW w \in Workers, LeaveTurnstile(w) PROVE WakeInv'
  BY <1>5 DEF LeaveTurnstile
<1>6. ASSUME NEW w \in Workers, CheckTerminating(w) PROVE WakeInv'
  BY <1>6 DEF CheckTerminating
<1>7. ASSUME NEW w \in Workers, LoopEnds(w) PROVE WakeInv'
  BY <1>7 DEF LoopEnds
<1>8. ASSUME NEW w \in Workers, Pause(w) PROVE WakeInv'
  BY <1>8 DEF Pause
<1>9. ASSUME NEW w \in Workers, Resume(w) PROVE WakeInv'
  BY <1>9 DEF Resume, OpenTurnstile
<1>10. ASSUME NEW w \in Workers, Terminate(w) PROVE WakeInv'
  BY <1>10 DEF Terminate, OpenTurnstile
<1>11. CASE UNCHANGED vars
  BY <1>11 DEF vars
<1> QED
  BY <1>1, <1>2, <1>3, <1>4, <1>5, <1>6, <1>7, <1>8, <1>9, <1>10, <1>11
  DEF Next, SingleRun

\* The inductive invariant holds in every reachable state.
THEOREM Inductive == Spec => []IInv
<1>1. IInv /\ [Next]_vars => IInv'
  BY TypeStep, HeldStep, ForcedStep, WakeStep DEF IInv
<1> QED
  BY InitIInv, <1>1, PTL DEF Spec

\* Type correctness of the turnstile, for any set of workers.
THEOREM TypeCorrect == Spec => []TypeOK
<1>1. IInv => TypeOK
  BY DEF IInv
<1> QED
  BY Inductive, <1>1, PTL

\* A pause() that found its worker outside the turnstile keeps it to at most the
\* iteration it was already let into, whatever else is paused, resumed or
\* terminated and in whatever order.
THEOREM PauseHolds == Spec => []EffectivePauseHolds
<1>1. IInv => EffectivePauseHolds
  BY DEF IInv, HeldInv, EffectivePauseHolds
<1> QED
  BY Inductive, <1>1, PTL

\* A worker's own release() raises only when a resume() overtook it.
THEOREM ReleaseFailsOnlyForced == Spec => []ReleaseFailsOnlyIfForced
<1>1. IInv => ReleaseFailsOnlyIfForced
  BY DEF IInv, ForcedInv, ReleaseFailsOnlyIfForced
<1> QED
  BY Inductive, <1>1, PTL

\* The safety that every resume() rests on: in no order of pauses, resumes and
\* turnstile steps is a worker that was last asked to run left at a closed turnstile.
THEOREM WakeupIsNotLost == Spec => []NoLostWakeup
<1>1. IInv => NoLostWakeup
  BY DEF IInv, WakeInv, NoLostWakeup
<1> QED
  BY Inductive, <1>1, PTL
=============================================================================
