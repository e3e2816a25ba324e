--------------------------- MODULE RunLock_proofs ---------------------------
(***************************************************************************)
(* Proofs about RunLock: with one run at a time inside acquire_lock the     *)
(* object store lock implements mutual exclusion, for any number of runs     *)
(* and any TTL above the timeout, with requests repeated by the S3 client.   *)
(***************************************************************************)
EXTENDS RunLock, TLAPS

\* The environment under which the lock keeps its promise.
Quiet == ~Overlap

\* The body a contender is about to write outlives the contender.
FreshBody == \A r \in Runs : Contending(r) => ttl[r] > left[r] /\ tries[r] > 0

OneContender ==
    \A r, q \in Runs : Contending(r) /\ Contending(q) => r = q

\* What a contender has seen expired stays expired until it acts.
StealsStale == \A r \in Runs : pc[r] = "steal" => Stale

\* The inductive invariant.
IInv == TypeOK /\ HolderOwnsObject /\ FreshBody /\ OneContender /\ StealsStale

USE DEF Attempts, Goto, Refuse, Unexpired, Stale, Contending, Holds, Live

\* The invariant holds when no run has been invoked.
LEMMA InitIInv == Init => IInv
  BY RunsAssumption, LeaseAssumption
  DEF Init, IInv, TypeOK, HolderOwnsObject, FreshBody, OneContender,
      StealsStale

\* Every step keeps the types, given that a contender has an attempt left.
LEMMA TypeStep == TypeOK /\ FreshBody /\ [Next]_vars => TypeOK'
<1> SUFFICES ASSUME TypeOK, FreshBody, [Next]_vars PROVE TypeOK'
  OBVIOUS
<1> USE LeaseAssumption DEF TypeOK
<1>1. CASE Tick
  BY <1>1 DEF Tick, Less
<1>2. ASSUME NEW r \in Runs, Invoke(r) PROVE TypeOK'
  BY <1>2 DEF Invoke
<1>3. ASSUME NEW r \in Runs, Step(r) PROVE TypeOK'
  <2>1. CASE StartAcquire(r)
    BY <2>1 DEF StartAcquire
  <2>2. CASE Steal(r)
    BY <2>2 DEF Steal, FreshBody
  <2>3. CASE Skip(r) \/ Finish(r) \/ FinishUnlocked(r) \/ ReleaseRead(r)
    BY <2>3 DEF Skip, Finish, FinishUnlocked, ReleaseRead
  <2>4. CASE PutOk(r) \/ PutConflict(r) \/ ReleaseDelete(r)
    BY <2>4 DEF PutOk, PutConflict, ReleaseDelete
  <2>5. CASE ReadHeld(r) \/ ReadStale(r)
    BY <2>5 DEF ReadHeld, ReadStale
  <2> QED
    BY <1>3, <2>1, <2>2, <2>3, <2>4, <2>5 DEF Step
<1>4. ASSUME NEW r \in Runs, Kill(r) PROVE TypeOK'
  BY <1>4 DEF Kill
<1>5. ASSUME NEW r \in Runs, PutLost(r) \/ StealLost(r)
      PROVE TypeOK'
  BY <1>5 DEF PutLost, StealLost
<1>6. CASE UNCHANGED vars
  BY <1>6 DEF vars
<1> QED
  BY <1>1, <1>2, <1>3, <1>4, <1>5, <1>6 DEF Next

\* The body and the attempts of a contender are its own, whoever else contends.
LEMMA FreshStep == TypeOK /\ FreshBody /\ [Next]_vars => FreshBody'
<1> SUFFICES ASSUME TypeOK, FreshBody, [Next]_vars PROVE FreshBody'
  OBVIOUS
<1> USE LeaseAssumption DEF TypeOK, FreshBody
<1>1. CASE Tick
  BY <1>1 DEF Tick, Less
<1>2. ASSUME NEW r \in Runs, Step(r) PROVE FreshBody'
  <2>1. CASE StartAcquire(r)
    BY <2>1 DEF StartAcquire
  <2>2. CASE Steal(r)
    BY <2>2 DEF Steal
  <2>3. CASE Skip(r) \/ Finish(r) \/ FinishUnlocked(r) \/ ReleaseRead(r) \/ ReleaseDelete(r)
    BY <2>3 DEF Skip, Finish, FinishUnlocked, ReleaseRead, ReleaseDelete
  <2>4. CASE PutOk(r) \/ PutConflict(r) \/ ReadHeld(r) \/ ReadStale(r)
    BY <2>4 DEF PutOk, PutConflict, ReadHeld, ReadStale
  <2> QED
    BY <1>2, <2>1, <2>2, <2>3, <2>4 DEF Step
<1>3. ASSUME NEW r \in Runs, Invoke(r) \/ Kill(r) PROVE FreshBody'
  BY <1>3 DEF Invoke, Kill
<1>4. ASSUME UNCHANGED vars \/ \E r \in Runs : PutLost(r) \/ StealLost(r) PROVE FreshBody'
  BY <1>4 DEF vars, PutLost, StealLost
<1> QED
  BY <1>1, <1>2, <1>3, <1>4 DEF Next

\* The variables keep their types, also when runs contend, and a contender that
\* is slow still writes a body that outlives it.
THEOREM Typing == Spec => [](TypeOK /\ FreshBody)
<1>1. Init => TypeOK /\ FreshBody
  BY InitIInv DEF IInv
<1> QED
  BY <1>1, TypeStep, FreshStep, PTL DEF Spec

\* Every step of a quiet environment keeps the invariant.
LEMMA IInvStep == ASSUME Quiet PROVE IInv /\ [Next]_vars => IInv'
<1> SUFFICES ASSUME IInv, [Next]_vars PROVE IInv'
  OBVIOUS
<1> USE RunsAssumption, LeaseAssumption
    DEF TypeOK, HolderOwnsObject, FreshBody, OneContender, StealsStale
<1>0. TypeOK'
  BY TypeStep DEF IInv
<1>1. CASE Tick
  BY <1>0, <1>1 DEF Tick, Less, IInv
<1>2. ASSUME NEW r \in Runs, Invoke(r) PROVE IInv'
  BY <1>0, <1>2 DEF Invoke, IInv
<1>3. ASSUME NEW r \in Runs, Step(r) PROVE IInv'
  <2>1. CASE StartAcquire(r)
    BY <1>0, <2>1 DEF StartAcquire, IInv, Quiet
  <2>2. CASE Skip(r)
    BY <1>0, <2>2 DEF Skip, IInv
  <2>3. CASE PutOk(r)
    BY <1>0, <2>3 DEF PutOk, IInv
  <2>4. CASE PutConflict(r)
    BY <1>0, <2>4 DEF PutConflict, IInv
  <2>5. CASE ReadHeld(r)
    BY <1>0, <2>5 DEF ReadHeld, IInv
  <2>6. CASE ReadStale(r)
    BY <1>0, <2>6 DEF ReadStale, IInv
  <2>7. CASE Steal(r)
    BY <1>0, <2>7 DEF Steal, IInv
  <2>8. CASE Finish(r) \/ FinishUnlocked(r)
    BY <1>0, <2>8 DEF Finish, FinishUnlocked, IInv
  <2>9. CASE ReleaseRead(r)
    BY <1>0, <2>9 DEF ReleaseRead, IInv
  <2>10. CASE ReleaseDelete(r)
    BY <1>0, <2>10 DEF ReleaseDelete, IInv
  <2> QED
    BY <1>3, <2>1, <2>2, <2>3, <2>4, <2>5, <2>6, <2>7, <2>8, <2>9, <2>10
    DEF Step
<1>4. ASSUME NEW r \in Runs, Kill(r) PROVE IInv'
  BY <1>0, <1>4 DEF Kill, IInv
<1>5. ASSUME NEW r \in Runs, PutLost(r) PROVE IInv'
  BY <1>0, <1>5 DEF PutLost, IInv
<1>6. ASSUME NEW r \in Runs, StealLost(r) PROVE IInv'
  BY <1>0, <1>6 DEF StealLost, IInv
<1>7. CASE UNCHANGED vars
  BY <1>0, <1>7 DEF vars, IInv
<1> QED
  BY <1>1, <1>2, <1>3, <1>4, <1>5, <1>6, <1>7 DEF Next

\* The variables keep their types and the invariant holds in every state.
THEOREM Invariance == ASSUME Quiet PROVE Spec => []IInv
<1>1. IInv /\ [Next]_vars => IInv'
  BY IInvStep
<1> QED
  BY <1>1, InitIInv, PTL DEF Spec

\* The variables keep their types.
THEOREM Types == Spec => []TypeOK
  BY Typing, PTL

\* No two runs work at once under the lock.
THEOREM Exclusion == ASSUME Quiet PROVE Spec => []MutualExclusion
<1>1. IInv => MutualExclusion
  BY DEF IInv, HolderOwnsObject, MutualExclusion
<1> QED
  BY <1>1, Invariance, PTL

\* A run that works owns the object until the Lambda service would kill it.
THEOREM Ownership == ASSUME Quiet PROVE Spec => []HolderOwnsObject
<1>1. IInv => HolderOwnsObject
  BY DEF IInv
<1> QED
  BY <1>1, Invariance, PTL

\* release_lock never deletes the object of another run.
THEOREM OwnRelease == ASSUME Quiet PROVE Spec => ReleaseOwnOnly
<1>1. IInv => \A r \in Runs : ReleaseDelete(r) => lock \in {r, None}
  BY DEF IInv, HolderOwnsObject, ReleaseDelete
<1>2. IInv /\ [Next]_vars
        => [\A r \in Runs : ReleaseDelete(r) => lock \in {r, None}]_vars
  BY <1>1
<1> QED
  BY <1>2, Invariance, PTL DEF Spec, ReleaseOwnOnly

----------------------------------------------------------------------------
(* The lock implements Mutex. *)

\* A step of the lock protocol enters, leaves or does not touch the critical
\* section.
LEMMA MutexStep ==
    ASSUME Quiet PROVE IInv /\ [Next]_vars => [Mx!Next]_Working
<1> SUFFICES ASSUME IInv, [Next]_vars PROVE [Mx!Next]_Working
  OBVIOUS
<1> USE RunsAssumption DEF IInv, TypeOK, HolderOwnsObject, Working
<1>1. ASSUME UNCHANGED pc PROVE Working' = Working
  BY <1>1
<1>2. ASSUME NEW r \in Runs, PutOk(r) PROVE Mx!Enter(r)
  <2>1. Working = {}
    BY <1>2 DEF PutOk
  <2>2. Working' = {r}
    BY <1>2, <2>1 DEF PutOk
  <2> QED
    BY <2>1, <2>2 DEF Mx!Enter
<1>3. ASSUME NEW r \in Runs, Holds(r), NEW to \in {"done", "dead"}, Goto(r, to)
      PROVE Mx!Leave(r)
  BY <1>3 DEF Mx!Leave
<1>4. ASSUME NEW r \in Runs, NEW to \in STRING, Goto(r, to),
             Holds(r) <=> to \in {"work", "relread", "reldelete"}
      PROVE Working' = Working
  BY <1>4
<1>5. CASE Tick
  BY <1>5, <1>1 DEF Tick
<1>6. ASSUME NEW r \in Runs, Invoke(r) PROVE Working' = Working
  BY <1>6, <1>4 DEF Invoke
<1>7. ASSUME NEW r \in Runs, Step(r) PROVE [Mx!Next]_Working
  <2>1. CASE PutOk(r)
    BY <2>1, <1>2 DEF Mx!Next
  <2>2. CASE ReleaseDelete(r)
    BY <2>2, <1>3 DEF ReleaseDelete, Mx!Next
  <2>3. CASE ReleaseRead(r)
    BY <2>3, <1>4 DEF ReleaseRead
  <2>4. CASE Skip(r) \/ StartAcquire(r) \/ Finish(r) \/ FinishUnlocked(r)
    BY <2>4, <1>4 DEF Skip, StartAcquire, Finish, FinishUnlocked
  <2>5. CASE PutConflict(r) \/ ReadHeld(r) \/ ReadStale(r) \/ Steal(r)
    BY <2>5, <1>4 DEF PutConflict, ReadHeld, ReadStale, Steal
  <2> QED
    BY <1>7, <2>1, <2>2, <2>3, <2>4, <2>5 DEF Step
<1>8. ASSUME NEW r \in Runs, Kill(r) PROVE [Mx!Next]_Working
  BY <1>8, <1>3, <1>4 DEF Kill, Mx!Next
<1>9. ASSUME NEW r \in Runs, PutLost(r) \/ StealLost(r)
      PROVE Working' = Working
  BY <1>9, <1>1 DEF PutLost, StealLost
<1>10. CASE UNCHANGED vars
  BY <1>10, <1>1 DEF vars
<1> QED
  BY <1>5, <1>6, <1>7, <1>8, <1>9, <1>10, <1>1 DEF Next, Tick

\* The object store lock implements the abstract mutual exclusion.
THEOREM Refinement == ASSUME Quiet PROVE Spec => RefinesMutex
<1>1. Init => Mx!Init
  BY DEF Init, Mx!Init, Working
<1> QED
  BY <1>1, MutexStep, Invariance, PTL DEF Spec, RefinesMutex, Mx!Spec

----------------------------------------------------------------------------
(* Refusals. *)

\* The object is not the run's own before its put, unless that is repeated;
\* the second attempt meets no object but its own, so a refusal comes from an
\* unexpired lock.
SecondTry ==
    \A r \in Runs :
       /\ pc[r] \in {"idle", "begin"} => lock # r
       /\ Contending(r) /\ lock = r => "put" \in Lost
       /\ pc[r] = "put" /\ tries[r] < 2 => lock \in {None, r}
       /\ pc[r] = "read" /\ tries[r] < 2 => lock = r
       /\ pc[r] = "steal" => tries[r] = 2

\* A step keeps SecondTry.
LEMMA SecondTryStep ==
    ASSUME Quiet PROVE IInv /\ SecondTry /\ [Next]_vars => SecondTry'
<1> SUFFICES ASSUME IInv, SecondTry, [Next]_vars PROVE SecondTry'
  OBVIOUS
<1> USE RunsAssumption
    DEF IInv, TypeOK, OneContender, FreshBody, SecondTry
<1>1. ASSUME NEW r \in Runs, Step(r) PROVE SecondTry'
  <2>1. CASE Skip(r) \/ StartAcquire(r)
    BY <2>1 DEF Skip, StartAcquire
  <2>2. CASE PutOk(r) \/ PutConflict(r)
    BY <2>2 DEF PutOk, PutConflict
  <2>3. CASE ReadHeld(r) \/ ReadStale(r)
    BY <2>3 DEF ReadHeld, ReadStale
  <2>4. CASE Steal(r)
    BY <2>4 DEF Steal
  <2>5. CASE Finish(r) \/ FinishUnlocked(r) \/ ReleaseRead(r)
    BY <2>5 DEF Finish, FinishUnlocked, ReleaseRead
  <2>6. CASE ReleaseDelete(r)
    BY <2>6 DEF ReleaseDelete, HolderOwnsObject
  <2> QED
    BY <1>1, <2>1, <2>2, <2>3, <2>4, <2>5, <2>6 DEF Step
<1>2. CASE Tick
  BY <1>2 DEF Tick
<1>3. ASSUME NEW r \in Runs, Invoke(r) \/ Kill(r) PROVE SecondTry'
  BY <1>3 DEF Invoke, Kill
<1>4. ASSUME NEW r \in Runs, PutLost(r) \/ StealLost(r)
      PROVE SecondTry'
  BY <1>4 DEF PutLost, StealLost, Quiet
<1>5. CASE UNCHANGED vars
  BY <1>5 DEF vars
<1> QED
  BY <1>1, <1>2, <1>3, <1>4, <1>5 DEF Next

\* LockHeldError is raised only while another run's lock is unexpired.
THEOREM Refusal == ASSUME Quiet PROVE Spec => RefusedOnlyByAnother
<1> DEFINE Fair ==
      \A r \in Runs : Contending(r) /\ pc'[r] \in {"refused", "unlocked"}
        => Unexpired /\ (lock = r => "put" \in Lost)
<1>1. Init => SecondTry
  BY RunsAssumption DEF Init, SecondTry
<1>2. IInv /\ SecondTry /\ [Next]_vars => SecondTry'
  BY SecondTryStep
<1>3. IInv /\ SecondTry /\ [Next]_vars => [Fair]_vars
  <2> SUFFICES ASSUME IInv, SecondTry, Next,
                      NEW r \in Runs, Contending(r),
                      pc'[r] \in {"refused", "unlocked"}
               PROVE  Unexpired /\ (lock = r => "put" \in Lost)
    OBVIOUS
  <2> USE DEF IInv, TypeOK, SecondTry
  <2>1. PICK q \in Runs : Step(q) \/ Kill(q) \/ Invoke(q)
    BY DEF Next, Tick, PutLost, StealLost
  <2>2. q = r
    BY <2>1 DEF Step, Skip, StartAcquire, PutOk, PutConflict, ReadHeld,
                ReadStale, Steal, Finish, FinishUnlocked, ReleaseRead,
                ReleaseDelete, Kill, Invoke
  <2>3. ReadHeld(r)
    BY <2>1, <2>2 DEF Step, Skip, StartAcquire, PutOk, PutConflict,
                ReadStale, Steal, Finish, FinishUnlocked, ReleaseRead,
                ReleaseDelete, Kill, Invoke
  <2> QED
    BY <2>3 DEF ReadHeld
<1> QED
  BY <1>1, <1>2, <1>3, Invariance, PTL DEF Spec, RefusedOnlyByAnother

----------------------------------------------------------------------------
(* The run comes to an end. *)

\* The steps a run has before it: three for each attempt it has left, and those
\* of its work and its release.
StepsLeft(r) ==
    CASE pc[r] = "begin"     -> 8
      [] pc[r] = "put"       -> 3 * tries[r] + 1
      [] pc[r] = "read"      -> 3 * tries[r]
      [] pc[r] = "steal"     -> 3 * tries[r] - 1
      [] pc[r] = "work"      -> 3
      [] pc[r] = "relread"   -> 2
      [] pc[r] \in {"reldelete", "unlocked"} -> 1
      [] OTHER               -> 0

\* Each step of a run brings it nearer to its end, and nothing but its invocation
\* takes it away from there.
RunsDown ==
    \A r \in Runs :
       /\ StepsLeft(r)' <= StepsLeft(r) \/ Invoke(r)
       /\ Step(r) => StepsLeft(r)' < StepsLeft(r)

\* A run moves itself, is invoked or is killed.
LEMMA RunMoves ==
  ASSUME TypeOK, FreshBody, [Next]_vars, NEW r \in Runs
  PROVE  UNCHANGED <<pc[r], tries[r]>> \/ Step(r) \/ Invoke(r) \/ Kill(r)
<1>1. ASSUME NEW q \in Runs, q # r, Step(q) \/ Invoke(q) \/ Kill(q)
      PROVE  UNCHANGED <<pc[r], tries[r]>>
  BY <1>1 DEF TypeOK, Step, Skip, StartAcquire, PutOk, PutConflict, ReadHeld, ReadStale,
     Steal, Finish, FinishUnlocked, ReleaseRead, ReleaseDelete, Invoke, Kill
<1>2. ASSUME Tick \/ UNCHANGED vars \/ \E q \in Runs : PutLost(q) \/ StealLost(q)
      PROVE  UNCHANGED <<pc[r], tries[r]>>
  BY <1>2 DEF Tick, vars, PutLost, StealLost
<1> QED
  BY <1>1, <1>2 DEF Next

\* A step of a run goes on from its place.
LEMMA StepShortens ==
  ASSUME TypeOK, FreshBody, NEW r \in Runs, Step(r)
  PROVE  StepsLeft(r)' < StepsLeft(r)
<1> USE DEF TypeOK, FreshBody, StepsLeft
<1>1. CASE Skip(r) \/ StartAcquire(r)
  BY <1>1 DEF Skip, StartAcquire
<1>2. CASE PutOk(r) \/ PutConflict(r)
  BY <1>2 DEF PutOk, PutConflict
<1>3. CASE ReadHeld(r) \/ ReadStale(r)
  BY <1>3 DEF ReadHeld, ReadStale
<1>4. CASE Steal(r)
  BY <1>4 DEF Steal
<1>5. CASE Finish(r) \/ FinishUnlocked(r) \/ ReleaseRead(r) \/ ReleaseDelete(r)
  BY <1>5 DEF Finish, FinishUnlocked, ReleaseRead, ReleaseDelete
<1> QED
  BY <1>1, <1>2, <1>3, <1>4, <1>5 DEF Step

\* What else happens to a run does not bring it back.
LEMMA RunShortens ==
  ASSUME TypeOK, FreshBody, [Next]_vars, NEW r \in Runs
  PROVE  /\ StepsLeft(r)' <= StepsLeft(r) \/ Invoke(r)
         /\ Step(r) => StepsLeft(r)' < StepsLeft(r)
<1>0. StepsLeft(r) \in Nat
  BY DEF TypeOK, FreshBody, StepsLeft
<1>1. CASE Step(r)
  <2>1. StepsLeft(r)' < StepsLeft(r)
    BY <1>1, StepShortens
  <2>2. StepsLeft(r)' \in Int
    <3>1. TypeOK'
      BY TypeStep
    <3> QED
      BY <3>1 DEF StepsLeft, TypeOK
  <2> QED
    BY <1>0, <2>1, <2>2
<1>2. CASE ~Step(r) /\ UNCHANGED <<pc[r], tries[r]>>
  <2>1. StepsLeft(r)' = StepsLeft(r)
    BY <1>2 DEF StepsLeft
  <2> QED
    BY <1>0, <1>2, <2>1 DEF TypeOK, FreshBody
<1>3. CASE ~Step(r) /\ Kill(r)
  <2>1. pc'[r] = "dead"
    BY <1>3 DEF Kill, TypeOK
  <2>2. StepsLeft(r)' = 0
    BY <2>1 DEF StepsLeft
  <2> QED
    BY <1>0, <1>3, <2>1, <2>2
<1>4. CASE ~Step(r) /\ Invoke(r)
  <2>1. pc'[r] = "begin"
    BY <1>4 DEF Invoke, TypeOK
  <2> QED
    BY <1>4, <2>1
<1> QED
  BY <1>1, <1>2, <1>3, <1>4, RunMoves

\* Whoever else contends or repeats a request, a run takes at most eight steps of
\* its own: acquire_lock makes two attempts and no more.
THEOREM Countdown == Spec => [][RunsDown]_vars
<1>1. TypeOK /\ FreshBody /\ [Next]_vars => RunsDown
  BY RunShortens DEF RunsDown
<1> QED
  BY <1>1, Typing, PTL DEF Spec

\* A run that contends, and that nobody but itself keeps from the lock.
InLine(r) == Contending(r) /\ (Stale \/ lock = r)

\* A run in line stays so until it works, is killed, or is refused by the object
\* of its own put, repeated after a lost answer: nobody takes the lock before it.
KeepsItsChance ==
    \A r \in Runs :
       InLine(r) => InLine(r)' \/ pc'[r] = "work" \/ Orphaned(r)' \/ pc'[r] = "dead"

\* The step of a run in line.
LEMMA ChanceStep ==
  ASSUME Quiet, IInv, SecondTry, [Next]_vars PROVE KeepsItsChance
<1> DEFINE Goal(r) == InLine(r)' \/ pc'[r] = "work" \/ Orphaned(r)' \/ pc'[r] = "dead"
<1> SUFFICES ASSUME NEW r \in Runs, InLine(r) PROVE Goal(r)
  BY DEF KeepsItsChance
<1> USE RunsAssumption, LeaseAssumption
    DEF IInv, TypeOK, OneContender, SecondTry, InLine, Orphaned
<1>1. ASSUME NEW q \in Runs, Step(q) PROVE Goal(r)
  <2>1. CASE Skip(q) \/ StartAcquire(q)
    BY <2>1 DEF Skip, StartAcquire, Quiet
  <2>2. CASE PutOk(q) \/ PutConflict(q)
    BY <2>2 DEF PutOk, PutConflict
  <2>3. CASE ReadHeld(q) \/ ReadStale(q)
    BY <2>3 DEF ReadHeld, ReadStale
  <2>4. CASE Steal(q)
    BY <2>4 DEF Steal
  <2>5. CASE Finish(q) \/ FinishUnlocked(q) \/ ReleaseRead(q)
    BY <2>5 DEF Finish, FinishUnlocked, ReleaseRead
  <2>6. CASE ReleaseDelete(q)
    BY <2>6 DEF ReleaseDelete, HolderOwnsObject
  <2> QED
    BY <1>1, <2>1, <2>2, <2>3, <2>4, <2>5, <2>6 DEF Step
<1>2. CASE Tick
  BY <1>2 DEF Tick, Less
<1>3. ASSUME NEW q \in Runs, Invoke(q) \/ Kill(q) PROVE Goal(r)
  BY <1>3 DEF Invoke, Kill
<1>4. ASSUME NEW q \in Runs, PutLost(q) \/ StealLost(q) PROVE Goal(r)
  BY <1>4 DEF PutLost, StealLost
<1>5. CASE UNCHANGED vars
  BY <1>5 DEF vars
<1> QED
  BY <1>1, <1>2, <1>3, <1>4, <1>5 DEF Next

\* With Countdown: a run that contends for a lock nobody holds, or that a killed
\* run left behind, works after at most seven steps, unless it is killed or a
\* lost answer has its own object refuse it.
THEOREM Chance == ASSUME Quiet PROVE Spec => [][KeepsItsChance]_vars
<1>1. Init => SecondTry
  BY RunsAssumption DEF Init, SecondTry
<1>2. IInv /\ SecondTry /\ [Next]_vars => SecondTry'
  BY SecondTryStep
<1>3. IInv /\ SecondTry /\ [Next]_vars => KeepsItsChance
  BY ChanceStep
<1> QED
  BY <1>1, <1>2, <1>3, Invariance, PTL DEF Spec
=============================================================================
