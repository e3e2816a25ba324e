------------------------------ MODULE RunLock ------------------------------
(***************************************************************************)
(* The run lock of the paper trading runner (store.py, acquire_lock and     *)
(* release_lock), as _run of handler.py uses it.  The lock is one S3        *)
(* object.  Every S3 request is one action; between two requests of a run   *)
(* any other run may act, time may pass, and the run may be killed.         *)
(*                                                                         *)
(* A run writes one body, computed once, so the object is represented by    *)
(* the run whose body it holds, and its expires_at by ttl[run], the time    *)
(* left until then.                                                         *)
(***************************************************************************)
EXTENDS Integers

CONSTANTS
    Runs,        \* the invocations of the Lambda, one run_id each
    Flatteners,  \* those of slot 5, which go on without the lock
    None,        \* no lock object
    TTL,         \* LOCK_TTL_SECONDS, in ticks
    Timeout,     \* the Lambda's timeout, in ticks
    Overlap,     \* may two runs be inside acquire_lock at the same time?
    Lost         \* the requests whose answer may be lost: botocore repeats them

ASSUME RunsAssumption == Flatteners \subseteq Runs /\ None \notin Runs
ASSUME LeaseAssumption ==
    TTL \in Nat /\ Timeout \in Nat /\ 0 < Timeout /\ Timeout < TTL
ASSUME EnvironmentAssumption ==
    Overlap \in BOOLEAN /\ Lost \subseteq {"put", "steal"}

VARIABLES
    lock,   \* state/lock.json: the run whose body it holds, or None
    ttl,    \* time left until expires_at of the body of each run
    left,   \* time left until the Lambda service kills the run
    tries,  \* attempts left in the loop of acquire_lock
    pc      \* where each run is

vars == <<lock, ttl, left, tries, pc>>

\* Mutant: range(1) in acquire_lock.
OneAttempt == 1

Attempts == 2

Contending(r) == pc[r] \in {"put", "read", "steal"}
Holds(r)      == pc[r] \in {"work", "relread", "reldelete"}
Live(r)       == pc[r] \in {"begin", "unlocked"} \/ Contending(r) \/ Holds(r)

\* Mutant: the expiry compared a tick early.
ExpiredEarly == lock # None /\ ttl[lock] > 1

\* expires_at > time.time(); there is nothing to compare when the object is
\* absent and {} is read.
Unexpired == lock # None /\ ttl[lock] > 0
Stale     == ~Unexpired

Init ==
    /\ lock = None
    /\ ttl = [r \in Runs |-> 0]
    /\ left = [r \in Runs |-> 0]
    /\ tries = [r \in Runs |-> 0]
    /\ pc = [r \in Runs |-> "idle"]

Goto(r, to) == pc' = [pc EXCEPT ![r] = to]

\* LockHeldError: a run of slot 5 flattens anyway, any other returns.
Refuse(r) == Goto(r, IF r \in Flatteners THEN "unlocked" ELSE "refused")

----------------------------------------------------------------------------
(* The invocation. *)

Invoke(r) ==
    /\ pc[r] = "idle"
    /\ left' = [left EXCEPT ![r] = Timeout]
    /\ Goto(r, "begin")
    /\ UNCHANGED <<lock, ttl, tries>>

\* Not enabled, bad configuration, not a paper account or market closed.
Skip(r) ==
    /\ pc[r] = "begin"
    /\ Goto(r, "done")
    /\ UNCHANGED <<lock, ttl, left, tries>>

\* The body, with expires_at, is computed here, once for both attempts.  The
\* second conjunct is the environment: unless Overlap, runs are spaced widely
\* enough for acquire_lock (milliseconds) never to be executed by two at once.
StartAcquire(r) ==
    /\ pc[r] = "begin"
    /\ Overlap \/ \A q \in Runs : ~Contending(q)
    /\ ttl' = [ttl EXCEPT ![r] = TTL]
    /\ tries' = [tries EXCEPT ![r] = Attempts]
    /\ Goto(r, "put")
    /\ UNCHANGED <<lock, left>>

----------------------------------------------------------------------------
(* acquire_lock, one S3 request after the other. *)

\* Mutant: the put without IfNoneMatch.
PutUnconditional(r) ==
    /\ pc[r] = "put"
    /\ lock' = r
    /\ Goto(r, "work")
    /\ UNCHANGED <<ttl, left, tries>>

\* put_object with IfNoneMatch="*".
PutOk(r) ==
    /\ pc[r] = "put" /\ lock = None
    /\ lock' = r
    /\ Goto(r, "work")
    /\ UNCHANGED <<ttl, left, tries>>

\* The object is written and the answer lost; botocore sends the put again.
PutLost(r) ==
    /\ "put" \in Lost
    /\ pc[r] = "put" /\ lock = None
    /\ lock' = r
    /\ UNCHANGED <<ttl, left, tries, pc>>

\* Mutant: a conflict taken as proof of a dead lock, without the read.
ConflictSteals(r) ==
    /\ pc[r] = "put" /\ lock # None
    /\ Goto(r, "steal")
    /\ UNCHANGED <<lock, ttl, left, tries>>

PutConflict(r) ==
    /\ pc[r] = "put" /\ lock # None
    /\ Goto(r, "read")
    /\ UNCHANGED <<lock, ttl, left, tries>>

ReadHeld(r) ==
    /\ pc[r] = "read" /\ Unexpired
    /\ Refuse(r)
    /\ UNCHANGED <<lock, ttl, left, tries>>

ReadStale(r) ==
    /\ pc[r] = "read" /\ Stale
    /\ Goto(r, "steal")
    /\ UNCHANGED <<lock, ttl, left, tries>>

\* The unconditional delete_object, and the next turn of the loop if any.
Steal(r) ==
    /\ pc[r] = "steal"
    /\ lock' = None
    /\ tries' = [tries EXCEPT ![r] = @ - 1]
    /\ IF tries[r] > 1 THEN Goto(r, "put") ELSE Refuse(r)
    /\ UNCHANGED <<ttl, left>>

\* A delete that took effect and whose answer is lost is sent again.
StealLost(r) ==
    /\ "steal" \in Lost
    /\ pc[r] = "steal"
    /\ lock' = None
    /\ UNCHANGED <<ttl, left, tries, pc>>

----------------------------------------------------------------------------
(* The work of the run, and release_lock in the finally clause. *)

Finish(r) ==
    /\ pc[r] = "work"
    /\ Goto(r, "relread")
    /\ UNCHANGED <<lock, ttl, left, tries>>

FinishUnlocked(r) ==
    /\ pc[r] = "unlocked"
    /\ Goto(r, "done")
    /\ UNCHANGED <<lock, ttl, left, tries>>

ReleaseRead(r) ==
    /\ pc[r] = "relread"
    /\ Goto(r, IF lock = r THEN "reldelete" ELSE "done")
    /\ UNCHANGED <<lock, ttl, left, tries>>

ReleaseDelete(r) ==
    /\ pc[r] = "reldelete"
    /\ lock' = None
    /\ Goto(r, "done")
    /\ UNCHANGED <<ttl, left, tries>>

----------------------------------------------------------------------------
(* The environment: a run can die at any moment and does at its timeout.    *)

Kill(r) ==
    /\ Live(r)
    /\ Goto(r, "dead")
    /\ UNCHANGED <<lock, ttl, left, tries>>

Less(n) == IF n > 0 THEN n - 1 ELSE 0

\* No run outlives its timeout.
Tick ==
    /\ \A r \in Runs : Live(r) => left[r] > 0
    /\ left' = [r \in Runs |-> Less(left[r])]
    /\ ttl' = [r \in Runs |-> Less(ttl[r])]
    /\ UNCHANGED <<lock, tries, pc>>

\* The steps a run takes by itself once it has been invoked.
Step(r) ==
    \/ Skip(r) \/ StartAcquire(r)
    \/ PutOk(r) \/ PutConflict(r)
    \/ ReadHeld(r) \/ ReadStale(r) \/ Steal(r)
    \/ Finish(r) \/ FinishUnlocked(r)
    \/ ReleaseRead(r) \/ ReleaseDelete(r)

Next ==
    \/ Tick
    \/ \E r \in Runs :
          \/ Invoke(r) \/ Step(r) \/ Kill(r)
          \/ PutLost(r) \/ StealLost(r)

Spec == Init /\ [][Next]_vars

\* A run that is not killed goes on; nothing makes time pass or runs start.
FairSpec == Spec /\ \A r \in Runs : WF_vars(Step(r))

----------------------------------------------------------------------------
(* Properties. *)

TypeOK ==
    /\ lock \in Runs \cup {None}
    /\ ttl \in [Runs -> 0..TTL]
    /\ left \in [Runs -> 0..Timeout]
    /\ tries \in [Runs -> 0..Attempts]
    /\ pc \in [Runs -> {"idle", "begin", "put", "read", "steal", "work",
                        "relread", "reldelete", "unlocked", "refused",
                        "done", "dead"}]

\* "Concurrency is controlled by an S3 run lock" (alpaca_trading.tf): no two
\* runs work at once with the lock taken.
MutualExclusion == \A r, q \in Runs : Holds(r) /\ Holds(q) => r = q

\* A run that works owns the object, and the object outlives the run: neither
\* its own retries, nor a slow start, nor the end of an earlier run take it
\* away while Lambda lets the run live.
HolderOwnsObject == \A r \in Runs : Holds(r) => lock = r /\ ttl[r] > left[r]

\* "Release the lock only if this run still owns it" (release_lock): the
\* object it deletes is never the one of another run.
ReleaseOwnOnly ==
    [][\A r \in Runs : ReleaseDelete(r) => lock \in {r, None}]_vars

\* "Raised when another live run holds the lock" (LockHeldError): a run that
\* is refused found an unexpired lock, and of another run unless it is its own
\* put that was repeated.
RefusedOnlyByAnother ==
    [][\A r \in Runs :
          Contending(r) /\ pc'[r] \in {"refused", "unlocked"}
            => Unexpired /\ (lock = r => "put" \in Lost)]_vars

\* A run refused by the object of its own put, whose answer was lost and which
\* was repeated: the object stays until it expires, and nobody works.
Orphaned(r) == "put" \in Lost /\ lock = r /\ pc[r] \in {"refused", "unlocked"}

\* A run that tries to take a lock nobody holds, or that a killed run left
\* behind and that has expired, comes to work under it: the two attempts of
\* acquire_lock are enough.  What may come between is its end or, if an answer
\* to put_object is lost, a refusal by its own object.
StaleLockIsTaken ==
    \A r \in Runs :
       pc[r] = "put" /\ Stale ~> pc[r] = "work" \/ Orphaned(r) \/ pc[r] = "dead"

\* The runs at work, as the abstract mutual exclusion sees them.
Working == {r \in Runs : Holds(r)}

Mx == INSTANCE Mutex WITH inside <- Working

\* The protocol implements the abstract mutual exclusion.
RefinesMutex == Mx!Spec
=============================================================================
