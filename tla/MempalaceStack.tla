--------------------------- MODULE MempalaceStack ---------------------------
(***************************************************************************)
(* The shared MemPalace stack: the toggle workflow that brings it up and     *)
(* tears it down (mempalace-toggle.yml), the idle checks that call it        *)
(* (mempalace-idle-teardown.yml, started by GitHub's cron and by the trigger *)
(* Lambda, so that several run side by side), the wake Lambda and people.    *)
(*                                                                         *)
(* Toggle runs share a concurrency group: one runs, one waits, and a newer   *)
(* one takes the place of the one that waits.  A check judges now and its    *)
(* verdict is carried out when the group gets to it.  A run that is killed    *)
(* leaves Terraform's state lock behind, and every later run fails on it      *)
(* until somebody unlocks the state.                                         *)
(***************************************************************************)
EXTENDS Integers, FiniteSets

CONSTANTS
    Checks,       \* idle checks side by side
    Window,       \* ticks without traffic that count as idle (90 minutes)
    Grace,        \* age below which an ALB is not judged (95 minutes)
    MaxManual,    \* bound: toggles by people and by the wake Lambda
    MaxFaults     \* bound: failing AWS queries, and Terraform runs that end badly

ASSUME WindowAssumption == Window \in Nat \ {0} /\ Grace \in Nat /\ Grace > Window
ASSUME BoundAssumption == MaxManual \in Nat /\ MaxFaults \in Nat

Groups == {"personal", "magnetlegal"}
Down   == -1

\* What costs money beside the ALB: the web ACL and the two ECS services.
Parts  == Groups \cup {"waf"}

VARIABLES
    keep,     \* the protected-uptime window: "before", "inside" or "after"
    alb,      \* its age in ticks, up to Grace, or Down
    parts,    \* those of Parts that are there
    quiet,    \* ticks since the last real traffic of a group, up to Window
    pc, inside, idle,  \* a check: its place, IN_WINDOW and PERSONAL_IDLE
    running, pending,  \* toggle runs: "none", "up" or "down"
    whole,    \* did the last Terraform run that began end well?
    stuck,    \* is the state locked by a run that is dead?
    manual,   \* toggles by people so far
    faults,   \* queries that failed so far
    broken    \* Terraform runs that ended badly so far

stack == <<alb, parts, quiet>>
state == <<whole, stuck>>
check == <<pc, inside, idle>>
queue == <<running, pending>>
count == <<manual, faults, broken>>
vars  == <<keep, stack, state, check, queue, count>>

Init ==
    /\ keep = "before"
    /\ alb = Down /\ parts = {} /\ whole = TRUE /\ stuck = FALSE
    /\ quiet = [g \in Groups |-> Window]
    /\ pc = [c \in Checks |-> "off"]
    /\ inside = [c \in Checks |-> FALSE]
    /\ idle = [c \in Checks |-> FALSE]
    /\ running = "none" /\ pending = "none"
    /\ manual = 0 /\ faults = 0 /\ broken = 0

\* The concurrency group, cancel-in-progress: false.
Enqueue(action) ==
    IF running = "none"
    THEN running' = action /\ UNCHANGED pending
    ELSE pending' = action /\ UNCHANGED running

Goto(c, place) == pc' = [pc EXCEPT ![c] = place]

\* A query that fails, and passes for an empty answer.
Fails == faults < MaxFaults /\ faults' = faults + 1 /\ UNCHANGED <<manual, broken>>

----------------------------------------------------------------------------
(* An idle check. *)

\* Mutant: only the day the window opens is looked at.
ReadWindowOpening(c) ==
    /\ pc[c] = "off"
    /\ inside' = [inside EXCEPT ![c] = (keep # "before")]
    /\ Goto(c, "alb")
    /\ UNCHANGED <<keep, stack, state, idle, queue, count>>

ReadWindow(c) ==
    /\ pc[c] = "off"
    /\ inside' = [inside EXCEPT ![c] = (keep = "inside")]
    /\ Goto(c, "alb")
    /\ UNCHANGED <<keep, stack, state, idle, queue, count>>

\* Mutant: as before 2026-08-25, the window only blocks the teardown.
AlbMissingNoBringUp(c) ==
    /\ pc[c] = "alb"
    /\ (alb = Down /\ UNCHANGED count) \/ Fails
    /\ Goto(c, "off")
    /\ UNCHANGED <<keep, stack, state, inside, idle, queue>>

\* No ALB found: nothing to do, unless the window asks for one.
AlbMissing(c) ==
    /\ pc[c] = "alb"
    /\ (alb = Down /\ UNCHANGED count) \/ Fails
    /\ IF inside[c] THEN Enqueue("up") ELSE UNCHANGED queue
    /\ Goto(c, "off")
    /\ UNCHANGED <<keep, stack, state, inside, idle>>

\* Mutant: as before 2026-08-15, the other account is asked for the ALB.
AlbFoundNowhere(c) ==
    /\ pc[c] = "alb"
    /\ alb # Down
    /\ Goto(c, "off")
    /\ UNCHANGED <<keep, stack, state, inside, idle, queue, count>>

\* Inside the window, or too young to judge: the stack stays up.
AlbFound(c) ==
    /\ pc[c] = "alb"
    /\ alb # Down
    /\ Goto(c, IF inside[c] \/ alb < Grace THEN "off" ELSE "personal")
    /\ UNCHANGED <<keep, stack, state, inside, idle, queue, count>>

\* is_tg_idle: a target group that is gone is idle, and a Terraform run that
\* ended badly may have left it out or taken it away.
Verdicts(g) ==
    {verdict \in BOOLEAN :
        IF whole THEN verdict <=> (alb = Down \/ quiet[g] >= Window)
        ELSE quiet[g] >= Window => verdict}

AskPersonal(c) ==
    /\ pc[c] = "personal"
    /\ \/ \E verdict \in Verdicts("personal") : idle' = [idle EXCEPT ![c] = verdict]
          /\ UNCHANGED count
       \/ idle' = [idle EXCEPT ![c] = TRUE] /\ Fails
    /\ Goto(c, "magnetlegal")
    /\ UNCHANGED <<keep, stack, state, inside, queue>>

AskMagnetlegal(c) ==
    /\ pc[c] = "magnetlegal"
    /\ \E verdict \in BOOLEAN :
          /\ \/ verdict \in Verdicts("magnetlegal") /\ UNCHANGED count
             \/ verdict /\ Fails
          /\ IF idle[c] /\ verdict THEN Enqueue("down") ELSE UNCHANGED queue
    /\ Goto(c, "off")
    /\ UNCHANGED <<keep, stack, state, inside, idle>>

----------------------------------------------------------------------------
(* Toggle runs. *)

Proceed == running' = pending /\ pending' = "none"

\* Everything but the MagNet Legal service; what is there already is kept.
Up ==
    /\ running = "up" /\ ~stuck
    /\ alb' = IF alb = Down THEN 0 ELSE alb
    /\ parts' = parts \cup {"waf", "personal"}
    /\ whole' = TRUE
    /\ Proceed
    /\ UNCHANGED <<keep, quiet, stuck, check, count>>

TearDown ==
    /\ running = "down" /\ ~stuck
    /\ alb' = Down
    /\ parts' = {}
    /\ whole' = TRUE
    /\ Proceed
    /\ UNCHANGED <<keep, quiet, stuck, check, count>>

\* Terraform stops on the way.  Nothing in its graph puts the services or the
\* web ACL before or after the ALB, so any of them may be done by then.
Halfway ==
    \/ /\ running = "up"
       /\ alb' \in {alb, IF alb = Down THEN 0 ELSE alb}
       /\ \E new \in SUBSET {"waf", "personal"} : parts' = parts \cup new
    \/ /\ running = "down"
       /\ alb' \in {alb, Down}
       /\ parts' \in SUBSET parts

\* It fails, and gives the state lock back; or the run is killed or times out,
\* and does not.
Breaks ==
    /\ running # "none" /\ ~stuck /\ broken < MaxFaults
    /\ broken' = broken + 1
    /\ Halfway
    /\ whole' = FALSE
    /\ stuck' \in BOOLEAN
    /\ Proceed
    /\ UNCHANGED <<keep, quiet, check, manual, faults>>

\* The state is locked: Terraform fails before it has done anything.
LockedOut ==
    /\ running # "none" /\ stuck
    /\ Proceed
    /\ UNCHANGED <<keep, stack, state, check, count>>

\* terraform force-unlock, by hand.
Unlock ==
    /\ stuck
    /\ stuck' = FALSE
    /\ UNCHANGED <<keep, stack, whole, check, queue, count>>

\* A person, or a developer through the wake Lambda ("up" only).
Ask(action) ==
    /\ manual < MaxManual
    /\ manual' = manual + 1
    /\ Enqueue(action)
    /\ UNCHANGED <<keep, stack, state, check, faults, broken>>

----------------------------------------------------------------------------
(* The world. *)

\* The MagNet Legal service is started by hand.
StartMagnetlegal ==
    /\ alb # Down /\ "magnetlegal" \notin parts /\ manual < MaxManual
    /\ parts' = parts \cup {"magnetlegal"}
    /\ manual' = manual + 1
    /\ UNCHANGED <<keep, alb, quiet, state, check, queue, faults, broken>>

Traffic(g) ==
    /\ alb # Down /\ g \in parts
    /\ quiet' = [quiet EXCEPT ![g] = 0]
    /\ UNCHANGED <<keep, alb, parts, state, check, queue, count>>

UpTo(n, bound) == IF n < bound THEN n + 1 ELSE n

Tick ==
    /\ alb' = IF alb = Down THEN alb ELSE UpTo(alb, Grace)
    /\ quiet' = [g \in Groups |-> UpTo(quiet[g], Window)]
    /\ UNCHANGED <<keep, parts, state, check, queue, count>>

WindowOpens ==
    /\ keep = "before" /\ keep' = "inside"
    /\ UNCHANGED <<stack, state, check, queue, count>>

WindowCloses ==
    /\ keep = "inside" /\ keep' = "after"
    /\ UNCHANGED <<stack, state, check, queue, count>>

Check(c) ==
    \/ ReadWindow(c) \/ AlbMissing(c) \/ AlbFound(c)
    \/ AskPersonal(c) \/ AskMagnetlegal(c)

Toggle == Up \/ TearDown \/ Breaks \/ LockedOut

Next ==
    \/ \E c \in Checks : Check(c)
    \/ Toggle
    \/ \E action \in {"up", "down"} : Ask(action)
    \/ Unlock \/ StartMagnetlegal
    \/ \E g \in Groups : Traffic(g)
    \/ Tick \/ WindowOpens \/ WindowCloses

\* Time passes; the scheduler starts checks every 15 minutes and retries;
\* GitHub carries out what is queued.  Nothing is assumed of people.
Fairness ==
    /\ WF_vars(Tick) /\ WF_vars(Toggle)
    /\ \A c \in Checks : WF_vars(Check(c))

Spec == Init /\ [][Next]_vars /\ Fairness

----------------------------------------------------------------------------
(* Properties. *)

TypeOK ==
    /\ keep \in {"before", "inside", "after"}
    /\ alb \in {Down} \cup 0..Grace
    /\ parts \subseteq Parts
    /\ whole \in BOOLEAN /\ stuck \in BOOLEAN
    /\ quiet \in [Groups -> 0..Window]
    /\ pc \in [Checks -> {"off", "alb", "personal", "magnetlegal"}]
    /\ inside \in [Checks -> BOOLEAN] /\ idle \in [Checks -> BOOLEAN]
    /\ running \in {"none", "up", "down"} /\ pending \in {"none", "up", "down"}
    /\ running = "none" => pending = "none"
    /\ manual \in 0..MaxManual /\ faults \in 0..MaxFaults /\ broken \in 0..MaxFaults

InWindow == keep = "inside"
Serving  == alb # Down /\ (whole => {"waf", "personal"} \subseteq parts)

\* What the workflow makes true of "or a stack that happened to tear down [...]
\* would just stay down through the entire window instead of getting the
\* guaranteed uptime" (mempalace-idle-teardown.yml): in a window that lasts long
\* enough the stack comes up and then stays up, whatever verdicts were on their
\* way when it opened, as long as the state is not locked for good.  It is less
\* than "up for this entire window" (ADR-034): see VerdictsRunOut for how often
\* it may go down in it.  And a check looks only at the ALB, so nothing brings
\* back a service or a web ACL that a run which ended badly left out.
StaysUp == <>[](InWindow /\ ~stuck) => <>[]Serving

Silent == \A g \in Groups : quiet[g] = Window

\* A stack that nobody uses is torn down for good, whatever was queued or failed
\* before, unless the state is locked for good: no idle stack goes on costing
\* money, but for what a teardown that ended badly left when the ALB was gone,
\* which no check looks for.
GoesDown == <>[](~InWindow /\ Silent /\ ~stuck) => <>[](alb = Down /\ (whole => parts = {}))

\* The checks whose verdict may still be the action, and the toggle runs of it.
Deciding(action) ==
    IF action = "down" THEN {c \in Checks : pc[c] # "off" /\ ~inside[c]}
                       ELSE {c \in Checks : pc[c] = "alb" /\ inside[c]}
Orders(action) ==
    (IF running = action THEN 1 ELSE 0) + (IF pending = action THEN 1 ELSE 0)
Left(action) == Cardinality(Deciding(action)) + Orders(action)

\* A verdict outlives the window it was judged by, but none is renewed: while
\* the window lasts, and nobody asks for a toggle, the teardowns still to come
\* never become more, and each time the stack goes down they are one less; the
\* same of the bring-ups while it does not last.
VerdictsRunOut ==
    [][UNCHANGED <<keep, manual>> =>
          LET wrong == IF InWindow THEN "down" ELSE "up"
              acts  == IF InWindow THEN alb # Down /\ alb' = Down
                                   ELSE alb = Down /\ alb' # Down
          IN  /\ Left(wrong)' <= Left(wrong)
              /\ acts => Left(wrong)' < Left(wrong)]_vars
=============================================================================
