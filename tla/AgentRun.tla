------------------------------ MODULE AgentRun ------------------------------
(***************************************************************************)
(* One invocation of the trading Lambda from start to end: the checks of     *)
(* _run, the lock, the Bedrock tool loop of agent.py with its caps and cache *)
(* points, the reports, and what happens to every kind of failure            *)
(* (handler.py, agent.py, notify.py).                                        *)
(*                                                                         *)
(* What the tools do to the journal and the broker is in TradingDay, what    *)
(* the lock does is in RunLock; here the lock is taken or refused.           *)
(***************************************************************************)
EXTENDS Integers, Sequences

CONSTANTS
    Slots,        \* the slots to consider; 0 is an event without one
    MaxTurns,     \* max_turns
    MaxCost,      \* max_run_cost_usd, in some unit
    TurnCosts,    \* what one turn may cost
    MaxUses       \* bound: tool calls in one answer of the model

ASSUME SlotAssumption == Slots \subseteq 0..6
ASSUME CapAssumption ==
    MaxTurns \in Nat \ {0} /\ MaxCost \in Nat /\ TurnCosts \subseteq Nat /\ MaxUses \in Nat \ {0}

ReportSlots == {4, 6}
FlattenSlot == 5

VARIABLES
    slot, dry,  \* the event
    pc,         \* where the run is
    locked,     \* does the run hold the lock?
    messages,   \* the conversation: [role, tools, point]
    turn,       \* turns taken
    cost,       \* their cost
    todo,       \* tool calls of the last answer still to be made
    stopped,    \* "no", or why the loop ended
    sent,       \* report_sent
    arrived,    \* reports of the model that reached the phone
    unknown,    \* those of them whose answer was lost
    fallbacks,  \* fallback reports attempted
    alerts,     \* alerts attempted
    result      \* "none", or what the invocation returns

event == <<slot, dry>>
loop  == <<messages, turn, cost, todo, stopped>>
reports == <<sent, arrived, unknown>>
told  == <<reports, fallbacks, alerts>>
vars  == <<event, pc, locked, loop, told, result>>

Init ==
    /\ slot \in Slots /\ dry \in BOOLEAN
    /\ pc = "start" /\ locked = FALSE
    /\ messages = <<>> /\ turn = 0 /\ cost = 0 /\ todo = 0 /\ stopped = "no"
    /\ sent = FALSE /\ arrived = 0 /\ unknown = 0 /\ fallbacks = 0 /\ alerts = 0
    /\ result = "none"

\* notify.send never raises, and nobody reads its answer for an alert: this is
\* the attempt.
Alert == alerts' = alerts + 1 /\ UNCHANGED <<reports, fallbacks>>

End(outcome) == pc' = "end" /\ result' = outcome

----------------------------------------------------------------------------
(* Before the lock. *)

\* No slot, not one of 1..6, or an invalid strategy id.
BadEvent ==
    /\ pc = "start"
    /\ End("invalid")
    /\ UNCHANGED <<event, locked, loop, told>>

\* Not enabled, or the market is closed: a dry run asks neither.
NotToday ==
    /\ pc = "start" /\ slot # 0 /\ ~dry
    /\ End("skipped")
    /\ UNCHANGED <<event, locked, loop, told>>

\* Bad guardrail configuration, or not the paper account.
Refused ==
    /\ pc = "start" /\ slot # 0
    /\ Alert
    /\ End("failed")
    /\ UNCHANGED <<event, locked, loop>>

\* AlpacaError, KeyError and RuntimeError reach the except clause of handler,
\* whose alert needs the secret that may be what failed.
StartupFails ==
    /\ pc = "start" /\ slot # 0
    /\ Alert \/ UNCHANGED told
    /\ End("not_started")
    /\ UNCHANGED <<event, locked, loop>>

\* Any other exception (an S3 ClientError, a slot that is no number) leaves
\* handler.
StartupCrashes ==
    /\ pc \in {"start", "lock"}
    /\ End("crashed")
    /\ UNCHANGED <<event, locked, loop, told>>

Started ==
    /\ pc = "start" /\ slot # 0
    /\ pc' = "lock"
    /\ UNCHANGED <<event, locked, loop, told, result>>

Body == IF slot = FlattenSlot THEN "flatten" ELSE "prompt"

LockTaken ==
    /\ pc = "lock"
    /\ locked' = TRUE
    /\ pc' = Body
    /\ UNCHANGED <<event, loop, told, result>>

LockHeld ==
    /\ pc = "lock"
    /\ Alert
    /\ IF slot = FlattenSlot THEN pc' = Body /\ UNCHANGED result ELSE End("failed")
    /\ UNCHANGED <<event, locked, loop>>

----------------------------------------------------------------------------
(* The flatten run, and the prompt. *)

Flat ==
    /\ pc = "flatten"
    /\ pc' = "finally" /\ result' = "ok"
    /\ UNCHANGED <<event, locked, loop, told>>

\* Returned as ok all the same, with flat = False.
NotFlat ==
    /\ pc = "flatten" /\ ~dry
    /\ Alert
    /\ pc' = "finally" /\ result' = "not_flat"
    /\ UNCHANGED <<event, locked, loop>>

Message(role, tools, point) == [role |-> role, tools |-> tools, point |-> point]

Prompt ==
    /\ pc = "prompt"
    /\ messages' = <<Message("user", 0, TRUE)>>
    /\ pc' = "converse"
    /\ UNCHANGED <<event, locked, turn, cost, todo, stopped, told, result>>

----------------------------------------------------------------------------
(* run_agent. *)

\* One answer of the model: either it asks for tools or the loop is finished.
Answer(uses, price) ==
    /\ pc = "converse"
    /\ turn' = turn + 1
    /\ cost' = cost + price
    /\ messages' = Append(messages, Message("assistant", uses, FALSE))
    /\ todo' = uses
    /\ UNCHANGED <<event, locked, told, result>>

Converse(uses, price) ==
    /\ Answer(uses, price)
    /\ pc' = "tools"
    /\ UNCHANGED stopped

\* stopReason is not "tool_use": what the answer asks for is not done.
Finish(price) ==
    /\ Answer(0, price)
    /\ stopped' = "finished"
    /\ pc' = "summary"

\* Any tool but send_report; errors are handed to the model as its result.
UseTool ==
    /\ pc = "tools" /\ todo > 0
    /\ todo' = todo - 1
    /\ UNCHANGED <<event, pc, locked, messages, turn, cost, stopped, told, result>>

\* What notify.send may do with a report: it arrives and is confirmed, it
\* arrives and the answer is lost, it does not arrive.
Deliveries == {"confirmed", "unconfirmed", "failed"}

\* Mutant: only the last attempt counts.
LastAttempt(delivery) == delivery = "confirmed"

ReportSent(delivery) == sent \/ delivery = "confirmed"

Deliver(delivery) ==
    /\ sent' = ReportSent(delivery)
    /\ arrived' = arrived + (IF delivery = "failed" THEN 0 ELSE 1)
    /\ unknown' = unknown + (IF delivery = "unconfirmed" THEN 1 ELSE 0)

\* send_report, as often as the model likes; refused outside the report slots.
SendReport ==
    /\ pc = "tools" /\ todo > 0
    /\ todo' = todo - 1
    /\ IF slot \in ReportSlots
       THEN \E delivery \in Deliveries : Deliver(delivery)
       ELSE UNCHANGED reports
    /\ UNCHANGED <<event, pc, locked, messages, turn, cost, stopped, fallbacks, alerts, result>>

\* Mutant: the cache point of the previous message is left behind.
LeavePoint == messages

\* The message that holds the rolling cache point gives it up.
DropPoint ==
    [i \in DOMAIN messages |->
        IF i = Len(messages) - 1 THEN [messages[i] EXCEPT !.point = FALSE]
        ELSE messages[i]]

\* Mutant: the cap compared the wrong way at the limit.
NextTurnDear == cost <= MaxCost + 1 /\ turn < MaxTurns

\* Mutant: only the cost is capped.
NextTurnUncounted == cost <= MaxCost

NextTurn == cost <= MaxCost /\ turn < MaxTurns

\* The cost is looked at first.
Cap == IF cost > MaxCost THEN "cost_cap" ELSE "turn_cap"

\* Mutant: the result of the last tool is missing.
ResultsShort ==
    /\ pc = "tools" /\ todo = 0
    /\ messages' = Append(DropPoint, Message("user", messages[Len(messages)].tools - 1, TRUE))
    /\ IF NextTurn
       THEN pc' = "converse" /\ UNCHANGED stopped
       ELSE pc' = "summary" /\ stopped' = Cap
    /\ UNCHANGED <<event, locked, turn, cost, todo, told, result>>

\* All tools of the answer are done: their results go back with the rolling
\* cache point, unless a cap is met.
Results ==
    /\ pc = "tools" /\ todo = 0
    /\ messages' = Append(DropPoint, Message("user", messages[Len(messages)].tools, TRUE))
    /\ IF NextTurn
       THEN pc' = "converse" /\ UNCHANGED stopped
       ELSE pc' = "summary" /\ stopped' = Cap
    /\ UNCHANGED <<event, locked, turn, cost, todo, told, result>>

----------------------------------------------------------------------------
(* After the loop. *)

\* Mutant: no alert when the loop ends at a cap.
SummaryQuiet ==
    /\ pc = "summary"
    /\ pc' = "report"
    /\ UNCHANGED <<event, locked, loop, told, result>>

\* run_summary is on the journal.
Summary ==
    /\ pc = "summary"
    /\ IF stopped # "finished" THEN Alert ELSE UNCHANGED told
    /\ pc' = "report"
    /\ UNCHANGED <<event, locked, loop, result>>

FallbackDue == slot \in ReportSlots /\ ~sent

\* The fallback report, whose delivery nobody checks.
Report ==
    /\ pc = "report"
    /\ fallbacks' = IF FallbackDue THEN fallbacks + 1 ELSE fallbacks
    /\ pc' = "finally" /\ result' = "ok"
    /\ UNCHANGED <<event, locked, loop, reports, alerts>>

\* Any exception after the lock: journal, alert, return.
Caught ==
    /\ pc \in {"flatten", "prompt", "converse", "tools", "summary", "report"}
    /\ Alert
    /\ pc' = "finally" /\ result' = "failed"
    /\ UNCHANGED <<event, locked, loop>>

\* The journal fails too: the exception leaves handler without an alert.
CaughtTwice ==
    /\ pc \in {"flatten", "prompt", "converse", "tools", "summary", "report"}
    /\ pc' = "finally" /\ result' = "crashed"
    /\ UNCHANGED <<event, locked, loop, told>>

\* Mutant: the lock is only released by runs that succeed.
ReleaseOnSuccess ==
    /\ pc = "finally"
    /\ locked' = IF result = "ok" THEN FALSE ELSE locked
    /\ pc' = "end"
    /\ UNCHANGED <<event, loop, told, result>>

Release ==
    /\ pc = "finally"
    /\ locked' = FALSE
    /\ pc' = "end"
    /\ UNCHANGED <<event, loop, told, result>>

\* release_lock raises: the lock stays until it expires.
ReleaseFails ==
    /\ pc = "finally" /\ locked
    /\ End("crashed")
    /\ UNCHANGED <<event, locked, loop, told>>

Kill ==
    /\ pc # "end"
    /\ End("killed")
    /\ UNCHANGED <<event, locked, loop, told>>

Next ==
    \/ BadEvent \/ NotToday \/ Refused \/ StartupFails \/ StartupCrashes \/ Started
    \/ LockTaken \/ LockHeld \/ Flat \/ NotFlat \/ Prompt
    \/ \E uses \in 1..MaxUses, price \in TurnCosts : Converse(uses, price)
    \/ \E price \in TurnCosts : Finish(price)
    \/ UseTool \/ SendReport \/ Results \/ Summary \/ Report
    \/ Caught \/ CaughtTwice \/ Release \/ ReleaseFails \/ Kill

Spec == Init /\ [][Next]_vars

----------------------------------------------------------------------------
(* Properties. *)

Messages == [role : {"user", "assistant"}, tools : 0..MaxUses, point : BOOLEAN]

TypeOK ==
    /\ slot \in Slots /\ dry \in BOOLEAN
    /\ pc \in {"start", "lock", "flatten", "prompt", "converse", "tools",
               "summary", "report", "finally", "end"}
    /\ locked \in BOOLEAN /\ sent \in BOOLEAN
    /\ arrived \in Nat /\ unknown \in Nat
    /\ messages \in Seq(Messages)
    /\ turn \in 0..MaxTurns /\ cost \in Nat /\ todo \in 0..MaxUses
    /\ stopped \in {"no", "finished", "cost_cap", "turn_cap"}
    /\ fallbacks \in Nat /\ alerts \in Nat
    /\ result \in {"none", "ok", "skipped", "failed", "not_flat", "invalid", "not_started",
                  "crashed", "killed"}

Points == {i \in DOMAIN messages : messages[i].point}

\* "A fixed 3-breakpoint budget that never grows" (agent.py): every request
\* carries one rolling cache point beside those of the system prompt and the
\* tools, and it is on the newest message.
RollingPoint == pc = "converse" => Points = {Len(messages)}

\* Bedrock's contract: requests start and end with a user message, roles
\* alternate, and every tool use has its result in the next message.
WellFormedRequest ==
    pc = "converse" =>
       \A i \in DOMAIN messages :
          /\ messages[i].role = IF i % 2 = 1 THEN "user" ELSE "assistant"
          /\ i % 2 = 0 => i < Len(messages) /\ messages[i + 1].tools = messages[i].tools

\* "Hard turn and cost caps" (agent.py): no turn is taken beyond max_turns and
\* none once the cost so far exceeds the cap, so a run goes over it by less
\* than its last turn.
Capped ==
    /\ turn <= MaxTurns
    /\ pc = "converse" => cost <= MaxCost /\ turn < MaxTurns
    /\ stopped = "cost_cap" => cost > MaxCost
    /\ stopped = "turn_cap" => cost <= MaxCost /\ turn = MaxTurns

\* The calls of n turns: one to the model, one for each tool its answer asks
\* for, and the results.
Turns(n) == n * (MaxUses + 2)

\* The steps an invocation has left at most.
StepsLeft ==
    CASE pc = "start"    -> Turns(MaxTurns) + 6
      [] pc = "lock"     -> Turns(MaxTurns) + 5
      [] pc = "prompt"   -> Turns(MaxTurns) + 4
      [] pc = "converse" -> Turns(MaxTurns - turn) + 3
      [] pc = "tools"    -> Turns(MaxTurns - turn) + todo + 4
      [] pc = "summary"  -> 3
      [] pc \in {"report", "flatten"} -> 2
      [] pc = "finally"  -> 1
      [] pc = "end"      -> 0

\* "Hard turn and cost caps" (agent.py), of the whole invocation: every step
\* uses up one of those it has left, so no answer of the model and no failure
\* sends it back, and it ends however the model behaves.
RunsOut == [][0 <= StepsLeft' /\ StepsLeft' < StepsLeft]_vars

Done(outcome) == pc = "end" /\ result = outcome

\* "Send a templated report if the model did not" (handler.py): however often
\* the model reports and whatever becomes of each attempt, a report run that
\* completes its loop leaves out the fallback only if a report is on the phone,
\* and doubles one only if no answer told that it arrived. No other slot
\* reports.
ReportArrives ==
    /\ Done("ok") /\ slot \in ReportSlots =>
          IF fallbacks = 0 THEN arrived > 0 ELSE arrived = unknown
    /\ slot \notin ReportSlots => arrived = 0 /\ fallbacks = 0

Told == alerts > 0

\* "Alerts the phone" (alpaca_trading.tf), as far as the code does: a run tries
\* to tell of working without the lock before it does so, and of a position left
\* open, a loop stopped by a cap and any error it catches after the paper check
\* before it returns. Silent are a bad event ("invalid"), a startup failure
\* whose alert fails as well ("not_started"), an exception that leaves handler
\* ("crashed") and a kill.
FailureAlerts ==
    /\ pc \in {"flatten", "prompt", "converse", "tools", "summary", "report"} /\ ~locked => Told
    /\ result \in {"failed", "not_flat"} => Told
    /\ pc = "end" /\ stopped \in {"cost_cap", "turn_cap"} =>
          Told \/ result \in {"crashed", "killed"}

\* The finally clause: a run that returns does not leave the lock behind.
LockReturned == pc = "end" /\ result \notin {"killed", "crashed"} => ~locked
=============================================================================
