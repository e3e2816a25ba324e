----------------------------- MODULE TradingDay -----------------------------
(***************************************************************************)
(* One trading day of one strategy: agent runs that place, close and adjust *)
(* orders through the guarded tools of tools.py, and the flatten run of      *)
(* handler.py, against the journal in S3 and the broker.                     *)
(*                                                                         *)
(* The run lock is Mutex, which RunLock implements.  Every call to S3 or to  *)
(* the broker is one action; a journal append is two (get_text, put_text).  *)
(* The broker fills, exits and liquidates on its own between any two calls.  *)
(***************************************************************************)
EXTENDS Naturals, Sequences, FiniteSets, SequencesExt

CONSTANTS
    Agents,       \* the agent runs of the day, one slot each
    Flattener,    \* the run of slot 5
    Symbols,
    None,
    MaxPerRun,    \* max_orders_per_run
    MaxPerDay,    \* max_orders_per_day
    MaxPositions, \* max_positions
    MaxCalls,     \* bound: the guarded tool calls the model makes in the day
    Polls,        \* FLATTEN_POLLS
    Overlap,      \* may slot 5 start while an agent run works?
    FillsInRead,  \* may an entry fill between the reads of positions and orders?
    LostAnswers,  \* may a request be done and its answer be an error or unreadable?
    Crashes       \* may a run be killed or fail on an unexpected error?

Processes == Agents \cup {Flattener}

ASSUME ProcessAssumption == Flattener \notin Agents /\ None \notin Processes \cup Symbols
ASSUME SymbolAssumption  == IsFiniteSet(Symbols)
ASSUME LimitAssumption ==
    {MaxPerRun, MaxPerDay, MaxPositions, MaxCalls, Polls} \subseteq Nat
ASSUME EnvironmentAssumption ==
    {Overlap, FillsInRead, LostAnswers, Crashes} \subseteq BOOLEAN

VARIABLES
    order,    \* the broker's order of each client order id <<run, symbol>>
    journal,  \* the lines of the day's journal
    inside,   \* the runs that hold the run lock
    late,     \* last_entry_time has passed
    pc,       \* where each run is
    log,      \* the append a run is doing: [line, base, then]
    view,     \* what an agent has read: [symbol, held, pending, todo]
    placed,   \* orders_run
    calls,    \* tool calls left to the model
    polls,    \* polls left to the flatten run
    verdict   \* how the flatten run ended

local == <<log, view, placed, calls, polls, verdict>>
vars  == <<order, journal, inside, late, pc, local>>

Lock == INSTANCE Mutex WITH Runs <- Processes

Cids     == Agents \X Symbols
Statuses == {"absent", "working", "open", "bare", "closing", "closed"}

\* An open position has its stop; a bare one lost it; a closing one is being
\* liquidated.
Position == {"open", "bare", "closing"}
Exposed  == Position \cup {"working"}

SymbolsIn(statuses) ==
    {s \in Symbols : \E r \in Agents : order[<<r, s>>] \in statuses}

Line(type, act, run, symbol) ==
    [type |-> type, act |-> act, run |-> run, symbol |-> symbol]

\* A "rejected", "error" or "run_summary" line; nothing depends on which.
Remark(run) == Line("remark", "run", run, None)

NoView == [symbol |-> None, held |-> {}, pending |-> {}, todo |-> {}]
NoLog  == [line |-> None, base |-> <<>>, then |-> "idle"]

Init ==
    /\ order = [c \in Cids |-> "absent"]
    /\ journal = <<>>
    /\ Lock!Init
    /\ late = FALSE
    /\ pc = [p \in Processes |-> "idle"]
    /\ log = [p \in Processes |-> NoLog]
    /\ view = [r \in Agents |-> NoView]
    /\ placed = [r \in Agents |-> 0]
    /\ calls = MaxCalls
    /\ polls = Polls
    /\ verdict = "none"

Goto(p, to) == pc' = [pc EXCEPT ![p] = to]

\* What a run has read is used up; the symbol stays until its order is sent.
Keep(r, symbol) == view' = [view EXCEPT ![r] = [NoView EXCEPT !.symbol = symbol]]

----------------------------------------------------------------------------
(* The journal. *)

\* The run goes on at "then" once the line is appended.
Log(p, line, then) ==
    /\ log' = [log EXCEPT ![p] = [line |-> line, base |-> <<>>, then |-> then]]
    /\ Goto(p, "get")

JournalGet(p) ==
    /\ pc[p] = "get"
    /\ log' = [log EXCEPT ![p].base = journal]
    /\ Goto(p, "put")
    /\ UNCHANGED <<order, journal, inside, late, view, placed, calls, polls, verdict>>

JournalPut(p) ==
    /\ pc[p] = "put"
    /\ journal' = Append(log[p].base, log[p].line)
    /\ log' = [log EXCEPT ![p] = NoLog]
    /\ Goto(p, log[p].then)
    /\ UNCHANGED <<order, inside, late, view, placed, calls, polls, verdict>>

\* Mutant: the orders of the day counted by their results.
ResultsToday == Cardinality({i \in DOMAIN journal : journal[i].type = "result"})

\* _orders_today: every intent line counts, whatever its action.
OrdersToday == Cardinality({i \in DOMAIN journal : journal[i].type = "intent"})

----------------------------------------------------------------------------
(* Agent runs. *)

Running(p) == pc[p] \notin {"idle", "done", "dead"}

\* Mutant: agent runs do not take the lock.
AgentStartUnlocked(r) ==
    /\ pc[r] = "idle"
    /\ inside' = inside \cup {r}
    /\ Goto(r, "think")
    /\ UNCHANGED <<order, journal, late, local>>

\* A run that finds the lock held is skipped; it is as if it had not been
\* invoked.
AgentStart(r) ==
    /\ pc[r] = "idle"
    /\ Lock!Enter(r)
    /\ Goto(r, "think")
    /\ UNCHANGED <<order, journal, late, local>>

\* The model asks for one more guarded call.
Call(r) ==
    /\ pc[r] = "think" /\ calls > 0
    /\ calls' = calls - 1

ReadPositions(r, s) ==
    /\ Call(r)
    /\ view' = [view EXCEPT ![r] = [NoView EXCEPT !.symbol = s,
                                           !.held = SymbolsIn(Position)]]
    /\ Goto(r, "orders")
    /\ UNCHANGED <<order, journal, inside, late, log, placed, polls, verdict>>

ReadOrders(r) ==
    /\ pc[r] = "orders"
    /\ view' = [view EXCEPT ![r].pending = SymbolsIn({"working"})]
    /\ Goto(r, "judge")
    /\ UNCHANGED <<order, journal, inside, late, log, placed, calls, polls, verdict>>

\* Mutant: entries that have not filled yet are forgotten.
OccupiedHeld(r) == view[r].held

Occupied(r) == view[r].held \cup view[r].pending

\* Mutant: one order too many in a run.
AllowedOneMore(r) ==
    /\ ~late
    /\ view[r].symbol \notin Occupied(r)
    /\ Cardinality(Occupied(r)) < MaxPositions
    /\ placed[r] <= MaxPerRun
    /\ OrdersToday < MaxPerDay

\* Mutant: no last entry time.
AllowedLate(r) ==
    /\ view[r].symbol \notin Occupied(r)
    /\ Cardinality(Occupied(r)) < MaxPositions
    /\ placed[r] < MaxPerRun
    /\ OrdersToday < MaxPerDay

\* The rules of evaluate_entry about orders and positions.
Allowed(r) ==
    /\ ~late
    /\ view[r].symbol \notin Occupied(r)
    /\ Cardinality(Occupied(r)) < MaxPositions
    /\ placed[r] < MaxPerRun
    /\ OrdersToday < MaxPerDay

\* Mutant: the intent is left to the result.
JudgeUnlogged(r) ==
    /\ pc[r] = "judge"
    /\ Allowed(r)
    /\ Goto(r, "submit")
    /\ Keep(r, view[r].symbol)
    /\ UNCHANGED <<order, journal, inside, late, log, placed, calls, polls, verdict>>

Judge(r) ==
    /\ pc[r] = "judge"
    /\ Allowed(r)
    /\ Log(r, Line("intent", "buy", r, view[r].symbol), "submit")
    /\ Keep(r, view[r].symbol)
    /\ UNCHANGED <<order, journal, inside, late, placed, calls, polls, verdict>>

\* Also for a price, universe or size the guardrails refuse.
Reject(r) ==
    /\ pc[r] = "judge"
    /\ Log(r, Remark(r), "think")
    /\ Keep(r, None)
    /\ UNCHANGED <<order, journal, inside, late, placed, calls, polls, verdict>>

Cid(r) == <<r, view[r].symbol>>

\* Mutant: an accepted order is not counted.
SubmitAcceptedUncounted(r) ==
    /\ pc[r] = "submit" /\ order[Cid(r)] = "absent"
    /\ order' = [order EXCEPT ![Cid(r)] = "working"]
    /\ Log(r, Line("result", "buy", r, view[r].symbol), "think")
    /\ Keep(r, None)
    /\ UNCHANGED <<journal, inside, late, placed, calls, polls, verdict>>

SubmitAccepted(r) ==
    /\ pc[r] = "submit" /\ order[Cid(r)] = "absent"
    /\ order' = [order EXCEPT ![Cid(r)] = "working"]
    /\ placed' = [placed EXCEPT ![r] = @ + 1]
    /\ Log(r, Line("result", "buy", r, view[r].symbol), "think")
    /\ Keep(r, None)
    /\ UNCHANGED <<journal, inside, late, calls, polls, verdict>>

\* The answer to a request that was carried out is lost.  The tool journals an
\* AlpacaError; an answer that is no JSON raises a ValueError past the tool,
\* which toolbox.call takes for bad arguments, and nothing is journalled.
AnswerLost(r) ==
    /\ LostAnswers
    /\ Log(r, Remark(r), "think") \/ (Goto(r, "think") /\ UNCHANGED log)
    /\ Keep(r, None)

\* The order is accepted and not counted.
SubmitLost(r) ==
    /\ pc[r] = "submit" /\ order[Cid(r)] = "absent"
    /\ order' = [order EXCEPT ![Cid(r)] = "working"]
    /\ AnswerLost(r)
    /\ UNCHANGED <<journal, inside, late, placed, calls, polls, verdict>>

\* Also 422 for a client order id that is not unique.
SubmitFailed(r) ==
    /\ pc[r] = "submit"
    /\ Log(r, Remark(r), "think")
    /\ Keep(r, None)
    /\ UNCHANGED <<order, journal, inside, late, placed, calls, polls, verdict>>

\* close_position: the intent, the active orders of the symbol, one cancel
\* for each, and the liquidation.
CloseIntent(r, s) ==
    /\ Call(r)
    /\ Keep(r, s)
    /\ Log(r, Line("intent", "close", r, s), "close")
    /\ UNCHANGED <<order, journal, inside, late, placed, polls, verdict>>

\* Parents, bracket legs and liquidations are orders of their own: what is
\* cancelled is the order that was read.
CloseRead(r) ==
    /\ pc[r] = "close"
    /\ view' = [view EXCEPT ![r].todo =
          {<<c, order[c]>> : c \in {d \in Cids :
              d[2] = view[r].symbol /\ order[d] \in {"working", "open", "closing"}}}]
    /\ Goto(r, "cancel")
    /\ UNCHANGED <<order, journal, inside, late, log, placed, calls, polls, verdict>>

Cancelled(status) ==
    CASE status = "working"            -> "closed"
      [] status \in {"open", "closing"} -> "bare"
      [] OTHER                         -> status

\* A cancel meets the order it was read from; the legs of an entry are read
\* with it and may be cancelled after it filled.
Meets(was, now) == now = was \/ (was = "working" /\ now = "open")

\* A cancel that fails is logged and forgotten.
CloseCancel(r) ==
    /\ pc[r] = "cancel"
    /\ \E todo \in view[r].todo, ok \in BOOLEAN :
          /\ view' = [view EXCEPT ![r].todo = @ \ {todo}]
          /\ order' = IF ok /\ Meets(todo[2], order[todo[1]])
                      THEN [order EXCEPT ![todo[1]] = Cancelled(@)]
                      ELSE order
    /\ UNCHANGED <<journal, inside, late, pc, log, placed, calls, polls, verdict>>

\* The broker refuses while a stop still holds the shares.
Liquidate(r) ==
    LET ofSymbol == {c \in Cids : c[2] = view[r].symbol}
    IN  /\ \E c \in ofSymbol : order[c] = "bare"
        /\ \A c \in ofSymbol : order[c] # "open"
        /\ order' = [c \in Cids |-> IF c \in ofSymbol /\ order[c] = "bare"
                                   THEN "closing" ELSE order[c]]

CloseAccepted(r) ==
    /\ pc[r] = "cancel" /\ view[r].todo = {}
    /\ Liquidate(r)
    /\ Log(r, Line("result", "close", r, view[r].symbol), "think")
    /\ Keep(r, None)
    /\ UNCHANGED <<journal, inside, late, placed, calls, polls, verdict>>

CloseLost(r) ==
    /\ pc[r] = "cancel" /\ view[r].todo = {}
    /\ Liquidate(r)
    /\ AnswerLost(r)
    /\ UNCHANGED <<journal, inside, late, placed, calls, polls, verdict>>

\* Mutant: a failed liquidation is recorded as done.
CloseFailedAsDone(r) ==
    /\ pc[r] = "cancel" /\ view[r].todo = {}
    /\ Log(r, Line("result", "close", r, view[r].symbol), "think")
    /\ Keep(r, None)
    /\ UNCHANGED <<order, journal, inside, late, placed, calls, polls, verdict>>

CloseFailed(r) ==
    /\ pc[r] = "cancel" /\ view[r].todo = {}
    /\ Log(r, Remark(r), "think")
    /\ Keep(r, None)
    /\ UNCHANGED <<order, journal, inside, late, placed, calls, polls, verdict>>

\* move_stop_to and save_evidence: refused, or an intent, a call that moves no
\* order from one status to another, and its outcome.
Adjust(r) ==
    /\ Call(r)
    /\ Keep(r, None)
    /\ \/ Log(r, Remark(r), "think")
       \/ Log(r, Line("intent", "other", r, None), "adjust")
    /\ UNCHANGED <<order, journal, inside, late, placed, polls, verdict>>

Adjusted(r) ==
    /\ pc[r] = "adjust"
    /\ \E line \in {Line("result", "other", r, None), Remark(r)} : Log(r, line, "think")
    /\ UNCHANGED <<order, journal, inside, late, view, placed, calls, polls, verdict>>

\* A read that fails, or any answer that is no JSON to a request that was not
\* carried out: toolbox.call hands the error to the model.
CallFails(r) ==
    /\ pc[r] \in {"orders", "judge", "close", "submit", "cancel", "adjust"}
    /\ Goto(r, "think")
    /\ Keep(r, None)
    /\ UNCHANGED <<order, journal, inside, late, log, placed, calls, polls, verdict>>

\* The model stops or meets a cap: run_summary.
AgentEnd(r) ==
    /\ pc[r] = "think"
    /\ Keep(r, None)
    /\ Log(r, Remark(r), "leave")
    /\ UNCHANGED <<order, journal, inside, late, placed, calls, polls, verdict>>

\* release_lock, by a run that holds it.
Leave(p) ==
    /\ pc[p] = "leave"
    /\ IF p \in inside THEN Lock!Leave(p) ELSE UNCHANGED inside
    /\ Goto(p, "done")
    /\ UNCHANGED <<order, journal, late, local>>

AgentStep(r) ==
    \/ \E s \in Symbols : ReadPositions(r, s) \/ CloseIntent(r, s)
    \/ ReadOrders(r) \/ Judge(r) \/ Reject(r)
    \/ SubmitAccepted(r) \/ SubmitLost(r) \/ SubmitFailed(r)
    \/ CloseRead(r) \/ CloseCancel(r) \/ CloseAccepted(r) \/ CloseLost(r)
    \/ CloseFailed(r)
    \/ Adjust(r) \/ Adjusted(r) \/ CallFails(r) \/ AgentEnd(r)

----------------------------------------------------------------------------
(* The flatten run. *)

\* Slot 5 is scheduled after last_entry_time.  It takes the lock if it can and
\* goes on without it if it cannot.
FlattenStart ==
    /\ pc[Flattener] = "idle" /\ late
    /\ IF inside = {} THEN Lock!Enter(Flattener) ELSE Overlap /\ UNCHANGED inside
    /\ Log(Flattener, Line("intent", "flatten", Flattener, None), "cancel")
    /\ UNCHANGED <<order, journal, late, view, placed, calls, polls, verdict>>

\* The bulk requests answer for each order and position; the run looks at none
\* of the answers.  A cancel that is refused or still pending keeps the order.
CancelAllBut(kept) == [c \in Cids |-> IF c \in kept THEN order[c] ELSE Cancelled(order[c])]

FlattenCancel ==
    /\ pc[Flattener] = "cancel"
    /\ \E kept \in SUBSET {c \in Cids : order[c] \in Exposed} : order' = CancelAllBut(kept)
    /\ Goto(Flattener, "close")
    /\ UNCHANGED <<journal, inside, late, local>>

\* close_all_positions, orders first; what keeps its stop is refused, and the
\* broker may refuse more.
FlattenClose ==
    /\ pc[Flattener] = "close"
    /\ \E kept \in SUBSET {c \in Cids : order[c] \in Exposed} :
       \E refused \in SUBSET {c \in Cids : CancelAllBut(kept)[c] = "bare"} :
          order' = [c \in Cids |->
              IF CancelAllBut(kept)[c] = "bare" /\ c \notin refused THEN "closing"
              ELSE CancelAllBut(kept)[c]]
    /\ Goto(Flattener, "poll")
    /\ UNCHANGED <<journal, inside, late, local>>

\* Mutant: the polls are not counted.
FlattenPollsForever ==
    /\ pc[Flattener] = "poll" /\ polls > 0
    /\ SymbolsIn(Position) # {}
    /\ Goto(Flattener, "close")
    /\ UNCHANGED <<order, journal, inside, late, log, view, placed, calls, polls, verdict>>

FlattenSeesPositions ==
    /\ pc[Flattener] = "poll" /\ polls > 0
    /\ SymbolsIn(Position) # {}
    /\ polls' = polls - 1
    /\ Goto(Flattener, "close")
    /\ UNCHANGED <<order, journal, inside, late, log, view, placed, calls, verdict>>

FlattenEnds(outcome, line) ==
    /\ verdict' = outcome
    /\ Log(Flattener, line, "leave")
    /\ UNCHANGED <<order, journal, inside, late, view, placed, calls, polls>>

FlattenSeesNone ==
    /\ pc[Flattener] = "poll" /\ polls > 0
    /\ SymbolsIn(Position) = {}
    /\ FlattenEnds("flat", Line("result", "flatten", Flattener, None))

FlattenGivesUp ==
    /\ pc[Flattener] = "poll" /\ polls = 0
    /\ FlattenEnds("open", Remark(Flattener))

\* An AlpacaError ends the run through the except clause of _run.
FlattenFails ==
    /\ pc[Flattener] \in {"cancel", "close", "poll"}
    /\ FlattenEnds("failed", Remark(Flattener))

FlattenStep ==
    \/ FlattenCancel \/ FlattenClose \/ FlattenSeesPositions
    \/ FlattenSeesNone \/ FlattenGivesUp \/ FlattenFails

----------------------------------------------------------------------------
(* Failures, the broker and the clock. *)

\* An exception that no tool handles ends the run: journal, release.  In the
\* middle of an append the line is lost, and so may be the one about the error.
Abort(p) ==
    /\ Crashes
    /\ Running(p) /\ pc[p] # "leave"
    /\ \/ Log(p, Remark(p), "leave")
       \/ /\ pc[p] \in {"get", "put"}
          /\ log' = [log EXCEPT ![p] = NoLog]
          /\ Goto(p, "leave")
    /\ UNCHANGED <<order, journal, inside, late, view, placed, calls, polls, verdict>>

\* A killed run's lock expires before another run takes it.
Kill(p) ==
    /\ Crashes
    /\ Running(p)
    /\ IF p \in inside THEN Lock!Leave(p) ELSE UNCHANGED inside
    /\ Goto(p, "dead")
    /\ UNCHANGED <<order, journal, late, local>>

BrokerMoves(c, from, to) ==
    /\ order[c] = from
    /\ order' = [order EXCEPT ![c] = to]
    /\ UNCHANGED <<journal, inside, late, pc, local>>

Fill(c) ==
    /\ FillsInRead \/ \A r \in Agents : pc[r] # "orders"
    /\ BrokerMoves(c, "working", "open")

EntryDies(c)  == BrokerMoves(c, "working", "closed")
Exit(c)       == BrokerMoves(c, "open", "closed")
Liquidated(c) == BrokerMoves(c, "closing", "closed")

LastEntryTime ==
    /\ ~late /\ late' = TRUE
    /\ UNCHANGED <<order, journal, inside, pc, local>>

Next ==
    \/ \E r \in Agents : AgentStart(r) \/ AgentStep(r)
    \/ FlattenStart \/ FlattenStep
    \/ \E p \in Processes :
          JournalGet(p) \/ JournalPut(p) \/ Leave(p) \/ Abort(p) \/ Kill(p)
    \/ \E c \in Cids : Fill(c) \/ EntryDies(c) \/ Exit(c) \/ Liquidated(c)
    \/ LastEntryTime

Spec == Init /\ [][Next]_vars

\* A flatten run that is not killed goes on.
FairSpec ==
    Spec /\ WF_vars(FlattenStep \/ JournalGet(Flattener) \/ JournalPut(Flattener))

----------------------------------------------------------------------------
(* Properties. *)

Lines(type, act) == {line \in ToSet(journal) : line.type = type /\ line.act = act}

TypeOK ==
    /\ order \in [Cids -> Statuses]
    /\ \A line \in ToSet(journal) :
          line.type \in {"intent", "result", "remark"}
    /\ inside \subseteq Processes
    /\ late \in BOOLEAN
    /\ DOMAIN pc = Processes
    /\ \A r \in Agents : view[r].held \cup view[r].pending \subseteq Symbols
    /\ placed \in [Agents -> Nat] /\ calls \in 0..MaxCalls
    /\ polls \in 0..Polls
    /\ verdict \in {"none", "flat", "open", "failed"}

\* "Append one line to a JSONL object" (append_jsonl): no line that was
\* written is ever lost.
JournalKept == [][IsPrefix(journal, journal')]_journal

\* "A write-ahead journal" (ADR-035): whatever the runner changed at the
\* broker is announced in the journal, at every moment and after any crash.
WriteAhead ==
    /\ \A c \in Cids : order[c] # "absent" =>
          \E line \in Lines("intent", "buy") : <<line.run, line.symbol>> = c
    /\ \A c \in Cids : order[c] \in {"bare", "closing"} =>
          \/ Lines("intent", "flatten") # {}
          \/ \E line \in Lines("intent", "close") : line.symbol = c[2]

Entries(r) == {s \in Symbols : order[<<r, s>>] # "absent"}

\* "It cannot exceed a limit" (ADR-035): max_orders_per_run.
RunLimit == \A r \in Agents : Cardinality(Entries(r)) <= MaxPerRun

\* "It cannot exceed a limit" (ADR-035): max_orders_per_day, over all runs.
DayLimit == Cardinality({c \in Cids : order[c] # "absent"}) <= MaxPerDay

\* "It cannot exceed a limit" (ADR-035): max_positions, counting the entries
\* that may still fill.
PositionLimit == Cardinality(SymbolsIn(Exposed)) <= MaxPositions

\* "Already holding or working an order in this symbol" (evaluate_entry): two
\* runs never build two entries in one symbol.
OneEntryPerSymbol ==
    \A c, d \in Cids :
       c[2] = d[2] /\ {order[c], order[d]} \subseteq Exposed => c = d

\* "It cannot exceed a limit" (ADR-035), when an entry fills between the two
\* reads of a run and is in neither: the entries at work stay within
\* max_positions all the same, whatever fails besides.
WorkingBounded == Cardinality(SymbolsIn({"working"})) <= MaxPositions

\* And that is the worst it costs: all that is exposed is within twice
\* max_positions, and no symbol is entered a third time while two entries of it
\* are at the broker.
FillsBounded ==
    /\ WorkingBounded
    /\ Cardinality(SymbolsIn(Exposed)) <= 2 * MaxPositions
    /\ \A c, d, e \in Cids :
          c[2] = d[2] /\ d[2] = e[2] /\ {order[c], order[d], order[e]} \subseteq Exposed
             => c = d \/ d = e \/ c = e

Rules == INSTANCE EntryRules WITH
            Ids <- Cids,
            entered <- {c \in Cids : order[c] # "absent"},
            exposed <- {c \in Cids : order[c] \in Exposed}

\* "It cannot exceed a limit" (ADR-035), all rules at once: judged on reads of
\* several calls, announced in two more and sent in another, each entry is as
\* good as judged and sent in one step.
RefinesRules == Rules!Spec

\* "Cancel all orders, close all positions, verify flat" (_flatten): when the
\* run reports flat no position is there, and from then on nothing is exposed
\* but the entries that were still at work at that moment, whose cancel was
\* refused or pending; no run adds one.
FlatMeansFlat ==
    [][verdict' = "flat" =>
          \A c \in Cids : order'[c] \in Exposed =>
             order[c] \in (IF verdict = "flat" THEN Exposed ELSE {"working"})]_vars

\* Whether or not the broker liquidates, slot 5 comes to a verdict.
FlattenDecides == pc[Flattener] = "cancel" ~> verdict # "none"

\* An attempt the journal shows begun and, after that, never done.
Unfinished(act, symbol) ==
    \E i \in DOMAIN journal :
       /\ journal[i].type = "intent" /\ journal[i].act = act /\ journal[i].symbol = symbol
       /\ \A j \in i..Len(journal) :
             ~(journal[j].type = "result" /\ journal[j].act = act /\ journal[j].symbol = symbol)

\* A position that close_position or the flatten run stripped of its stop and
\* did not liquidate is never passed off as done: at every moment, whatever
\* failed, was unreadable or died, the journal shows an attempt to close it
\* with no result after it.
UnprotectedIsReported ==
    \A c \in Cids :
       order[c] = "bare" => Unfinished("flatten", None) \/ Unfinished("close", c[2])

Unresolved(r) ==
    {s \in Symbols : /\ Line("intent", "buy", r, s) \in ToSet(journal)
                     /\ Line("result", "buy", r, s) \notin ToSet(journal)}

\* Entries whose answer was lost or unreadable are not counted in orders_run.
\* They are all a run can place beyond max_orders_per_run, and each can be told
\* from the journal: announced, and no result.
ExcessIsUnresolved ==
    \A r \in Agents :
       Cardinality(Entries(r)) <= MaxPerRun + Cardinality(Unresolved(r))
=============================================================================
