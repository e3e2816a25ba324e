-------------------------- MODULE TradingDay_proofs --------------------------
(***************************************************************************)
(* Proofs about TradingDay, for any number of runs, symbols and calls and    *)
(* any limits.  Each theorem names what it assumes of the environment: that   *)
(* slot 5 does not start beside an agent run (~Overlap), that no entry fills  *)
(* between two reads (~FillsInRead), that no answer is lost or unreadable     *)
(* once the request is carried out (~LostAnswers).                            *)
(***************************************************************************)
EXTENDS TradingDay, FiniteSetTheorems, TLAPS

\* Places of a process between two appends, and all of them.
Later  == {"idle", "think", "orders", "judge", "submit", "close", "cancel",
           "adjust", "poll", "leave", "done", "dead"}
Places == Later \cup {"get", "put"}

JLines ==
    [type : {"intent", "result", "remark"},
     act : {"buy", "close", "other", "run", "flatten"},
     run : Processes, symbol : Symbols \cup {None}]

Views ==
    [symbol : Symbols \cup {None}, held : SUBSET Symbols, pending : SUBSET Symbols,
     todo : SUBSET (Cids \X Statuses)]

Appending(p) == pc[p] \in {"get", "put"}

\* Types, with what is between an append and its journal.
Shape ==
    /\ order \in [Cids -> Statuses]
    /\ journal \in Seq(JLines)
    /\ inside \subseteq Processes
    /\ late \in BOOLEAN
    /\ pc \in [Processes -> Places]
    /\ log \in [Processes -> [line : JLines \cup {None}, base : Seq(JLines), then : Later]]
    /\ \A p \in Processes : Appending(p) => log[p].line \in JLines
    /\ view \in [Agents -> Views]
    /\ placed \in [Agents -> Nat]
    /\ calls \in 0..MaxCalls /\ polls \in 0..Polls
    /\ verdict \in {"none", "flat", "open", "failed"}

USE DEF Later, Places, Goto, Appending, Running, Statuses, Position, Exposed, Line, Remark,
        NoLog, NoView

\* At first all is typed.
LEMMA InitShape == Init => Shape
<1> SUFFICES ASSUME Init PROVE Shape
  OBVIOUS
<1>1. <<>> \in Seq(JLines) /\ journal = <<>>
  BY DEF Init
<1>2. log \in [Processes -> [line : JLines \cup {None}, base : Seq(JLines), then : Later]]
  BY <1>1 DEF Init
<1>3. view \in [Agents -> Views]
  BY DEF Init, Views
<1>4. calls \in 0..MaxCalls /\ polls \in 0..Polls /\ inside = {}
  BY LimitAssumption DEF Init, Lock!Init
<1> QED
  BY <1>1, <1>2, <1>3, <1>4 DEF Init, Shape

\* The effect of an append's announcement on the types.
LEMMA LogShape ==
  ASSUME Shape, NEW p \in Processes, NEW line \in JLines, NEW then \in Later, Log(p, line, then)
  PROVE  /\ pc' \in [Processes -> Places]
         /\ log' \in [Processes -> [line : JLines \cup {None}, base : Seq(JLines), then : Later]]
         /\ \A q \in Processes : Appending(q)' => log'[q].line \in JLines
<1>1. /\ pc' = [pc EXCEPT ![p] = "get"]
      /\ log' = [log EXCEPT ![p] = [line |-> line, base |-> <<>>, then |-> then]]
  BY DEF Log
<1>2. [line |-> line, base |-> <<>>, then |-> then]
         \in [line : JLines \cup {None}, base : Seq(JLines), then : Later]
  OBVIOUS
<1> QED
  BY <1>1, <1>2 DEF Shape

\* A move that appends nothing.
LEMMA GotoShape ==
  ASSUME Shape, NEW p \in Processes, NEW to \in Later, Goto(p, to), UNCHANGED log
  PROVE  /\ pc' \in [Processes -> Places]
         /\ \A q \in Processes : Appending(q)' => log'[q].line \in JLines
  BY DEF Shape

\* What an agent reads replaces what it had read.
LEMMA ViewShape ==
  ASSUME NEW v \in Views, NEW pending \in SUBSET Symbols,
         NEW todo \in SUBSET (Cids \X Statuses)
  PROVE  [v EXCEPT !.pending = pending] \in Views /\ [v EXCEPT !.todo = todo] \in Views
<1>. DEFINE Todo == SUBSET (Cids \X Statuses)
<1>1. Views = [symbol : Symbols \cup {None}, held : SUBSET Symbols, pending : SUBSET Symbols,
               todo : Todo]
  BY DEF Views
<1>2. todo \in Todo
  OBVIOUS
<1>. HIDE DEF Todo
<1> QED
  BY <1>1, <1>2

\* What a run has read is used up.
LEMMA KeepShape ==
  ASSUME Shape, NEW r \in Agents, NEW s \in Symbols \cup {None}, Keep(r, s)
  PROVE  view' \in [Agents -> Views]
  BY DEF Shape, Keep, Views

\* A process appends to the journal.
LEMMA JournalShape ==
  ASSUME Shape, NEW p \in Processes, JournalGet(p) \/ JournalPut(p) PROVE Shape'
<1>1. CASE JournalGet(p)
  <2>1. log' \in [Processes -> [line : JLines \cup {None}, base : Seq(JLines), then : Later]]
    <3> DEFINE Logs == [line : JLines \cup {None}, base : Seq(JLines), then : Later]
               got  == [log[p] EXCEPT !.base = journal]
    <3>1. log \in [Processes -> Logs] /\ journal \in Seq(JLines)
      BY DEF Shape
    <3>2. got \in Logs
      BY <3>1
    <3>3. log' = [log EXCEPT ![p] = got]
      BY <1>1 DEF JournalGet
    <3> HIDE DEF Logs, got
    <3>4. log' \in [Processes -> Logs]
      BY <3>1, <3>2, <3>3
    <3> QED
      BY <3>4 DEF Logs
  <2>2. \A q \in Processes : log'[q].line = log[q].line /\ (Appending(q)' => Appending(q))
    BY <1>1 DEF JournalGet, Shape
  <2>3. pc' \in [Processes -> Places]
    BY <1>1 DEF JournalGet, Shape
  <2> QED
    BY <1>1, <2>1, <2>2, <2>3 DEF JournalGet, Shape
<1>2. CASE JournalPut(p)
  <2>1. journal' \in Seq(JLines)
    BY <1>2 DEF JournalPut, Shape
  <2>2. log' \in [Processes -> [line : JLines \cup {None}, base : Seq(JLines), then : Later]]
    <3>1. NoLog \in [line : JLines \cup {None}, base : Seq(JLines), then : Later]
      OBVIOUS
    <3> QED
      BY <1>2, <3>1 DEF JournalPut, Shape
  <2>3. pc' \in [Processes -> Places] /\ ~Appending(p)'
    BY <1>2 DEF JournalPut, Shape
  <2>4. \A q \in Processes : q # p => log'[q] = log[q] /\ pc'[q] = pc[q]
    BY <1>2 DEF JournalPut, Shape
  <2> QED
    BY <1>2, <2>1, <2>2, <2>3, <2>4 DEF JournalPut, Shape
<1> QED
  BY <1>1, <1>2

\* A process takes the lock, gives it back or loses it.
LEMMA LockShape ==
  ASSUME Shape, NEW p \in Processes, (p \in Agents /\ AgentStart(p)) \/ Leave(p) \/ Kill(p)
  PROVE  Shape'
<1>1. inside' \subseteq Processes
  BY DEF AgentStart, Leave, Kill, Lock!Enter, Lock!Leave, Shape
<1>2. UNCHANGED <<order, journal, late, log, view, placed, calls, polls, verdict>>
  BY DEF AgentStart, Leave, Kill, local
<1>3. PICK to \in {"think", "done", "dead"} : Goto(p, to)
  BY DEF AgentStart, Leave, Kill
<1> QED
  BY <1>1, <1>2, <1>3, GotoShape DEF Shape

\* A tool call counts once.
LEMMA CallCounts ==
  ASSUME Shape, NEW r \in Agents, Call(r) PROVE calls' \in 0..MaxCalls
  BY LimitAssumption DEF Call, Shape

\* A read of an agent run, or a call that fails.
LEMMA ReadShape ==
  ASSUME Shape, NEW r \in Agents,
         \/ \E s \in Symbols : ReadPositions(r, s)
         \/ ReadOrders(r) \/ CloseRead(r) \/ CallFails(r)
  PROVE  Shape'
<1> USE LimitAssumption DEF Processes
<1>1. UNCHANGED <<order, journal, inside, late, log, placed, polls, verdict>>
  BY DEF ReadPositions, ReadOrders, CloseRead, CallFails
<1>2. calls' \in 0..MaxCalls
  <2>1. Call(r) \/ UNCHANGED calls
    BY DEF ReadPositions, ReadOrders, CloseRead, CallFails
  <2> QED
    BY <2>1, CallCounts DEF Shape
<1>3. PICK to \in {"orders", "judge", "cancel", "think"} : Goto(r, to)
  BY DEF ReadPositions, ReadOrders, CloseRead, CallFails
<1>4. view' \in [Agents -> Views]
  <2>1. ASSUME NEW s \in Symbols, ReadPositions(r, s) PROVE view' \in [Agents -> Views]
    <3>1. [NoView EXCEPT !.symbol = s, !.held = SymbolsIn(Position)] \in Views
      BY DEF Views, SymbolsIn
    <3> QED
      BY <2>1, <3>1 DEF ReadPositions, Shape
  <2>2. CASE ReadOrders(r)
    <3>1. [view[r] EXCEPT !.pending = SymbolsIn({"working"})] \in Views
      <4>1. SymbolsIn({"working"}) \in SUBSET Symbols /\ view[r] \in Views /\ {} \in SUBSET (Cids \X Statuses)
        BY DEF SymbolsIn, Shape
      <4> QED
        BY <4>1, ViewShape
    <3>2. view' = [view EXCEPT ![r] = [view[r] EXCEPT !.pending = SymbolsIn({"working"})]]
      BY <2>2 DEF ReadOrders
    <3> QED
      BY <3>1, <3>2 DEF Shape
  <2>3. CASE CloseRead(r)
    <3>1. {<<c, order[c]>> : c \in {d \in Cids : d[2] = view[r].symbol
             /\ order[d] \in {"working", "open", "closing"}}} \in SUBSET (Cids \X Statuses)
      BY DEF Shape
    <3>2. PICK todo \in SUBSET (Cids \X Statuses) : view' = [view EXCEPT ![r].todo = todo]
      BY <2>3, <3>1 DEF CloseRead
    <3>3. [view[r] EXCEPT !.todo = todo] \in Views
      BY ViewShape DEF Shape
    <3> QED
      BY <3>2, <3>3 DEF Shape
  <2>4. CASE CallFails(r)
    BY <2>4, KeepShape DEF CallFails
  <2> QED
    BY <2>1, <2>2, <2>3, <2>4
<1> QED
  BY <1>1, <1>2, <1>3, <1>4, GotoShape DEF Shape

\* A step of an agent run that announces a line.
LEMMA AnnounceShape ==
  ASSUME Shape, NEW r \in Agents,
         \/ Judge(r) \/ Reject(r) \/ SubmitAccepted(r) \/ SubmitLost(r) \/ SubmitFailed(r)
         \/ \E s \in Symbols : CloseIntent(r, s)
         \/ CloseAccepted(r) \/ CloseLost(r) \/ CloseFailed(r) \/ Adjust(r) \/ Adjusted(r) \/ AgentEnd(r)
  PROVE  Shape'
<1> USE LimitAssumption DEF Processes
<1>1. UNCHANGED <<journal, inside, late, polls, verdict>>
  BY DEF Judge, Reject, SubmitAccepted, SubmitLost, AnswerLost, SubmitFailed,
         CloseIntent, CloseAccepted, CloseLost, CloseFailed, Adjust, Adjusted, AgentEnd
<1>2. Call(r) \/ UNCHANGED calls
  BY DEF Judge, Reject, SubmitAccepted, SubmitLost, AnswerLost, SubmitFailed,
         CloseIntent, CloseAccepted, CloseLost, CloseFailed, Adjust, Adjusted, AgentEnd
<1>7. calls' \in 0..MaxCalls
  BY <1>2, CallCounts DEF Shape
<1>8. placed' \in [Agents -> Nat]
  <2>1. placed' = [placed EXCEPT ![r] = @ + 1] \/ UNCHANGED placed
    BY DEF Judge, Reject, SubmitAccepted, SubmitLost, AnswerLost, SubmitFailed,
           CloseIntent, CloseAccepted, CloseLost, CloseFailed, Adjust, Adjusted, AgentEnd
  <2>2. placed \in [Agents -> Nat]
    BY DEF Shape
  <2>3. placed[r] + 1 \in Nat
    BY <2>2
  <2> QED
    BY <2>1, <2>2, <2>3, Zenon
<1>3. \/ \E type \in {"intent", "result", "remark"}, act \in {"buy", "close", "other", "run"},
            symbol \in Symbols \cup {None}, then \in Later :
               Log(r, Line(type, act, r, symbol), then)
      \/ Goto(r, "think") /\ UNCHANGED log
  <2>1. view[r].symbol \in Symbols \cup {None}
    BY DEF Shape, Views
  <2> QED
    BY <2>1
    DEF Judge, Reject, SubmitAccepted, SubmitLost, AnswerLost, SubmitFailed,
        CloseIntent, CloseAccepted, CloseLost, CloseFailed, Adjust, Adjusted, AgentEnd
<1>4. \/ \E line \in JLines, then \in Later : Log(r, line, then)
      \/ Goto(r, "think") /\ UNCHANGED log
  BY <1>3 DEF JLines
<1>5. view' \in [Agents -> Views]
  <2>1. \/ \E s \in Symbols \cup {None} : Keep(r, s)
        \/ UNCHANGED view
    BY DEF Judge, Reject, SubmitAccepted, SubmitLost, AnswerLost, SubmitFailed, Shape, Views,
           CloseIntent, CloseAccepted, CloseLost, CloseFailed, Adjust, Adjusted, AgentEnd
  <2> QED
    BY <2>1, KeepShape DEF Shape
<1>6. order' \in [Cids -> Statuses]
  <2>1. CASE Liquidate(r)
    BY <2>1 DEF Liquidate, Shape
  <2>2. CASE UNCHANGED order
    BY <2>2 DEF Shape
  <2>3. CASE SubmitAccepted(r) \/ SubmitLost(r)
    BY <2>3 DEF SubmitAccepted, SubmitLost, Shape
  <2> QED
    BY <2>1, <2>2, <2>3 DEF Judge, Reject, SubmitFailed, CloseIntent, CloseAccepted, CloseLost,
       CloseFailed, Adjust, Adjusted, AgentEnd
<1>10. /\ pc' \in [Processes -> Places]
       /\ log' \in [Processes -> [line : JLines \cup {None}, base : Seq(JLines), then : Later]]
       /\ \A q \in Processes : Appending(q)' => log'[q].line \in JLines
  <2>1. r \in Processes
    OBVIOUS
  <2>2. CASE \E line \in JLines, then \in Later : Log(r, line, then)
    BY <2>1, <2>2, LogShape
  <2>3. CASE Goto(r, "think") /\ UNCHANGED log
    <3>1. log' = log
      BY <2>3
    <3> QED
      BY <2>1, <2>3, <3>1, GotoShape DEF Shape
  <2> QED
    BY <1>4, <2>2, <2>3
<1> QED
  BY <1>1, <1>5, <1>6, <1>7, <1>8, <1>10 DEF Shape

\* A cancel of close_position.
LEMMA CancelShape == ASSUME Shape, NEW r \in Agents, CloseCancel(r) PROVE Shape'
<1>1. PICK todo \in view[r].todo, ok \in BOOLEAN :
         /\ view' = [view EXCEPT ![r].todo = @ \ {todo}]
         /\ order' = IF ok /\ Meets(todo[2], order[todo[1]])
                     THEN [order EXCEPT ![todo[1]] = Cancelled(@)] ELSE order
  BY DEF CloseCancel
<1>2. view' \in [Agents -> Views]
  <2>1. [view[r] EXCEPT !.todo = @ \ {todo}] \in Views
    <3>1. view[r] \in Views /\ view[r].todo \in SUBSET (Cids \X Statuses)
      BY DEF Shape, Views
    <3>2. view[r].todo \ {todo} \in SUBSET (Cids \X Statuses)
      BY <3>1
    <3> QED
      BY <3>1, <3>2, ViewShape
  <2>2. view' = [view EXCEPT ![r] = [view[r] EXCEPT !.todo = @ \ {todo}]]
    BY <1>1
  <2> QED
    BY <2>1, <2>2 DEF Shape
<1>3. todo[1] \in Cids /\ order[todo[1]] \in Statuses
  BY DEF Shape, Views
<1>4. Cancelled(order[todo[1]]) \in Statuses
  BY <1>3 DEF Cancelled
<1>5. order' \in [Cids -> Statuses]
  BY <1>1, <1>3, <1>4 DEF Shape
<1> QED
  BY <1>2, <1>5 DEF Shape, CloseCancel

\* The flatten run.
LEMMA FlattenShape == ASSUME Shape, FlattenStart \/ FlattenStep PROVE Shape'
<1> USE LimitAssumption
<1>0. Flattener \in Processes
  BY DEF Processes
<1>1. inside' \subseteq Processes /\ UNCHANGED <<journal, late, view, placed, calls>>
  BY <1>0 DEF FlattenStart, FlattenStep, FlattenCancel, FlattenClose, FlattenSeesPositions,
         FlattenSeesNone, FlattenGivesUp, FlattenFails, FlattenEnds, Lock!Enter, Shape, local
<1>2. polls' \in 0..Polls /\ verdict' \in {"none", "flat", "open", "failed"}
  BY DEF FlattenStart, FlattenStep, FlattenCancel, FlattenClose, FlattenSeesPositions,
         FlattenSeesNone, FlattenGivesUp, FlattenFails, FlattenEnds, Shape, local
<1>3. order' \in [Cids -> Statuses]
  <2>1. \A c \in Cids : Cancelled(order[c]) \in Statuses
    BY DEF Cancelled, Shape
  <2>2. ASSUME NEW kept PROVE CancelAllBut(kept) \in [Cids -> Statuses]
    BY <2>1 DEF CancelAllBut, Shape
  <2>3. CASE FlattenCancel
    BY <2>2, <2>3 DEF FlattenCancel
  <2>4. CASE FlattenClose
    BY <2>2, <2>4 DEF FlattenClose
  <2>5. CASE UNCHANGED order
    BY <2>5 DEF Shape
  <2> QED
    BY <2>3, <2>4, <2>5 DEF FlattenStart, FlattenStep, FlattenSeesPositions,
         FlattenSeesNone, FlattenGivesUp, FlattenFails, FlattenEnds
<1>4. \/ \E line \in JLines, then \in Later : Log(Flattener, line, then)
      \/ \E to \in Later : Goto(Flattener, to) /\ UNCHANGED log
  BY <1>0 DEF FlattenStart, FlattenStep, FlattenCancel, FlattenClose, FlattenSeesPositions,
         FlattenSeesNone, FlattenGivesUp, FlattenFails, FlattenEnds, JLines, local
<1>5. CASE \E line \in JLines, then \in Later : Log(Flattener, line, then)
  BY <1>0, <1>1, <1>2, <1>3, <1>5, LogShape DEF Shape
<1>6. CASE \E to \in Later : Goto(Flattener, to) /\ UNCHANGED log
  BY <1>0, <1>1, <1>2, <1>3, <1>6, GotoShape DEF Shape
<1> QED
  BY <1>4, <1>5, <1>6

\* An exception, the broker and the clock.
LEMMA WorldShape ==
  ASSUME Shape,
         \/ \E p \in Processes : Abort(p)
         \/ \E c \in Cids : Fill(c) \/ EntryDies(c) \/ Exit(c) \/ Liquidated(c)
         \/ LastEntryTime
  PROVE  Shape'
<1>1. ASSUME NEW p \in Processes, Abort(p) PROVE Shape'
  <2>1. Remark(p) \in JLines
    BY DEF JLines
  <2>2. CASE Log(p, Remark(p), "leave")
    BY <1>1, <2>1, <2>2, LogShape DEF Abort, Shape
  <2>3. CASE log' = [log EXCEPT ![p] = NoLog] /\ Goto(p, "leave")
    <3>1. NoLog \in [line : JLines \cup {None}, base : Seq(JLines), then : Later]
      OBVIOUS
    <3>2. log' \in [Processes -> [line : JLines \cup {None}, base : Seq(JLines), then : Later]]
      BY <2>3, <3>1 DEF Shape
    <3>3. pc' \in [Processes -> Places] /\ ~Appending(p)'
      BY <2>3 DEF Shape
    <3>4. \A q \in Processes : q # p => log'[q] = log[q] /\ pc'[q] = pc[q]
      BY <2>3 DEF Shape
    <3> QED
      BY <1>1, <3>2, <3>3, <3>4 DEF Abort, Shape
  <2> QED
    BY <1>1, <2>2, <2>3 DEF Abort
<1>2. ASSUME NEW c \in Cids, Fill(c) \/ EntryDies(c) \/ Exit(c) \/ Liquidated(c) PROVE Shape'
  BY <1>2 DEF Fill, EntryDies, Exit, Liquidated, BrokerMoves, Shape, local
<1>3. CASE LastEntryTime
  BY <1>3 DEF LastEntryTime, Shape, local
<1> QED
  BY <1>1, <1>2, <1>3

\* A step keeps the types.
LEMMA ShapeStep == Shape /\ [Next]_vars => Shape'
<1>1. ASSUME Shape, UNCHANGED vars PROVE Shape'
  BY <1>1 DEF Shape, vars, local
<1>2. ASSUME Shape, NEW r \in Agents, AgentStep(r) PROVE Shape'
  BY <1>2, ReadShape, AnnounceShape, CancelShape DEF AgentStep
<1> QED
  BY <1>1, <1>2, JournalShape, LockShape, FlattenShape, WorldShape DEF Next, Processes

\* The variables keep their types.
THEOREM Types == Spec => []TypeOK
<1>1. Shape => TypeOK
  <2>1. ASSUME Shape PROVE ToSet(journal) \subseteq JLines
    BY <2>1 DEF Shape, ToSet
  <2> QED
    BY <2>1 DEF Shape, TypeOK, JLines, Views
<1> QED
  BY <1>1, InitShape, ShapeStep, PTL DEF Spec

----------------------------------------------------------------------------
(* What a process is about to do. *)

\* A run that will submit, now or after its append.
Submitting(r) == pc[r] = "submit" \/ (Appending(r) /\ log[r].then = "submit")

\* An agent run knows the symbol it works on, and appends the intent before it
\* submits or closes.
AgentPlan(r) ==
    /\ pc[r] # "poll"
    /\ pc[r] \in {"orders", "judge"} \/ Submitting(r) => view[r].symbol \in Symbols
    /\ pc[r] = "cancel" => \A todo \in view[r].todo : todo[1][2] = view[r].symbol
    /\ Appending(r) =>
          /\ log[r].then \in {"think", "submit", "close", "adjust", "leave"}
          /\ log[r].then = "submit" => log[r].line = Line("intent", "buy", r, view[r].symbol)
          /\ log[r].then = "close"  => log[r].line = Line("intent", "close", r, view[r].symbol)

\* The flatten run appends its intent before it cancels anything, and ends with
\* its verdict.
FlattenPlan ==
    /\ pc[Flattener] \in {"idle", "get", "put", "cancel", "close", "poll", "leave",
                          "done", "dead"}
    /\ Appending(Flattener) =>
          /\ log[Flattener].then \in {"cancel", "leave"}
          /\ log[Flattener].then = "cancel"
                => log[Flattener].line = Line("intent", "flatten", Flattener, None)

Plans == FlattenPlan /\ \A r \in Agents : AgentPlan(r)

\* A process that does nothing keeps its plan.
Idles(p) == UNCHANGED <<pc[p], log[p]>> /\ (p \in Agents => UNCHANGED view[p])

\* An agent run that idles keeps its plan.
LEMMA IdlesAgent == ASSUME NEW r \in Agents, Idles(r), AgentPlan(r) PROVE AgentPlan(r)'
  BY DEF Idles, AgentPlan, Submitting

\* A flatten run that idles keeps its plan.
LEMMA IdlesFlattener == ASSUME Idles(Flattener), FlattenPlan PROVE FlattenPlan'
  BY DEF Idles, FlattenPlan

\* A step of an agent run that appends nothing.
Reads(r) ==
    \/ \E s \in Symbols : ReadPositions(r, s)
    \/ ReadOrders(r) \/ CloseRead(r) \/ CloseCancel(r) \/ CallFails(r)

Submits(r) ==
    \/ SubmitAccepted(r) \/ SubmitLost(r) \/ SubmitFailed(r)

Announces(r) ==
    \/ Judge(r) \/ Reject(r) \/ Submits(r) \/ \E s \in Symbols : CloseIntent(r, s)
    \/ CloseAccepted(r) \/ CloseLost(r) \/ CloseFailed(r) \/ Adjust(r) \/ Adjusted(r) \/ AgentEnd(r)

\* A step of an agent run reads or announces.
LEMMA AgentSteps == \A r \in Agents : AgentStep(r) => Reads(r) \/ Announces(r)
  BY DEF AgentStep, Reads, Announces, Submits

\* Only one agent run moves in a step of one.
LEMMA OthersIdle ==
  ASSUME Shape, NEW r \in Agents, Reads(r) \/ Announces(r), NEW p \in Processes, p # r
  PROVE  Idles(p)
  <1>1. CASE Reads(r)
    BY <1>1 DEF Reads, ReadPositions, ReadOrders, CloseRead, CloseCancel, CallFails, Keep, Idles, Shape
  <1>2. CASE Announces(r)
    <2>1. pc'[p] = pc[p] /\ log'[p] = log[p]
      BY <1>2 DEF Announces, Submits, Judge, Reject, SubmitAccepted, SubmitLost, AnswerLost,
         SubmitFailed, CloseIntent, CloseAccepted, CloseLost, CloseFailed, Adjust, Adjusted, AgentEnd, Log, Shape
    <2>2. p \in Agents => view'[p] = view[p]
      BY <1>2 DEF Announces, Submits, Judge, Reject, SubmitAccepted, SubmitLost, AnswerLost,
         SubmitFailed, CloseIntent, CloseAccepted, CloseLost, CloseFailed, Adjust, Adjusted, AgentEnd, Keep, Shape
    <2> QED
      BY <2>1, <2>2 DEF Idles
  <1> QED
    BY <1>1, <1>2

\* An agent run that reads keeps to its plan.
LEMMA ReadsPlan == ASSUME Shape, Plans, NEW r \in Agents, Reads(r) PROVE AgentPlan(r)'
<1> USE DEF Shape, Plans, AgentPlan, Submitting, Processes
<1>1. ASSUME NEW s \in Symbols, ReadPositions(r, s) PROVE AgentPlan(r)'
  <2>1. pc'[r] = "orders" /\ view'[r].symbol = s
    BY <1>1 DEF ReadPositions
  <2> QED
    BY <2>1
<1>2. CASE ReadOrders(r)
  <2>1. pc[r] = "orders" /\ pc'[r] = "judge" /\ view'[r].symbol = view[r].symbol
    BY <1>2 DEF ReadOrders, Views
  <2> QED
    BY <2>1
<1>3. CASE CloseRead(r)
  <2>1. pc'[r] = "cancel"
    BY <1>3 DEF CloseRead
  <2>2. view'[r].symbol = view[r].symbol
    BY <1>3 DEF CloseRead, Views
  <2>3. \A todo \in view'[r].todo : todo[1][2] = view[r].symbol
    BY <1>3 DEF CloseRead, Views
  <2> QED
    BY <2>1, <2>2, <2>3
<1>4. CASE CloseCancel(r)
  <2>1. pc[r] = "cancel" /\ pc'[r] = "cancel"
    BY <1>4 DEF CloseCancel
  <2>2. view'[r].symbol = view[r].symbol /\ view'[r].todo \subseteq view[r].todo
    BY <1>4 DEF CloseCancel, Views
  <2> QED
    BY <2>1, <2>2
<1>5. CASE CallFails(r)
  BY <1>5 DEF CallFails
<1> QED
  BY <1>1, <1>2, <1>3, <1>4, <1>5 DEF Reads

\* An agent run that announces keeps to its plan.
LEMMA AnnouncesPlan == ASSUME Shape, Plans, NEW r \in Agents, Announces(r) PROVE AgentPlan(r)'
<1> USE DEF Shape, Plans, AgentPlan, Submitting, Processes
<1>1. CASE Judge(r)
  <2>1. /\ pc[r] = "judge" /\ pc'[r] = "get" /\ view'[r].symbol = view[r].symbol
        /\ log'[r].then = "submit" /\ log'[r].line = Line("intent", "buy", r, view[r].symbol)
    BY <1>1 DEF Judge, Log, Keep
  <2> QED
    BY <2>1
<1>2. ASSUME NEW s \in Symbols, CloseIntent(r, s) PROVE AgentPlan(r)'
  <2>1. /\ pc'[r] = "get" /\ view'[r].symbol = s
        /\ log'[r].then = "close" /\ log'[r].line = Line("intent", "close", r, s)
    BY <1>2 DEF CloseIntent, Log, Keep
  <2> QED
    BY <2>1
<1>3. CASE \/ Reject(r) \/ Submits(r) \/ CloseAccepted(r) \/ CloseLost(r) \/ CloseFailed(r)
           \/ Adjust(r) \/ Adjusted(r) \/ AgentEnd(r)
  <2>1. pc'[r] = "think" \/ (pc'[r] = "get" /\ log'[r].then \in {"think", "adjust", "leave"})
    BY <1>3 DEF Reject, Submits, SubmitAccepted, SubmitLost, AnswerLost, SubmitFailed,
           CloseAccepted, CloseLost, CloseFailed, Adjust, Adjusted, AgentEnd, Log
  <2> QED
    BY <2>1
<1> QED
  BY <1>1, <1>2, <1>3 DEF Announces

\* An append ends, or a run starts, leaves, is killed or fails.
LEMMA RunPlan ==
  ASSUME Shape, Plans, NEW p \in Processes,
         \/ JournalGet(p) \/ JournalPut(p) \/ (p \in Agents /\ AgentStart(p))
         \/ Leave(p) \/ Kill(p) \/ Abort(p)
  PROVE  Plans'
<1> USE DEF Shape, Plans, Processes
<1>1. \A q \in Processes : q # p => Idles(q)
  BY DEF JournalGet, JournalPut, AgentStart, Leave, Kill, Abort, Log, Idles, local
<1>2. UNCHANGED view
  BY DEF JournalGet, JournalPut, AgentStart, Leave, Kill, Abort, local
<1>3. \/ pc[p] = "get" /\ pc'[p] = "put" /\ log'[p].line = log[p].line /\ log'[p].then = log[p].then
      \/ pc[p] = "put" /\ pc'[p] = log[p].then
      \/ pc'[p] = "think" /\ p \in Agents
      \/ pc'[p] \in {"leave", "done", "dead"}
      \/ pc'[p] = "get" /\ log'[p].then = "leave"
  BY DEF JournalGet, JournalPut, AgentStart, Leave, Kill, Abort, Log
<1>4. p \in Agents => AgentPlan(p)'
  BY <1>2, <1>3 DEF AgentPlan, Submitting
<1>5. p = Flattener => FlattenPlan'
  BY <1>3, ProcessAssumption DEF FlattenPlan
<1> QED
  BY <1>1, <1>4, <1>5, IdlesAgent, IdlesFlattener

\* The flatten run keeps to its plan.
LEMMA FlattenPlanStep == ASSUME Shape, Plans, FlattenStart \/ FlattenStep PROVE Plans'
<1> USE DEF Shape, Plans, Processes
<1>1. \A r \in Agents : Idles(r)
  BY ProcessAssumption DEF FlattenStart, FlattenStep, FlattenCancel, FlattenClose, FlattenSeesPositions,
         FlattenSeesNone, FlattenGivesUp, FlattenFails, FlattenEnds, Log, Idles, local
<1>2. \/ pc'[Flattener] \in {"close", "poll"}
      \/ /\ pc'[Flattener] = "get" /\ log'[Flattener].then = "cancel"
         /\ log'[Flattener].line = Line("intent", "flatten", Flattener, None)
      \/ pc'[Flattener] = "get" /\ log'[Flattener].then = "leave"
  BY DEF FlattenStart, FlattenStep, FlattenCancel, FlattenClose, FlattenSeesPositions,
         FlattenSeesNone, FlattenGivesUp, FlattenFails, FlattenEnds, Log
<1>3. FlattenPlan'
  BY <1>2 DEF FlattenPlan
<1> QED
  BY <1>1, <1>3, IdlesAgent

\* A step keeps the plans.
LEMMA PlansStep == ASSUME Shape, Plans, [Next]_vars PROVE Plans'
<1>1. CASE UNCHANGED <<pc, log, view>>
  BY <1>1 DEF Plans, AgentPlan, FlattenPlan, Submitting
<1>2. ASSUME NEW r \in Agents, AgentStep(r) PROVE Plans'
  <2>1. \A p \in Processes : p # r => Idles(p)
    BY <1>2, AgentSteps, OthersIdle
  <2>2. AgentPlan(r)'
    BY <1>2, AgentSteps, ReadsPlan, AnnouncesPlan
  <2> QED
    BY <2>1, <2>2, IdlesAgent, IdlesFlattener, ProcessAssumption DEF Plans, Processes
<1>3. ASSUME NEW c \in Cids, Fill(c) \/ EntryDies(c) \/ Exit(c) \/ Liquidated(c)
      PROVE  UNCHANGED <<pc, log, view>>
  BY <1>3 DEF Fill, EntryDies, Exit, Liquidated, BrokerMoves, local
<1>4. LastEntryTime \/ UNCHANGED vars => UNCHANGED <<pc, log, view>>
  BY DEF LastEntryTime, vars, local
<1> QED
  BY <1>1, <1>2, <1>3, <1>4, RunPlan, FlattenPlanStep DEF Next, Processes

----------------------------------------------------------------------------
(* The limit of orders in a run. *)

\* What only a submission changes at the broker.
NoEntry ==
    \A c \in Cids :
       /\ order'[c] = "absent" <=> order[c] = "absent"
       /\ order'[c] = "working" => order[c] = "working"
       /\ order'[c] \in Exposed => order[c] \in Exposed

\* The flatten run leaves an order as it is or cancels it, and liquidates at
\* most what that leaves without a stop.
Sheds(c) ==
    \/ order'[c] \in {order[c], Cancelled(order[c])}
    \/ order'[c] = "closing" /\ "bare" \in {order[c], Cancelled(order[c])}

LEMMA FlattenSheds ==
  ASSUME Shape, FlattenCancel \/ FlattenClose, NEW c \in Cids PROVE Sheds(c)
<1> USE DEF Sheds
<1>1. ASSUME NEW kept PROVE CancelAllBut(kept)[c] \in {order[c], Cancelled(order[c])}
  BY DEF CancelAllBut
<1>2. CASE FlattenCancel
  BY <1>1, <1>2 DEF FlattenCancel
<1>3. CASE FlattenClose
  <2>1. PICK kept \in SUBSET {d \in Cids : order[d] \in Exposed},
             refused \in SUBSET Cids :
           order' = [d \in Cids |->
              IF CancelAllBut(kept)[d] = "bare" /\ d \notin refused THEN "closing"
              ELSE CancelAllBut(kept)[d]]
    BY <1>3 DEF FlattenClose
  <2> HIDE DEF Exposed
  <2>2. \/ order'[c] = CancelAllBut(kept)[c]
        \/ order'[c] = "closing" /\ CancelAllBut(kept)[c] = "bare"
    BY <2>1
  <2> QED
    BY <1>1, <2>2
<1> QED
  BY <1>2, <1>3

\* A step that submits nothing enters nothing.
LEMMA NoEntryStep ==
  ASSUME Shape, [Next]_vars, \A r \in Agents : ~SubmitAccepted(r) /\ ~SubmitLost(r)
  PROVE  NoEntry
<1> USE DEF NoEntry
<1>1. CASE UNCHANGED order
  BY <1>1
<1>2. ASSUME NEW r \in Agents, CloseCancel(r) PROVE NoEntry
  <2>1. PICK todo \in view[r].todo :
           order' = order \/ order' = [order EXCEPT ![todo[1]] = Cancelled(@)]
    BY <1>2 DEF CloseCancel
  <2>2. todo[1] \in Cids
    BY DEF Shape, Views
  <2> QED
    BY <2>1, <2>2 DEF Shape, Cancelled
<1>3. ASSUME NEW r \in Agents, CloseAccepted(r) \/ CloseLost(r) PROVE NoEntry
  <2>1. Liquidate(r)
    BY <1>3 DEF CloseAccepted, CloseLost
  <2> QED
    BY <2>1 DEF Liquidate, Shape
<1>4. CASE FlattenCancel \/ FlattenClose
  <2>1. \A c \in Cids : Sheds(c)
    BY <1>4, FlattenSheds
  <2> QED
    BY <2>1 DEF Sheds, Cancelled, Shape
<1>6. ASSUME NEW c \in Cids, Fill(c) \/ EntryDies(c) \/ Exit(c) \/ Liquidated(c) PROVE NoEntry
  BY <1>6 DEF Fill, EntryDies, Exit, Liquidated, BrokerMoves, Shape
<1>7. ASSUME NEW r \in Agents, AgentStep(r) PROVE NoEntry
  BY <1>1, <1>2, <1>3, <1>7
  DEF AgentStep, ReadPositions, CloseIntent, ReadOrders, Judge, Reject,
      SubmitFailed, CloseRead, CloseFailed, Adjust, Adjusted, CallFails, AgentEnd
<1>8. FlattenStart \/ FlattenStep => NoEntry
  BY <1>1, <1>4 DEF FlattenStart, FlattenStep, FlattenSeesPositions, FlattenSeesNone,
      FlattenGivesUp, FlattenFails, FlattenEnds
<1>9. ASSUME NEW p \in Processes,
             \/ JournalGet(p) \/ JournalPut(p) \/ Leave(p) \/ Abort(p) \/ Kill(p) \/ AgentStart(p)
             \/ LastEntryTime \/ UNCHANGED vars
      PROVE  NoEntry
  BY <1>1, <1>9 DEF JournalGet, JournalPut, Leave, Abort, Kill, AgentStart, LastEntryTime, vars
<1> QED
  BY <1>6, <1>7, <1>8, <1>9 DEF Next, Processes

\* Nobody else moves an agent run.
LEMMA AgentMoves ==
  ASSUME Shape, [Next]_vars, NEW r \in Agents
  PROVE  \/ Idles(r) \/ Reads(r) \/ Announces(r) \/ JournalGet(r) \/ JournalPut(r)
         \/ AgentStart(r) \/ Leave(r) \/ Kill(r) \/ Abort(r)
<1>1. ASSUME NEW q \in Agents, q # r, AgentStep(q) PROVE Idles(r)
  BY <1>1, AgentSteps, OthersIdle DEF Processes
<1>2. ASSUME NEW q \in Processes, q # r,
             \/ JournalGet(q) \/ JournalPut(q) \/ (q \in Agents /\ AgentStart(q))
             \/ Leave(q) \/ Kill(q) \/ Abort(q)
      PROVE  Idles(r)
  BY <1>2 DEF JournalGet, JournalPut, AgentStart, Leave, Kill, Abort, Log, Idles, local, Shape, Processes
<1>3. ASSUME FlattenStart \/ FlattenStep PROVE Idles(r)
  BY <1>3, ProcessAssumption DEF FlattenStart, FlattenStep, FlattenCancel, FlattenClose, FlattenSeesPositions,
         FlattenSeesNone, FlattenGivesUp, FlattenFails, FlattenEnds, Log, Idles, local, Shape, Processes
<1>4. ASSUME \/ \E c \in Cids : Fill(c) \/ EntryDies(c) \/ Exit(c) \/ Liquidated(c)
             \/ LastEntryTime \/ UNCHANGED vars
      PROVE  Idles(r)
  BY <1>4 DEF Fill, EntryDies, Exit, Liquidated, BrokerMoves, LastEntryTime, vars, local, Idles
<1> QED
  BY <1>1, <1>2, <1>3, <1>4, AgentSteps DEF Next, Processes

\* A run that will submit was going to already, or has just been allowed to.
LEMMA SubmittingStep ==
  ASSUME Shape, Plans, [Next]_vars, NEW r \in Agents, Submitting(r)'
  PROVE  (Submitting(r) /\ view'[r].symbol = view[r].symbol) \/ Judge(r)
<1> USE DEF Submitting
<1>1. CASE Idles(r)
  BY <1>1 DEF Idles
<1>2. CASE Reads(r)
  BY <1>2 DEF Reads, ReadPositions, ReadOrders, CloseRead, CloseCancel, CallFails, Shape, Processes
<1>3. CASE Announces(r)
  BY <1>3 DEF Announces, Submits, Reject, SubmitAccepted, SubmitLost, AnswerLost,
     SubmitFailed, CloseIntent, CloseAccepted, CloseLost, CloseFailed, Adjust, Adjusted, AgentEnd, Log,
     Shape, Processes
<1>4. CASE JournalGet(r) \/ JournalPut(r) \/ AgentStart(r) \/ Leave(r) \/ Kill(r) \/ Abort(r)
  BY <1>4 DEF JournalGet, JournalPut, AgentStart, Leave, Kill, Abort, Log, local, Shape, Processes
<1> QED
  BY <1>1, <1>2, <1>3, <1>4, AgentMoves

\* The counter of a run stays within the limit, and one that submits is below.
Limited ==
    \A r \in Agents :
       placed[r] <= MaxPerRun /\ (Submitting(r) => placed[r] < MaxPerRun)

\* What an accepted order changes of the counters.
LEMMA PlacedStep ==
  ASSUME Shape, [Next]_vars
  PROVE  \A r \in Agents :
            placed'[r] = IF SubmitAccepted(r) THEN placed[r] + 1 ELSE placed[r]
<1>1. ASSUME NEW q \in Agents, SubmitAccepted(q), NEW r \in Agents
      PROVE  placed'[r] = IF SubmitAccepted(r) THEN placed[r] + 1 ELSE placed[r]
  <2>1. placed' = [placed EXCEPT ![q] = @ + 1] /\ placed \in [Agents -> Nat]
    BY <1>1 DEF SubmitAccepted, Shape
  <2>2. SubmitAccepted(r) => r = q
    <3>1. SubmitAccepted(r) => pc'[r] = "get" /\ pc[r] = "submit"
      BY DEF SubmitAccepted, Log, Shape, Processes
    <3>2. r # q => Idles(r)
      BY <1>1, OthersIdle DEF Announces, Submits, Processes
    <3> QED
      BY <3>1, <3>2 DEF Idles
  <2> QED
    BY <1>1, <2>1, <2>2
<1>2. ASSUME \A r \in Agents : ~SubmitAccepted(r) PROVE UNCHANGED placed
  BY <1>2 DEF Next, AgentStart, AgentStep, ReadPositions, CloseIntent, ReadOrders, Judge, Reject,
        SubmitLost, SubmitFailed, CloseRead, CloseCancel, CloseAccepted, CloseLost,
        CloseFailed, Adjust, Adjusted, CallFails, AgentEnd, FlattenStart, FlattenStep,
        FlattenCancel, FlattenClose, FlattenSeesPositions, FlattenSeesNone, FlattenGivesUp,
        FlattenFails, FlattenEnds, JournalGet, JournalPut, Leave, Abort, Kill, Fill, EntryDies,
        Exit, Liquidated, BrokerMoves, LastEntryTime, vars, local
<1> QED
  BY <1>1, <1>2

\* A step keeps the counters within the limit.
LEMMA LimitedStep == ASSUME Shape, Plans, Limited, [Next]_vars PROVE Limited'
<1> SUFFICES ASSUME NEW r \in Agents
             PROVE  placed'[r] <= MaxPerRun /\ (Submitting(r)' => placed'[r] < MaxPerRun)
  BY DEF Limited
<1>1. placed[r] \in Nat /\ MaxPerRun \in Nat
  BY LimitAssumption DEF Shape
<1>2. CASE SubmitAccepted(r)
  <2>1. Submitting(r) /\ ~Submitting(r)'
    BY <1>2 DEF SubmitAccepted, Log, Submitting, Shape, Processes
  <2>2. placed'[r] = placed[r] + 1 /\ placed[r] < MaxPerRun
    BY <1>2, <2>1, PlacedStep DEF Limited
  <2> QED
    BY <1>1, <2>1, <2>2
<1>3. CASE ~SubmitAccepted(r)
  <2>1. placed'[r] = placed[r]
    BY <1>3, PlacedStep
  <2>2. Submitting(r)' => placed[r] < MaxPerRun
    BY SubmittingStep DEF Limited, Judge, Allowed
  <2> QED
    BY <2>1, <2>2 DEF Limited
<1> QED
  BY <1>2, <1>3

\* Entries are counted.
Counted ==
    /\ Limited
    /\ \A r \in Agents : IsFiniteSet(Entries(r)) /\ Cardinality(Entries(r)) <= placed[r]

\* Without lost answers a step keeps the count of a run.
LEMMA CountedStep ==
  ASSUME ~LostAnswers, Shape, Plans, Counted, [Next]_vars PROVE Counted'
<1>0. Limited'
  BY LimitedStep DEF Counted
<1> SUFFICES ASSUME NEW r \in Agents
             PROVE  IsFiniteSet(Entries(r)') /\ Cardinality(Entries(r)') <= placed'[r]
  BY <1>0 DEF Counted
<1>1. IsFiniteSet(Entries(r)) /\ Cardinality(Entries(r)) \in Nat /\ placed[r] \in Nat
  BY FS_CardinalityType DEF Counted, Shape
<1>2. CASE SubmitAccepted(r)
  <2>1. /\ order \in [Cids -> Statuses] /\ view[r].symbol \in Symbols
        /\ order' = [order EXCEPT ![<<r, view[r].symbol>>] = "working"]
    BY <1>2 DEF Plans, AgentPlan, SubmitAccepted, Submitting, Shape, Cid
  <2>2. Entries(r)' = Entries(r) \cup {view[r].symbol}
    BY <2>1 DEF Entries, Cids
  <2>3. /\ IsFiniteSet(Entries(r) \cup {view[r].symbol})
        /\ \/ Cardinality(Entries(r) \cup {view[r].symbol}) = Cardinality(Entries(r))
           \/ Cardinality(Entries(r) \cup {view[r].symbol}) = Cardinality(Entries(r)) + 1
    BY <1>1, FS_AddElement
  <2>4. placed'[r] = placed[r] + 1 /\ Cardinality(Entries(r)) <= placed[r]
    BY <1>2, PlacedStep DEF Counted
  <2>5. Cardinality(Entries(r) \cup {view[r].symbol}) <= placed'[r]
    BY <1>1, <2>3, <2>4
  <2> QED
    BY <2>2, <2>3, <2>5
<1>3. CASE ~SubmitAccepted(r)
  <2>1. placed'[r] = placed[r]
    BY <1>3, PlacedStep
  <2>2. CASE \E q \in Agents : SubmitAccepted(q)
    <3>1. PICK q \in Agents : SubmitAccepted(q)
      BY <2>2
    <3>2. order' = [order EXCEPT ![<<q, view[q].symbol>>] = "working"] /\ q # r
      BY <1>3, <3>1 DEF SubmitAccepted, Cid
    <3>3. Entries(r)' = Entries(r)
      BY <3>2 DEF Entries, Cids, Shape
    <3> QED
      BY <2>1, <3>3 DEF Counted
  <2>3. CASE \A q \in Agents : ~SubmitAccepted(q)
    <3>1. NoEntry
      BY <2>3, NoEntryStep DEF SubmitLost, AnswerLost
    <3>2. Entries(r)' = Entries(r)
      BY <3>1 DEF NoEntry, Entries, Cids
    <3> QED
      BY <2>1, <3>2 DEF Counted
  <2> QED
    BY <2>2, <2>3
<1> QED
  BY <1>2, <1>3

\* At first nobody has a plan or an entry.
LEMMA InitCounted == Init => Plans /\ Counted
<1> SUFFICES ASSUME Init PROVE Plans /\ Counted
  OBVIOUS
<1>1. Plans
  BY DEF Init, Plans, AgentPlan, FlattenPlan, Submitting, Processes
<1>2. \A r \in Agents : Entries(r) = {}
  BY DEF Init, Entries, Cids
<1>3. Counted
  <2>1. \A r \in Agents : IsFiniteSet(Entries(r)) /\ Cardinality(Entries(r)) = 0
    BY <1>2, FS_EmptySet
  <2>2. \A r \in Agents : placed[r] = 0 /\ ~Submitting(r)
    BY DEF Init, Submitting, Processes
  <2>3. MaxPerRun \in Nat
    BY LimitAssumption
  <2> QED
    BY <2>1, <2>2, <2>3 DEF Counted, Limited
<1> QED
  BY <1>1, <1>3

\* The types and the plans of the processes hold in every state.
THEOREM Planning == Spec => [](Shape /\ Plans)
<1>1. Init => Shape /\ Plans
  BY InitShape, InitCounted
<1>2. Shape /\ Plans /\ [Next]_vars => Shape' /\ Plans'
  BY ShapeStep, PlansStep
<1> QED
  BY <1>1, <1>2, PTL DEF Spec

\* No run places more entries than max_orders_per_run, if no answer is lost.
THEOREM PerRun == ASSUME ~LostAnswers PROVE Spec => []RunLimit
<1>1. Shape /\ Plans /\ Counted /\ [Next]_vars => Counted'
  BY CountedStep
<1>2. Counted /\ Shape => RunLimit
  <2>1. ASSUME Counted, Shape, NEW r \in Agents PROVE Cardinality(Entries(r)) <= MaxPerRun
    <3>1. Cardinality(Entries(r)) \in Nat /\ placed[r] \in Nat /\ MaxPerRun \in Nat
      BY <2>1, FS_CardinalityType, LimitAssumption DEF Counted, Shape
    <3> QED
      BY <2>1, <3>1 DEF Counted, Limited
  <2> QED
    BY <2>1 DEF RunLimit
<1> QED
  BY <1>1, <1>2, InitCounted, Planning, PTL DEF Spec

----------------------------------------------------------------------------
(* Runs that do not overlap. *)

\* Whoever works holds the lock, alone, and has read the whole journal.
Alone == \A p \in Processes : Running(p) => inside = {p}
Base  == \A p \in Processes : pc[p] = "put" => log[p].base = journal

\* An append keeps what was there.
LEMMA Appended ==
  ASSUME NEW S, NEW s \in Seq(S), NEW e \in S
  PROVE  IsPrefix(s, Append(s, e)) /\ ToSet(Append(s, e)) = ToSet(s) \cup {e}
<1>1. /\ Append(s, e) \in Seq(S) /\ Len(Append(s, e)) = Len(s) + 1
      /\ \A i \in 1..Len(s) : Append(s, e)[i] = s[i]
      /\ Append(s, e)[Len(s) + 1] = e
  OBVIOUS
<1>2. SubSeq(s, 1, Len(s)) = SubSeq(Append(s, e), 1, Len(s))
  BY <1>1
<1>3. ToSet(Append(s, e)) = ToSet(s) \cup {e}
  BY <1>1 DEF ToSet
<1> QED
  BY <1>1, <1>2, <1>3 DEF IsPrefix

\* What every step but those of the journal and the lock leaves alone.
Inner ==
    \/ \E r \in Agents : AgentStep(r)
    \/ FlattenStep
    \/ \E p \in Processes : Abort(p)
    \/ \E c \in Cids : Fill(c) \/ EntryDies(c) \/ Exit(c) \/ Liquidated(c)
    \/ LastEntryTime \/ UNCHANGED vars

\* A process moves no further than it may without them.
Minds(p) ==
    \/ Running(p) /\ pc'[p] # "put"
    \/ UNCHANGED <<pc[p], log[p]>>

\* Such a step moves running processes only.
LEMMA InnerKeeps ==
  ASSUME Shape, Inner
  PROVE  /\ UNCHANGED <<journal, inside>>
         /\ \A p \in Processes : Minds(p)
<1>1. ASSUME NEW r \in Agents, AgentStep(r)
      PROVE  /\ UNCHANGED <<journal, inside>>
             /\ \A p \in Processes : Minds(p)
  <2>1. UNCHANGED <<journal, inside>> /\ Running(r) /\ pc'[r] # "put"
    BY <1>1 DEF AgentStep, ReadPositions, CloseIntent, ReadOrders, Judge, Reject, SubmitAccepted, Call,
       SubmitLost, AnswerLost, SubmitFailed, CloseRead, CloseCancel, CloseAccepted, CloseLost,
       CloseFailed, Adjust, Adjusted, CallFails, AgentEnd, Log, Shape, Processes
  <2>2. \A p \in Processes : p # r => UNCHANGED <<pc[p], log[p]>>
    BY <1>1, AgentSteps, OthersIdle DEF Idles
  <2> QED
    BY <2>1, <2>2 DEF Minds
<1>2. CASE FlattenStep
  BY <1>2 DEF Minds, FlattenStep, FlattenCancel, FlattenClose, FlattenSeesPositions, FlattenSeesNone,
     FlattenGivesUp, FlattenFails, FlattenEnds, Log, local, Shape, Processes
<1>3. ASSUME NEW q \in Processes, Abort(q)
      PROVE  /\ UNCHANGED <<journal, inside>>
             /\ \A p \in Processes : Minds(p)
  BY <1>3 DEF Minds, Abort, Log, Shape
<1>4. ASSUME \/ \E c \in Cids : Fill(c) \/ EntryDies(c) \/ Exit(c) \/ Liquidated(c)
             \/ LastEntryTime \/ UNCHANGED vars
      PROVE  UNCHANGED <<journal, inside, pc, log>>
  BY <1>4 DEF Fill, EntryDies, Exit, Liquidated, BrokerMoves, LastEntryTime, vars, local
<1> QED
  BY <1>1, <1>2, <1>3, <1>4 DEF Inner, Minds

\* The steps of the journal, the lock and the rest.
LEMMA Kinds ==
  [Next]_vars => \/ Inner \/ FlattenStart
                 \/ \E r \in Agents : AgentStart(r)
                 \/ \E p \in Processes : JournalGet(p) \/ JournalPut(p) \/ Leave(p) \/ Kill(p)
  BY DEF Next, Inner

\* Without overlap a step leaves whoever works alone.
LEMMA AloneStep ==
  ASSUME ~Overlap, Shape, Alone, Base, [Next]_vars PROVE Alone' /\ Base'
<1>1. CASE Inner
  <2>1. \A p \in Processes : Running(p)' => Running(p)
    BY <1>1, InnerKeeps DEF Minds
  <2>2. \A p \in Processes : pc'[p] = "put" => pc[p] = "put" /\ log'[p] = log[p]
    BY <1>1, InnerKeeps DEF Minds
  <2> QED
    BY <1>1, <2>1, <2>2, InnerKeeps DEF Alone, Base
<1>2. ASSUME NEW p \in Processes, (p = Flattener /\ FlattenStart) \/ (p \in Agents /\ AgentStart(p))
      PROVE  Alone' /\ Base'
  <2>1. inside = {} /\ inside' = {p} /\ UNCHANGED journal
    BY <1>2 DEF FlattenStart, AgentStart, Lock!Enter
  <2>2. \A q \in Processes : q # p => UNCHANGED <<pc[q], log[q]>>
    BY <1>2 DEF FlattenStart, AgentStart, Log, Shape, local
  <2>3. pc'[p] # "put"
    BY <1>2 DEF FlattenStart, AgentStart, Log, Shape
  <2>4. \A q \in Processes : q # p => ~Running(q)
    BY <2>1 DEF Alone
  <2>5. \A q \in Processes : q # p => ~Running(q)'
    BY <2>2, <2>4
  <2> QED
    BY <2>1, <2>2, <2>3, <2>5 DEF Alone, Base
<1>3. ASSUME NEW p \in Processes, JournalGet(p) \/ JournalPut(p) PROVE Alone' /\ Base'
  <2>1. Running(p) /\ UNCHANGED inside /\ \A q \in Processes : q # p => UNCHANGED <<pc[q], log[q]>>
    BY <1>3 DEF JournalGet, JournalPut, Shape
  <2>2. \A q \in Processes : q # p => ~Running(q)
    BY <2>1 DEF Alone
  <2>3. Alone'
    BY <2>1, <2>2 DEF Alone
  <2>4. pc'[p] = "put" => log'[p].base = journal'
    BY <1>3 DEF JournalGet, JournalPut, Shape
  <2>5. \A q \in Processes : q # p => pc'[q] # "put"
    BY <2>1, <2>2
  <2> QED
    BY <2>3, <2>4, <2>5 DEF Base
<1>4. ASSUME NEW p \in Processes, Leave(p) \/ Kill(p) PROVE Alone' /\ Base'
  <2>1. Running(p) /\ ~Running(p)' /\ \A q \in Processes : q # p => UNCHANGED pc[q]
    BY <1>4 DEF Leave, Kill, Shape
  <2>2. \A q \in Processes : ~Running(q)'
    BY <2>1 DEF Alone
  <2> QED
    BY <2>2 DEF Alone, Base
<1> QED
  BY <1>1, <1>2, <1>3, <1>4, Kinds DEF Processes

\* An append of a run that is alone adds its line.
LEMMA JournalGrows ==
  ASSUME Shape, Base, [Next]_vars
  PROVE  /\ UNCHANGED journal \/ \E p \in Processes : JournalPut(p)
         /\ \A p \in Processes : JournalPut(p) =>
               /\ IsPrefix(journal, journal')
               /\ ToSet(journal') = ToSet(journal) \cup {log[p].line}
<1>1. UNCHANGED journal \/ \E p \in Processes : JournalPut(p)
  BY Kinds, InnerKeeps DEF FlattenStart, AgentStart, JournalGet, Leave, Kill
<1>2. ASSUME NEW p \in Processes, JournalPut(p)
      PROVE  /\ IsPrefix(journal, journal')
             /\ ToSet(journal') = ToSet(journal) \cup {log[p].line}
  <2>1. journal' = Append(journal, log[p].line) /\ log[p].line \in JLines /\ journal \in Seq(JLines)
    BY <1>2 DEF JournalPut, Base, Shape
  <2> QED
    BY <2>1, Appended
<1> QED
  BY <1>1, <1>2

\* At first nobody works.
LEMMA InitAlone == Init => Alone /\ Base
  BY DEF Init, Alone, Base

\* Without overlapping runs no line of the journal is ever lost.
THEOREM AppendOnly == ASSUME ~Overlap PROVE Spec => JournalKept
<1>1. Shape /\ Alone /\ Base /\ [Next]_vars => Alone' /\ Base'
  BY AloneStep
<1>2. Shape /\ Base /\ [Next]_vars => [IsPrefix(journal, journal')]_journal
  BY JournalGrows
<1> QED
  BY <1>1, <1>2, InitAlone, Planning, PTL DEF Spec, JournalKept

----------------------------------------------------------------------------
(* The write-ahead journal. *)

Told(line) == line \in ToSet(journal)

FlattenTold == Told(Line("intent", "flatten", Flattener, None))

\* Who is about to change something at the broker has announced it.
AgentTold(r) ==
    /\ pc[r] = "submit" => Told(Line("intent", "buy", r, view[r].symbol))
    /\ pc[r] \in {"close", "cancel"} => Told(Line("intent", "close", r, view[r].symbol))

Announced ==
    /\ \A r \in Agents : AgentTold(r)
    /\ pc[Flattener] \in {"cancel", "close", "poll"} => FlattenTold

\* What was changed there is announced.
Recorded ==
    \A c \in Cids :
       /\ order[c] # "absent" => Told(Line("intent", "buy", c[1], c[2]))
       /\ order[c] \in {"bare", "closing"} =>
             FlattenTold \/ \E r \in Agents : Told(Line("intent", "close", r, c[2]))

\* No line is forgotten.
LEMMA ToldStays ==
  ASSUME Shape, Base, [Next]_vars PROVE ToSet(journal) \subseteq ToSet(journal')
  BY JournalGrows

\* A step lets nobody act before it is told.
LEMMA AnnouncedStep ==
  ASSUME Shape, Plans, Base, Announced, [Next]_vars PROVE Announced'
<1>1. ASSUME NEW r \in Agents, Idles(r) PROVE AgentTold(r)'
  BY <1>1, ToldStays DEF Idles, Announced, AgentTold, Told
<1>2. ASSUME Idles(Flattener)
      PROVE  pc'[Flattener] \in {"cancel", "close", "poll"} => FlattenTold'
  BY <1>2, ToldStays DEF Idles, Announced, FlattenTold, Told
<1>3. ASSUME NEW r \in Agents, Reads(r) \/ Announces(r) PROVE Announced'
  <2>1. pc'[r] # "submit"
    BY <1>3 DEF Reads, Announces, Submits, ReadPositions, CloseIntent, ReadOrders, Judge, Reject,
       SubmitAccepted, SubmitLost, AnswerLost, SubmitFailed, CloseRead, CloseCancel, CloseAccepted, CloseLost,
       CloseFailed, Adjust, Adjusted, CallFails, AgentEnd, Log, Shape, Processes
  <2>2. pc'[r] \in {"close", "cancel"} =>
           pc[r] \in {"close", "cancel"} /\ view'[r].symbol = view[r].symbol
    <3>1. CASE CloseRead(r) \/ CloseCancel(r)
      BY <3>1 DEF CloseRead, CloseCancel, Shape, Views
    <3>2. CASE ~CloseRead(r) /\ ~CloseCancel(r)
      <4>1. pc'[r] \in {"orders", "judge", "think", "get"}
        BY <1>3, <3>2 DEF Reads, Announces, Submits, ReadPositions, CloseIntent, ReadOrders, Judge,
           Reject, SubmitAccepted, SubmitLost, AnswerLost, SubmitFailed, CloseAccepted, CloseLost,
           CloseFailed, Adjust, Adjusted, CallFails, AgentEnd, Log, Shape, Processes
      <4> QED
        BY <4>1
    <3> QED
      BY <3>1, <3>2
  <2>3. AgentTold(r)'
    BY <2>1, <2>2, ToldStays DEF Announced, AgentTold, Told
  <2>4. \A p \in Processes : p # r => Idles(p)
    BY <1>3, OthersIdle
  <2> QED
    BY <1>1, <1>2, <2>3, <2>4, ProcessAssumption DEF Announced, Processes
<1>4. ASSUME NEW p \in Processes, JournalPut(p) PROVE Announced'
  <2>1. /\ pc[p] = "put" /\ pc'[p] = log[p].then /\ UNCHANGED view
        /\ \A q \in Processes : q # p => Idles(q)
    BY <1>4 DEF JournalPut, Idles, Shape
  <2>2. log[p].line \in ToSet(journal')
    BY <1>4, JournalGrows
  <2>3. p \in Agents => AgentTold(p)'
    BY <2>1, <2>2 DEF Plans, AgentPlan, AgentTold, Told
  <2>4. p = Flattener => (pc'[p] \in {"cancel", "close", "poll"} => FlattenTold')
    BY <2>1, <2>2 DEF Plans, FlattenPlan, FlattenTold, Told
  <2> QED
    BY <1>1, <1>2, <2>1, <2>3, <2>4 DEF Announced, Processes
<1>5. ASSUME NEW p \in Processes,
             \/ JournalGet(p) \/ (p \in Agents /\ AgentStart(p)) \/ Leave(p) \/ Kill(p) \/ Abort(p)
             \/ (p = Flattener /\ FlattenStart)
      PROVE  Announced'
  <2>1. pc'[p] \in {"put", "think", "leave", "done", "dead", "get"}
    BY <1>5 DEF JournalGet, AgentStart, Leave, Kill, Abort, FlattenStart, Log, Shape
  <2>2. \A q \in Processes : q # p => Idles(q)
    BY <1>5 DEF JournalGet, AgentStart, Leave, Kill, Abort, FlattenStart, Log, Idles, local, Shape
  <2>3. (p \in Agents => AgentTold(p)') /\ pc'[p] \notin {"cancel", "close", "poll"}
    BY <2>1 DEF AgentTold
  <2> QED
    BY <1>1, <1>2, <2>2, <2>3 DEF Announced, Processes
<1>6. CASE FlattenStep
  <2>1. pc[Flattener] \in {"cancel", "close", "poll"}
    BY <1>6 DEF FlattenStep, FlattenCancel, FlattenClose, FlattenSeesPositions,
         FlattenSeesNone, FlattenGivesUp, FlattenFails
  <2>2. \A q \in Agents : Idles(q)
    BY <1>6, ProcessAssumption DEF FlattenStep, FlattenCancel, FlattenClose, FlattenSeesPositions,
         FlattenSeesNone, FlattenGivesUp, FlattenFails, FlattenEnds, Log, Idles, local, Shape, Processes
  <2>3. FlattenTold'
    BY <2>1, ToldStays DEF Announced, FlattenTold, Told
  <2> QED
    BY <1>1, <2>2, <2>3 DEF Announced
<1>7. ASSUME \/ \E c \in Cids : Fill(c) \/ EntryDies(c) \/ Exit(c) \/ Liquidated(c)
             \/ LastEntryTime \/ UNCHANGED vars
      PROVE  Announced'
  <2>1. UNCHANGED <<pc, log, view>>
    BY <1>7 DEF Fill, EntryDies, Exit, Liquidated, BrokerMoves, LastEntryTime, vars, local
  <2>2. Idles(Flattener) /\ \A r \in Agents : Idles(r)
    BY <2>1 DEF Idles
  <2> QED
    BY <1>1, <1>2, <2>2 DEF Announced
<1> QED
  BY <1>3, <1>4, <1>5, <1>6, <1>7, AgentSteps DEF Next, Processes

\* A step changes nothing that is not told.
LEMMA RecordedStep ==
  ASSUME Shape, Plans, Base, Announced, Recorded, [Next]_vars PROVE Recorded'
<1>. DEFINE Bought(c) == order'[c] # "absent" => Line("intent", "buy", c[1], c[2]) \in ToSet(journal')
            Closed(c) == order'[c] \in {"bare", "closing"} =>
                           \/ FlattenTold'
                           \/ \E r \in Agents : Line("intent", "close", r, c[2]) \in ToSet(journal')
<1>1. ASSUME NEW c \in Cids, order'[c] # "absent" => order[c] # "absent" PROVE Bought(c)
  BY <1>1, ToldStays DEF Recorded, Told
<1>2. ASSUME NEW c \in Cids, order'[c] \in {"bare", "closing"} => order[c] \in {"bare", "closing"}
      PROVE  Closed(c)
  BY <1>2, ToldStays DEF Recorded, FlattenTold, Told
<1>3. ASSUME NEW r \in Agents, SubmitAccepted(r) \/ SubmitLost(r) PROVE Recorded'
  <2>1. /\ view[r].symbol \in Symbols /\ Told(Line("intent", "buy", r, view[r].symbol))
        /\ order' = [order EXCEPT ![<<r, view[r].symbol>>] = "working"]
    BY <1>3 DEF SubmitAccepted, SubmitLost, Cid, Announced, AgentTold, Plans, AgentPlan, Submitting
  <2>2. \A c \in Cids : c # <<r, view[r].symbol>> => order'[c] = order[c]
    BY <2>1 DEF Shape
  <2>3. order'[<<r, view[r].symbol>>] = "working"
    BY <2>1 DEF Shape, Cids
  <2>4. Line("intent", "buy", r, view[r].symbol) \in ToSet(journal')
    BY <2>1, ToldStays DEF Told
  <2>5. \A c \in Cids : Bought(c)
    BY <1>1, <2>2, <2>4
  <2>6. \A c \in Cids : Closed(c)
    BY <1>2, <2>2, <2>3
  <2> QED
    BY <2>5, <2>6 DEF Recorded, Told
<1>4. ASSUME \A r \in Agents : ~SubmitAccepted(r) /\ ~SubmitLost(r) PROVE \A c \in Cids : Bought(c)
  BY <1>1, <1>4, NoEntryStep DEF NoEntry
<1>5. ASSUME NEW r \in Agents, CloseCancel(r) PROVE \A c \in Cids : Closed(c)
  <2>1. PICK todo \in view[r].todo :
           order' = order \/ order' = [order EXCEPT ![todo[1]] = Cancelled(@)]
    BY <1>5 DEF CloseCancel
  <2>2. todo[1] \in Cids
    BY DEF Shape, Views
  <2>5. todo[1][2] = view[r].symbol
    BY <1>5 DEF CloseCancel, Plans, AgentPlan
  <2>3. Line("intent", "close", r, view[r].symbol) \in ToSet(journal')
    BY <1>5, ToldStays DEF CloseCancel, Announced, AgentTold, Told
  <2>4. \A c \in Cids : c # todo[1] => order'[c] = order[c]
    BY <2>1 DEF Shape
  <2> QED
    BY <1>2, <2>2, <2>3, <2>4, <2>5
<1>6. ASSUME FlattenStep PROVE \A c \in Cids : Closed(c)
  <2>1. pc[Flattener] \in {"cancel", "close", "poll"}
    BY <1>6 DEF FlattenStep, FlattenCancel, FlattenClose, FlattenSeesPositions,
         FlattenSeesNone, FlattenGivesUp, FlattenFails
  <2> QED
    BY <2>1, ToldStays DEF Announced, FlattenTold, Told
<1>7. ASSUME UNCHANGED order PROVE \A c \in Cids : Closed(c)
  BY <1>2, <1>7
<1>8. ASSUME NEW r \in Agents, CloseAccepted(r) \/ CloseLost(r)
      PROVE  \A c \in Cids : Closed(c)
  <2>1. Liquidate(r)
    BY <1>8 DEF CloseAccepted, CloseLost
  <2> QED
    BY <1>2, <2>1 DEF Liquidate
<1>9. ASSUME NEW d \in Cids, Fill(d) \/ EntryDies(d) \/ Exit(d) \/ Liquidated(d)
      PROVE  \A c \in Cids : Closed(c)
  BY <1>2, <1>9 DEF Fill, EntryDies, Exit, Liquidated, BrokerMoves, Shape
<1>10. ASSUME \A r \in Agents : ~SubmitAccepted(r) /\ ~SubmitLost(r) PROVE \A c \in Cids : Closed(c)
  <2>1. ASSUME NEW r \in Agents, AgentStep(r) PROVE \A c \in Cids : Closed(c)
    BY <1>5, <1>7, <1>8, <1>10, <2>1
    DEF AgentStep, ReadPositions, CloseIntent, ReadOrders, Judge, Reject,
        SubmitFailed, CloseRead, CloseFailed, Adjust, Adjusted, CallFails, AgentEnd
  <2>2. ASSUME NEW p \in Processes,
             \/ JournalGet(p) \/ JournalPut(p) \/ Leave(p) \/ Abort(p) \/ Kill(p) \/ AgentStart(p)
             \/ FlattenStart \/ LastEntryTime \/ UNCHANGED vars
        PROVE  UNCHANGED order
    BY <2>2 DEF JournalGet, JournalPut, Leave, Abort, Kill, AgentStart, FlattenStart, LastEntryTime, vars
  <2> QED
    BY <1>6, <1>7, <1>9, <2>1, <2>2 DEF Next, Processes
<1> QED
  BY <1>3, <1>4, <1>10 DEF Recorded, Told

\* At first nothing is to tell.
LEMMA InitRecorded == Init => Announced /\ Recorded
  BY DEF Init, Announced, AgentTold, Recorded, Processes

\* Without overlapping runs whatever the runner changed at the broker is
\* announced in the journal, at every moment and after any crash.
THEOREM Ahead == ASSUME ~Overlap PROVE Spec => []WriteAhead
<1>1. Shape /\ Alone /\ Base /\ [Next]_vars => Alone' /\ Base'
  BY AloneStep
<1>2. Shape /\ Plans /\ Base /\ Announced /\ Recorded /\ [Next]_vars => Announced' /\ Recorded'
  BY AnnouncedStep, RecordedStep
<1>3. Shape /\ Recorded => WriteAhead
  <2>1. ASSUME Shape, Recorded, NEW c \in Cids, order[c] # "absent"
        PROVE  \E line \in Lines("intent", "buy") : <<line.run, line.symbol>> = c
    <3>1. Line("intent", "buy", c[1], c[2]) \in Lines("intent", "buy")
      BY <2>1 DEF Recorded, Told, Lines
    <3>2. <<Line("intent", "buy", c[1], c[2]).run, Line("intent", "buy", c[1], c[2]).symbol>> = c
      BY DEF Cids
    <3> QED
      BY <3>1, <3>2, Zenon
  <2>2. ASSUME Shape, Recorded, NEW c \in Cids, order[c] \in {"bare", "closing"}
        PROVE  \/ Lines("intent", "flatten") # {}
               \/ \E line \in Lines("intent", "close") : line.symbol = c[2]
    <3>1. CASE FlattenTold
      <4>1. Line("intent", "flatten", Flattener, None) \in Lines("intent", "flatten")
        BY <3>1 DEF Told, FlattenTold, Lines
      <4> QED
        BY <4>1
    <3>2. CASE \E r \in Agents : Told(Line("intent", "close", r, c[2]))
      <4>1. PICK r \in Agents : Told(Line("intent", "close", r, c[2]))
        BY <3>2
      <4>2. Line("intent", "close", r, c[2]) \in Lines("intent", "close")
        BY <4>1 DEF Told, Lines
      <4>3. Line("intent", "close", r, c[2]).symbol = c[2]
        OBVIOUS
      <4> QED
        BY <4>2, <4>3, Zenon
    <3> QED
      BY <2>2, <3>1, <3>2 DEF Recorded
  <2> QED
    BY <2>1, <2>2 DEF WriteAhead
<1> QED
  BY <1>1, <1>2, <1>3, InitAlone, InitRecorded, Planning, PTL DEF Spec

----------------------------------------------------------------------------
(* The flatten run. *)

\* Once the flatten run has started no entry comes, and with its verdict it
\* leaves.
Flattening ==
    /\ pc[Flattener] # "idle" => late /\ \A r \in Agents : ~Submitting(r)
    /\ verdict # "none" =>
          \/ pc[Flattener] \in {"leave", "done", "dead"}
          \/ Appending(Flattener) /\ log[Flattener].then = "leave"

\* A step of the flatten run.
Flattens ==
    \/ FlattenStart \/ FlattenStep \/ JournalGet(Flattener) \/ JournalPut(Flattener)
    \/ Leave(Flattener) \/ Kill(Flattener) \/ Abort(Flattener)

\* Nobody else moves the flatten run or decides for it.
LEMMA FlattenMoves ==
  ASSUME Shape, [Next]_vars
  PROVE  /\ late => late'
         /\ Flattens \/ (Idles(Flattener) /\ UNCHANGED verdict)
<1> USE ProcessAssumption DEF Processes
<1>1. ASSUME NEW r \in Agents, AgentStep(r)
      PROVE  Idles(Flattener) /\ UNCHANGED <<late, verdict>>
  <2>1. UNCHANGED <<late, verdict>>
    BY <1>1 DEF AgentStep, ReadPositions, CloseIntent, ReadOrders, Judge, Reject, SubmitAccepted,
       SubmitLost, AnswerLost, SubmitFailed, CloseRead, CloseCancel, CloseAccepted, CloseLost,
       CloseFailed, Adjust, Adjusted, CallFails, AgentEnd
  <2> QED
    BY <1>1, <2>1, AgentSteps, OthersIdle
<1>2. ASSUME NEW p \in Processes,
             \/ JournalGet(p) \/ JournalPut(p) \/ (p \in Agents /\ AgentStart(p))
             \/ Leave(p) \/ Kill(p) \/ Abort(p)
      PROVE  UNCHANGED <<late, verdict>> /\ (p # Flattener => Idles(Flattener))
  BY <1>2 DEF JournalGet, JournalPut, AgentStart, Leave, Kill, Abort, Log, Idles, local, Shape
<1>3. FlattenStart \/ FlattenStep => UNCHANGED late
  BY DEF FlattenStart, FlattenStep, FlattenCancel, FlattenClose, FlattenSeesPositions,
     FlattenSeesNone, FlattenGivesUp, FlattenFails, FlattenEnds
<1>4. ASSUME \/ \E c \in Cids : Fill(c) \/ EntryDies(c) \/ Exit(c) \/ Liquidated(c)
             \/ LastEntryTime \/ UNCHANGED vars
      PROVE  (late => late') /\ Idles(Flattener) /\ UNCHANGED verdict
  BY <1>4 DEF Fill, EntryDies, Exit, Liquidated, BrokerMoves, LastEntryTime, vars, local, Idles
<1> QED
  BY <1>1, <1>2, <1>3, <1>4 DEF Next, Flattens

\* The flatten run starts only when no agent run is at work.
LEMMA StartsAlone ==
  ASSUME ~Overlap, Shape, Alone, FlattenStart, NEW r \in Agents PROVE ~Submitting(r)
  BY DEF FlattenStart, Lock!Enter, Alone, Submitting, Processes

\* From the start of the flatten run on, no step enters a position.
LEMMA NoMoreEntries ==
  ASSUME ~Overlap, Shape, Plans, Alone, Flattening, [Next]_vars, pc'[Flattener] # "idle"
  PROVE  late' /\ NoEntry /\ \A r \in Agents : ~Submitting(r)'
<1>1. pc[Flattener] # "idle" \/ FlattenStart
  BY FlattenMoves DEF Flattens, Idles, FlattenStep, FlattenCancel, FlattenClose,
     FlattenSeesPositions, FlattenSeesNone, FlattenGivesUp, FlattenFails, JournalGet, JournalPut,
     Leave, Kill, Abort
<1>2. late /\ late'
  BY <1>1, FlattenMoves DEF Flattening, FlattenStart
<1>3. \A r \in Agents : ~Submitting(r)
  BY <1>1, StartsAlone DEF Flattening
<1>4. \A r \in Agents : ~Submitting(r)'
  BY <1>2, <1>3, SubmittingStep DEF Judge, Allowed
<1>5. NoEntry
  BY <1>3, NoEntryStep DEF SubmitAccepted, SubmitLost, Submitting
<1> QED
  BY <1>2, <1>4, <1>5

\* A step keeps what the flatten run relies on.
LEMMA FlatteningStep ==
  ASSUME ~Overlap, Shape, Plans, Alone, Flattening, [Next]_vars PROVE Flattening'
<1> USE DEF Processes
<1>0. Flattens \/ (Idles(Flattener) /\ UNCHANGED verdict)
  BY FlattenMoves
<1>1. pc'[Flattener] # "idle" => late' /\ \A r \in Agents : ~Submitting(r)'
  BY NoMoreEntries
<1>2. verdict' # "none" =>
          \/ pc'[Flattener] \in {"leave", "done", "dead"}
          \/ Appending(Flattener)' /\ log'[Flattener].then = "leave"
  <2>1. CASE FlattenSeesNone \/ FlattenGivesUp \/ FlattenFails
    BY <2>1 DEF FlattenSeesNone, FlattenGivesUp, FlattenFails, FlattenEnds, Log, Shape
  <2>2. ASSUME FlattenStart \/ FlattenCancel \/ FlattenClose \/ FlattenSeesPositions
        PROVE  verdict' = "none"
    BY <2>2 DEF FlattenStart, FlattenCancel, FlattenClose, FlattenSeesPositions, Flattening, local
  <2>3. ASSUME \/ JournalGet(Flattener) \/ JournalPut(Flattener) \/ Leave(Flattener)
               \/ Kill(Flattener) \/ (Idles(Flattener) /\ UNCHANGED verdict),
               verdict' # "none"
        PROVE  \/ pc'[Flattener] \in {"leave", "done", "dead"}
               \/ Appending(Flattener)' /\ log'[Flattener].then = "leave"
    BY <2>3 DEF Idles, JournalGet, JournalPut, Leave, Kill, local, Flattening, Shape
  <2>4. ASSUME Abort(Flattener)
        PROVE  \/ pc'[Flattener] = "leave"
               \/ Appending(Flattener)' /\ log'[Flattener].then = "leave"
    BY <2>4 DEF Abort, Log, Shape
  <2> QED
    BY <1>0, <2>1, <2>2, <2>3, <2>4 DEF Flattens, FlattenStep
<1> QED
  BY <1>1, <1>2 DEF Flattening

\* A run comes to the verdict flat when no position is there, and only then.
LEMMA FlatStep ==
  ASSUME ~Overlap, Shape, Plans, Alone, Flattening, [Next]_vars, verdict' = "flat",
         NEW c \in Cids, order'[c] \in Exposed
  PROVE  order[c] \in (IF verdict = "flat" THEN Exposed ELSE {"working"})
<1>1. CASE FlattenSeesNone
  <2>1. UNCHANGED order /\ verdict = "none"
    BY <1>1 DEF FlattenSeesNone, FlattenEnds, Flattening
  <2>2. order[c] \notin Position
    BY <1>1 DEF FlattenSeesNone, SymbolsIn, Cids
  <2> QED
    BY <2>1, <2>2
<1>2. CASE ~FlattenSeesNone
  <2>1. verdict = "flat"
    BY <1>2, FlattenMoves DEF Flattens, FlattenStart, FlattenStep, FlattenCancel, FlattenClose,
       FlattenSeesPositions, FlattenGivesUp, FlattenFails, FlattenEnds, JournalGet, JournalPut,
       Leave, Kill, Abort, local
  <2>2. pc'[Flattener] # "idle"
    <3>1. Flattening'
      BY FlatteningStep
    <3> QED
      BY <3>1 DEF Flattening
  <2>3. NoEntry
    BY <2>2, NoMoreEntries
  <2> QED
    BY <2>1, <2>3 DEF NoEntry
<1> QED
  BY <1>1, <1>2

\* Without overlapping runs the flatten run reports flat when no position is
\* left; what is exposed after that was an entry still at work, whatever the
\* broker made of its cancel.
THEOREM Flat == ASSUME ~Overlap PROVE Spec => FlatMeansFlat
<1>1. Init => Flattening
  BY DEF Init, Flattening, Processes
<1>2. Shape /\ Alone /\ Base /\ [Next]_vars => Alone' /\ Base'
  BY AloneStep
<1>3. Shape /\ Plans /\ Alone /\ Flattening /\ [Next]_vars => Flattening'
  BY FlatteningStep
<1>4. Shape /\ Plans /\ Alone /\ Flattening /\ [Next]_vars =>
         [verdict' = "flat" =>
            \A c \in Cids : order'[c] \in Exposed =>
               order[c] \in (IF verdict = "flat" THEN Exposed ELSE {"working"})]_vars
  BY FlatStep
<1> QED
  BY <1>1, <1>2, <1>3, <1>4, InitAlone, Planning, PTL DEF Spec, FlatMeansFlat

----------------------------------------------------------------------------
(* The limit of positions. *)

\* Of the agent runs one works at a time, even beside a flatten run.
AgentsAlone == \A r \in Agents : Running(r) => inside = {r}

\* A step lets no two agent runs work.
LEMMA AgentsAloneStep == ASSUME Shape, AgentsAlone, [Next]_vars PROVE AgentsAlone'
<1> USE ProcessAssumption DEF Processes
<1>1. CASE Inner
  BY <1>1, InnerKeeps DEF Minds, AgentsAlone
<1>2. ASSUME NEW r \in Agents, AgentStart(r) PROVE AgentsAlone'
  <2>1. inside = {} /\ inside' = {r} /\ \A q \in Agents : q # r => UNCHANGED pc[q]
    BY <1>2 DEF AgentStart, Lock!Enter, Shape
  <2> QED
    BY <2>1 DEF AgentsAlone
<1>3. CASE FlattenStart
  <2>1. inside = {} \/ UNCHANGED inside
    BY <1>3 DEF FlattenStart
  <2>2. \A q \in Agents : UNCHANGED pc[q]
    BY <1>3 DEF FlattenStart, Log, Shape
  <2> QED
    BY <2>1, <2>2 DEF AgentsAlone
<1>4. ASSUME NEW p \in Processes, JournalGet(p) \/ JournalPut(p) PROVE AgentsAlone'
  <2>1. Running(p) /\ UNCHANGED inside /\ \A q \in Processes : q # p => UNCHANGED pc[q]
    BY <1>4 DEF JournalGet, JournalPut, Shape
  <2> QED
    BY <2>1 DEF AgentsAlone
<1>5. ASSUME NEW p \in Processes, Leave(p) \/ Kill(p) PROVE AgentsAlone'
  <2>1. /\ ~Running(p)' /\ \A q \in Processes : q # p => UNCHANGED pc[q]
        /\ inside' = inside \ {p}
    BY <1>5 DEF Leave, Kill, Lock!Leave, Shape
  <2> QED
    BY <2>1 DEF AgentsAlone
<1> QED
  BY <1>1, <1>2, <1>3, <1>4, <1>5, Kinds

\* A fill alone makes a position.
LEMMA NoNewPosition ==
  ASSUME Shape, [Next]_vars, \A d \in Cids : ~Fill(d), NEW c \in Cids, order'[c] \in Position
  PROVE  order[c] \in Position
<1>1. CASE \E r \in Agents : SubmitAccepted(r) \/ SubmitLost(r)
  BY <1>1 DEF SubmitAccepted, SubmitLost, Shape
<1>2. CASE UNCHANGED order
  BY <1>2
<1>3. ASSUME NEW r \in Agents, CloseCancel(r) PROVE order[c] \in Position
  <2>1. PICK todo \in view[r].todo :
           order' = order \/ order' = [order EXCEPT ![todo[1]] = Cancelled(@)]
    BY <1>3 DEF CloseCancel
  <2>2. todo[1] \in Cids
    BY DEF Shape, Views
  <2> QED
    BY <2>1, <2>2 DEF Shape, Cancelled
<1>4. ASSUME NEW r \in Agents, CloseAccepted(r) \/ CloseLost(r) PROVE order[c] \in Position
  BY <1>4 DEF CloseAccepted, CloseLost, Liquidate, Shape
<1>5. CASE FlattenCancel \/ FlattenClose
  <2>1. Sheds(c)
    BY <1>5, FlattenSheds
  <2> QED
    BY <2>1 DEF Sheds, Cancelled, Shape
<1>6. ASSUME NEW d \in Cids, EntryDies(d) \/ Exit(d) \/ Liquidated(d) PROVE order[c] \in Position
  BY <1>6 DEF EntryDies, Exit, Liquidated, BrokerMoves, Shape
<1>7. ASSUME NEW r \in Agents, AgentStep(r) PROVE order[c] \in Position
  BY <1>1, <1>2, <1>3, <1>4, <1>7
  DEF AgentStep, ReadPositions, CloseIntent, ReadOrders, Judge, Reject,
      SubmitFailed, CloseRead, CloseFailed, Adjust, Adjusted, CallFails, AgentEnd
<1>8. FlattenStart \/ FlattenStep => order[c] \in Position
  BY <1>2, <1>5 DEF FlattenStart, FlattenStep, FlattenSeesPositions, FlattenSeesNone,
      FlattenGivesUp, FlattenFails, FlattenEnds
<1>9. ASSUME NEW p \in Processes,
             \/ JournalGet(p) \/ JournalPut(p) \/ Leave(p) \/ Abort(p) \/ Kill(p) \/ AgentStart(p)
             \/ LastEntryTime \/ UNCHANGED vars
      PROVE  UNCHANGED order
  BY <1>9 DEF JournalGet, JournalPut, Leave, Abort, Kill, AgentStart, LastEntryTime, vars
<1> QED
  BY <1>2, <1>6, <1>7, <1>8, <1>9 DEF Next, Processes

\* A run that has read has just done so, or has been waiting.
LEMMA ReadingStep ==
  ASSUME Shape, Plans, [Next]_vars, NEW r \in Agents, pc'[r] \in {"orders", "judge"}
  PROVE  ReadOrders(r) \/ Idles(r) \/ \E s \in Symbols : ReadPositions(r, s)
<1>1. CASE Announces(r) \/ CloseRead(r) \/ CloseCancel(r) \/ CallFails(r)
  BY <1>1 DEF Announces, Submits, Judge, Reject, SubmitAccepted, SubmitLost, AnswerLost,
     SubmitFailed, CloseIntent, CloseAccepted, CloseLost, CloseFailed, Adjust, Adjusted, AgentEnd, Log,
     CloseRead, CloseCancel, CallFails, Shape, Processes
<1>2. CASE JournalGet(r) \/ JournalPut(r) \/ AgentStart(r) \/ Leave(r) \/ Kill(r) \/ Abort(r)
  BY <1>2 DEF JournalGet, JournalPut, AgentStart, Leave, Kill, Abort, Log, Shape, Processes,
     Plans, AgentPlan
<1> QED
  BY <1>1, <1>2, AgentMoves DEF Reads

\* What a run has read covers what is exposed, and an entry on its way to the
\* broker has its place and its symbol to itself.
Room ==
    /\ PositionLimit /\ OneEntryPerSymbol
    /\ \A r \in Agents :
          /\ pc[r] = "orders" => SymbolsIn(Position) \subseteq view[r].held
          /\ pc[r] = "judge"  => SymbolsIn(Exposed) \subseteq Occupied(r)
          /\ Submitting(r) => /\ view[r].symbol \notin SymbolsIn(Exposed)
                              /\ Cardinality(SymbolsIn(Exposed)) < MaxPositions

\* Sets of symbols can be counted.
LEMMA Countable ==
  ASSUME NEW S \in SUBSET Symbols, NEW T \in SUBSET S
  PROVE  /\ IsFiniteSet(S) /\ Cardinality(S) \in Nat
         /\ Cardinality(T) \in Nat /\ Cardinality(T) <= Cardinality(S)
<1>1. IsFiniteSet(S) /\ IsFiniteSet(T) /\ Cardinality(T) <= Cardinality(S)
  BY SymbolAssumption, FS_Subset
<1> QED
  BY <1>1, FS_CardinalityType

\* Without fills between two reads of a run, a step keeps the room.
LEMMA RoomStep ==
  ASSUME ~FillsInRead, Shape, Plans, AgentsAlone, Room, [Next]_vars PROVE Room'
<1> USE LimitAssumption
<1>1. ASSUME NEW q \in Agents, SubmitAccepted(q) \/ SubmitLost(q) PROVE Room'
  <2>1. /\ view[q].symbol \in Symbols /\ Submitting(q)
        /\ order' = [order EXCEPT ![<<q, view[q].symbol>>] = "working"]
        /\ <<q, view[q].symbol>> \in Cids /\ order \in [Cids -> Statuses]
    BY <1>1 DEF Plans, AgentPlan, SubmitAccepted, SubmitLost, Submitting, Cid, Cids, Shape
  <2>2. SymbolsIn(Exposed)' = SymbolsIn(Exposed) \cup {view[q].symbol}
    BY <2>1 DEF SymbolsIn, Cids
  <2>3. PositionLimit'
    <3>1. /\ Cardinality(SymbolsIn(Exposed)) \in Nat /\ IsFiniteSet(SymbolsIn(Exposed))
          /\ MaxPositions \in Nat
      BY Countable DEF SymbolsIn
    <3>2. Cardinality(SymbolsIn(Exposed)') <= Cardinality(SymbolsIn(Exposed)) + 1
      BY <2>2, <3>1, FS_AddElement
    <3>3. Cardinality(SymbolsIn(Exposed)) < MaxPositions
      BY <2>1 DEF Room
    <3>4. Cardinality(SymbolsIn(Exposed)') \in Nat
      BY Countable DEF SymbolsIn
    <3> QED
      BY <3>1, <3>2, <3>3, <3>4 DEF PositionLimit
  <2>4. OneEntryPerSymbol'
    <3>1. ASSUME NEW c \in Cids, order[c] \in Exposed PROVE c[2] # view[q].symbol
      <4>1. c[1] \in Agents /\ c[2] \in Symbols /\ c = <<c[1], c[2]>>
        BY DEF Cids
      <4>2. c[2] \in SymbolsIn(Exposed)
        BY <3>1, <4>1 DEF SymbolsIn
      <4>3. view[q].symbol \notin SymbolsIn(Exposed)
        BY <2>1 DEF Room
      <4> QED
        BY <4>2, <4>3
    <3>2. \A c \in Cids : order'[c] \in Exposed =>
             c = <<q, view[q].symbol>> \/ (order[c] \in Exposed /\ c[2] # view[q].symbol)
      BY <2>1, <3>1
    <3>3. \A c, d \in Cids : c[2] = d[2] /\ {order[c], order[d]} \subseteq Exposed => c = d
      BY DEF Room, OneEntryPerSymbol
    <3> QED
      BY <3>2, <3>3 DEF OneEntryPerSymbol
  <2>5. pc'[q] \in {"get", "think"} /\ ~Submitting(q)'
    BY <1>1 DEF SubmitAccepted, SubmitLost, AnswerLost, Log, Submitting, Shape, Processes
  <2>6. ASSUME NEW r \in Agents, r # q PROVE ~Running(r)'
    <3>1. Idles(r)
      BY <1>1, <2>6, OthersIdle DEF Announces, Submits, Processes
    <3>2. ~Running(r)
      BY <2>1, <2>6 DEF AgentsAlone, Submitting
    <3> QED
      BY <3>1, <3>2 DEF Idles
  <2> QED
    BY <2>3, <2>4, <2>5, <2>6 DEF Room, Submitting
<1>2. ASSUME \A q \in Agents : ~SubmitAccepted(q) /\ ~SubmitLost(q) PROVE Room'
  <2>1. \A c \in Cids : order'[c] \in Exposed => order[c] \in Exposed
    BY <1>2, NoEntryStep DEF NoEntry
  <2>2. /\ SymbolsIn(Exposed)' \subseteq SymbolsIn(Exposed)
        /\ Cardinality(SymbolsIn(Exposed)') \in Nat /\ Cardinality(SymbolsIn(Exposed)) \in Nat
        /\ Cardinality(SymbolsIn(Exposed)') <= Cardinality(SymbolsIn(Exposed))
    <3>1. SymbolsIn(Exposed)' \subseteq SymbolsIn(Exposed)
      BY <2>1 DEF SymbolsIn, Cids
    <3> QED
      BY <3>1, Countable DEF SymbolsIn
  <2>3. PositionLimit' /\ OneEntryPerSymbol'
    BY <2>1, <2>2 DEF Room, PositionLimit, OneEntryPerSymbol
  <2>4. ASSUME NEW r \in Agents, pc'[r] = "orders" PROVE SymbolsIn(Position)' \subseteq view'[r].held
    <3>1. ASSUME NEW s \in Symbols, ReadPositions(r, s) PROVE SymbolsIn(Position)' \subseteq view'[r].held
      BY <3>1 DEF ReadPositions, SymbolsIn, Shape
    <3>2. CASE Idles(r)
      <4>1. pc[r] = "orders" /\ view'[r] = view[r]
        BY <2>4, <3>2 DEF Idles
      <4>2. \A d \in Cids : ~Fill(d)
        BY <4>1 DEF Fill
      <4> QED
        BY <4>1, <4>2, NoNewPosition DEF Room, SymbolsIn, Cids
    <3>3. ~ReadOrders(r)
      BY <2>4 DEF ReadOrders, Shape, Processes
    <3> QED
      BY <2>4, <3>1, <3>2, <3>3, ReadingStep
  <2>5. ASSUME NEW r \in Agents, pc'[r] = "judge" PROVE SymbolsIn(Exposed)' \subseteq Occupied(r)'
    <3>1. CASE ReadOrders(r)
      <4>1. /\ UNCHANGED order /\ pc[r] = "orders"
            /\ view'[r].held = view[r].held /\ view'[r].pending = SymbolsIn({"working"})
        BY <3>1 DEF ReadOrders, Shape, Views
      <4>2. SymbolsIn(Exposed) = SymbolsIn(Position) \cup SymbolsIn({"working"})
        BY DEF SymbolsIn
      <4>3. SymbolsIn(Exposed)' = SymbolsIn(Exposed)
        BY <4>1 DEF SymbolsIn
      <4> QED
        BY <4>1, <4>2, <4>3 DEF Room, Occupied
    <3>2. CASE Idles(r)
      BY <2>2, <2>5, <3>2 DEF Idles, Room, Occupied
    <3>3. \A s \in Symbols : ~ReadPositions(r, s)
      BY <2>5 DEF ReadPositions, Shape, Processes
    <3> QED
      BY <2>5, <3>1, <3>2, <3>3, ReadingStep
  <2>6. ASSUME NEW r \in Agents, Submitting(r)'
        PROVE  /\ view'[r].symbol \notin SymbolsIn(Exposed)'
               /\ Cardinality(SymbolsIn(Exposed)') < MaxPositions
    <3>1. CASE Submitting(r) /\ view'[r].symbol = view[r].symbol
      BY <2>2, <3>1 DEF Room
    <3>2. CASE Judge(r)
      <4>1. /\ pc[r] = "judge" /\ view[r].symbol \notin Occupied(r)
            /\ Cardinality(Occupied(r)) < MaxPositions
            /\ view'[r].symbol = view[r].symbol
        BY <3>2 DEF Judge, Allowed, Keep, Shape
      <4>2. SymbolsIn(Exposed)' \subseteq Occupied(r)
        BY <2>2, <4>1 DEF Room
      <4>3. Occupied(r) \subseteq Symbols
        BY DEF Occupied, Shape, Views
      <4>4. /\ Cardinality(SymbolsIn(Exposed)') \in Nat /\ Cardinality(Occupied(r)) \in Nat
            /\ Cardinality(SymbolsIn(Exposed)') <= Cardinality(Occupied(r))
        BY <4>2, <4>3, Countable
      <4> QED
        BY <4>1, <4>2, <4>4
    <3> QED
      BY <2>6, <3>1, <3>2, SubmittingStep
  <2> QED
    BY <2>3, <2>4, <2>5, <2>6 DEF Room
<1> QED
  BY <1>1, <1>2

\* At first there is room, if any position is allowed at all.
LEMMA InitRoom == Init => AgentsAlone /\ Room
<1> SUFFICES ASSUME Init PROVE AgentsAlone /\ Room
  OBVIOUS
<1>1. SymbolsIn(Exposed) = {}
  BY DEF Init, SymbolsIn, Cids
<1>2. PositionLimit
  BY <1>1, FS_EmptySet, LimitAssumption DEF PositionLimit
<1> QED
  BY <1>1, <1>2 DEF Init, AgentsAlone, Room, OneEntryPerSymbol, Submitting, Cids, Processes

\* If no entry fills between the reads of positions and orders, a run that is
\* about to submit has room for it.
LEMMA RoomHolds == ASSUME ~FillsInRead PROVE Spec => []Room
<1>1. Shape /\ AgentsAlone /\ [Next]_vars => AgentsAlone'
  BY AgentsAloneStep
<1>2. Shape /\ Plans /\ AgentsAlone /\ Room /\ [Next]_vars => Room'
  BY RoomStep
<1> QED
  BY <1>1, <1>2, InitRoom, Planning, PTL DEF Spec

\* Hence the entries at work and the positions are never more than
\* max_positions, also beside a flatten run that has no lock.
THEOREM Positions == ASSUME ~FillsInRead PROVE Spec => []PositionLimit
<1>1. Room => PositionLimit
  BY DEF Room
<1> QED
  BY <1>1, RoomHolds, PTL

\* And each of them has its symbol to itself.
THEOREM OneEntry == ASSUME ~FillsInRead PROVE Spec => []OneEntryPerSymbol
<1>1. Room => OneEntryPerSymbol
  BY DEF Room
<1> QED
  BY <1>1, RoomHolds, PTL

----------------------------------------------------------------------------
(* What a fill between two reads can cost. *)

\* One entry at most works in a symbol.
OneWorking ==
    \A c, d \in Cids : c[2] = d[2] /\ order[c] = "working" /\ order[d] = "working" => c = d

\* Of the symbols in S none has two entries at the broker.
Single(S) ==
    \A c, d \in Cids :
       c[2] \in S /\ c[2] = d[2] /\ {order[c], order[d]} \subseteq Exposed => c = d

\* What a run that reads has not seen is what worked when it began, and that is
\* within the limit; so is what works when it submits.
Unseen ==
    /\ FillsBounded /\ OneWorking
    /\ \A r \in Agents :
          /\ pc[r] \in {"orders", "judge"} =>
                /\ Cardinality(SymbolsIn(Exposed) \ view[r].held) <= MaxPositions
                /\ Single(Symbols \ view[r].held)
          /\ pc[r] = "judge" => SymbolsIn({"working"}) \subseteq view[r].pending
          /\ Submitting(r) =>
                /\ view[r].symbol \notin SymbolsIn({"working"})
                /\ Cardinality(SymbolsIn({"working"})) < MaxPositions
                /\ Cardinality(SymbolsIn(Exposed)) < 2 * MaxPositions
                /\ Single({view[r].symbol})

\* A set that grows by one element stays within a bound it was below.
LEMMA OneMore ==
  ASSUME NEW S \in SUBSET Symbols, NEW s \in Symbols, NEW n \in Nat, Cardinality(S) < n
  PROVE  Cardinality(S \cup {s}) <= n
<1>1. IsFiniteSet(S) /\ Cardinality(S) \in Nat
  BY Countable
<1>2. \/ Cardinality(S \cup {s}) = Cardinality(S)
      \/ Cardinality(S \cup {s}) = Cardinality(S) + 1
  BY <1>1, FS_AddElement
<1> QED
  BY <1>1, <1>2

\* Two sets within a bound each are within its double together.
LEMMA TwoParts ==
  ASSUME NEW S \in SUBSET Symbols, NEW T \in SUBSET Symbols, NEW n \in Nat,
         Cardinality(T) < n, Cardinality(S \ T) <= n
  PROVE  Cardinality(S) < 2 * n
<1>1. /\ IsFiniteSet(T) /\ Cardinality(T) \in Nat
      /\ IsFiniteSet(S \ T) /\ Cardinality(S \ T) \in Nat
      /\ Cardinality(S) \in Nat
  BY Countable
<1>2. Cardinality(T \cup (S \ T)) = Cardinality(T) + Cardinality(S \ T) - Cardinality(T \cap (S \ T))
  BY <1>1, FS_Union
<1>3. T \cap (S \ T) = {} /\ T \cup (S \ T) = S \cup T
  OBVIOUS
<1>4. Cardinality(T \cap (S \ T)) = 0
  BY <1>3, FS_EmptySet
<1>5. Cardinality(S \cup T) = Cardinality(T) + Cardinality(S \ T)
  <2>1. Cardinality(S \cup T) = Cardinality(T) + Cardinality(S \ T) - 0
    BY <1>2, <1>3, <1>4, Zenon
  <2> QED
    BY <1>1, <2>1
<1>6. Cardinality(S) <= Cardinality(S \cup T) /\ Cardinality(S \cup T) \in Nat
  BY Countable
<1> QED
  BY <1>1, <1>5, <1>6

\* A submission enters a symbol in which nothing works and one position at most
\* is open.
LEMMA UnseenSubmit ==
  ASSUME Shape, Plans, AgentsAlone, Unseen, NEW q \in Agents, SubmitAccepted(q) \/ SubmitLost(q)
  PROVE  Unseen'
<1> USE LimitAssumption
<1>1. /\ view[q].symbol \in Symbols /\ Submitting(q)
      /\ order' = [order EXCEPT ![<<q, view[q].symbol>>] = "working"]
      /\ <<q, view[q].symbol>> \in Cids /\ order \in [Cids -> Statuses]
  BY DEF Plans, AgentPlan, SubmitAccepted, SubmitLost, Submitting, Cid, Cids, Shape
<1> DEFINE new == <<q, view[q].symbol>>
<1>2. \A c \in Cids : order'[c] = IF c = new THEN "working" ELSE order[c]
  BY <1>1
<1>3. /\ SymbolsIn(Exposed)' = SymbolsIn(Exposed) \cup {view[q].symbol}
      /\ SymbolsIn({"working"})' = SymbolsIn({"working"}) \cup {view[q].symbol}
  BY <1>1, <1>2 DEF SymbolsIn, Cids
<1>4. /\ view[q].symbol \notin SymbolsIn({"working"})
      /\ Cardinality(SymbolsIn({"working"})) < MaxPositions
      /\ Cardinality(SymbolsIn(Exposed)) < 2 * MaxPositions
      /\ Single({view[q].symbol})
  BY <1>1 DEF Unseen
<1>5. /\ Cardinality(SymbolsIn({"working"})') <= MaxPositions
      /\ Cardinality(SymbolsIn(Exposed)') <= 2 * MaxPositions
  <2>1. SymbolsIn(Exposed) \in SUBSET Symbols /\ SymbolsIn({"working"}) \in SUBSET Symbols
    BY DEF SymbolsIn
  <2>2. MaxPositions \in Nat /\ 2 * MaxPositions \in Nat
    OBVIOUS
  <2> QED
    BY <1>1, <1>3, <1>4, <2>1, <2>2, OneMore
<1>6. \A c \in Cids : c[2] = view[q].symbol => order[c] # "working"
  <2> SUFFICES ASSUME NEW c \in Cids, c[2] = view[q].symbol, order[c] = "working" PROVE FALSE
    OBVIOUS
  <2>1. c[1] \in Agents /\ c = <<c[1], view[q].symbol>>
    BY DEF Cids
  <2> QED
    BY <1>1, <1>4, <2>1 DEF SymbolsIn
<1>7. OneWorking'
  BY <1>2, <1>6 DEF Unseen, OneWorking
<1>8. ASSUME NEW c \in Cids, NEW d \in Cids, NEW e \in Cids, c[2] = d[2], d[2] = e[2],
             {order'[c], order'[d], order'[e]} \subseteq Exposed
      PROVE  c = d \/ d = e \/ c = e
  <2>1. CASE c # new /\ d # new /\ e # new
    BY <1>2, <1>8, <2>1 DEF Unseen, FillsBounded
  <2>2. ASSUME NEW x \in Cids, NEW y \in Cids, x # new, y # new, x[2] = new[2], y[2] = new[2],
               order'[x] \in Exposed, order'[y] \in Exposed
        PROVE  x = y
    <3>1. order[x] \in Exposed /\ order[y] \in Exposed
      BY <1>2, <2>2
    <3> QED
      BY <1>4, <2>2, <3>1 DEF Single
  <2>3. new \in Cids
    BY <1>1
  <2> QED
    BY <1>8, <2>1, <2>2, <2>3
<1>9. FillsBounded'
  BY <1>5, <1>8 DEF FillsBounded, WorkingBounded
<1>10. pc'[q] \in {"get", "think"} /\ ~Submitting(q)'
  BY DEF SubmitAccepted, SubmitLost, AnswerLost, Log, Submitting, Shape, Processes
<1>11. ASSUME NEW r \in Agents, r # q PROVE ~Running(r)'
  <2>1. Idles(r)
    BY <1>11, OthersIdle DEF Announces, Submits, Processes
  <2>2. ~Running(r)
    BY <1>1, <1>11 DEF AgentsAlone, Submitting
  <2> QED
    BY <2>1, <2>2 DEF Idles
<1> QED
  BY <1>7, <1>9, <1>10, <1>11 DEF Unseen, Submitting

\* What is exposed after a step that enters nothing was exposed before, and so
\* for what works.
LEMMA Shrinks ==
  ASSUME Shape, NoEntry
  PROVE  /\ SymbolsIn(Exposed)' \subseteq SymbolsIn(Exposed)
         /\ SymbolsIn({"working"})' \subseteq SymbolsIn({"working"})
         /\ Cardinality(SymbolsIn(Exposed)') <= Cardinality(SymbolsIn(Exposed))
         /\ Cardinality(SymbolsIn({"working"})') <= Cardinality(SymbolsIn({"working"}))
         /\ Cardinality(SymbolsIn(Exposed)') \in Nat /\ Cardinality(SymbolsIn(Exposed)) \in Nat
         /\ Cardinality(SymbolsIn({"working"})') \in Nat /\ Cardinality(SymbolsIn({"working"})) \in Nat
         /\ \A S : Single(S) => Single(S)'
<1>1. /\ SymbolsIn(Exposed)' \subseteq SymbolsIn(Exposed)
      /\ SymbolsIn({"working"})' \subseteq SymbolsIn({"working"})
  BY DEF SymbolsIn, Cids, NoEntry
<1>2. \A S : Single(S) => Single(S)'
  BY DEF Single, NoEntry
<1>3. SymbolsIn(Exposed) \in SUBSET Symbols /\ SymbolsIn({"working"}) \in SUBSET Symbols
  BY DEF SymbolsIn
<1> QED
  BY <1>1, <1>2, <1>3, Countable

\* At the first read what is unseen is what works.
LEMMA FirstRead ==
  ASSUME Shape, Unseen, UNCHANGED order, NEW r \in Agents, view'[r].held = SymbolsIn(Position)
  PROVE  /\ Cardinality(SymbolsIn(Exposed)' \ view'[r].held) <= MaxPositions
         /\ Single(Symbols \ view[r].held)'
<1>1. SymbolsIn(Exposed)' = SymbolsIn(Exposed)
  BY DEF SymbolsIn
<1>2. SymbolsIn(Exposed) \ SymbolsIn(Position) \subseteq SymbolsIn({"working"})
  BY DEF SymbolsIn
<1>3. /\ Cardinality(SymbolsIn(Exposed) \ SymbolsIn(Position)) <= Cardinality(SymbolsIn({"working"}))
      /\ Cardinality(SymbolsIn(Exposed) \ SymbolsIn(Position)) \in Nat
      /\ Cardinality(SymbolsIn({"working"})) \in Nat
  BY <1>2, Countable DEF SymbolsIn
<1>4. Cardinality(SymbolsIn({"working"})) <= MaxPositions /\ MaxPositions \in Nat
  BY LimitAssumption DEF Unseen, FillsBounded, WorkingBounded
<1>5. ASSUME NEW c \in Cids, c[2] \in Symbols \ SymbolsIn(Position), order[c] \in Exposed
      PROVE  order[c] = "working"
  <2>1. c[1] \in Agents /\ c = <<c[1], c[2]>>
    BY DEF Cids
  <2> QED
    BY <1>5, <2>1 DEF SymbolsIn
<1>6. Single(Symbols \ SymbolsIn(Position))
  BY <1>5 DEF Single, Unseen, OneWorking
<1>7. Single(Symbols \ view[r].held)'
  BY <1>6 DEF Single
<1> QED
  BY <1>1, <1>3, <1>4, <1>7

\* Whatever fills, and wherever, a step keeps what is unseen within its bounds.
LEMMA UnseenStep == ASSUME Shape, Plans, AgentsAlone, Unseen, [Next]_vars PROVE Unseen'
<1> USE LimitAssumption
<1>1. ASSUME \A q \in Agents : ~SubmitAccepted(q) /\ ~SubmitLost(q) PROVE Unseen'
  <2>1. NoEntry
    BY <1>1, NoEntryStep
  <2>2. OneWorking'
    BY <2>1 DEF NoEntry, OneWorking, Unseen
  <2>3. FillsBounded'
    <3>1. \A c, d, e \in Cids :
             c[2] = d[2] /\ d[2] = e[2] /\ {order'[c], order'[d], order'[e]} \subseteq Exposed
                => c = d \/ d = e \/ c = e
      BY <2>1 DEF NoEntry, Unseen, FillsBounded
    <3>2. /\ Cardinality(SymbolsIn({"working"})) <= MaxPositions
          /\ Cardinality(SymbolsIn(Exposed)) <= 2 * MaxPositions
      BY DEF Unseen, FillsBounded, WorkingBounded
    <3>3. /\ Cardinality(SymbolsIn({"working"})') <= MaxPositions
          /\ Cardinality(SymbolsIn(Exposed)') <= 2 * MaxPositions
      BY <2>1, <3>2, Shrinks
    <3> QED
      BY <3>1, <3>3 DEF FillsBounded, WorkingBounded
  <2>4. ASSUME NEW r \in Agents, pc'[r] \in {"orders", "judge"}
        PROVE  /\ Cardinality(SymbolsIn(Exposed)' \ view'[r].held) <= MaxPositions
               /\ Single(Symbols \ view[r].held)'
    <3>1. ASSUME NEW s \in Symbols, ReadPositions(r, s)
          PROVE  UNCHANGED order /\ view'[r].held = SymbolsIn(Position)
      BY <3>1 DEF ReadPositions, Shape
    <3>2. ASSUME pc[r] \in {"orders", "judge"}, view'[r].held = view[r].held
          PROVE  /\ Cardinality(SymbolsIn(Exposed)' \ view'[r].held) <= MaxPositions
                 /\ Single(Symbols \ view[r].held)'
      <4>1. /\ Cardinality(SymbolsIn(Exposed) \ view[r].held) <= MaxPositions
            /\ Single(Symbols \ view[r].held)
        BY <3>2 DEF Unseen
      <4>2. SymbolsIn(Exposed)' \ view[r].held \subseteq SymbolsIn(Exposed) \ view[r].held
        BY <2>1, Shrinks
      <4>3. /\ Cardinality(SymbolsIn(Exposed)' \ view[r].held)
                  <= Cardinality(SymbolsIn(Exposed) \ view[r].held)
            /\ Cardinality(SymbolsIn(Exposed)' \ view[r].held) \in Nat
            /\ Cardinality(SymbolsIn(Exposed) \ view[r].held) \in Nat
        BY <4>2, Countable DEF SymbolsIn
      <4>4. Single(Symbols \ view[r].held)'
        BY <2>1, <3>2, <4>1 DEF Single, NoEntry
      <4> QED
        BY <3>2, <4>1, <4>3, <4>4
    <3>3. ReadOrders(r) => pc[r] = "orders" /\ view'[r].held = view[r].held
      BY DEF ReadOrders, Shape, Views
    <3>4. Idles(r) => pc[r] \in {"orders", "judge"} /\ view'[r].held = view[r].held
      BY <2>4 DEF Idles
    <3> QED
      BY <2>4, <3>1, <3>2, <3>3, <3>4, FirstRead, ReadingStep
  <2>5. ASSUME NEW r \in Agents, pc'[r] = "judge"
        PROVE  SymbolsIn({"working"})' \subseteq view'[r].pending
    <3>1. CASE ReadOrders(r)
      <4>1. UNCHANGED order /\ view'[r].pending = SymbolsIn({"working"})
        BY <3>1 DEF ReadOrders, Shape, Views
      <4> QED
        BY <4>1 DEF SymbolsIn
    <3>2. CASE Idles(r)
      BY <2>1, <2>5, <3>2, Shrinks DEF Idles, Unseen
    <3>3. \A s \in Symbols : ~ReadPositions(r, s)
      BY <2>5 DEF ReadPositions, Shape, Processes
    <3> QED
      BY <2>5, <3>1, <3>2, <3>3, ReadingStep
  <2>6. ASSUME NEW r \in Agents, Submitting(r)'
        PROVE  /\ view'[r].symbol \notin SymbolsIn({"working"})'
               /\ Cardinality(SymbolsIn({"working"})') < MaxPositions
               /\ Cardinality(SymbolsIn(Exposed)') < 2 * MaxPositions
               /\ Single({view[r].symbol})'
    <3>1. SUFFICES /\ view'[r].symbol = view[r].symbol
                   /\ view[r].symbol \notin SymbolsIn({"working"})
                   /\ Cardinality(SymbolsIn({"working"})) < MaxPositions
                   /\ Cardinality(SymbolsIn(Exposed)) < 2 * MaxPositions
                   /\ Single({view[r].symbol})
      <4>1. Single({view[r].symbol}) /\ view'[r].symbol = view[r].symbol => Single({view[r].symbol})'
        BY <2>1 DEF Single, NoEntry
      <4> QED
        BY <2>1, <4>1, Shrinks
    <3>2. CASE Submitting(r) /\ view'[r].symbol = view[r].symbol
      BY <3>2 DEF Unseen
    <3>3. CASE Judge(r)
      <4>1. /\ pc[r] = "judge" /\ view[r].symbol \notin Occupied(r)
            /\ Cardinality(Occupied(r)) < MaxPositions
            /\ view'[r].symbol = view[r].symbol
        BY <3>3 DEF Judge, Allowed, Keep, Shape
      <4>2. /\ view[r].symbol \in Symbols
            /\ view[r].held \subseteq Symbols /\ view[r].pending \subseteq Symbols
        BY <4>1 DEF Plans, AgentPlan, Shape, Views
      <4>3. /\ Cardinality(SymbolsIn(Exposed) \ view[r].held) <= MaxPositions
            /\ Single(Symbols \ view[r].held)
            /\ SymbolsIn({"working"}) \subseteq view[r].pending
        BY <4>1 DEF Unseen
      <4>4. view[r].symbol \notin SymbolsIn({"working"}) /\ view[r].symbol \notin view[r].held
        BY <4>1, <4>3 DEF Occupied
      <4>5. /\ Cardinality(view[r].held) <= Cardinality(Occupied(r))
            /\ Cardinality(SymbolsIn({"working"})) <= Cardinality(Occupied(r))
            /\ Cardinality(view[r].held) \in Nat /\ Cardinality(Occupied(r)) \in Nat
            /\ Cardinality(SymbolsIn({"working"})) \in Nat
        <5>1. /\ Occupied(r) \in SUBSET Symbols /\ view[r].held \in SUBSET Occupied(r)
              /\ SymbolsIn({"working"}) \in SUBSET Occupied(r)
          BY <4>2, <4>3 DEF Occupied
        <5> QED
          BY <5>1, Countable
      <4>6. Cardinality(view[r].held) < MaxPositions /\ Cardinality(SymbolsIn({"working"})) < MaxPositions
        BY <4>1, <4>5
      <4>7. Cardinality(SymbolsIn(Exposed)) < 2 * MaxPositions
        <5>1. SymbolsIn(Exposed) \in SUBSET Symbols /\ MaxPositions \in Nat
          BY DEF SymbolsIn
        <5> QED
          BY <4>2, <4>3, <4>6, <5>1, TwoParts
      <4>8. Single({view[r].symbol})
        BY <4>2, <4>3, <4>4 DEF Single
      <4> QED
        BY <4>1, <4>4, <4>6, <4>7, <4>8
    <3> QED
      BY <2>6, <3>2, <3>3, SubmittingStep
  <2> QED
    BY <2>2, <2>3, <2>4, <2>5, <2>6 DEF Unseen
<1> QED
  BY <1>1, UnseenSubmit

\* At first nothing is at the broker.
LEMMA InitUnseen == Init => Unseen
<1> SUFFICES ASSUME Init PROVE Unseen
  OBVIOUS
<1>1. \A c \in Cids : order[c] = "absent"
  BY DEF Init
<1>2. SymbolsIn(Exposed) = {} /\ SymbolsIn({"working"}) = {}
  <2>1. \A s \in Symbols, r \in Agents : order[<<r, s>>] = "absent"
    BY <1>1 DEF Cids
  <2>2. "absent" \notin Exposed /\ "absent" \notin {"working"}
    OBVIOUS
  <2> HIDE DEF Exposed
  <2> QED
    BY <2>1, <2>2 DEF SymbolsIn
<1>3. FillsBounded
  BY <1>1, <1>2, FS_EmptySet, LimitAssumption DEF FillsBounded, WorkingBounded
<1> QED
  BY <1>1, <1>3 DEF Init, Unseen, OneWorking, Submitting, Processes

\* Whatever fills between two reads, whoever is killed, and beside a flatten
\* run without the lock, entries at work are within max_positions, what is
\* exposed is within twice that, and no symbol is entered three times.
THEOREM Fills == Spec => [](WorkingBounded /\ FillsBounded)
<1>1. Shape /\ AgentsAlone /\ [Next]_vars => AgentsAlone'
  BY AgentsAloneStep
<1>2. Shape /\ Plans /\ AgentsAlone /\ Unseen /\ [Next]_vars => Unseen'
  BY UnseenStep
<1>3. Unseen => WorkingBounded /\ FillsBounded
  BY DEF Unseen, FillsBounded
<1>4. Init => AgentsAlone /\ Unseen
  BY InitRoom, InitUnseen
<1> QED
  BY <1>1, <1>2, <1>3, <1>4, Planning, PTL DEF Spec

----------------------------------------------------------------------------
(* The limit of orders in a day. *)

Intents(lines) == {i \in DOMAIN lines : lines[i].type = "intent"}
Bought == {c \in Cids : order[c] # "absent"}

\* The intents of a journal are counted, and each that is appended is one more.
LEMMA IntentsCount ==
  ASSUME NEW lines \in Seq(JLines), NEW line \in JLines
  PROVE  /\ Cardinality(Intents(lines)) \in Nat
         /\ Cardinality(Intents(Append(lines, line))) =
               Cardinality(Intents(lines)) + (IF line.type = "intent" THEN 1 ELSE 0)
<1>1. IsFiniteSet(Intents(lines)) /\ Cardinality(Intents(lines)) \in Nat
  <2>1. IsFiniteSet(1..Len(lines))
    BY FS_Interval
  <2>2. Intents(lines) \subseteq 1..Len(lines)
    BY DEF Intents
  <2> QED
    BY <2>1, <2>2, FS_Subset, FS_CardinalityType
<1>2. /\ DOMAIN Append(lines, line) = 1..(Len(lines) + 1) /\ DOMAIN lines = 1..Len(lines)
      /\ Len(lines) \in Nat
      /\ \A i \in 1..Len(lines) : Append(lines, line)[i] = lines[i]
      /\ Append(lines, line)[Len(lines) + 1] = line
  OBVIOUS
<1>3. CASE line.type = "intent"
  <2>1. Intents(Append(lines, line)) = Intents(lines) \cup {Len(lines) + 1}
    BY <1>2, <1>3 DEF Intents
  <2>2. Len(lines) + 1 \notin Intents(lines)
    BY <1>2 DEF Intents
  <2>3. Cardinality(Intents(lines) \cup {Len(lines) + 1}) = Cardinality(Intents(lines)) + 1
    BY <1>1, <2>2, FS_AddElement
  <2> QED
    BY <1>1, <1>3, <2>1, <2>3
<1>4. CASE line.type # "intent"
  <2>1. Intents(Append(lines, line)) = Intents(lines)
    BY <1>2, <1>4 DEF Intents
  <2> QED
    BY <1>1, <1>4, <2>1
<1> QED
  BY <1>1, <1>3, <1>4

\* Each entry has an intent of its own, and so has the one on its way.
Daily ==
    /\ IsFiniteSet(Bought)
    /\ Cardinality(Bought) <= OrdersToday /\ Cardinality(Bought) <= MaxPerDay
    /\ \A r \in Agents :
          /\ Submitting(r) => Cardinality(Bought) < MaxPerDay
          /\ pc[r] = "submit" => Cardinality(Bought) < OrdersToday

\* The count of a journal that grows.
LEMMA OrdersTodayGrows ==
  ASSUME Shape, Base, [Next]_vars
  PROVE  /\ OrdersToday \in Nat /\ OrdersToday' \in Nat /\ OrdersToday <= OrdersToday'
         /\ \A p \in Processes :
               JournalPut(p) /\ log[p].line.type = "intent" => OrdersToday' = OrdersToday + 1
<1>1. OrdersToday = Cardinality(Intents(journal)) /\ OrdersToday' = Cardinality(Intents(journal'))
  BY DEF OrdersToday, Intents
<1>2. CASE UNCHANGED journal
  <2>1. ASSUME NEW p \in Processes, JournalPut(p) PROVE FALSE
    <3>1. journal' = Append(journal, log[p].line) /\ journal \in Seq(JLines) /\ log[p].line \in JLines
      BY <2>1 DEF JournalPut, Base, Shape
    <3>2. Len(Append(journal, log[p].line)) = Len(journal) + 1 /\ Len(journal) \in Nat
      BY <3>1
    <3> QED
      BY <1>2, <3>1, <3>2
  <2>2. Remark(Flattener) \in JLines
    BY DEF JLines, Processes
  <2>3. Cardinality(Intents(journal)) \in Nat
    BY <2>2, IntentsCount DEF Shape
  <2> QED
    BY <1>1, <1>2, <2>1, <2>3
<1>3. ASSUME NEW p \in Processes, JournalPut(p)
      PROVE  /\ OrdersToday \in Nat /\ OrdersToday' \in Nat
             /\ OrdersToday' = OrdersToday + (IF log[p].line.type = "intent" THEN 1 ELSE 0)
  <2>1. journal' = Append(journal, log[p].line) /\ journal \in Seq(JLines) /\ log[p].line \in JLines
    BY <1>3 DEF JournalPut, Base, Shape
  <2>2. /\ Cardinality(Intents(journal)) \in Nat
        /\ Cardinality(Intents(journal')) =
              Cardinality(Intents(journal)) + (IF log[p].line.type = "intent" THEN 1 ELSE 0)
    BY <2>1, IntentsCount
  <2> QED
    BY <1>1, <2>2
<1> QED
  BY <1>2, <1>3, JournalGrows

\* A run submits once its intent is written.
LEMMA PutsSubmit ==
  ASSUME Shape, [Next]_vars, NEW r \in Agents, pc'[r] = "submit", pc[r] # "submit"
  PROVE  JournalPut(r)
<1>1. CASE Idles(r)
  BY <1>1 DEF Idles
<1>2. CASE Reads(r)
  BY <1>2 DEF Reads, ReadPositions, ReadOrders, CloseRead, CloseCancel, CallFails, Shape, Processes
<1>3. CASE Announces(r)
  BY <1>3 DEF Announces, Submits, Judge, Reject, SubmitAccepted, SubmitLost, AnswerLost,
     SubmitFailed, CloseIntent, CloseAccepted, CloseLost, CloseFailed, Adjust, Adjusted, AgentEnd, Log,
     Shape, Processes
<1>4. CASE JournalGet(r) \/ AgentStart(r) \/ Leave(r) \/ Kill(r) \/ Abort(r)
  BY <1>4 DEF JournalGet, AgentStart, Leave, Kill, Abort, Log, Shape, Processes
<1> QED
  BY <1>1, <1>2, <1>3, <1>4, AgentMoves

\* A step keeps the count of the day.
LEMMA DailyStep ==
  ASSUME Shape, Plans, Alone, Base, Daily, [Next]_vars PROVE Daily'
<1> USE LimitAssumption
<1>0. /\ OrdersToday \in Nat /\ OrdersToday' \in Nat /\ OrdersToday <= OrdersToday'
      /\ Cardinality(Bought) \in Nat
  BY OrdersTodayGrows, FS_CardinalityType DEF Daily
<1>1. ASSUME NEW q \in Agents, SubmitAccepted(q) \/ SubmitLost(q) PROVE Daily'
  <2>1. /\ pc[q] = "submit" /\ Submitting(q)
        /\ order' = [order EXCEPT ![<<q, view[q].symbol>>] = "working"]
        /\ <<q, view[q].symbol>> \in Cids /\ order \in [Cids -> Statuses]
        /\ UNCHANGED journal
    BY <1>1 DEF Plans, AgentPlan, SubmitAccepted, SubmitLost, Submitting, Cid, Cids, Shape
  <2>2. Bought' = Bought \cup {<<q, view[q].symbol>>}
    BY <2>1 DEF Bought
  <2>3. /\ IsFiniteSet(Bought') /\ Cardinality(Bought') \in Nat
        /\ Cardinality(Bought') <= Cardinality(Bought) + 1
    <3>1. /\ IsFiniteSet(Bought \cup {<<q, view[q].symbol>>})
          /\ \/ Cardinality(Bought \cup {<<q, view[q].symbol>>}) = Cardinality(Bought)
             \/ Cardinality(Bought \cup {<<q, view[q].symbol>>}) = Cardinality(Bought) + 1
      BY FS_AddElement DEF Daily
    <3> QED
      BY <1>0, <2>2, <3>1
  <2>4. Cardinality(Bought) < OrdersToday /\ Cardinality(Bought) < MaxPerDay
    BY <2>1 DEF Daily
  <2>5. Cardinality(Bought') <= OrdersToday' /\ Cardinality(Bought') <= MaxPerDay
    BY <1>0, <2>3, <2>4
  <2>6. ~Submitting(q)'
    BY <1>1 DEF SubmitAccepted, SubmitLost, AnswerLost, Log, Submitting, Shape, Processes
  <2>7. ASSUME NEW r \in Agents, r # q PROVE ~Submitting(r)'
    <3>1. Idles(r)
      BY <1>1, <2>7, OthersIdle DEF Announces, Submits, Processes
    <3>2. ~Running(r)
      BY <2>1, <2>7 DEF Alone, Processes
    <3> QED
      BY <3>1, <3>2 DEF Idles, Submitting
  <2> QED
    BY <2>3, <2>5, <2>6, <2>7 DEF Daily, Submitting
<1>2. ASSUME \A q \in Agents : ~SubmitAccepted(q) /\ ~SubmitLost(q) PROVE Daily'
  <2>1. Bought' = Bought
    BY <1>2, NoEntryStep DEF NoEntry, Bought
  <2>2. /\ IsFiniteSet(Bought')
        /\ Cardinality(Bought') <= OrdersToday' /\ Cardinality(Bought') <= MaxPerDay
    BY <1>0, <2>1 DEF Daily
  <2>3. ASSUME NEW r \in Agents, Submitting(r)' PROVE Cardinality(Bought') < MaxPerDay
    <3>1. CASE Submitting(r)
      BY <2>1, <3>1 DEF Daily
    <3>2. CASE Judge(r)
      BY <1>0, <2>1, <3>2 DEF Judge, Allowed, Daily
    <3> QED
      BY <2>3, <3>1, <3>2, SubmittingStep
  <2>4. ASSUME NEW r \in Agents, pc'[r] = "submit" PROVE Cardinality(Bought') < OrdersToday'
    <3>1. CASE pc[r] = "submit"
      BY <1>0, <2>1, <3>1 DEF Daily
    <3>2. CASE pc[r] # "submit"
      <4>1. JournalPut(r) /\ log[r].line.type = "intent"
        <5>1. JournalPut(r)
          BY <2>4, <3>2, PutsSubmit
        <5>2. log[r].then = "submit" /\ pc[r] = "put"
          BY <2>4, <5>1 DEF JournalPut, Shape, Processes
        <5>3. log[r].line = Line("intent", "buy", r, view[r].symbol)
          BY <5>2 DEF Plans, AgentPlan
        <5> QED
          BY <5>1, <5>3
      <4>2. OrdersToday' = OrdersToday + 1
        BY <4>1, OrdersTodayGrows DEF Processes
      <4> QED
        BY <1>0, <2>1, <4>2 DEF Daily
    <3> QED
      BY <3>1, <3>2
  <2> QED
    BY <2>2, <2>3, <2>4 DEF Daily
<1> QED
  BY <1>1, <1>2

\* At first nothing has been bought.
LEMMA InitDaily == Init => Daily
<1> SUFFICES ASSUME Init PROVE Daily
  OBVIOUS
<1>1. Bought = {} /\ Intents(journal) = {}
  BY DEF Init, Bought, Intents, Cids
<1>2. IsFiniteSet(Bought) /\ Cardinality(Bought) = 0 /\ OrdersToday = 0
  BY <1>1, FS_EmptySet DEF OrdersToday, Intents
<1>3. \A r \in Agents : ~Submitting(r)
  BY DEF Init, Submitting, Processes
<1> QED
  BY <1>2, <1>3, LimitAssumption DEF Daily, Submitting

\* Without overlapping runs the day's entries stay within max_orders_per_day,
\* though answers be lost and runs killed.
THEOREM PerDay == ASSUME ~Overlap PROVE Spec => []DayLimit
<1>1. Shape /\ Alone /\ Base /\ [Next]_vars => Alone' /\ Base'
  BY AloneStep
<1>2. Shape /\ Plans /\ Alone /\ Base /\ Daily /\ [Next]_vars => Daily'
  BY DailyStep
<1>3. Daily => DayLimit
  BY DEF Daily, DayLimit, Bought
<1> QED
  BY <1>1, <1>2, <1>3, InitAlone, InitDaily, Planning, PTL DEF Spec

----------------------------------------------------------------------------
(* All rules in one step. *)

\* What is at the broker, and where the rules see it.
LEMMA RulesRead == Shape => Rules!Occupied = SymbolsIn(Exposed)
<1> SUFFICES ASSUME Shape PROVE Rules!Occupied = SymbolsIn(Exposed)
  OBVIOUS
<1>1. ASSUME NEW s \in SymbolsIn(Exposed)
      PROVE  \E c \in Cids : order[c] \in Exposed /\ c[2] = s
  <2>1. PICK r \in Agents : order[<<r, s>>] \in Exposed
    BY DEF SymbolsIn
  <2>2. <<r, s>> \in Cids /\ <<r, s>>[2] = s
    BY DEF SymbolsIn, Cids
  <2> QED
    BY <2>1, <2>2
<1>2. \A c \in Cids : order[c] \in Exposed => c[2] \in SymbolsIn(Exposed)
  BY DEF SymbolsIn, Cids
<1> QED
  BY <1>1, <1>2 DEF Rules!Occupied

\* The rules count as TradingDay does.
LEMMA RulesCount == \A S : Rules!Cardinality(S) = Cardinality(S)
  BY DEF Rules!Cardinality, Cardinality

\* The entries of a run are as many as its symbols.
LEMMA EntriesOfRun ==
  ASSUME NEW r \in Agents, IsFiniteSet(Entries(r))
  PROVE  /\ Cardinality({c \in Bought : c[1] = r}) \in Nat /\ Cardinality(Entries(r)) \in Nat
         /\ Cardinality({c \in Bought : c[1] = r}) <= Cardinality(Entries(r))
<1> DEFINE Mine == {c \in Bought : c[1] = r}
           f == [s \in Entries(r) |-> <<r, s>>]
<1>1. \A c \in Mine : c[2] \in Entries(r) /\ f[c[2]] = c
  BY DEF Bought, Entries, Cids
<1>2. \A s \in Entries(r) : f[s] \in Mine
  BY DEF Bought, Entries, Cids
<1>3. f \in Surjection(Entries(r), Mine)
  BY <1>1, <1>2 DEF Surjection
<1>4. IsFiniteSet(Mine) /\ Cardinality(Mine) <= Cardinality(Entries(r))
  BY <1>3, FS_Surjection
<1> QED
  BY <1>4, FS_CardinalityType

\* An order that is accepted is an entry the rules allow at that moment.
LEMMA AcceptedEnters ==
  ASSUME Shape, Plans, Counted, Room, Daily, NEW q \in Agents, SubmitAccepted(q)
  PROVE  Rules!Next
<1> DEFINE new == <<q, view[q].symbol>>
<1>1. /\ view[q].symbol \in Symbols /\ Submitting(q) /\ new \in Cids
      /\ order[new] = "absent" /\ order' = [order EXCEPT ![new] = "working"]
      /\ order \in [Cids -> Statuses]
  BY DEF Plans, AgentPlan, SubmitAccepted, Submitting, Cid, Cids, Shape
<1>2. new \notin Bought
  BY <1>1 DEF Bought
<1>3. Cardinality({c \in Bought : c[1] = new[1]}) < MaxPerRun
  <2>1. /\ Cardinality(Entries(q)) <= placed[q] /\ placed[q] < MaxPerRun
        /\ IsFiniteSet(Entries(q))
    BY <1>1 DEF Counted, Limited
  <2>2. placed[q] \in Nat /\ MaxPerRun \in Nat
    BY LimitAssumption DEF Shape
  <2>3. /\ Cardinality({c \in Bought : c[1] = q}) \in Nat /\ Cardinality(Entries(q)) \in Nat
        /\ Cardinality({c \in Bought : c[1] = q}) <= Cardinality(Entries(q))
    BY <2>1, EntriesOfRun
  <2>4. Cardinality({c \in Bought : c[1] = q}) < MaxPerRun
    BY <2>1, <2>2, <2>3
  <2>5. new[1] = q
    OBVIOUS
  <2> QED
    BY <2>4, <2>5
<1>4. Cardinality(Bought) < MaxPerDay
  BY <1>1 DEF Daily
<1>5. new[2] \notin Rules!Occupied /\ Cardinality(Rules!Occupied) < MaxPositions
  BY <1>1, RulesRead DEF Room
<1>6. Bought' = Bought \cup {new}
  BY <1>1 DEF Bought
<1>7. {c \in Cids : order'[c] \in Exposed} = {c \in Cids : order[c] \in Exposed} \cup {new}
  BY <1>1
<1> HIDE DEF new
<1>8. new \in Cids /\ Rules!Enter(new)
  BY <1>1, <1>2, <1>3, <1>4, <1>5, <1>6, <1>7, RulesCount DEF Rules!Enter, Bought
<1> QED
  BY <1>8 DEF Rules!Next, Rules!Enter

\* Any other step settles what there is.
LEMMA OtherSettles ==
  ASSUME ~LostAnswers, Shape, [Next]_vars, \A r \in Agents : ~SubmitAccepted(r)
  PROVE  Rules!Settle
<1>1. NoEntry
  BY NoEntryStep DEF SubmitLost, AnswerLost
<1> QED
  BY <1>1 DEF NoEntry, Rules!Settle

\* With runs that do not overlap, no fill between two reads and no lost answer,
\* each entry is as good as judged and sent in one step.
THEOREM Refines ==
  ASSUME ~Overlap, ~FillsInRead, ~LostAnswers PROVE Spec => RefinesRules
<1>1. Init => Rules!Init
  BY DEF Init, Rules!Init
<1>2. Shape /\ Plans /\ Counted /\ Room /\ Daily /\ [Next]_vars => Rules!Next
  BY AcceptedEnters, OtherSettles DEF Rules!Next
<1>3. Shape /\ Alone /\ Base /\ [Next]_vars => Alone' /\ Base'
  BY AloneStep
<1>4. Shape /\ Plans /\ Alone /\ Base /\ Daily /\ [Next]_vars => Daily'
  BY DailyStep
<1>5. Shape /\ Plans /\ Counted /\ [Next]_vars => Counted'
  BY CountedStep
<1>6. Init => Alone /\ Base /\ Daily /\ Counted
  BY InitAlone, InitDaily, InitCounted
<1>7. Spec => []Room
  BY RoomHolds
<1> QED
  BY <1>1, <1>2, <1>3, <1>4, <1>5, <1>6, <1>7, Planning, PTL DEF Spec, RefinesRules, Rules!Spec

----------------------------------------------------------------------------
(* The flatten run comes to an end. *)

\* The steps the flatten run has before it, its polls counted twice: it comes
\* back to the positions after each.
FlattenLeft ==
    CASE pc[Flattener] = "get" /\ log[Flattener].then = "cancel" -> 2 * polls + 5
      [] pc[Flattener] = "put" /\ log[Flattener].then = "cancel" -> 2 * polls + 4
      [] pc[Flattener] = "cancel" -> 2 * polls + 3
      [] pc[Flattener] = "close"  -> 2 * polls + 2
      [] pc[Flattener] = "poll"   -> 2 * polls + 1
      [] OTHER                    -> 0

FlattenMove == FlattenStep \/ JournalGet(Flattener) \/ JournalPut(Flattener)

\* Nobody lengthens the run, each step of its own shortens it, and one that has
\* begun ends with a verdict unless it is killed or fails on an unexpected error.
FlattenRunsDown ==
    /\ FlattenLeft' <= FlattenLeft \/ FlattenStart
    /\ FlattenLeft > 0 /\ FlattenMove => FlattenLeft' < FlattenLeft
    /\ FlattenLeft > 0 /\ FlattenLeft' = 0 => verdict' # "none" \/ Abort(Flattener) \/ Kill(Flattener)

\* The run moves by its own steps.
LEMMA FlattenerMoves ==
  ASSUME Shape, [Next]_vars
  PROVE  \/ UNCHANGED <<pc[Flattener], log[Flattener], polls>>
         \/ FlattenStart \/ FlattenMove \/ Leave(Flattener) \/ Abort(Flattener) \/ Kill(Flattener)
<1> DEFINE Rests == UNCHANGED <<pc[Flattener], log[Flattener], polls>>
<1>1. ASSUME NEW q \in Agents, AgentStep(q) PROVE Rests
  <2>1. Flattener \in Processes /\ Flattener # q
    BY ProcessAssumption DEF Processes
  <2>2. Idles(Flattener)
    BY <1>1, <2>1, AgentSteps, OthersIdle
  <2>3. UNCHANGED polls
    BY <1>1 DEF AgentStep, ReadPositions, CloseIntent, ReadOrders, Judge, Reject, SubmitAccepted,
        SubmitLost, AnswerLost, SubmitFailed, CloseRead, CloseCancel, CloseAccepted, CloseLost,
        CloseFailed, Adjust, Adjusted, CallFails, AgentEnd
  <2> QED
    BY <2>2, <2>3 DEF Idles
<1>2. ASSUME NEW q \in Processes, q # Flattener,
             \/ JournalGet(q) \/ JournalPut(q) \/ Leave(q) \/ Kill(q) \/ Abort(q)
      PROVE  Rests
  BY <1>2 DEF JournalGet, JournalPut, Leave, Kill, Abort, Log, local, Shape, Processes
<1>3. ASSUME NEW q \in Agents, AgentStart(q) PROVE Rests
  BY <1>3, ProcessAssumption DEF AgentStart, local, Shape, Processes
<1>4. ASSUME \/ \E c \in Cids : Fill(c) \/ EntryDies(c) \/ Exit(c) \/ Liquidated(c)
             \/ LastEntryTime \/ UNCHANGED vars
      PROVE  Rests
  BY <1>4 DEF Fill, EntryDies, Exit, Liquidated, BrokerMoves, LastEntryTime, vars, local
<1> QED
  BY <1>1, <1>2, <1>3, <1>4 DEF Next, FlattenMove

\* What a step of the flatten run leaves of it.
LEMMA FlattenShortens ==
  ASSUME Shape, Plans, FlattenMove, FlattenLeft > 0
  PROVE  /\ FlattenLeft' < FlattenLeft
         /\ FlattenLeft' = 0 => verdict' # "none"
<1> USE DEF FlattenLeft
<1>0. polls \in Nat /\ Flattener \in Processes
  BY LimitAssumption DEF Shape, Processes
<1>1. CASE JournalGet(Flattener)
  <2>1. /\ pc[Flattener] = "get" /\ pc'[Flattener] = "put" /\ polls' = polls
        /\ log'[Flattener].then = log[Flattener].then
    BY <1>0, <1>1 DEF JournalGet, Shape
  <2> QED
    BY <1>0, <2>1
<1>2. CASE JournalPut(Flattener)
  <2>1. pc[Flattener] = "put" /\ pc'[Flattener] = log[Flattener].then /\ polls' = polls
    BY <1>0, <1>2 DEF JournalPut, Shape
  <2> QED
    BY <1>0, <2>1
<1>3. CASE FlattenCancel \/ FlattenClose
  <2>1. /\ polls' = polls
        /\ \/ pc[Flattener] = "cancel" /\ pc'[Flattener] = "close"
           \/ pc[Flattener] = "close" /\ pc'[Flattener] = "poll"
    BY <1>0, <1>3 DEF FlattenCancel, FlattenClose, local, Shape
  <2> QED
    BY <1>0, <2>1
<1>4. CASE FlattenSeesPositions
  <2>1. /\ pc[Flattener] = "poll" /\ pc'[Flattener] = "close"
        /\ polls > 0 /\ polls' = polls - 1
    BY <1>0, <1>4 DEF FlattenSeesPositions, Shape
  <2> QED
    BY <1>0, <2>1
<1>5. CASE FlattenSeesNone \/ FlattenGivesUp \/ FlattenFails
  <2>1. /\ pc'[Flattener] = "get" /\ log'[Flattener].then = "leave" /\ verdict' # "none"
        /\ pc[Flattener] \in {"cancel", "close", "poll"}
    BY <1>0, <1>5 DEF FlattenSeesNone, FlattenGivesUp, FlattenFails, FlattenEnds, Log, Shape
  <2>2. FlattenLeft' = 0
    BY <2>1
  <2> QED
    BY <2>1, <2>2
<1> QED
  BY <1>1, <1>2, <1>3, <1>4, <1>5 DEF FlattenMove, FlattenStep

\* Where the flatten run takes its steps.
LEMMA FlattenAt == FlattenStep => pc[Flattener] \in {"cancel", "close", "poll"}
<1>1. FlattenCancel => pc[Flattener] = "cancel"
  BY DEF FlattenCancel
<1>2. FlattenClose => pc[Flattener] = "close"
  BY DEF FlattenClose
<1>3. FlattenSeesPositions \/ FlattenSeesNone \/ FlattenGivesUp => pc[Flattener] = "poll"
  BY DEF FlattenSeesPositions, FlattenSeesNone, FlattenGivesUp
<1>4. FlattenFails => pc[Flattener] \in {"cancel", "close", "poll"}
  BY DEF FlattenFails
<1> QED
  BY <1>1, <1>2, <1>3, <1>4 DEF FlattenStep

\* One that ends or is ended has no step left.
LEMMA FlattenOver ==
  ASSUME Shape, Plans, FlattenLeft = 0, FlattenMove PROVE FlattenLeft' = 0
<1>0. polls \in Nat
  BY LimitAssumption DEF Shape
<1>1. pc[Flattener] \in {"get", "put"} /\ log[Flattener].then = "leave"
  <2>1. pc[Flattener] \notin {"cancel", "close", "poll"}
    BY <1>0 DEF FlattenLeft
  <2>2. pc[Flattener] \in {"get", "put"}
    <3>1. JournalGet(Flattener) \/ JournalPut(Flattener)
      BY <2>1, FlattenAt DEF FlattenMove
    <3> QED
      BY <3>1 DEF JournalGet, JournalPut
  <2>3. log[Flattener].then # "cancel"
    BY <1>0, <2>2 DEF FlattenLeft
  <2> QED
    BY <2>2, <2>3 DEF Plans, FlattenPlan
<1>2. JournalGet(Flattener) \/ JournalPut(Flattener)
  BY <1>1, FlattenAt DEF FlattenMove
<1>3. \/ pc'[Flattener] = "put" /\ log'[Flattener].then = "leave"
      \/ pc'[Flattener] = "leave"
  BY <1>1, <1>2 DEF JournalGet, JournalPut, Shape, Processes
<1> QED
  BY <1>3 DEF FlattenLeft

\* A step moves the flatten run by one of its own, or takes it away.
LEMMA FlattenRuns == ASSUME Shape, Plans, [Next]_vars PROVE FlattenRunsDown
<1>0. polls \in Nat /\ polls' \in Nat /\ Flattener \in Processes
  <2>1. Shape'
    BY ShapeStep
  <2> QED
    BY <2>1, LimitAssumption DEF Shape, Processes
<1>1. FlattenLeft \in Nat /\ FlattenLeft' \in Nat
  BY <1>0 DEF FlattenLeft
<1>2. CASE FlattenMove
  <2>1. CASE FlattenLeft > 0
    <3>1. FlattenLeft' < FlattenLeft /\ (FlattenLeft' = 0 => verdict' # "none")
      BY <1>2, <2>1, FlattenShortens
    <3>2. FlattenLeft' <= FlattenLeft
      BY <1>1, <3>1
    <3> QED
      BY <3>1, <3>2 DEF FlattenRunsDown
  <2>2. CASE FlattenLeft = 0
    <3>1. FlattenLeft' = 0
      BY <1>2, <2>2, FlattenOver
    <3> QED
      BY <2>2, <3>1 DEF FlattenRunsDown
  <2> QED
    BY <1>1, <2>1, <2>2
<1>3. CASE ~FlattenMove /\ UNCHANGED <<pc[Flattener], log[Flattener], polls>>
  <2>1. FlattenLeft' = FlattenLeft
    BY <1>3 DEF FlattenLeft
  <2> QED
    BY <1>1, <1>3, <2>1 DEF FlattenRunsDown
<1>4. CASE ~FlattenMove /\ (Leave(Flattener) \/ Abort(Flattener) \/ Kill(Flattener))
  <2>1. \/ pc'[Flattener] \in {"leave", "done", "dead"}
        \/ pc'[Flattener] = "get" /\ log'[Flattener].then = "leave"
    BY <1>0, <1>4 DEF Leave, Abort, Kill, Log, Shape
  <2>2. FlattenLeft' = 0
    BY <2>1 DEF FlattenLeft
  <2>3. Leave(Flattener) => ~(FlattenLeft > 0)
    BY DEF Leave, FlattenLeft
  <2> QED
    BY <1>1, <1>4, <2>2, <2>3 DEF FlattenRunsDown
<1>5. CASE FlattenStart /\ ~FlattenMove
  <2>1. ~(FlattenLeft > 0)
    BY <1>5 DEF FlattenStart, FlattenLeft
  <2> QED
    BY <1>5, <2>1 DEF FlattenRunsDown
<1> QED
  BY <1>2, <1>3, <1>4, <1>5, FlattenerMoves

\* The flatten run decides after at most five calls and two for each of its
\* polls, whatever the broker, the other runs and the journal do; that it is
\* given the steps is the fairness of FairSpec.
THEOREM Countdown == Spec => [][FlattenRunsDown]_vars
  BY FlattenRuns, Planning, PTL DEF Spec

----------------------------------------------------------------------------
(* What the journal tells. *)

\* The symbols whose buy has its result on the journal, or on its way there.
Confirmed(r) ==
    {s \in Symbols : \/ Told(Line("result", "buy", r, s))
                     \/ Appending(r) /\ log[r].line = Line("result", "buy", r, s)}

\* Each of them was counted, and no run tells of another's buys.
Confirming ==
    /\ Limited
    /\ \A r \in Agents : Cardinality(Confirmed(r)) <= placed[r]
    /\ \A p \in Processes :
          Appending(p) /\ log[p].line.type = "result" /\ log[p].line.act = "buy"
             => log[p].line.run = p

\* Who announces the result of a buy has had its order accepted.
LEMMA ConfirmsStep ==
  ASSUME Shape, Plans, [Next]_vars, NEW p \in Processes,
         Appending(p)', log'[p].line.type = "result", log'[p].line.act = "buy"
  PROVE  \/ Appending(p) /\ log'[p].line = log[p].line
         \/ /\ p \in Agents /\ SubmitAccepted(p)
            /\ log'[p].line = Line("result", "buy", p, view[p].symbol)
<1>0. ASSUME Idles(p) \/ JournalGet(p) PROVE Appending(p) /\ log'[p].line = log[p].line
  BY <1>0 DEF Idles, JournalGet, Shape
<1>1. CASE JournalPut(p) \/ Leave(p) \/ Kill(p)
  BY <1>1 DEF JournalPut, Leave, Kill, Shape
<1>2. CASE Abort(p)
  BY <1>2 DEF Abort, Log, Shape
<1>3. CASE p \in Agents
  <2>1. CASE Reads(p) \/ AgentStart(p)
    BY <1>3, <2>1 DEF Reads, ReadPositions, ReadOrders, CloseRead, CloseCancel, CallFails,
       AgentStart, Shape
  <2>2. CASE SubmitAccepted(p)
    BY <1>3, <2>2 DEF SubmitAccepted, Log, Shape
  <2>3. CASE Announces(p) /\ ~SubmitAccepted(p)
    <3>1. \/ pc'[p] = "think"
          \/ /\ pc'[p] = "get"
             /\ log'[p].line.type # "result" \/ log'[p].line.act # "buy"
      BY <1>3, <2>3 DEF Announces, Submits, Judge, Reject, SubmitLost, AnswerLost, SubmitFailed,
         CloseIntent, CloseAccepted, CloseLost, CloseFailed, Adjust, Adjusted, AgentEnd, Log, Shape
    <3> QED
      BY <3>1
  <2> QED
    BY <1>0, <1>1, <1>2, <1>3, <2>1, <2>2, <2>3, AgentMoves
<1>4. CASE p = Flattener
  <2>1. CASE FlattenStart \/ FlattenStep
    BY <1>4, <2>1 DEF FlattenStart, FlattenStep, FlattenCancel, FlattenClose, FlattenSeesPositions,
       FlattenSeesNone, FlattenGivesUp, FlattenFails, FlattenEnds, Log, Shape
  <2> QED
    BY <1>0, <1>1, <1>2, <1>4, <2>1, FlattenMoves DEF Flattens
<1> QED
  BY <1>3, <1>4 DEF Processes

\* A step confirms no more than it counts.
LEMMA ConfirmingStep ==
  ASSUME Shape, Plans, Base, Confirming, [Next]_vars PROVE Confirming'
<1>1. Limited'
  BY LimitedStep DEF Confirming
<1>2. ASSUME NEW p \in Processes,
             Appending(p)', log'[p].line.type = "result", log'[p].line.act = "buy"
      PROVE  log'[p].line.run = p
  <2>1. CASE Appending(p) /\ log'[p].line = log[p].line
    BY <1>2, <2>1 DEF Confirming
  <2>2. CASE log'[p].line = Line("result", "buy", p, view[p].symbol)
    BY <2>2
  <2> QED
    BY <1>2, <2>1, <2>2, ConfirmsStep
<1>3. ASSUME NEW r \in Agents, NEW s \in Symbols, s \in Confirmed(r)', s \notin Confirmed(r)
      PROVE  SubmitAccepted(r) /\ s = view[r].symbol
  <2>1. ~Told(Line("result", "buy", r, s))'
    <3> SUFFICES ASSUME Told(Line("result", "buy", r, s))' PROVE FALSE
      OBVIOUS
    <3>1. ~Told(Line("result", "buy", r, s))
      BY <1>3 DEF Confirmed
    <3>2. PICK p \in Processes : JournalPut(p) /\ log[p].line = Line("result", "buy", r, s)
      BY <3>1, JournalGrows DEF Told
    <3>3. Appending(p) /\ p = r
      BY <3>2 DEF JournalPut, Confirming
    <3> QED
      BY <1>3, <3>2, <3>3 DEF Confirmed
  <2>2. Appending(r)' /\ log'[r].line = Line("result", "buy", r, s)
    BY <1>3, <2>1 DEF Confirmed
  <2>3. ~(Appending(r) /\ log'[r].line = log[r].line)
    BY <1>3, <2>2 DEF Confirmed
  <2>4. SubmitAccepted(r) /\ log'[r].line = Line("result", "buy", r, view[r].symbol)
    BY <2>2, <2>3, ConfirmsStep DEF Processes
  <2> QED
    BY <2>2, <2>4
<1>4. ASSUME NEW r \in Agents PROVE Cardinality(Confirmed(r)') <= placed'[r]
  <2>1. /\ Confirmed(r) \in SUBSET Symbols /\ Confirmed(r)' \in SUBSET Symbols
        /\ placed[r] \in Nat
    BY DEF Confirmed, Shape
  <2>2. /\ IsFiniteSet(Confirmed(r)) /\ Cardinality(Confirmed(r)) \in Nat
        /\ Cardinality(Confirmed(r)') \in Nat
    BY <2>1, Countable
  <2>3. Cardinality(Confirmed(r)) <= placed[r]
    BY DEF Confirming
  <2>4. CASE SubmitAccepted(r)
    <3>1. view[r].symbol \in Symbols
      BY <2>4 DEF SubmitAccepted, Plans, AgentPlan, Submitting
    <3>2. Confirmed(r)' \in SUBSET (Confirmed(r) \cup {view[r].symbol})
      BY <1>3, <2>1
    <3>3. Confirmed(r) \cup {view[r].symbol} \in SUBSET Symbols
      BY <2>1, <3>1
    <3>4. /\ Cardinality(Confirmed(r)') <= Cardinality(Confirmed(r) \cup {view[r].symbol})
          /\ Cardinality(Confirmed(r) \cup {view[r].symbol}) \in Nat
      BY <3>2, <3>3, Countable
    <3>5. \/ Cardinality(Confirmed(r) \cup {view[r].symbol}) = Cardinality(Confirmed(r))
          \/ Cardinality(Confirmed(r) \cup {view[r].symbol}) = Cardinality(Confirmed(r)) + 1
      BY <2>2, FS_AddElement
    <3>6. placed'[r] = placed[r] + 1
      BY <2>4, PlacedStep
    <3> QED
      BY <2>1, <2>2, <2>3, <3>4, <3>5, <3>6
  <2>5. CASE ~SubmitAccepted(r)
    <3>1. Confirmed(r)' \in SUBSET Confirmed(r)
      BY <1>3, <2>1, <2>5
    <3>2. Cardinality(Confirmed(r)') <= Cardinality(Confirmed(r))
      BY <2>1, <3>1, Countable
    <3>3. placed'[r] = placed[r]
      BY <2>5, PlacedStep
    <3> QED
      BY <2>1, <2>2, <2>3, <3>2, <3>3
  <2> QED
    BY <2>4, <2>5
<1> QED
  BY <1>1, <1>2, <1>4 DEF Confirming

\* What a run entered is confirmed or can be told from the journal.
LEMMA EntriesTold ==
  ASSUME Shape, Recorded, Confirming, NEW r \in Agents
  PROVE  Cardinality(Entries(r)) <= MaxPerRun + Cardinality(Unresolved(r))
<1>1. /\ Confirmed(r) \in SUBSET Symbols /\ Unresolved(r) \in SUBSET Symbols
      /\ Confirmed(r) \cup Unresolved(r) \in SUBSET Symbols
  BY DEF Confirmed, Unresolved
<1>2. ASSUME NEW s \in Entries(r) PROVE s \in Confirmed(r) \cup Unresolved(r)
  <2>1. <<r, s>> \in Cids /\ order[<<r, s>>] # "absent" /\ s \in Symbols
    BY DEF Entries, Cids
  <2>2. Told(Line("intent", "buy", r, s))
    BY <2>1 DEF Recorded
  <2> QED
    BY <2>1, <2>2 DEF Confirmed, Unresolved, Told
<1>3. Entries(r) \in SUBSET (Confirmed(r) \cup Unresolved(r))
  BY <1>2
<1>4. /\ IsFiniteSet(Confirmed(r)) /\ IsFiniteSet(Unresolved(r))
      /\ Cardinality(Confirmed(r)) \in Nat /\ Cardinality(Unresolved(r)) \in Nat
  BY <1>1, Countable
<1>5. /\ Cardinality(Entries(r)) <= Cardinality(Confirmed(r) \cup Unresolved(r))
      /\ Cardinality(Entries(r)) \in Nat /\ Cardinality(Confirmed(r) \cup Unresolved(r)) \in Nat
  BY <1>1, <1>3, Countable
<1>6. Cardinality(Confirmed(r) \cup Unresolved(r)) <= Cardinality(Confirmed(r)) + Cardinality(Unresolved(r))
  <2>1. Cardinality(Confirmed(r) \cap Unresolved(r)) \in Nat
    BY <1>1, Countable
  <2>2. Cardinality(Confirmed(r) \cup Unresolved(r)) =
           Cardinality(Confirmed(r)) + Cardinality(Unresolved(r))
              - Cardinality(Confirmed(r) \cap Unresolved(r))
    BY <1>4, FS_Union
  <2> QED
    BY <1>4, <1>5, <2>1, <2>2
<1>7. Cardinality(Confirmed(r)) <= placed[r] /\ placed[r] <= MaxPerRun
  BY DEF Confirming, Limited
<1>8. placed[r] \in Nat /\ MaxPerRun \in Nat
  BY LimitAssumption DEF Shape
<1> QED
  BY <1>4, <1>5, <1>6, <1>7, <1>8

\* Without overlapping runs a run that places more than max_orders_per_run,
\* its answers lost or unreadable, leaves each order of the excess on the
\* journal: announced, and no result.
THEOREM Excess == ASSUME ~Overlap PROVE Spec => []ExcessIsUnresolved
<1>1. Shape /\ Alone /\ Base /\ [Next]_vars => Alone' /\ Base'
  BY AloneStep
<1>2. Shape /\ Plans /\ Base /\ Announced /\ Recorded /\ [Next]_vars => Announced' /\ Recorded'
  BY AnnouncedStep, RecordedStep
<1>3. Shape /\ Plans /\ Base /\ Confirming /\ [Next]_vars => Confirming'
  BY ConfirmingStep
<1>4. Init => Confirming
  <2> SUFFICES ASSUME Init PROVE Confirming
    OBVIOUS
  <2>1. Limited
    BY InitCounted DEF Counted
  <2>2. \A r \in Agents : Confirmed(r) = {} /\ placed[r] = 0
    BY DEF Init, Confirmed, Told, ToSet, Processes
  <2>3. \A p \in Processes : ~Appending(p)
    BY DEF Init
  <2> QED
    BY <2>1, <2>2, <2>3, FS_EmptySet DEF Confirming
<1>5. Shape /\ Recorded /\ Confirming => ExcessIsUnresolved
  BY EntriesTold DEF ExcessIsUnresolved
<1> QED
  BY <1>1, <1>2, <1>3, <1>4, <1>5, InitAlone, InitRecorded, Planning, PTL DEF Spec

\* An attempt stays unfinished until its result is appended, and begins with
\* its intent.
LEMMA UnfinishedStays ==
  ASSUME Shape, NEW line \in JLines, journal' = Append(journal, line), NEW act, NEW symbol,
         \/ /\ Unfinished(act, symbol)
            /\ ~(line.type = "result" /\ line.act = act /\ line.symbol = symbol)
         \/ line.type = "intent" /\ line.act = act /\ line.symbol = symbol
  PROVE  Unfinished(act, symbol)'
<1>1. /\ Len(journal) \in Nat /\ Len(journal') = Len(journal) + 1
      /\ DOMAIN journal = 1..Len(journal) /\ DOMAIN journal' = 1..(Len(journal) + 1)
      /\ \A i \in 1..Len(journal) : journal'[i] = journal[i]
      /\ journal'[Len(journal) + 1] = line
  BY DEF Shape
<1>2. CASE line.type = "intent" /\ line.act = act /\ line.symbol = symbol
  <2>1. \A j \in (Len(journal) + 1)..Len(journal') : journal'[j] = line
    BY <1>1
  <2>2. line.type # "result"
    BY <1>2
  <2> QED
    BY <1>1, <1>2, <2>1, <2>2 DEF Unfinished
<1>3. CASE /\ Unfinished(act, symbol)
           /\ ~(line.type = "result" /\ line.act = act /\ line.symbol = symbol)
  <2>1. PICK i \in DOMAIN journal :
           /\ journal[i].type = "intent" /\ journal[i].act = act /\ journal[i].symbol = symbol
           /\ \A j \in i..Len(journal) :
                 ~(journal[j].type = "result" /\ journal[j].act = act /\ journal[j].symbol = symbol)
    BY <1>3 DEF Unfinished
  <2>2. i \in DOMAIN journal' /\ journal'[i] = journal[i]
    BY <1>1
  <2>3. \A j \in i..Len(journal') : j \in i..Len(journal) \/ j = Len(journal) + 1
    BY <1>1
  <2>4. \A j \in i..Len(journal) : journal'[j] = journal[j]
    BY <1>1
  <2>5. \A j \in i..Len(journal') :
           ~(journal'[j].type = "result" /\ journal'[j].act = act /\ journal'[j].symbol = symbol)
    BY <1>1, <1>3, <2>1, <2>3, <2>4
  <2> QED
    BY <2>1, <2>2, <2>5 DEF Unfinished
<1> QED
  BY <1>2, <1>3

Bare(c) == order[c] = "bare"

\* Whoever may strip a position of its stop has begun an attempt to close it,
\* and whoever records one as done has left none behind.
Attempting ==
    /\ \A r \in Agents : pc[r] \in {"close", "cancel"} => Unfinished("close", view[r].symbol)
    /\ pc[Flattener] \in {"cancel", "close", "poll"} => Unfinished("flatten", None)

Closing ==
    \A p \in Processes : Appending(p) /\ log[p].line.type = "result" =>
       /\ log[p].line.act = "close" => \A c \in Cids : c[2] = log[p].line.symbol => ~Bare(c)
       /\ log[p].line.act = "flatten" => \A c \in Cids : ~Bare(c)

\* Who strips a position of its stop.
LEMMA Strips ==
  ASSUME Shape, Plans, [Next]_vars, NEW c \in Cids, Bare(c)', ~Bare(c)
  PROVE  \/ FlattenCancel \/ FlattenClose
         \/ \E r \in Agents : CloseCancel(r) /\ view[r].symbol = c[2]
<1> USE DEF Bare
<1>1. CASE UNCHANGED order
  BY <1>1
<1>2. ASSUME NEW r \in Agents, CloseCancel(r) PROVE view[r].symbol = c[2]
  <2>1. PICK todo \in view[r].todo :
           order' = order \/ order' = [order EXCEPT ![todo[1]] = Cancelled(@)]
    BY <1>2 DEF CloseCancel
  <2>2. todo[1][2] = view[r].symbol
    BY <1>2 DEF CloseCancel, Plans, AgentPlan
  <2>3. c = todo[1]
    BY <2>1 DEF Shape
  <2> QED
    BY <2>2, <2>3
<1>3. ASSUME NEW r \in Agents, SubmitAccepted(r) \/ SubmitLost(r) \/ Liquidate(r) PROVE FALSE
  BY <1>3 DEF SubmitAccepted, SubmitLost, Liquidate, Shape
<1>4. ASSUME NEW d \in Cids, Fill(d) \/ EntryDies(d) \/ Exit(d) \/ Liquidated(d) PROVE FALSE
  BY <1>4 DEF Fill, EntryDies, Exit, Liquidated, BrokerMoves, Shape
<1>5. ASSUME NEW r \in Agents, AgentStep(r) PROVE CloseCancel(r)
  BY <1>1, <1>3, <1>5
  DEF AgentStep, ReadPositions, CloseIntent, ReadOrders, Judge, Reject, SubmitFailed, CloseRead,
      CloseAccepted, CloseLost, CloseFailed, Adjust, Adjusted, CallFails, AgentEnd
<1>6. FlattenStart \/ FlattenStep => FlattenCancel \/ FlattenClose
  BY <1>1 DEF FlattenStart, FlattenStep, FlattenSeesPositions, FlattenSeesNone,
      FlattenGivesUp, FlattenFails, FlattenEnds
<1>7. ASSUME NEW p \in Processes,
             \/ JournalGet(p) \/ JournalPut(p) \/ Leave(p) \/ Abort(p) \/ Kill(p) \/ AgentStart(p)
             \/ LastEntryTime \/ UNCHANGED vars
      PROVE  FALSE
  BY <1>1, <1>7 DEF JournalGet, JournalPut, Leave, Abort, Kill, AgentStart, LastEntryTime, vars
<1> QED
  BY <1>2, <1>4, <1>5, <1>6, <1>7 DEF Next, Processes

\* Who is about to append a result of an attempt to close.
LEMMA ClosesStep ==
  ASSUME Shape, Plans, [Next]_vars, NEW p \in Processes,
         Appending(p)', log'[p].line.type = "result", log'[p].line.act \in {"close", "flatten"}
  PROVE  \/ Appending(p) /\ log'[p].line = log[p].line
         \/ /\ p \in Agents /\ CloseAccepted(p)
            /\ log'[p].line = Line("result", "close", p, view[p].symbol)
         \/ p = Flattener /\ FlattenSeesNone
<1>0. ASSUME Idles(p) \/ JournalGet(p) PROVE Appending(p) /\ log'[p].line = log[p].line
  BY <1>0 DEF Idles, JournalGet, Shape
<1>1. CASE JournalPut(p) \/ Leave(p) \/ Kill(p)
  BY <1>1 DEF JournalPut, Leave, Kill, Shape
<1>2. CASE Abort(p)
  BY <1>2 DEF Abort, Log, Shape
<1>3. CASE p \in Agents
  <2>1. CASE Reads(p) \/ AgentStart(p)
    BY <1>3, <2>1 DEF Reads, ReadPositions, ReadOrders, CloseRead, CloseCancel, CallFails,
       AgentStart, Shape
  <2>2. CASE CloseAccepted(p)
    BY <1>3, <2>2 DEF CloseAccepted, Log, Shape
  <2>3. CASE Announces(p) /\ ~CloseAccepted(p)
    <3>1. \/ pc'[p] = "think"
          \/ /\ pc'[p] = "get"
             /\ log'[p].line.type # "result" \/ log'[p].line.act \notin {"close", "flatten"}
      BY <1>3, <2>3 DEF Announces, Submits, Judge, Reject, SubmitAccepted, SubmitLost, AnswerLost,
         SubmitFailed, CloseIntent, CloseLost, CloseFailed, Adjust, Adjusted, AgentEnd, Log, Shape
    <3> QED
      BY <3>1
  <2> QED
    BY <1>0, <1>1, <1>2, <1>3, <2>1, <2>2, <2>3, AgentMoves
<1>4. CASE p = Flattener
  <2>1. CASE FlattenStart \/ FlattenCancel \/ FlattenClose \/ FlattenSeesPositions
             \/ FlattenGivesUp \/ FlattenFails
    BY <1>4, <2>1 DEF FlattenStart, FlattenCancel, FlattenClose, FlattenSeesPositions,
       FlattenGivesUp, FlattenFails, FlattenEnds, Log, Shape
  <2> QED
    BY <1>0, <1>1, <1>2, <1>4, <2>1, FlattenMoves DEF Flattens, FlattenStep
<1> QED
  BY <1>3, <1>4 DEF Processes

\* A step records as done no attempt that left a position bare.
LEMMA ClosingStep == ASSUME Shape, Plans, Alone, Closing, [Next]_vars PROVE Closing'
<1> SUFFICES ASSUME NEW p \in Processes, Appending(p)', log'[p].line.type = "result",
                    log'[p].line.act \in {"close", "flatten"}, NEW c \in Cids, Bare(c)'
             PROVE  log'[p].line.act = "close" /\ c[2] # log'[p].line.symbol
  BY DEF Closing
<1>1. CASE Appending(p) /\ log'[p].line = log[p].line
  <2>1. CASE Bare(c)
    BY <1>1, <2>1 DEF Closing
  <2>2. CASE ~Bare(c)
    <3>1. PICK q \in Processes : Running(q) /\ ~Appending(q)
      <4>1. FlattenCancel \/ FlattenClose => Running(Flattener) /\ ~Appending(Flattener)
        BY DEF FlattenCancel, FlattenClose
      <4>2. \A r \in Agents : CloseCancel(r) => Running(r) /\ ~Appending(r)
        BY DEF CloseCancel
      <4> QED
        BY <2>2, <4>1, <4>2, Strips DEF Processes
    <3>2. inside = {q} /\ inside = {p} /\ p # q
      BY <1>1, <3>1 DEF Alone
    <3> QED
      BY <3>2
  <2> QED
    BY <2>1, <2>2
<1>2. CASE /\ p \in Agents /\ CloseAccepted(p)
           /\ log'[p].line = Line("result", "close", p, view[p].symbol)
  <2>1. Liquidate(p)
    BY <1>2 DEF CloseAccepted
  <2>2. c[2] # view[p].symbol
    BY <2>1 DEF Liquidate, Bare
  <2> QED
    BY <1>2, <2>2
<1>3. CASE FlattenSeesNone
  <2>1. UNCHANGED order /\ ~Bare(c)
    BY <1>3 DEF FlattenSeesNone, FlattenEnds, SymbolsIn, Cids, Bare
  <2> QED
    BY <2>1 DEF Bare
<1> QED
  BY <1>1, <1>2, <1>3, ClosesStep

\* A step of one that is alone, and not appending, leaves the journal.
LEMMA Undisturbed ==
  ASSUME Shape, Alone, Base, [Next]_vars, NEW p \in Processes, Running(p), ~Appending(p)
  PROVE  UNCHANGED journal
<1>1. ASSUME NEW q \in Processes, JournalPut(q) PROVE FALSE
  <2>1. Appending(q) /\ Running(q)
    BY <1>1 DEF JournalPut
  <2>2. inside = {q} /\ inside = {p} /\ p # q
    BY <2>1 DEF Alone
  <2> QED
    BY <2>2
<1> QED
  BY <1>1, JournalGrows

\* Who is at work on a position has gone on from the last step or has just
\* announced it.
LEMMA AttemptingStep ==
  ASSUME Shape, Plans, Alone, Base, Attempting, [Next]_vars PROVE Attempting'
<1>0. ASSUME NEW p \in Processes, JournalPut(p)
      PROVE  journal' = Append(journal, log[p].line) /\ log[p].line \in JLines
  BY <1>0 DEF JournalPut, Base, Shape
<1>1. ASSUME NEW r \in Agents, pc'[r] \in {"close", "cancel"}
      PROVE  Unfinished("close", view[r].symbol)'
  <2>1. CASE JournalPut(r)
    <3>1. /\ pc[r] = "put" /\ log[r].then = "close" /\ UNCHANGED view
      BY <1>1, <2>1 DEF JournalPut, Shape, Plans, AgentPlan, Processes
    <3>2. log[r].line = Line("intent", "close", r, view[r].symbol)
      BY <3>1 DEF Plans, AgentPlan
    <3>3. Unfinished("close", view[r].symbol)'
      <4>1. ASSUME NEW s, s = view[r].symbol PROVE Unfinished("close", s)'
        BY <1>0, <2>1, <3>2, <4>1, UnfinishedStays DEF Processes
      <4>2. view'[r].symbol = view[r].symbol
        BY <3>1
      <4> QED
        BY <4>1, <4>2 DEF Unfinished
    <3> QED
      BY <3>3
  <2>2. CASE ~JournalPut(r)
    <3>1. pc[r] \in {"close", "cancel"} /\ view'[r].symbol = view[r].symbol
      <4>1. CASE Idles(r)
        BY <1>1, <4>1 DEF Idles
      <4>2. CASE CloseRead(r) \/ CloseCancel(r)
        BY <4>2 DEF CloseRead, CloseCancel, Shape, Views
      <4>3. CASE Announces(r) \/ (Reads(r) /\ ~CloseRead(r) /\ ~CloseCancel(r))
        <5>1. pc'[r] \in {"orders", "judge", "think", "get"}
          BY <4>3 DEF Reads, Announces, Submits, ReadPositions, CloseIntent, ReadOrders, Judge,
             Reject, SubmitAccepted, SubmitLost, AnswerLost, SubmitFailed, CloseAccepted, CloseLost,
             CloseFailed, Adjust, Adjusted, CallFails, AgentEnd, Log, Shape, Processes
        <5> QED
          BY <1>1, <5>1
      <4>4. CASE JournalGet(r) \/ AgentStart(r) \/ Leave(r) \/ Kill(r) \/ Abort(r)
        BY <1>1, <4>4 DEF JournalGet, AgentStart, Leave, Kill, Abort, Log, Shape, Processes
      <4> QED
        BY <2>2, <4>1, <4>2, <4>3, <4>4, AgentMoves
    <3>2. UNCHANGED journal
      BY <3>1, Undisturbed DEF Processes
    <3> QED
      BY <3>1, <3>2 DEF Attempting, Unfinished
  <2> QED
    BY <2>1, <2>2
<1>2. ASSUME pc'[Flattener] \in {"cancel", "close", "poll"} PROVE Unfinished("flatten", None)'
  <2>1. CASE JournalPut(Flattener)
    <3>1. log[Flattener].line = Line("intent", "flatten", Flattener, None)
      BY <1>2, <2>1 DEF JournalPut, Shape, Plans, FlattenPlan, Processes
    <3> QED
      BY <1>0, <2>1, <3>1, UnfinishedStays DEF Processes
  <2>2. CASE ~JournalPut(Flattener)
    <3>1. pc[Flattener] \in {"cancel", "close", "poll"}
      <4>1. CASE Idles(Flattener)
        BY <1>2, <4>1 DEF Idles
      <4>2. CASE FlattenStep
        BY <4>2, FlattenAt
      <4>3. CASE FlattenStart \/ JournalGet(Flattener) \/ Leave(Flattener) \/ Kill(Flattener)
                 \/ Abort(Flattener)
        BY <1>2, <4>3 DEF FlattenStart, JournalGet, Leave, Kill, Abort, Log, Shape, Processes
      <4> QED
        BY <2>2, <4>1, <4>2, <4>3, FlattenMoves DEF Flattens
    <3>2. UNCHANGED journal
      BY <3>1, Undisturbed DEF Processes
    <3> QED
      BY <3>1, <3>2 DEF Attempting, Unfinished
  <2> QED
    BY <2>1, <2>2
<1> QED
  BY <1>1, <1>2 DEF Attempting

\* A step leaves no bare position without an unfinished attempt.
LEMMA ReportedStep ==
  ASSUME Shape, Plans, Alone, Base, Attempting, Closing, UnprotectedIsReported, [Next]_vars
  PROVE  UnprotectedIsReported'
<1> SUFFICES ASSUME NEW c \in Cids, Bare(c)'
             PROVE  Unfinished("flatten", None)' \/ Unfinished("close", c[2])'
  BY DEF UnprotectedIsReported, Bare
<1>1. CASE Bare(c)
  <2>1. Unfinished("flatten", None) \/ Unfinished("close", c[2])
    BY <1>1 DEF UnprotectedIsReported, Bare
  <2>2. CASE UNCHANGED journal
    BY <2>1, <2>2 DEF Unfinished
  <2>3. ASSUME NEW p \in Processes, JournalPut(p)
        PROVE  Unfinished("flatten", None)' \/ Unfinished("close", c[2])'
    <3>1. /\ journal' = Append(journal, log[p].line) /\ log[p].line \in JLines
          /\ Appending(p)
      BY <2>3 DEF JournalPut, Base, Shape
    <3>2. ~(log[p].line.type = "result" /\ log[p].line.act = "flatten")
      BY <1>1, <3>1 DEF Closing
    <3>3. ~(log[p].line.type = "result" /\ log[p].line.act = "close" /\ log[p].line.symbol = c[2])
      BY <1>1, <3>1 DEF Closing
    <3> QED
      BY <2>1, <3>1, <3>2, <3>3, UnfinishedStays
  <2> QED
    BY <2>2, <2>3, JournalGrows
<1>2. CASE ~Bare(c)
  <2>1. CASE FlattenCancel \/ FlattenClose
    <3>1. Unfinished("flatten", None) /\ UNCHANGED journal
      BY <2>1 DEF FlattenCancel, FlattenClose, Attempting
    <3> QED
      BY <3>1 DEF Unfinished
  <2>2. ASSUME NEW r \in Agents, CloseCancel(r), view[r].symbol = c[2]
        PROVE  Unfinished("close", c[2])'
    <3>1. Unfinished("close", c[2]) /\ UNCHANGED journal
      BY <2>2 DEF CloseCancel, Attempting
    <3> QED
      BY <3>1 DEF Unfinished
  <2> QED
    BY <1>2, <2>1, <2>2, Strips
<1> QED
  BY <1>1, <1>2

\* Without overlapping runs a position without its stop always has an attempt
\* to close it on the journal with no result after it, whatever fails, is
\* unreadable or dies.
THEOREM Reported == ASSUME ~Overlap PROVE Spec => []UnprotectedIsReported
<1>1. Shape /\ Alone /\ Base /\ [Next]_vars => Alone' /\ Base'
  BY AloneStep
<1>2. Shape /\ Plans /\ Alone /\ Closing /\ [Next]_vars => Closing'
  BY ClosingStep
<1>3. Shape /\ Plans /\ Alone /\ Base /\ Attempting /\ [Next]_vars => Attempting'
  BY AttemptingStep
<1>4. Shape /\ Plans /\ Alone /\ Base /\ Attempting /\ Closing /\ UnprotectedIsReported
         /\ [Next]_vars => UnprotectedIsReported'
  BY ReportedStep
<1>5. Init => Closing /\ Attempting /\ UnprotectedIsReported
  BY DEF Init, Closing, Attempting, UnprotectedIsReported, Processes
<1> QED
  BY <1>1, <1>2, <1>3, <1>4, <1>5, InitAlone, Planning, PTL DEF Spec
=============================================================================
