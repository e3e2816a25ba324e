--------------------------- MODULE AgentRun_proofs ---------------------------
(***************************************************************************)
(* Proofs about AgentRun: for any caps, prices of turns and numbers of tool  *)
(* calls the requests of the loop are well formed with one rolling cache     *)
(* point, the caps hold, a report run leaves out its fallback only if a      *)
(* report has arrived, the failures it catches are announced, the lock goes  *)
(* back and the invocation ends.                                            *)
(***************************************************************************)
EXTENDS AgentRun, SequenceTheorems, TLAPS

Before == {"start", "lock", "flatten", "prompt"}
Within == {"converse", "tools"}
Ending == {"finally", "end"}

\* Roles alternate and every tool use but those of the last message has its
\* result in the next.
Alternating ==
    \A i \in 1..Len(messages) :
       /\ messages[i].role = IF i % 2 = 1 THEN "user" ELSE "assistant"
       /\ i % 2 = 0 /\ i < Len(messages) => messages[i + 1].tools = messages[i].tools

\* Where the conversation ends at each place of the loop, and which message
\* holds the cache point.
Conversation ==
    /\ pc \in Before => messages = <<>>
    /\ pc \in Within => Alternating /\ Len(messages) > 0
    /\ pc = "converse" =>
          /\ Len(messages) % 2 = 1
          /\ \A i \in 1..Len(messages) : messages[i].point <=> i = Len(messages)
    /\ pc = "tools" =>
          /\ Len(messages) % 2 = 0
          /\ \A i \in 1..Len(messages) : messages[i].point <=> i = Len(messages) - 1

Spending ==
    /\ pc \in Before => turn = 0 /\ cost = 0
    /\ pc \in Before \cup Within => stopped = "no"
    /\ pc \in {"summary", "report"} => stopped # "no"
    /\ Capped

\* What the flag of the toolbox says about the phone.
Confirming ==
    /\ sent => arrived > 0
    /\ ~sent => arrived = unknown
    /\ slot \notin ReportSlots => arrived = 0

Telling ==
    /\ Confirming
    /\ pc \notin Ending => fallbacks = 0 /\ result = "none"
    /\ pc = "flatten" => slot = FlattenSlot
    /\ slot \notin ReportSlots => fallbacks = 0
    /\ pc \in Ending /\ result = "ok" /\ slot \in ReportSlots =>
          (sent /\ fallbacks = 0) \/ (~sent /\ fallbacks = 1)

Capping == stopped \in {"cost_cap", "turn_cap"}
Working == {"flatten", "prompt", "converse", "tools", "summary", "report"}

Alerting ==
    /\ pc \in Working /\ ~locked => Told
    /\ result \in {"failed", "not_flat"} => Told
    /\ pc = "report" /\ Capping => Told
    /\ pc \in Ending /\ Capping => Told \/ result \in {"crashed", "killed"}

Locking ==
    /\ pc \in {"start", "lock"} => ~locked
    /\ LockReturned

\* The inductive invariant.
IInv == TypeOK /\ Conversation /\ Spending /\ Telling /\ Alerting /\ Locking

\* The invariant holds before the event is looked at.
LEMMA InitIInv == Init => IInv
<1> SUFFICES ASSUME Init PROVE IInv
  OBVIOUS
<1> USE SlotAssumption, CapAssumption DEF Init
<1>1. messages \in Seq(Messages)
  BY EmptySeq
<1>2. TypeOK
  <2>1. locked \in BOOLEAN /\ sent \in BOOLEAN
    BY Zenon
  <2>2. turn \in 0..MaxTurns /\ cost \in Nat /\ todo \in 0..MaxUses
    OBVIOUS
  <2>3. fallbacks \in Nat /\ alerts \in Nat /\ arrived \in Nat /\ unknown \in Nat
    OBVIOUS
  <2> QED
    BY <1>1, <2>1, <2>2, <2>3 DEF TypeOK
<1>3. Conversation
  BY DEF Conversation, Before, Within
<1>4. Spending /\ Telling
  BY DEF Spending, Capped, Telling, Confirming, Before, Within, Ending
<1>5. Alerting /\ Locking
  BY DEF Alerting, Locking, LockReturned, Ending, Capping, Working
<1> QED
  BY <1>2, <1>3, <1>4, <1>5 DEF IInv

\* Dropping the cache point changes nothing else of the conversation.
LEMMA Dropped ==
    ASSUME messages \in Seq(Messages)
    PROVE  /\ DropPoint \in Seq(Messages)
           /\ Len(DropPoint) = Len(messages)
           /\ \A i \in 1..Len(messages) :
                 /\ DropPoint[i].role = messages[i].role
                 /\ DropPoint[i].tools = messages[i].tools
                 /\ DropPoint[i].point <=> messages[i].point /\ i # Len(messages) - 1
<1> DEFINE n == Len(messages)
<1>1. n \in Nat /\ DOMAIN messages = 1..n
  BY LenProperties
<1>2. \A i \in 1..n : messages[i] \in Messages
  BY <1>1, ElementOfSeq
<1>3. \A i \in 1..n : DropPoint[i] \in Messages
  BY <1>1, <1>2 DEF DropPoint, Messages
<1>4. DropPoint \in [1..n -> Messages]
  BY <1>1, <1>3 DEF DropPoint
<1>5. DropPoint \in Seq(Messages)
  BY <1>1, <1>4, IsASeq
<1>6. Len(DropPoint) = n
  BY <1>1, <1>4, <1>5, LenProperties
<1>7. \A i \in 1..n :
         /\ DropPoint[i].role = messages[i].role
         /\ DropPoint[i].tools = messages[i].tools
         /\ DropPoint[i].point <=> messages[i].point /\ i # n - 1
  BY <1>1, <1>2 DEF DropPoint, Messages
<1> QED
  BY <1>5, <1>6, <1>7

\* The actions that leave the conversation and the loop alone and take no run
\* back to them.
Aside ==
    \/ BadEvent \/ NotToday \/ Refused \/ StartupFails \/ StartupCrashes \/ Started
    \/ LockTaken \/ LockHeld \/ Flat \/ NotFlat \/ Summary \/ Report
    \/ Caught \/ CaughtTwice \/ Release \/ ReleaseFails \/ Kill

\* An answer of the model, with or without tool calls.
Answers ==
    \/ \E uses \in 1..MaxUses, price \in TurnCosts : Converse(uses, price)
    \/ \E price \in TurnCosts : Finish(price)

Tools == UseTool \/ SendReport

\* Next, by what it does to the conversation.
LEMMA Kinds == [Next]_vars => Aside \/ Prompt \/ Answers \/ Tools \/ Results \/ UNCHANGED vars
  BY DEF Next, Aside, Answers, Tools

\* What the actions aside leave alone, and where they lead.
LEMMA AsideKeeps ==
    ASSUME Aside
    PROVE  /\ UNCHANGED <<event, loop>>
           /\ pc' \notin Within
           /\ pc' \in Before => pc \in Before
           /\ pc' \in {"summary", "report"} => pc \in {"summary", "report"}
<1> USE DEF Before, Within, event, loop, Alert, End, Body
<1>1. CASE BadEvent \/ NotToday \/ Refused \/ StartupFails \/ StartupCrashes \/ Started
  BY <1>1 DEF BadEvent, NotToday, Refused, StartupFails, StartupCrashes, Started
<1>2. CASE LockTaken \/ LockHeld \/ Flat \/ NotFlat
  BY <1>2 DEF LockTaken, LockHeld, Flat, NotFlat
<1>3. CASE Summary \/ Report \/ Caught \/ CaughtTwice
  BY <1>3 DEF Summary, Report, Caught, CaughtTwice
<1>4. CASE Release \/ ReleaseFails \/ Kill
  BY <1>4 DEF Release, ReleaseFails, Kill
<1> QED
  BY <1>1, <1>2, <1>3, <1>4 DEF Aside

\* A message appended to a conversation.
LEMMA Appended ==
    ASSUME NEW list \in Seq(Messages), NEW message \in Messages
    PROVE  /\ Append(list, message) \in Seq(Messages)
           /\ Len(Append(list, message)) = Len(list) + 1
           /\ \A i \in 1..Len(list) : Append(list, message)[i] = list[i]
           /\ Append(list, message)[Len(list) + 1] = message
  BY AppendProperties

\* What a turn of the loop does to the conversation and its types.
LEMMA PromptStep ==
    ASSUME IInv, Prompt
    PROVE  messages' \in Seq(Messages) /\ Conversation'
<1> DEFINE m == Message("user", 0, TRUE)
<1>1. m \in Messages /\ m.role = "user" /\ m.point
  BY CapAssumption DEF Message, Messages
<1>2. messages' = <<m>> /\ pc' = "converse"
  BY DEF Prompt
<1> HIDE DEF m
<1>3. messages' \in Seq(Messages) /\ Len(messages') = 1 /\ messages'[1] = m
  BY <1>1, <1>2
<1>4. \A i \in 1..Len(messages') : i = 1 /\ messages'[i] = m
  BY <1>3
<1>5. Alternating'
  BY <1>1, <1>3, <1>4 DEF Alternating
<1>6. Conversation'
  BY <1>1, <1>2, <1>3, <1>4, <1>5 DEF Conversation, Before, Within
<1> QED
  BY <1>3, <1>6

LEMMA AnswersStep ==
    ASSUME IInv, Answers
    PROVE  messages' \in Seq(Messages) /\ Conversation'
<1>1. PICK uses \in 0..MaxUses, price \in TurnCosts :
         /\ Answer(uses, price)
         /\ pc' \in {"tools", "summary"}
  BY CapAssumption DEF Answers, Converse, Finish
<1> DEFINE m == Message("assistant", uses, FALSE)
           n == Len(messages)
<1>2. m \in Messages /\ m.role = "assistant" /\ ~m.point
  BY DEF Message, Messages
<1>3. messages \in Seq(Messages) /\ n \in Nat
  BY LenProperties DEF IInv, TypeOK
<1>4. messages' = Append(messages, m) /\ pc = "converse"
  BY <1>1 DEF Answer
<1> HIDE DEF m
<1>5. /\ messages' \in Seq(Messages)
      /\ Len(messages') = n + 1
      /\ \A i \in 1..n : messages'[i] = messages[i]
      /\ messages'[n + 1] = m
  BY <1>2, <1>3, <1>4, Appended
<1>6. /\ Alternating /\ n % 2 = 1
      /\ \A i \in 1..n : messages[i].point <=> i = n
  BY <1>4 DEF IInv, Conversation, Within
<1> HIDE DEF n
<1>7. Alternating'
  <2> SUFFICES ASSUME NEW i \in 1..(n + 1)
               PROVE  /\ messages'[i].role = IF i % 2 = 1 THEN "user" ELSE "assistant"
                      /\ i % 2 = 0 /\ i < n + 1 => messages'[i + 1].tools = messages'[i].tools
    BY <1>5 DEF Alternating
  <2>1. CASE i = n + 1
    BY <1>2, <1>3, <1>5, <1>6, <2>1
  <2>2. CASE i \in 1..n
    BY <1>3, <1>5, <1>6, <2>2 DEF Alternating, n
  <2> QED
    BY <1>3, <2>1, <2>2
<1>8. \A i \in 1..Len(messages') : messages'[i].point <=> i = Len(messages') - 1
  BY <1>2, <1>3, <1>5, <1>6
<1>9. Conversation'
  BY <1>1, <1>3, <1>5, <1>6, <1>7, <1>8 DEF Conversation, Before, Within
<1> QED
  BY <1>5, <1>9

LEMMA ResultsStep ==
    ASSUME IInv, Results
    PROVE  messages' \in Seq(Messages) /\ Conversation'
<1> DEFINE n == Len(messages)
           m == Message("user", messages[n].tools, TRUE)
           d == DropPoint
<1>1. pc = "tools" /\ pc' \in {"converse", "summary"} /\ messages' = Append(d, m)
  BY DEF Results
<1>2. messages \in Seq(Messages) /\ n \in Nat
  BY LenProperties DEF IInv, TypeOK
<1>3. /\ Alternating /\ n > 0 /\ n % 2 = 0
      /\ \A i \in 1..n : messages[i].point <=> i = n - 1
  BY <1>1 DEF IInv, Conversation, Within
<1>0. \A i \in 1..n :
         /\ messages[i].role = IF i % 2 = 1 THEN "user" ELSE "assistant"
         /\ i % 2 = 0 /\ i < n => messages[i + 1].tools = messages[i].tools
  BY <1>3 DEF Alternating
<1>4. messages[n] \in Messages
  BY <1>2, <1>3, ElementOfSeq
<1>5. m \in Messages /\ m.role = "user" /\ m.point /\ m.tools = messages[n].tools
  BY <1>4 DEF Message, Messages
<1>6. /\ d \in Seq(Messages) /\ Len(d) = n
      /\ \A i \in 1..n : /\ d[i].role = messages[i].role
                         /\ d[i].tools = messages[i].tools
                         /\ d[i].point <=> messages[i].point /\ i # n - 1
  BY <1>2, Dropped
<1> HIDE DEF m, d
<1>7. /\ messages' \in Seq(Messages)
      /\ Len(messages') = n + 1
      /\ \A i \in 1..n : messages'[i] = d[i]
      /\ messages'[n + 1] = m
  BY <1>1, <1>2, <1>5, <1>6, Appended
<1> HIDE DEF n
<1>8. \A i \in 1..n : /\ messages'[i].role = messages[i].role
                      /\ messages'[i].tools = messages[i].tools
                      /\ ~messages'[i].point
  BY <1>2, <1>3, <1>6, <1>7
<1>9. Alternating'
  <2> SUFFICES ASSUME NEW i \in 1..(n + 1)
               PROVE  /\ messages'[i].role = IF i % 2 = 1 THEN "user" ELSE "assistant"
                      /\ i % 2 = 0 /\ i < n + 1 => messages'[i + 1].tools = messages'[i].tools
    BY <1>7 DEF Alternating
  <2>1. CASE i = n + 1
    BY <1>2, <1>3, <1>5, <1>7, <2>1
  <2>2. CASE i = n
    <3>1. n \in 1..n /\ messages'[n].tools = messages[n].tools
      BY <1>2, <1>3, <1>8
    <3>2. messages'[n + 1].tools = messages[n].tools
      BY <1>5, <1>7
    <3>3. messages'[n].role = messages[n].role
      BY <1>8, <3>1
    <3> QED
      BY <1>0, <2>2, <3>1, <3>2, <3>3
  <2>3. CASE i \in 1..(n - 1)
    BY <1>0, <1>2, <1>8, <2>3
  <2> QED
    BY <1>2, <2>1, <2>2, <2>3
<1>10. \A i \in 1..Len(messages') : messages'[i].point <=> i = Len(messages')
  <2> SUFFICES ASSUME NEW i \in 1..(n + 1) PROVE messages'[i].point <=> i = n + 1
    BY <1>7
  <2>1. CASE i = n + 1
    BY <1>5, <1>7, <2>1
  <2>2. CASE i \in 1..n
    BY <1>2, <1>8, <2>2
  <2> QED
    BY <1>2, <2>1, <2>2
<1>11. Len(messages') > 0 /\ Len(messages') % 2 = 1
  BY <1>2, <1>3, <1>7
<1>12. pc' \in {"converse", "summary"}
  BY <1>1
<1>13. Conversation'
  BY <1>9, <1>10, <1>11, <1>12 DEF Conversation, Before, Within
<1> QED
  BY <1>7, <1>13

\* Calling a tool leaves the conversation alone.
LEMMA ToolsKeep ==
    ASSUME Tools
    PROVE  pc = "tools" /\ UNCHANGED <<event, pc, locked, messages, turn, cost, stopped, fallbacks, alerts, result>>
  BY DEF Tools, UseTool, SendReport, event, told

\* Every step keeps the form of the conversation.
LEMMA ConversationStep ==
    ASSUME IInv, [Next]_vars
    PROVE  messages' \in Seq(Messages) /\ Conversation'
<1>1. CASE Aside
  <2>1. messages' = messages /\ pc' \notin Within /\ (pc' \in Before => pc \in Before)
    BY <1>1, AsideKeeps DEF loop
  <2>2. pc' # "converse" /\ pc' # "tools"
    BY <2>1 DEF Within
  <2> QED
    BY <2>1, <2>2 DEF IInv, TypeOK, Conversation
<1>2. CASE Tools
  <2>1. messages' = messages /\ pc' = pc
    BY <1>2, ToolsKeep
  <2> QED
    BY <2>1 DEF IInv, TypeOK, Conversation, Alternating
<1>3. CASE UNCHANGED vars
  <2>1. messages' = messages /\ pc' = pc
    BY <1>3 DEF vars, loop
  <2> QED
    BY <2>1 DEF IInv, TypeOK, Conversation, Alternating
<1> QED
  BY <1>1, <1>2, <1>3, Kinds, PromptStep, AnswersStep, ResultsStep

\* Every step keeps to the caps and counts no turn beyond them.
LEMMA SpendingStep ==
    ASSUME IInv, [Next]_vars
    PROVE  Spending' /\ turn' \in 0..MaxTurns /\ cost' \in Nat
<1> USE CapAssumption DEF Spending, Capped, Before, Within
<1>0. Spending /\ turn \in 0..MaxTurns /\ cost \in Nat /\ stopped \in {"no", "finished", "cost_cap", "turn_cap"}
  BY DEF IInv, TypeOK
<1>1. CASE Aside
  <2>1. /\ turn' = turn /\ cost' = cost /\ stopped' = stopped
        /\ pc' \notin Within
        /\ pc' \in Before => pc \in Before
        /\ pc' \in {"summary", "report"} => pc \in {"summary", "report"}
    BY <1>1, AsideKeeps DEF loop
  <2> QED
    BY <1>0, <2>1
<1>2. CASE Prompt
  BY <1>0, <1>2 DEF Prompt
<1>3. CASE Answers
  <2>1. PICK uses \in 0..MaxUses, price \in TurnCosts :
           /\ Answer(uses, price)
           /\ \/ pc' = "tools" /\ stopped' = stopped
              \/ pc' = "summary" /\ stopped' = "finished"
    BY <1>3 DEF Answers, Converse, Finish
  <2>2. pc = "converse" /\ turn' = turn + 1 /\ cost' = cost + price /\ price \in Nat
    BY <2>1 DEF Answer
  <2> QED
    BY <1>0, <2>1, <2>2
<1>4. CASE Tools
  <2>1. turn' = turn /\ cost' = cost /\ stopped' = stopped /\ pc' = pc
    BY <1>4, ToolsKeep
  <2> QED
    BY <1>0, <2>1
<1>5. CASE Results
  BY <1>0, <1>5 DEF Results, NextTurn, Cap
<1>6. CASE UNCHANGED vars
  BY <1>0, <1>6 DEF vars, loop
<1> QED
  BY <1>1, <1>2, <1>3, <1>4, <1>5, <1>6, Kinds

\* Next, action by action.
Setup  == BadEvent \/ NotToday \/ Refused \/ StartupFails \/ StartupCrashes \/ Started
Opening == LockTaken \/ LockHeld \/ Flat \/ NotFlat \/ Prompt
Closing == Summary \/ Report \/ Caught \/ CaughtTwice \/ Release \/ ReleaseFails \/ Kill

LEMMA Phases ==
    [Next]_vars => Setup \/ Opening \/ Answers \/ Tools \/ Results \/ Closing \/ UNCHANGED vars
  BY DEF Next, Setup, Opening, Closing, Answers, Tools

\* A report of the model leaves the flag true to what the phone has.
LEMMA Delivering ==
    ASSUME TypeOK, Confirming, SendReport
    PROVE  /\ sent' \in BOOLEAN /\ arrived' \in Nat /\ unknown' \in Nat
           /\ Confirming'
<1>0. sent \in BOOLEAN /\ arrived \in Nat /\ unknown \in Nat /\ slot' = slot
  BY DEF TypeOK, SendReport, event
<1>1. CASE slot \in ReportSlots
  <2>1. PICK delivery \in Deliveries : Deliver(delivery)
    BY <1>1 DEF SendReport
  <2>2. sent' \in BOOLEAN /\ (sent' <=> sent \/ delivery = "confirmed")
    BY <2>1, Zenon DEF Deliver, ReportSent
  <2>3. /\ arrived' = arrived + (IF delivery = "failed" THEN 0 ELSE 1)
        /\ unknown' = unknown + (IF delivery = "unconfirmed" THEN 1 ELSE 0)
    BY <2>1 DEF Deliver
  <2>4. arrived' \in Nat /\ unknown' \in Nat
    BY <1>0, <2>3
  <2>5. CASE delivery = "confirmed"
    BY <1>0, <1>1, <2>2, <2>3, <2>4, <2>5 DEF Confirming
  <2>6. CASE delivery = "unconfirmed"
    <3>1. (sent' <=> sent) /\ arrived' = arrived + 1 /\ unknown' = unknown + 1
      BY <1>0, <2>2, <2>3, <2>6
    <3> QED
      BY <1>0, <1>1, <2>2, <2>4, <3>1 DEF Confirming
  <2>7. CASE delivery = "failed"
    <3>1. (sent' <=> sent) /\ arrived' = arrived /\ unknown' = unknown
      BY <1>0, <2>2, <2>3, <2>7
    <3> QED
      BY <1>0, <1>1, <2>2, <2>4, <3>1 DEF Confirming
  <2> QED
    BY <2>5, <2>6, <2>7 DEF Deliveries
<1>2. CASE slot \notin ReportSlots
  <2>1. UNCHANGED <<sent, arrived, unknown>>
    BY <1>2 DEF SendReport, reports
  <2>2. sent' \in BOOLEAN
    BY <1>0, <2>1, Zenon
  <2> QED
    BY <1>0, <2>1, <2>2 DEF Confirming
<1> QED
  BY <1>1, <1>2

\* The variables that are not in the conversation keep their types.
LEMMA TypeStep == ASSUME IInv, [Next]_vars PROVE TypeOK'
<1>0. messages' \in Seq(Messages) /\ turn' \in 0..MaxTurns /\ cost' \in Nat
  BY ConversationStep, SpendingStep
<1> USE CapAssumption DEF event, loop, told, reports, Alert, End
<1>1. TypeOK
  BY DEF IInv
<1>2. locked' \in BOOLEAN /\ sent' \in BOOLEAN /\ arrived' \in Nat /\ unknown' \in Nat
  <2>1. locked \in BOOLEAN /\ sent \in BOOLEAN /\ arrived \in Nat /\ unknown \in Nat
    BY <1>1 DEF TypeOK
  <2>2. locked' \in {locked, TRUE, FALSE} /\ (UNCHANGED reports \/ SendReport)
    <3>1. CASE Setup
      BY <3>1 DEF Setup, BadEvent, NotToday, Refused, StartupFails, StartupCrashes, Started
    <3>2. CASE Opening
      BY <3>2 DEF Opening, LockTaken, LockHeld, Flat, NotFlat, Prompt
    <3>3. CASE Answers \/ Tools \/ Results
      BY <3>3 DEF Answers, Converse, Finish, Answer, Tools, UseTool, SendReport, Results
    <3>4. CASE Closing
      BY <3>4 DEF Closing, Summary, Report, Caught, CaughtTwice, Release, ReleaseFails, Kill
    <3>5. CASE UNCHANGED vars
      BY <3>5 DEF vars
    <3> QED
      BY <3>1, <3>2, <3>3, <3>4, <3>5, Phases
  <2>3. locked' \in BOOLEAN
    BY <2>1, <2>2
  <2>4. Confirming
    BY DEF IInv, Telling
  <2>5. CASE SendReport
    BY <1>1, <2>3, <2>4, <2>5, Delivering
  <2>6. CASE UNCHANGED reports
    BY <2>1, <2>3, <2>6
  <2> QED
    BY <2>2, <2>5, <2>6
<1>3. /\ slot' \in Slots /\ dry' \in BOOLEAN
      /\ pc' \in {"start", "lock", "flatten", "prompt", "converse", "tools",
                  "summary", "report", "finally", "end"}
      /\ stopped' \in {"no", "finished", "cost_cap", "turn_cap"}
      /\ result' \in {"none", "ok", "skipped", "failed", "not_flat", "invalid", "not_started",
                      "crashed", "killed"}
      /\ todo' \in 0..MaxUses /\ fallbacks' \in Nat /\ alerts' \in Nat
  <2>0. /\ slot \in Slots /\ dry \in BOOLEAN
        /\ pc \in {"start", "lock", "flatten", "prompt", "converse", "tools",
                   "summary", "report", "finally", "end"}
        /\ stopped \in {"no", "finished", "cost_cap", "turn_cap"}
        /\ result \in {"none", "ok", "skipped", "failed", "not_flat", "invalid", "not_started",
                       "crashed", "killed"}
        /\ todo \in 0..MaxUses /\ fallbacks \in Nat /\ alerts \in Nat
    BY <1>1 DEF TypeOK
  <2>1. CASE Setup
    BY <2>0, <2>1 DEF Setup, BadEvent, NotToday, Refused, StartupFails, StartupCrashes, Started
  <2>2. CASE Opening
    <3>1. CASE LockTaken
      BY <2>0, <3>1 DEF LockTaken, Body
    <3>2. CASE LockHeld
      BY <2>0, <3>2 DEF LockHeld, Body
    <3>3. CASE Flat \/ NotFlat
      BY <2>0, <3>3 DEF Flat, NotFlat
    <3>4. CASE Prompt
      BY <2>0, <3>4 DEF Prompt
    <3> QED
      BY <2>2, <3>1, <3>2, <3>3, <3>4 DEF Opening
  <2>3. CASE Answers
    <3>1. PICK uses \in 0..MaxUses, price \in TurnCosts :
             /\ Answer(uses, price)
             /\ \/ pc' = "tools" /\ stopped' = stopped
                \/ pc' = "summary" /\ stopped' = "finished"
      BY <2>3 DEF Answers, Converse, Finish
    <3> QED
      BY <2>0, <3>1 DEF Answer
  <2>4. CASE Tools
    BY <2>0, <2>4 DEF Tools, UseTool, SendReport
  <2>5. CASE Results
    BY <2>0, <2>5 DEF Results, Cap
  <2>6. CASE Closing
    BY <2>0, <2>6 DEF Closing, Summary, Report, Caught, CaughtTwice, Release, ReleaseFails, Kill
  <2>7. CASE UNCHANGED vars
    BY <2>0, <2>7 DEF vars
  <2> QED
    BY <2>1, <2>2, <2>3, <2>4, <2>5, <2>6, <2>7, Phases
<1> QED
  BY <1>0, <1>2, <1>3 DEF TypeOK

\* Every step leaves the flag true to what the phone has.
LEMMA ConfirmingStep == ASSUME IInv, [Next]_vars PROVE Confirming'
<1> USE DEF event, loop, told, Alert, End
<1>0. TypeOK /\ Confirming
  BY DEF IInv, Telling
<1>1. UNCHANGED <<slot, reports>> \/ SendReport
  <2>1. CASE Setup
    BY <2>1 DEF Setup, BadEvent, NotToday, Refused, StartupFails, StartupCrashes, Started
  <2>2. CASE Opening
    BY <2>2 DEF Opening, LockTaken, LockHeld, Flat, NotFlat, Prompt
  <2>3. CASE Answers
    BY <2>3 DEF Answers, Converse, Finish, Answer
  <2>4. CASE Tools \/ Results
    BY <2>4 DEF Tools, UseTool, Results
  <2>5. CASE Closing
    BY <2>5 DEF Closing, Summary, Report, Caught, CaughtTwice, Release, ReleaseFails, Kill
  <2>6. CASE UNCHANGED vars
    BY <2>6 DEF vars
  <2> QED
    BY <2>1, <2>2, <2>3, <2>4, <2>5, <2>6, Phases
<1>2. CASE UNCHANGED <<slot, reports>>
  BY <1>0, <1>2 DEF reports, Confirming
<1> QED
  BY <1>0, <1>1, <1>2, Delivering

\* Every step keeps what is known of reports, alerts and the lock.
LEMMA OutcomeStep == ASSUME IInv, [Next]_vars PROVE Telling' /\ Alerting' /\ Locking'
<1> USE DEF event, loop, told, reports, Alert, End, Before, Within, Ending, Capping, Working,
            ReportSlots, FlattenSlot, Telling, Alerting, Told, Locking, LockReturned
<1>1. TypeOK /\ Telling /\ Alerting /\ Locking /\ Spending
  BY DEF IInv
<1>0. Confirming'
  BY ConfirmingStep
<1>2. CASE Setup
  <2>1. CASE BadEvent \/ NotToday \/ StartupCrashes \/ Started
    BY <1>0, <1>1, <2>1 DEF Spending, BadEvent, NotToday, StartupCrashes, Started
  <2>2. CASE Refused
    BY <1>0, <1>1, <2>2 DEF TypeOK, Refused
  <2>3. CASE StartupFails
    BY <1>0, <1>1, <2>3 DEF TypeOK, Spending, StartupFails
  <2> QED
    BY <1>2, <2>1, <2>2, <2>3 DEF Setup
<1>3. CASE Opening
  <2>1. CASE LockTaken
    BY <1>0, <1>1, <2>1 DEF LockTaken, Body
  <2>2. CASE LockHeld
    BY <1>0, <1>1, <2>2 DEF TypeOK, LockHeld, Body
  <2>3. CASE Flat
    BY <1>0, <1>1, <2>3 DEF Spending, Flat
  <2>4. CASE NotFlat
    BY <1>0, <1>1, <2>4 DEF TypeOK, Spending, NotFlat
  <2>5. CASE Prompt
    BY <1>0, <1>1, <2>5 DEF Prompt
  <2> QED
    BY <1>3, <2>1, <2>2, <2>3, <2>4, <2>5 DEF Opening
<1>4. CASE Answers
  BY <1>0, <1>1, <1>4 DEF Answers, Converse, Finish, Answer
<1>5. CASE Tools
  <2>1. CASE UseTool
    BY <1>0, <1>1, <2>1 DEF Tools, UseTool
  <2>2. CASE SendReport
    <3>1. /\ pc = "tools" /\ pc' = "tools"
          /\ UNCHANGED <<slot, locked, stopped, fallbacks, alerts, result>>
      BY <2>2 DEF SendReport
    <3> QED
      BY <1>0, <1>1, <3>1
  <2> QED
    BY <1>5, <2>1, <2>2 DEF Tools
<1>6. CASE Results
  BY <1>0, <1>1, <1>6 DEF Results
<1>7. CASE Closing
  <2>1. CASE Summary
    BY <1>0, <1>1, <2>1 DEF TypeOK, Summary
  <2>2. CASE Report
    BY <1>0, <1>1, <2>2 DEF TypeOK, Report, FallbackDue
  <2>3. CASE Caught \/ CaughtTwice
    BY <1>0, <1>1, <2>3 DEF TypeOK, Caught, CaughtTwice
  <2>4. CASE Release \/ ReleaseFails \/ Kill
    BY <1>0, <1>1, <2>4 DEF Release, ReleaseFails, Kill
  <2> QED
    BY <1>7, <2>1, <2>2, <2>3, <2>4 DEF Closing
<1>8. CASE UNCHANGED vars
  BY <1>0, <1>1, <1>8 DEF vars
<1> QED
  BY <1>2, <1>3, <1>4, <1>5, <1>6, <1>7, <1>8, Phases

\* The invariant holds in every state of an invocation.
THEOREM Invariance == Spec => []IInv
<1>1. IInv /\ [Next]_vars => IInv'
  BY TypeStep, ConversationStep, SpendingStep, OutcomeStep DEF IInv
<1> QED
  BY <1>1, InitIInv, PTL DEF Spec

\* The variables keep their types.
THEOREM Types == Spec => []TypeOK
<1>1. IInv => TypeOK
  BY DEF IInv
<1> QED
  BY <1>1, Invariance, PTL

\* Every request carries one rolling cache point, on its newest message.
THEOREM CachePoints == Spec => []RollingPoint
<1>1. ASSUME IInv, pc = "converse" PROVE Points = {Len(messages)}
  <2>1. /\ messages \in Seq(Messages) /\ Len(messages) > 0
        /\ \A i \in 1..Len(messages) : messages[i].point <=> i = Len(messages)
    BY <1>1 DEF IInv, TypeOK, Conversation, Within
  <2>2. Len(messages) \in Nat /\ DOMAIN messages = 1..Len(messages)
    BY <2>1, LenProperties
  <2>3. \A i \in DOMAIN messages : messages[i].point <=> i = Len(messages)
    BY <2>1, <2>2
  <2>. DEFINE n == Len(messages)
  <2>4. n \in 1..n
    <3>1. n \in Nat /\ n > 0
      BY <2>1, <2>2
    <3>. HIDE DEF n
    <3> QED
      BY <3>1
  <2>5. Len(messages) \in DOMAIN messages
    BY <2>2, <2>4, Zenon
  <2> QED
    BY <2>3, <2>5, Zenon DEF Points
<1>2. IInv => RollingPoint
  BY <1>1 DEF RollingPoint
<1> QED
  BY <1>2, Invariance, PTL

\* Roles alternate, from and to the user, and every tool use has its result in
\* the next message.
THEOREM WellFormed == Spec => []WellFormedRequest
<1>1. ASSUME IInv, pc = "converse", NEW i \in DOMAIN messages
      PROVE  /\ messages[i].role = IF i % 2 = 1 THEN "user" ELSE "assistant"
             /\ i % 2 = 0 => i < Len(messages) /\ messages[i + 1].tools = messages[i].tools
  <2>1. messages \in Seq(Messages) /\ Alternating /\ Len(messages) % 2 = 1
    BY <1>1 DEF IInv, TypeOK, Conversation, Within
  <2>2. Len(messages) \in Nat /\ DOMAIN messages = 1..Len(messages)
    BY <2>1, LenProperties
  <2>3. i \in 1..Len(messages)
    BY <1>1, <2>2
  <2>4. i % 2 = 0 => i < Len(messages)
    BY <2>1, <2>2, <2>3
  <2> QED
    BY <2>1, <2>3, <2>4 DEF Alternating
<1>2. IInv => WellFormedRequest
  BY <1>1 DEF WellFormedRequest
<1> QED
  BY <1>2, Invariance, PTL

\* No turn beyond the turn cap, none once the cost cap is exceeded.
THEOREM Caps == Spec => []Capped
<1>1. IInv => Capped
  BY DEF IInv, Spending
<1> QED
  BY <1>1, Invariance, PTL

\* A report run that completes its loop leaves out the fallback only if a report
\* is on the phone, and doubles one only if its answer was lost.
THEOREM Reports == Spec => []ReportArrives
<1>1. ASSUME IInv, Done("ok"), slot \in ReportSlots
      PROVE  IF fallbacks = 0 THEN arrived > 0 ELSE arrived = unknown
  BY <1>1 DEF IInv, Telling, Confirming, Done, Ending
<1>2. IInv => (slot \notin ReportSlots => arrived = 0 /\ fallbacks = 0)
  BY DEF IInv, Telling, Confirming
<1>3. IInv => ReportArrives
  BY <1>1, <1>2 DEF ReportArrives
<1> QED
  BY <1>3, Invariance, PTL

\* Work without the lock, positions left open, capped loops and errors caught
\* after the paper check were announced; of the others nothing is said.
THEOREM Announced == Spec => []FailureAlerts
<1>1. IInv => FailureAlerts
  BY DEF IInv, Alerting, FailureAlerts, Ending, Capping, Working
<1> QED
  BY <1>1, Invariance, PTL

\* A run that returns holds the lock no more.
THEOREM Returned == Spec => []LockReturned
<1>1. IInv => LockReturned
  BY DEF IInv, Locking
<1> QED
  BY <1>1, Invariance, PTL

----------------------------------------------------------------------------
(* The invocation comes to an end. *)

\* The calls of turns are counted, and each turn has its own.
LEMMA TurnsCount ==
    \A n \in Nat : Turns(n) \in Nat /\ Turns(n + 1) = Turns(n) + MaxUses + 2
<1> SUFFICES ASSUME NEW n \in Nat
             PROVE  Turns(n) \in Nat /\ Turns(n + 1) = Turns(n) + MaxUses + 2
  OBVIOUS
<1>1. MaxUses \in Nat
  BY CapAssumption
<1>2. (n + 1) * (MaxUses + 2) = n * (MaxUses + 2) + (MaxUses + 2)
  BY <1>1
<1>3. n * (MaxUses + 2) \in Nat
  BY <1>1
<1> QED
  BY <1>1, <1>2, <1>3 DEF Turns

\* What is left of the turns at each place.
LEMMA TurnsLeft ==
    ASSUME IInv
    PROVE  /\ Turns(MaxTurns) \in Nat /\ Turns(MaxTurns - turn) \in Nat
           /\ pc = "converse" =>
                 Turns(MaxTurns - turn) = Turns(MaxTurns - (turn + 1)) + MaxUses + 2
           /\ pc = "converse" => Turns(MaxTurns - (turn + 1)) \in Nat
<1>1. turn \in Nat /\ turn <= MaxTurns /\ MaxTurns \in Nat
  BY CapAssumption DEF IInv, TypeOK
<1>2. MaxTurns - turn \in Nat
  BY <1>1
<1>3. ASSUME pc = "converse"
      PROVE  MaxTurns - (turn + 1) \in Nat /\ MaxTurns - turn = (MaxTurns - (turn + 1)) + 1
  <2>1. turn < MaxTurns
    BY <1>3 DEF IInv, Spending, Capped
  <2> QED
    BY <1>1, <2>1
<1> QED
  BY <1>1, <1>2, <1>3, TurnsCount

\* A step of the loop.
LEMMA LoopShortens ==
    ASSUME IInv, Answers \/ Tools \/ Results
    PROVE  0 <= StepsLeft' /\ StepsLeft' < StepsLeft
<1>0. /\ todo \in Nat /\ MaxUses \in Nat
      /\ Turns(MaxTurns - turn) \in Nat
  BY TurnsLeft, CapAssumption DEF IInv, TypeOK
<1>1. CASE Answers
  <2>1. PICK uses \in 0..MaxUses, price \in TurnCosts :
           /\ Answer(uses, price)
           /\ pc' \in {"tools", "summary"}
    BY <1>1, CapAssumption DEF Answers, Converse, Finish
  <2>2. pc = "converse" /\ turn' = turn + 1 /\ todo' = uses
    BY <2>1 DEF Answer
  <2>3. /\ Turns(MaxTurns - turn) = Turns(MaxTurns - (turn + 1)) + MaxUses + 2
        /\ Turns(MaxTurns - (turn + 1)) \in Nat
    BY <2>2, TurnsLeft
  <2>4. StepsLeft = Turns(MaxTurns - turn) + 3
    BY <2>2 DEF StepsLeft
  <2>5. \/ StepsLeft' = Turns(MaxTurns - (turn + 1)) + uses + 4
        \/ StepsLeft' = 3
    BY <2>1, <2>2 DEF StepsLeft
  <2> QED
    BY <1>0, <2>3, <2>4, <2>5
<1>2. CASE Tools
  <2>1. pc = "tools" /\ pc' = "tools" /\ turn' = turn
    BY <1>2, ToolsKeep
  <2>2. todo > 0 /\ todo' = todo - 1
    BY <1>2 DEF Tools, UseTool, SendReport
  <2>3. /\ StepsLeft  = Turns(MaxTurns - turn) + todo + 4
        /\ StepsLeft' = Turns(MaxTurns - turn) + todo' + 4
    BY <2>1 DEF StepsLeft
  <2> QED
    BY <1>0, <2>2, <2>3
<1>3. CASE Results
  <2>1. /\ pc = "tools" /\ todo = 0 /\ turn' = turn
        /\ pc' \in {"converse", "summary"}
    BY <1>3 DEF Results
  <2>2. /\ StepsLeft = Turns(MaxTurns - turn) + todo + 4
        /\ StepsLeft' = Turns(MaxTurns - turn) + 3 \/ StepsLeft' = 3
    BY <2>1 DEF StepsLeft
  <2> QED
    BY <1>0, <2>1, <2>2
<1> QED
  BY <1>1, <1>2, <1>3

\* A step before the loop, after it or out of it.
LEMMA AsideShortens ==
    ASSUME IInv, Setup \/ Opening \/ Closing
    PROVE  0 <= StepsLeft' /\ StepsLeft' < StepsLeft
<1>0. /\ todo \in Nat /\ Turns(MaxTurns) \in Nat /\ Turns(MaxTurns - turn) \in Nat
      /\ pc \in {"start", "lock", "flatten", "prompt", "converse", "tools",
                 "summary", "report", "finally", "end"}
  BY TurnsLeft DEF IInv, TypeOK
<1>1. StepsLeft \in Nat
  BY <1>0 DEF StepsLeft
<1>2. pc' = "end" /\ pc # "end" => StepsLeft' = 0 /\ StepsLeft > 0
  BY <1>0 DEF StepsLeft
<1>3. pc' = "finally" /\ pc \notin {"finally", "end"} => StepsLeft' = 1 /\ StepsLeft > 1
  BY <1>0 DEF StepsLeft
<1>4. CASE Setup
  <2>1. pc # "end" /\ (pc' = "end" \/ (pc = "start" /\ pc' = "lock"))
    BY <1>4 DEF Setup, BadEvent, NotToday, Refused, StartupFails, StartupCrashes, Started, End
  <2>2. pc = "start" /\ pc' = "lock"
           => StepsLeft = Turns(MaxTurns) + 6 /\ StepsLeft' = Turns(MaxTurns) + 5
    BY DEF StepsLeft
  <2> QED
    BY <1>0, <1>1, <1>2, <2>1, <2>2
<1>5. CASE Opening
  <2>1. CASE LockTaken \/ LockHeld
    <3>1. pc = "lock" /\ pc' \in {"end", "flatten", "prompt"}
      BY <2>1 DEF LockTaken, LockHeld, Body, End
    <3>2. /\ StepsLeft = Turns(MaxTurns) + 5
          /\ StepsLeft' \in {0, 2, Turns(MaxTurns) + 4}
      BY <3>1 DEF StepsLeft
    <3> QED
      BY <1>0, <3>2
  <2>2. CASE Flat \/ NotFlat
    BY <1>1, <1>3, <2>2 DEF Flat, NotFlat
  <2>3. CASE Prompt
    <3>1. pc = "prompt" /\ pc' = "converse" /\ turn' = turn /\ turn = 0
      BY <2>3 DEF Prompt, IInv, Spending, Before
    <3>2. MaxTurns - turn = MaxTurns
      BY <3>1, CapAssumption
    <3>3. StepsLeft = Turns(MaxTurns) + 4 /\ StepsLeft' = Turns(MaxTurns) + 3
      BY <3>1, <3>2 DEF StepsLeft
    <3> QED
      BY <1>0, <3>3
  <2> QED
    BY <1>5, <2>1, <2>2, <2>3 DEF Opening
<1>6. CASE Closing
  <2>1. CASE Summary
    BY <2>1 DEF Summary, StepsLeft
  <2>2. CASE Report \/ Caught \/ CaughtTwice
    <3>1. pc' = "finally" /\ pc \notin {"finally", "end"}
      BY <2>2 DEF Report, Caught, CaughtTwice
    <3> QED
      BY <1>1, <1>3, <3>1
  <2>3. CASE Release \/ ReleaseFails \/ Kill
    <3>1. pc' = "end" /\ pc # "end"
      BY <2>3 DEF Release, ReleaseFails, Kill, End
    <3> QED
      BY <1>1, <1>2, <3>1
  <2> QED
    BY <1>6, <2>1, <2>2, <2>3 DEF Closing
<1> QED
  BY <1>4, <1>5, <1>6

\* Every step of an invocation uses up one of the steps it has left, which the
\* caps bound from its start.
THEOREM Ends == Spec => RunsOut
<1>1. ASSUME IInv, [Next]_vars
      PROVE  [0 <= StepsLeft' /\ StepsLeft' < StepsLeft]_vars
  <2>1. CASE UNCHANGED vars
    BY <2>1
  <2> QED
    BY <1>1, <2>1, Phases, LoopShortens, AsideShortens
<1> QED
  BY <1>1, Invariance, PTL DEF Spec, RunsOut
=============================================================================
