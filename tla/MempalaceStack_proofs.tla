------------------------ MODULE MempalaceStack_proofs ------------------------
(***************************************************************************)
(* Proofs about MempalaceStack.  That the stack comes up, and goes down, is  *)
(* liveness, which only TLC can check; proved for any number of checks and   *)
(* any ages is what that rests on: no toggle run waits while none runs, only *)
(* a run that ended badly leaves the stack half up or half down, and the     *)
(* verdicts that outlive their window run out.                               *)
(***************************************************************************)
EXTENDS MempalaceStack, FiniteSetTheorems, TLAPS

USE DEF Down, Groups, Parts, Goto, Enqueue, Fails, Proceed

\* The stack is down and nothing is queued at first.
LEMMA InitTypeOK == Init => TypeOK
<1> SUFFICES ASSUME Init PROVE TypeOK
  OBVIOUS
<1>1. whole \in BOOLEAN /\ stuck \in BOOLEAN
  BY Zenon DEF Init
<1> QED
  BY <1>1, WindowAssumption, BoundAssumption DEF Init, TypeOK

\* A target group is found idle or it is not.
LEMMA VerdictsBoolean == \A g \in Groups : Verdicts(g) \subseteq BOOLEAN
  BY Zenon DEF Verdicts

\* A check reads, and queues its verdict.
LEMMA CheckStep == ASSUME TypeOK, NEW c \in Checks, Check(c) PROVE TypeOK'
<1> USE BoundAssumption DEF TypeOK, stack, state, queue, count
<1>1. CASE ReadWindow(c)
  BY <1>1 DEF ReadWindow
<1>2. CASE AlbMissing(c)
  BY <1>2 DEF AlbMissing
<1>3. CASE AlbFound(c)
  BY <1>3 DEF AlbFound
<1>4. CASE AskPersonal(c)
  <2>1. PICK b \in BOOLEAN : idle' = [idle EXCEPT ![c] = b]
    BY <1>4, VerdictsBoolean, Zenon DEF AskPersonal
  <2>2. idle' \in [Checks -> BOOLEAN]
    BY <2>1, Zenon
  <2>3. faults' \in 0..MaxFaults /\ UNCHANGED <<manual, broken>>
    BY <1>4 DEF AskPersonal
  <2>4. pc' = [pc EXCEPT ![c] = "magnetlegal"] /\ UNCHANGED <<keep, stack, state, inside, queue>>
    BY <1>4 DEF AskPersonal
  <2> QED
    BY <2>2, <2>3, <2>4
<1>5. CASE AskMagnetlegal(c)
  BY <1>5 DEF AskMagnetlegal
<1> QED
  BY <1>1, <1>2, <1>3, <1>4, <1>5 DEF Check

\* A toggle run ends, or breaks, and the waiting one follows it.
LEMMA ToggleStep == ASSUME TypeOK, Toggle PROVE TypeOK'
<1> USE WindowAssumption, BoundAssumption DEF TypeOK, check, count
<1>1. CASE Up
  BY <1>1 DEF Up
<1>2. CASE TearDown
  BY <1>2 DEF TearDown
<1>3. CASE Breaks
  <2>1. broken' \in 0..MaxFaults /\ whole' = FALSE /\ stuck' \in BOOLEAN
    BY <1>3 DEF Breaks
  <2>2. alb' \in {Down} \cup 0..Grace
    <3>1. alb' \in {alb, Down, 0}
      BY <1>3 DEF Breaks, Halfway
    <3> QED
      BY <3>1
  <2>4. parts' \subseteq Parts
    <3>1. CASE parts' \in SUBSET parts
      BY <3>1
    <3>2. ASSUME NEW new \in SUBSET {"waf", "personal"}, parts' = parts \cup new
          PROVE  parts' \subseteq Parts
      BY <3>2
    <3> QED
      BY <1>3, <3>1, <3>2 DEF Breaks, Halfway
  <2>3. running' = pending /\ pending' = "none" /\ UNCHANGED <<keep, quiet, check, manual, faults>>
    BY <1>3 DEF Breaks
  <2> QED
    BY <2>1, <2>2, <2>3, <2>4
<1>4. CASE LockedOut
  BY <1>4 DEF LockedOut, stack, state
<1> QED
  BY <1>1, <1>2, <1>3, <1>4 DEF Toggle

\* People and time.
LEMMA WorldStep ==
  ASSUME TypeOK,
         \/ \E action \in {"up", "down"} : Ask(action)
         \/ Unlock \/ StartMagnetlegal
         \/ \E g \in Groups : Traffic(g)
         \/ Tick \/ WindowOpens \/ WindowCloses
  PROVE  TypeOK'
<1> USE WindowAssumption, BoundAssumption DEF TypeOK, stack, state, check, queue, count
<1>1. ASSUME NEW action \in {"up", "down"}, Ask(action) PROVE TypeOK'
  BY <1>1 DEF Ask
<1>2. CASE StartMagnetlegal
  BY <1>2 DEF StartMagnetlegal
<1>6. CASE Unlock
  BY <1>6 DEF Unlock
<1>3. ASSUME NEW g \in Groups, Traffic(g) PROVE TypeOK'
  BY <1>3 DEF Traffic
<1>4. CASE Tick
  BY <1>4 DEF Tick, UpTo
<1>5. CASE WindowOpens \/ WindowCloses
  BY <1>5 DEF WindowOpens, WindowCloses
<1> QED
  BY <1>1, <1>2, <1>3, <1>4, <1>5, <1>6

\* The variables keep their types, and the concurrency group runs something
\* whenever something waits.
THEOREM Types == Spec => []TypeOK
<1>1. TypeOK /\ [Next]_vars => TypeOK'
  <2>1. ASSUME TypeOK, UNCHANGED vars PROVE TypeOK'
    BY <2>1 DEF vars, stack, state, check, queue, count, TypeOK
  <2> QED
    BY <2>1, CheckStep, ToggleStep, WorldStep DEF Next
<1> QED
  BY <1>1, InitTypeOK, PTL DEF Spec

\* The stack is all there but for the MagNet Legal service, or all gone.
AllOrNothing == IF alb = Down THEN parts = {} ELSE {"waf", "personal"} \subseteq parts

\* Only a Terraform run that ended badly leaves something of the stack without
\* its load balancer, or the load balancer without the rest: while the checks,
\* which look at the ALB alone, are blind to that, the last run that got the
\* state lock has failed.
THEOREM LeftOver == Spec => [](whole => AllOrNothing)
<1> USE DEF AllOrNothing
<1>1. Init => (whole => AllOrNothing)
  BY DEF Init
<1>2. TypeOK /\ (whole => AllOrNothing) /\ [Next]_vars => (whole => AllOrNothing)'
  <2> SUFFICES ASSUME TypeOK, whole => AllOrNothing, [Next]_vars, whole'
               PROVE  AllOrNothing'
    BY Zenon
  <2> USE DEF stack, state
  <2>1. CASE Toggle
    <3>1. CASE Up
      BY <3>1, WindowAssumption DEF Up, TypeOK
    <3>2. CASE TearDown
      BY <3>2 DEF TearDown
    <3>3. CASE Breaks
      BY <3>3 DEF Breaks
    <3>4. CASE LockedOut
      BY <3>4 DEF LockedOut
    <3> QED
      BY <2>1, <3>1, <3>2, <3>3, <3>4 DEF Toggle
  <2>2. CASE UNCHANGED <<alb, parts, whole>>
    BY <2>2
  <2>3. CASE StartMagnetlegal
    BY <2>3 DEF StartMagnetlegal
  <2>4. CASE Tick
    BY <2>4, WindowAssumption DEF Tick, UpTo, TypeOK
  <2>5. ASSUME NEW c \in Checks, Check(c) PROVE UNCHANGED <<alb, parts, whole>>
    BY <2>5 DEF Check, ReadWindow, AlbMissing, AlbFound, AskPersonal, AskMagnetlegal
  <2>6. ASSUME NEW action \in {"up", "down"}, Ask(action) PROVE UNCHANGED <<alb, parts, whole>>
    BY <2>6 DEF Ask
  <2>7. ASSUME NEW g \in Groups, Traffic(g) PROVE UNCHANGED <<alb, parts, whole>>
    BY <2>7 DEF Traffic
  <2>8. CASE Unlock \/ WindowOpens \/ WindowCloses \/ UNCHANGED vars
    BY <2>2, <2>8 DEF Unlock, WindowOpens, WindowCloses, vars
  <2> QED
    BY <2>1, <2>2, <2>3, <2>4, <2>5, <2>6, <2>7, <2>8 DEF Next
<1> QED
  BY <1>1, <1>2, Types, PTL DEF Spec

----------------------------------------------------------------------------
(* The verdicts of a window that is over run out. *)

\* A check that goes on past the ALB was outside the window.
Judging == \A c \in Checks : pc[c] \in {"personal", "magnetlegal"} => ~inside[c]

\* A check goes on to judge only when it read that the window is closed.
LEMMA JudgingStep == ASSUME TypeOK, Judging, [Next]_vars PROVE Judging'
<1> USE DEF TypeOK, Judging
<1>1. CASE UNCHANGED check
  BY <1>1 DEF check
<1>2. ASSUME NEW c \in Checks, ReadWindow(c) PROVE Judging'
  BY <1>2 DEF ReadWindow
<1>3. ASSUME NEW c \in Checks, AlbMissing(c) PROVE Judging'
  BY <1>3 DEF AlbMissing
<1>4. ASSUME NEW c \in Checks, AlbFound(c) PROVE Judging'
  BY <1>4 DEF AlbFound
<1>5. ASSUME NEW c \in Checks, AskPersonal(c) PROVE Judging'
  BY <1>5 DEF AskPersonal
<1>6. ASSUME NEW c \in Checks, AskMagnetlegal(c) PROVE Judging'
  BY <1>6 DEF AskMagnetlegal
<1>7. CASE Toggle
  BY <1>1, <1>7 DEF Toggle, Up, TearDown, Breaks, LockedOut
<1>8. ASSUME NEW action \in {"up", "down"}, Ask(action) PROVE Judging'
  BY <1>1, <1>8 DEF Ask
<1>9. ASSUME NEW g \in Groups, Traffic(g) PROVE Judging'
  BY <1>1, <1>9 DEF Traffic
<1>10. CASE Unlock \/ StartMagnetlegal \/ Tick \/ WindowOpens \/ WindowCloses
  BY <1>1, <1>10 DEF Unlock, StartMagnetlegal, Tick, WindowOpens, WindowCloses
<1>11. CASE UNCHANGED vars
  BY <1>1, <1>11 DEF vars
<1> QED
  BY <1>2, <1>3, <1>4, <1>5, <1>6, <1>7, <1>8, <1>9, <1>10, <1>11 DEF Next, Check

\* Deciding is a set of checks.
LEMMA DecidingChecks ==
  ASSUME IsFiniteSet(Checks), NEW action
  PROVE  IsFiniteSet(Deciding(action)) /\ Cardinality(Deciding(action)) \in Nat
<1>1. Deciding(action) \subseteq Checks
  BY DEF Deciding
<1> QED
  BY <1>1, FS_Subset, FS_CardinalityType

\* The same, of the next state.
LEMMA DecidingFewer ==
  ASSUME IsFiniteSet(Checks), NEW action, Deciding(action)' \subseteq Deciding(action)
  PROVE  /\ Cardinality(Deciding(action))' \in Nat
         /\ Cardinality(Deciding(action))' <= Cardinality(Deciding(action))
<1> DEFINE now == Deciding(action)
           then == Deciding(action)'
<1>1. IsFiniteSet(now) /\ then \subseteq now
  BY DecidingChecks
<1> HIDE DEF now, then
<1>2. IsFiniteSet(then) /\ Cardinality(then) \in Nat /\ Cardinality(then) <= Cardinality(now)
  BY <1>1, FS_Subset, FS_CardinalityType
<1> QED
  BY <1>2 DEF now, then

\* A check that has decided is one less.
LEMMA DecidingOneLess ==
  ASSUME IsFiniteSet(Checks), NEW action, NEW c \in Deciding(action),
         Deciding(action)' \subseteq Deciding(action) \ {c}
  PROVE  /\ Cardinality(Deciding(action))' \in Nat
         /\ Cardinality(Deciding(action))' + 1 <= Cardinality(Deciding(action))
<1> DEFINE now == Deciding(action)
           then == Deciding(action)'
<1>1. IsFiniteSet(now) /\ Cardinality(now) \in Nat /\ then \subseteq now \ {c} /\ c \in now
  BY DecidingChecks
<1> HIDE DEF now, then
<1>2. IsFiniteSet(now \ {c}) /\ Cardinality(now \ {c}) = Cardinality(now) - 1
  BY <1>1, FS_RemoveElement
<1>3. IsFiniteSet(then) /\ Cardinality(then) \in Nat /\ Cardinality(then) <= Cardinality(now \ {c})
  BY <1>1, <1>2, FS_Subset, FS_CardinalityType
<1>4. Cardinality(then) + 1 <= Cardinality(now)
  BY <1>1, <1>2, <1>3
<1> QED
  BY <1>3, <1>4 DEF now, then

\* A run that is queued adds at most itself, and nothing to the other action.
LEMMA OrdersEnqueue ==
  ASSUME TypeOK, NEW action, NEW other, Enqueue(other)
  PROVE  /\ Orders(action) \in Nat /\ Orders(action)' \in Nat
         /\ Orders(action)' <= Orders(action) + 1
         /\ action # other => Orders(action)' <= Orders(action)
  BY DEF TypeOK, Orders

\* What stays to be decided and to be carried out, in one sum.
LEMMA LeftFewer ==
  ASSUME TypeOK, IsFiniteSet(Checks), NEW action,
         Deciding(action)' \subseteq Deciding(action),
         UNCHANGED queue \/ (\E other : other # action /\ Enqueue(other))
  PROVE  Left(action)' <= Left(action)
<1>1. Orders(action) \in Nat /\ Orders(action)' \in Nat /\ Orders(action)' <= Orders(action)
  BY OrdersEnqueue DEF queue, Orders
<1> QED
  BY <1>1, DecidingChecks, DecidingFewer DEF Left

\* A verdict is one decision less and at most one run more.
LEMMA LeftDecided ==
  ASSUME TypeOK, IsFiniteSet(Checks), NEW action, NEW c \in Deciding(action),
         Deciding(action)' \subseteq Deciding(action) \ {c},
         UNCHANGED queue \/ Enqueue(action)
  PROVE  Left(action)' <= Left(action)
<1>1. Orders(action) \in Nat /\ Orders(action)' \in Nat /\ Orders(action)' <= Orders(action) + 1
  BY OrdersEnqueue DEF queue, Orders
<1> QED
  BY <1>1, DecidingChecks, DecidingOneLess DEF Left

Wrong == IF InWindow THEN "down" ELSE "up"

\* Whatever a check reads or decides, what the window forbids is not more.
LEMMA CheckLeft ==
  ASSUME TypeOK, Judging, IsFiniteSet(Checks), NEW c \in Checks, Check(c),
         NEW action, action = Wrong
  PROVE  Left(action)' <= Left(action)
<1> USE DEF Wrong, InWindow, Deciding
<1>t. pc \in [Checks -> {"off", "alb", "personal", "magnetlegal"}] /\ inside \in [Checks -> BOOLEAN]
  BY DEF TypeOK
<1>1. CASE ReadWindow(c)
  <2>1. Deciding(action)' \subseteq Deciding(action)
    BY <1>1, <1>t DEF ReadWindow
  <2> QED
    BY <2>1, <1>1, LeftFewer DEF ReadWindow
<1>2. CASE AlbMissing(c)
  <2>1. Deciding(action)' \subseteq Deciding(action) \ {c}
    BY <1>2, <1>t DEF AlbMissing
  <2>2. CASE ~inside[c]
    BY <2>1, <2>2, <1>2, LeftFewer DEF AlbMissing
  <2>3. CASE inside[c] /\ action = "down"
    <3>1. Enqueue("up")
      BY <2>3, <1>2 DEF AlbMissing
    <3> QED
      BY <2>1, <2>3, <3>1, LeftFewer
  <2>4. CASE inside[c] /\ action = "up"
    <3>1. c \in Deciding(action) /\ Enqueue(action)
      BY <2>4, <1>2 DEF AlbMissing
    <3> QED
      BY <2>1, <3>1, LeftDecided
  <2> QED
    BY <2>2, <2>3, <2>4, <1>t
<1>3. CASE AlbFound(c)
  <2>1. Deciding(action)' \subseteq Deciding(action)
    BY <1>3, <1>t DEF AlbFound
  <2> QED
    BY <2>1, <1>3, LeftFewer DEF AlbFound
<1>4. CASE AskPersonal(c)
  <2>1. Deciding(action)' \subseteq Deciding(action)
    BY <1>4, <1>t DEF AskPersonal
  <2> QED
    BY <2>1, <1>4, LeftFewer DEF AskPersonal
<1>5. CASE AskMagnetlegal(c)
  <2>1. Deciding(action)' \subseteq Deciding(action) \ {c} /\ ~inside[c]
    BY <1>5, <1>t DEF AskMagnetlegal, Judging
  <2>2. UNCHANGED queue \/ Enqueue("down")
    BY <1>5 DEF AskMagnetlegal
  <2>3. CASE action = "down"
    <3>1. c \in Deciding(action)
      BY <2>1, <2>3, <1>5 DEF AskMagnetlegal
    <3> QED
      BY <2>1, <2>2, <2>3, <3>1, LeftDecided
  <2>4. CASE action = "up"
    BY <2>1, <2>2, <2>4, LeftFewer
  <2> QED
    BY <2>3, <2>4
<1> QED
  BY <1>1, <1>2, <1>3, <1>4, <1>5 DEF Check

\* The end of a run is one order less of what it did.
LEMMA ToggleLeft ==
  ASSUME TypeOK, IsFiniteSet(Checks), Toggle, NEW action, action \in {"up", "down"}
  PROVE  /\ Left(action)' <= Left(action)
         /\ running = action => Left(action)' < Left(action)
<1>1. /\ running # "none" /\ running' = pending /\ pending' = "none"
      /\ UNCHANGED check
  BY DEF Toggle, Up, TearDown, Breaks, LockedOut, TypeOK, check
<1>2. Cardinality(Deciding(action))' = Cardinality(Deciding(action))
  BY <1>1 DEF Deciding, check
<1>3. /\ Orders(action) \in Nat /\ Orders(action)' \in Nat
      /\ Orders(action)' <= Orders(action)
      /\ running = action => Orders(action)' < Orders(action)
  BY <1>1 DEF Orders
<1> QED
  BY <1>2, <1>3, DecidingChecks DEF Left

\* Only a teardown takes the ALB away, and only a bring-up brings one.
LEMMA StackMoves ==
  ASSUME TypeOK, [Next]_vars, UNCHANGED manual
  PROVE  /\ alb # Down /\ alb' = Down => Toggle /\ running = "down"
         /\ alb = Down /\ alb' # Down => Toggle /\ running = "up"
<1> USE DEF TypeOK
<1>1. CASE \E c \in Checks : Check(c)
  BY <1>1 DEF Check, ReadWindow, AlbMissing, AlbFound, AskPersonal, AskMagnetlegal, stack
<1>2. CASE Toggle
  BY <1>2 DEF Toggle, Up, TearDown, Breaks, Halfway, LockedOut, stack
<1>3. CASE \E action \in {"up", "down"} : Ask(action)
  BY <1>3 DEF Ask, stack
<1>4. CASE Unlock \/ StartMagnetlegal \/ \E g \in Groups : Traffic(g)
  BY <1>4 DEF Unlock, StartMagnetlegal, Traffic, stack
<1>5. CASE Tick
  BY <1>5, WindowAssumption DEF Tick, UpTo
<1>6. CASE WindowOpens \/ WindowCloses \/ UNCHANGED vars
  BY <1>6 DEF WindowOpens, WindowCloses, stack, vars
<1> QED
  BY <1>1, <1>2, <1>3, <1>4, <1>5, <1>6 DEF Next

\* What people and time do, when nobody asks for a toggle, queues nothing.
LEMMA WorldLeft ==
  ASSUME [Next]_vars, UNCHANGED manual, TypeOK, ~Toggle, ~(\E c \in Checks : Check(c)), NEW action
  PROVE  Left(action)' = Left(action)
<1>1. UNCHANGED <<check, queue>>
  BY DEF Next, Ask, Unlock, StartMagnetlegal, Traffic, Tick, WindowOpens, WindowCloses, vars, TypeOK
<1> QED
  BY <1>1 DEF Left, Deciding, Orders, check, queue

\* Every step together.
LEMMA NextLeft ==
  ASSUME TypeOK, Judging, IsFiniteSet(Checks), [Next]_vars, UNCHANGED manual,
         NEW action, action = Wrong
  PROVE  /\ Left(action)' <= Left(action)
         /\ Toggle /\ running = action => Left(action)' < Left(action)
<1>1. action \in {"up", "down"} /\ Left(action) \in Nat
  BY DecidingChecks DEF Wrong, Left, Orders
<1>2. CASE Toggle
  BY <1>1, <1>2, ToggleLeft
<1>3. ASSUME ~Toggle, NEW c \in Checks, Check(c) PROVE Left(action)' <= Left(action)
  BY <1>3, CheckLeft
<1>4. CASE ~Toggle /\ ~(\E c \in Checks : Check(c))
  <2>1. Left(action)' = Left(action)
    BY <1>4, WorldLeft
  <2> QED
    BY <1>1, <1>4, <2>1
<1> QED
  BY <1>2, <1>3, <1>4

\* However many checks run side by side, however late their verdicts are carried
\* out and whatever fails: what the window forbids happens at most once for each
\* check and toggle run that was under way when it opened or closed.
THEOREM RunOut == ASSUME IsFiniteSet(Checks) PROVE Spec => VerdictsRunOut
<1> DEFINE Move ==
      UNCHANGED <<keep, manual>> =>
          LET wrong == IF InWindow THEN "down" ELSE "up"
              acts  == IF InWindow THEN alb # Down /\ alb' = Down
                                   ELSE alb = Down /\ alb' # Down
          IN  /\ Left(wrong)' <= Left(wrong)
              /\ acts => Left(wrong)' < Left(wrong)
<1>1. Init => Judging
  BY DEF Init, Judging
<1>2. TypeOK /\ Judging /\ [Next]_vars => Judging'
  BY JudgingStep
<1>3. TypeOK /\ Judging /\ [Next]_vars => Move
  <2> SUFFICES ASSUME TypeOK, Judging, [Next]_vars, UNCHANGED <<keep, manual>> PROVE Move
    OBVIOUS
  <2>1. CASE InWindow
    <3>1. Wrong = "down" /\ InWindow'
      BY <2>1 DEF Wrong, InWindow
    <3>2. /\ Left("down")' <= Left("down")
          /\ Toggle /\ running = "down" => Left("down")' < Left("down")
      BY <3>1, NextLeft
    <3> QED
      BY <2>1, <3>1, <3>2, StackMoves
  <2>2. CASE ~InWindow
    <3>1. Wrong = "up" /\ ~InWindow'
      BY <2>2 DEF Wrong, InWindow
    <3>2. /\ Left("up")' <= Left("up")
          /\ Toggle /\ running = "up" => Left("up")' < Left("up")
      BY <3>1, NextLeft
    <3> QED
      BY <2>2, <3>1, <3>2, StackMoves
  <2> QED
    BY <2>1, <2>2
<1>4. TypeOK /\ Judging /\ [Next]_vars => [Move]_vars
  BY <1>3
<1> QED
  BY <1>1, <1>2, <1>4, Types, PTL DEF Spec, VerdictsRunOut
=============================================================================
