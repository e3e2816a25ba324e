-------------------------- MODULE Guardrails_proofs --------------------------
(***************************************************************************)
(* For any limits, prices and equities: the size of a bracket spends the     *)
(* tighter budget and no more, and neither rounding, nor stop moves, nor new *)
(* limits make it risk more than it was sized for.                           *)
(***************************************************************************)
EXTENDS Guardrails, TLAPS

----------------------------------------------------------------------------
(* Arithmetic. *)

\* The quotient of \div is the floor.
LEMMA DivFloor ==
    ASSUME NEW a \in Nat, NEW b \in Nat \ {0}
    PROVE  a \div b \in Nat /\ b * (a \div b) <= a /\ a < b * (a \div b) + b
  OBVIOUS

\* A price in cents is within half a cent of the price in mills.
LEMMA CentsRange ==
    ASSUME NEW m \in Nat, NEW c \in Cents(m)
    PROVE  /\ c \in Nat /\ 10 * c <= m + 5 /\ m <= 10 * c + 5
           /\ m % 10 = 0 => 10 * c = m
  BY DEF Cents

\* Rounding keeps the order of a stop and an entry.
LEMMA CentsOrder ==
    ASSUME NEW m \in Nat, NEW n \in Nat, m < n, NEW c \in Cents(m), NEW d \in Cents(n)
    PROVE  c <= d
  BY DEF Cents

\* Rounding never takes a new stop above the one at the broker below it.
LEMMA CentsAbove ==
    ASSUME NEW c \in Nat, NEW m \in Nat, m > 10 * c, NEW d \in Cents(m)
    PROVE  d >= c
  BY DEF Cents

LEMMA FloorRange ==
    ASSUME NEW num \in Nat, NEW den \in Nat \ {0}, NEW q \in FloorOf(num, den)
    PROVE  q \in Nat /\ q * den <= num /\ num < (q + 2) * den
  BY DivFloor DEF FloorOf

\* A share count of size_bracket is within both budgets, and within two of
\* exceeding one of them.
LEMMA SizeRange ==
    ASSUME NEW p \in [Keys -> Nat], NEW start \in Nat,
           NEW entry \in Nat, NEW stop \in Nat, stop > 0, stop < entry,
           NEW q \in Sizes(p, start, entry, stop)
    PROVE  /\ q \in Nat
           /\ 10 * q * (entry - stop) <= start * p["risk_pct"]
           /\ 10 * q * entry <= start * p["max_position_pct"]
           /\ \/ 10 * (q + 2) * (entry - stop) > start * p["risk_pct"]
              \/ 10 * (q + 2) * entry > start * p["max_position_pct"]
<1> DEFINE risk == start * p["risk_pct"]
           room == start * p["max_position_pct"]
           loss == 10 * (entry - stop)
           price == 10 * entry
<1>1. risk \in Nat /\ room \in Nat
  BY DEF Keys, Bounds
<1>2. loss \in Nat \ {0} /\ price \in Nat \ {0}
  OBVIOUS
<1>3. PICK a \in FloorOf(risk, loss), b \in FloorOf(room, price) : q = Lesser(a, b)
  BY DEF Sizes, ByRisk, ByNotional
<1> HIDE DEF risk, room, loss, price
<1>4. a \in Nat /\ a * loss <= risk /\ risk < (a + 2) * loss
  BY <1>1, <1>2, FloorRange
<1>5. b \in Nat /\ b * price <= room /\ room < (b + 2) * price
  BY <1>1, <1>2, FloorRange
<1>6. q \in Nat /\ q <= a /\ q <= b /\ (q = a \/ q = b)
  BY <1>3, <1>4, <1>5 DEF Lesser
<1>7. q * loss <= risk /\ q * price <= room
  <2>1. q * loss <= a * loss /\ q * price <= b * price
    BY <1>2, <1>4, <1>5, <1>6
  <2> QED
    BY <2>1, <1>1, <1>2, <1>4, <1>5, <1>6
<1>8. (q + 2) * loss > risk \/ (q + 2) * price > room
  BY <1>1, <1>2, <1>4, <1>5, <1>6
<1>9. /\ q * loss = 10 * q * (entry - stop) /\ q * price = 10 * q * entry
      /\ (q + 2) * loss = 10 * (q + 2) * (entry - stop)
      /\ (q + 2) * price = 10 * (q + 2) * entry
  BY <1>6 DEF loss, price
<1> QED
  BY <1>6, <1>7, <1>8, <1>9 DEF risk, room

----------------------------------------------------------------------------
(* The inductive invariant. *)

\* What a bracket was sized from: limits inside their bounds, a stop below
\* the entry, and prices that are those of the bracket to half a cent.
Sized ==
    Open =>
       /\ Valid(basis.params)
       /\ basis.stop > 0 /\ basis.stop < basis.entry
       /\ 10 * bracket.entry <= basis.entry + 5

IInv == TypeOK /\ Sized /\ LargestSize /\ RiskBound

\* Limits inside their bounds are natural numbers.
LEMMA ValidLimits ==
    ASSUME NEW p \in Configs, Valid(p)
    PROVE  /\ p \in [Keys -> Nat]
           /\ p["risk_pct"] <= 200 /\ p["max_position_pct"] <= 5000
           /\ p["reward_r"] >= 5
<1>1. p \in [Keys -> Int]
  BY ConfigAssumption
<1>2. \A k \in Keys : p[k] \in Int /\ Bounds[k][1] <= p[k] /\ p[k] <= Bounds[k][2]
  BY <1>1 DEF Valid
<1>3. \A k \in Keys : Bounds[k][1] \in Nat
  BY DEF Keys, Bounds
<1>4. \A k \in Keys : p[k] \in Nat
  BY <1>2, <1>3
<1> QED
  BY <1>1, <1>2, <1>4 DEF Keys, Bounds

LEMMA InitIInv == Init => IInv
<1> SUFFICES ASSUME Init PROVE IInv
  OBVIOUS
<1>1. TypeOK
  BY DEF Init, TypeOK, NoBracket
<1>2. ~Open
  BY DEF Init, NoBracket, Open
<1> QED
  BY <1>1, <1>2 DEF IInv, Sized, LargestSize, RiskBound

\* A bracket that is placed is sized from its basis.
LEMMA PlaceSized ==
    ASSUME IInv, NEW entry \in Prices, NEW stop \in Prices, NEW now \in Times,
           NEW start \in Equities, NEW equity \in Equities,
           Place(entry, stop, now, start, equity)
    PROVE  IInv'
<1>1. entry \in Nat /\ stop \in Nat /\ start \in Nat
  BY PriceAssumption, EquityAssumption
<1>2. stop > 0 /\ stop < entry
  BY DEF Place, StopFits
<1>3. params \in Configs /\ Valid(params) /\ params \in [Keys -> Nat]
  BY ValidLimits DEF IInv, TypeOK, Place
<1>4. PICK q \in Sizes(params, start, entry, stop), e \in Cents(entry), s \in Cents(stop),
           t \in Targets(params, entry, stop) :
           q >= 1 /\ bracket' = [qty |-> q, entry |-> e, stop |-> s, target |-> t]
  BY DEF Place
<1>5. basis' = [entry |-> entry, stop |-> stop, start |-> start, params |-> params]
  BY DEF Place
<1>6. /\ q \in Nat
      /\ 10 * q * (entry - stop) <= start * params["risk_pct"]
      /\ 10 * q * entry <= start * params["max_position_pct"]
      /\ \/ 10 * (q + 2) * (entry - stop) > start * params["risk_pct"]
         \/ 10 * (q + 2) * entry > start * params["max_position_pct"]
  BY <1>1, <1>2, <1>3, SizeRange
<1>7. /\ e \in Nat /\ 10 * e <= entry + 5 /\ (entry % 10 = 0 => 10 * e = entry)
      /\ s \in Nat /\ stop <= 10 * s + 5 /\ (stop % 10 = 0 => 10 * s = stop)
  BY <1>1, CentsRange
<1>8. t \in Nat
  <2>1. params["reward_r"] \in Nat
    BY <1>3 DEF Keys, Bounds
  <2>2. 10 * entry + params["reward_r"] * (entry - stop) \in Nat
    BY <2>1, <1>1, <1>2
  <2> QED
    BY <2>2, DivFloor DEF Targets, CentsOfTenths
<1>9. start * params["risk_pct"] \in Nat
  BY <1>1, <1>3 DEF Keys, Bounds
<1>10. TypeOK'
  BY <1>1, <1>3, <1>4, <1>5, <1>6, <1>7, <1>8 DEF Place, IInv, TypeOK
<1>11. Sized'
  BY <1>2, <1>3, <1>4, <1>5, <1>7 DEF Sized
<1>12. LargestSize'
  BY <1>1, <1>3, <1>4, <1>5, <1>6 DEF LargestSize, Affordable, Keys, Bounds
<1>13. RiskBound'
  <2>1. 100 * q * (e - s) <= 10 * q * (entry - stop) + 100 * q
    <3>1. 10 * (e - s) <= entry - stop + 10
      BY <1>1, <1>7
    <3>2. q * (10 * (e - s)) <= q * (entry - stop + 10)
      BY <3>1, <1>1, <1>6, <1>7
    <3> QED
      BY <3>2, <1>1, <1>6, <1>7
  <2>2. CentPriced' => 100 * q * (e - s) = 10 * q * (entry - stop)
    <3>1. CentPriced' => 10 * (e - s) = entry - stop
      BY <1>1, <1>5, <1>7 DEF CentPriced
    <3> QED
      BY <3>1, <1>1, <1>6, <1>7
  <2> QED
    BY <2>1, <2>2, <1>1, <1>4, <1>5, <1>6, <1>7, <1>9 DEF RiskBound
<1> QED
  BY <1>10, <1>11, <1>12, <1>13 DEF IInv

\* A stop that may be moved is not below the one at the broker.
LEMMA MovedUp ==
    ASSUME TypeOK, NEW new \in Prices, MoveStop(new)
    PROVE  \E s \in Nat : /\ bracket' = [bracket EXCEPT !.stop = s]
                          /\ s >= bracket.stop
                          /\ 10 * s <= new + 5 /\ new < last
<1>1. PICK s \in Cents(new) : bracket' = [bracket EXCEPT !.stop = s]
  BY DEF MoveStop
<1>2. new \in Nat /\ new > 10 * bracket.stop /\ new < last /\ bracket.stop \in Nat
  BY PriceAssumption DEF MoveStop, StopMoves, TypeOK
<1>3. s \in Nat /\ 10 * s <= new + 5 /\ s >= bracket.stop
  BY <1>2, CentsRange, CentsAbove
<1> QED
  BY <1>1, <1>2, <1>3

\* Moving the stop up risks less, whatever the limits of the run that does it.
LEMMA MoveSized ==
    ASSUME IInv, NEW new \in Prices, MoveStop(new)
    PROVE  IInv'
<1>1. PICK s \in Nat : bracket' = [bracket EXCEPT !.stop = s] /\ s >= bracket.stop
  BY MovedUp DEF IInv
<1>2. /\ bracket'.qty = bracket.qty /\ bracket'.entry = bracket.entry /\ bracket'.stop = s
      /\ bracket' \in [qty : Nat, entry : Nat, stop : Nat, target : Nat]
      /\ bracket.qty \in Nat /\ bracket.entry \in Nat /\ bracket.stop \in Nat
  BY <1>1 DEF IInv, TypeOK
<1>3. UNCHANGED <<params, loaded, last, basis>>
  BY DEF MoveStop
<1>4. TypeOK'
  BY <1>2, <1>3 DEF IInv, TypeOK, Valid
<1>5. Sized'
  BY <1>2, <1>3 DEF IInv, Sized, Open, Valid
<1>6. LargestSize'
  BY <1>2, <1>3 DEF IInv, LargestSize, Open, Affordable
<1>7. bracket.qty * (bracket.entry - s) <= bracket.qty * (bracket.entry - bracket.stop)
  BY <1>1, <1>2
<1>8. basis.start * basis.params["risk_pct"] \in Int
  BY ConfigAssumption DEF IInv, TypeOK, Keys, Bounds
<1>9. RiskBound'
  BY <1>2, <1>3, <1>7, <1>8 DEF IInv, RiskBound, Open, CentPriced
<1> QED
  BY <1>4, <1>5, <1>6, <1>9 DEF IInv

\* Every step preserves the invariant.
LEMMA StepIInv == IInv /\ [Next]_vars => IInv'
<1> SUFFICES ASSUME IInv, [Next]_vars PROVE IInv'
  OBVIOUS
<1>1. ASSUME NEW raw \in Configs, Load(raw) PROVE IInv'
  BY <1>1 DEF Load, IInv, TypeOK, Sized, LargestSize, RiskBound, Open, Affordable,
              CentPriced, Valid
<1>2. ASSUME NEW entry \in Prices, NEW stop \in Prices, NEW now \in Times,
             NEW start \in Equities, NEW equity \in Equities,
             Place(entry, stop, now, start, equity)
      PROVE  IInv'
  BY <1>2, PlaceSized
<1>3. ASSUME NEW new \in Prices, MoveStop(new) PROVE IInv'
  BY <1>3, MoveSized
<1>4. ASSUME NEW price \in Prices, PriceMoves(price) PROVE IInv'
  BY <1>4 DEF PriceMoves, IInv, TypeOK, Sized, LargestSize, RiskBound, Open, Affordable,
              CentPriced, Valid
<1>5. CASE Exit
  <2>1. ~Open'
    BY <1>5 DEF Exit, NoBracket, Open
  <2>2. TypeOK'
    BY <1>5 DEF Exit, NoBracket, IInv, TypeOK, Valid
  <2> QED
    BY <2>1, <2>2 DEF IInv, Sized, LargestSize, RiskBound
<1>6. CASE UNCHANGED vars
  BY <1>6 DEF vars, IInv, TypeOK, Sized, LargestSize, RiskBound, Open, Affordable,
              CentPriced, Valid
<1> QED
  BY <1>1, <1>2, <1>3, <1>4, <1>5, <1>6 DEF Next

----------------------------------------------------------------------------
(* What the guardrails promise. *)

\* The invariant holds for any limits, prices and equities.
THEOREM Invariance == Spec => []IInv
  BY InitIInv, StepIInv, PTL DEF Spec

\* Types, and a run only works with limits inside their bounds.
THEOREM Types == Spec => []TypeOK
<1>1. IInv => TypeOK
  BY DEF IInv
<1> QED
  BY <1>1, Invariance, PTL

\* The size spends the tighter budget to within two shares and no more.
THEOREM Sizing == Spec => []LargestSize
<1>1. IInv => LargestSize
  BY DEF IInv
<1> QED
  BY <1>1, Invariance, PTL

\* Rounding, stop moves and new limits keep the loss at the stop in the budget
\* the bracket was sized for.
THEOREM Risk == Spec => []RiskBound
<1>1. IInv => RiskBound
  BY DEF IInv
<1> QED
  BY <1>1, Invariance, PTL

\* The limits a bracket is sized from are inside the sane bounds, so are its
\* risk and its cost.
LEMMA SaneStep == IInv => SaneExposure
<1> SUFFICES ASSUME IInv, Open PROVE SaneExposure
  BY DEF SaneExposure
<1> DEFINE q == bracket.qty
           e == bracket.entry
           s == bracket.stop
           start == basis.start
           risk == basis.params["risk_pct"]
           room == basis.params["max_position_pct"]
<1>1. q \in Nat /\ e \in Nat /\ s \in Nat /\ start \in Nat /\ basis.entry \in Nat
  BY DEF IInv, TypeOK
<1>2. risk \in Nat /\ room \in Nat /\ risk <= 200 /\ room <= 5000
  BY ValidLimits DEF IInv, TypeOK, Sized, Keys, Bounds
<1>3. 100 * q * (e - s) <= start * risk + 100 * q
  BY DEF IInv, RiskBound
<1>4. 10 * q * basis.entry <= start * room /\ 10 * e <= basis.entry + 5
  BY DEF IInv, LargestSize, Affordable, Sized
<1> HIDE DEF q, e, s, start, risk, room
<1>5. start * risk <= 200 * start /\ start * room <= 5000 * start
  BY <1>1, <1>2
<1>6. q * (10 * e) <= q * (basis.entry + 5)
  BY <1>1, <1>4
<1>7. q * (e - s) <= 2 * start + q
  BY <1>1, <1>2, <1>3, <1>5
<1>8. 2 * q * e <= 100 * start + q
  BY <1>1, <1>2, <1>4, <1>5, <1>6
<1> QED
  BY <1>7, <1>8 DEF SaneExposure, q, e, s, start

\* No config object, whatever is mistyped in it, lets an order risk more than
\* the bounds of the code allow.
THEOREM Sanity == Spec => []SaneExposure
  BY SaneStep, Invariance, PTL

\* A stop at the broker is never widened.
THEOREM Ratchet == Spec => StopRatchets
<1>1. IInv /\ [Next]_vars => [StopTightened]_vars
  <2> SUFFICES ASSUME IInv, Next, Open, Open'
               PROVE  /\ bracket'.stop >= bracket.stop
                      /\ bracket'.stop # bracket.stop => 10 * bracket'.stop < last + 5
                      /\ bracket'.qty = bracket.qty /\ bracket'.entry = bracket.entry
    BY DEF StopTightened
  <2>1. bracket.stop \in Nat /\ last \in Nat
    BY PriceAssumption DEF IInv, TypeOK
  <2>2. CASE bracket' = bracket
    BY <2>1, <2>2
  <2>3. ASSUME NEW new \in Prices, MoveStop(new)
        PROVE  /\ bracket'.stop >= bracket.stop
               /\ 10 * bracket'.stop < last + 5
               /\ bracket'.qty = bracket.qty /\ bracket'.entry = bracket.entry
    <3>1. PICK s \in Nat : /\ bracket' = [bracket EXCEPT !.stop = s]
                           /\ s >= bracket.stop /\ 10 * s <= new + 5 /\ new < last
      BY <2>3, MovedUp DEF IInv
    <3> QED
      BY <3>1, <2>1, PriceAssumption DEF IInv, TypeOK
  <2>4. CASE Exit
    BY <2>4 DEF Exit, NoBracket, Open
  <2>5. ASSUME NEW entry \in Prices, NEW stop \in Prices, NEW now \in Times,
               NEW start \in Equities, NEW equity \in Equities,
               Place(entry, stop, now, start, equity)
        PROVE  FALSE
    BY <2>5 DEF Place, Open
  <2> QED
    BY <2>2, <2>3, <2>4, <2>5 DEF Next, Load, PriceMoves
<1> QED
  BY <1>1, Invariance, PTL DEF Spec, StopRatchets

\* A bracket is sent with its stop, entry and target in order.
THEOREM Order == Spec => BracketOrdered
<1>1. IInv /\ [Next]_vars => [PlacedInOrder]_vars
  <2> SUFFICES ASSUME IInv, Next, ~Open, Open' PROVE PlacedInOrder
    BY DEF PlacedInOrder
  <2>1. PICK entry \in Prices, stop \in Prices, now \in Times, start \in Equities,
             equity \in Equities : Place(entry, stop, now, start, equity)
    BY DEF Next, Load, MoveStop, PriceMoves, Exit, Open
  <2>2. entry \in Nat /\ stop \in Nat /\ stop < entry
    BY <2>1, PriceAssumption DEF Place, StopFits
  <2>3. params["reward_r"] \in Nat /\ params["reward_r"] >= 5
    BY <2>1, ValidLimits DEF IInv, TypeOK, Place, Keys, Bounds
  <2>4. PICK q \in Sizes(params, start, entry, stop), e \in Cents(entry), s \in Cents(stop),
             t \in Targets(params, entry, stop) :
             bracket' = [qty |-> q, entry |-> e, stop |-> s, target |-> t]
    BY <2>1 DEF Place
  <2>5. s <= e
    BY <2>2, CentsOrder
  <2>6. e <= t
    <3>1. PICK gain \in Nat : gain = params["reward_r"] * (entry - stop) /\ gain >= 5
      BY <2>2, <2>3
    <3>2. t \in CentsOfTenths(10 * entry + gain)
      BY <3>1 DEF Targets
    <3> QED
      BY <2>2, <3>1, <3>2 DEF CentsOfTenths, Cents
  <2>7. CentPriced' => s < e
    BY <2>1, <2>2, CentsRange DEF Place, CentPriced
  <2> QED
    BY <2>4, <2>5, <2>6, <2>7 DEF PlacedInOrder
<1> QED
  BY <1>1, Invariance, PTL DEF Spec, BracketOrdered
=============================================================================
