----------------------------- MODULE Guardrails -----------------------------
(***************************************************************************)
(* The arithmetic of the trading guardrails (guardrails.py) in use: a run    *)
(* loads the private limits, sizes a bracket order and sends its prices      *)
(* rounded to cents, and later runs, perhaps with other limits, move its     *)
(* stop (tools.py).                                                          *)
(*                                                                         *)
(* Prices are in mills (1/1000 dollar) as the model asks for them and in     *)
(* cents as the broker gets them; money is in dollars, percentages in basis  *)
(* points, reward_r in tenths, times in minutes.                             *)
(*                                                                         *)
(* Python computes in binary floating point.  Here the arithmetic is exact,  *)
(* and whatever a last bit decides may go either way: a price half way       *)
(* between two cents, a comparison of two equal amounts, and the floor of a  *)
(* quotient that is a whole number.                                          *)
(*                                                                         *)
(* The counts of positions and orders are judged in TradingDay.              *)
(***************************************************************************)
EXTENDS Integers

CONSTANTS
    Configs,   \* the private config objects a run may find
    Prices,    \* prices, in mills; 0 is an unknown last price
    Equities,  \* dollars
    Times      \* minutes of the day

(* _BOUNDS.  A value that is missing or is not a number is -1 here, which is  *)
(* outside all of them.  The two volume limits are not modelled.             *)
Bounds ==
    [max_positions |-> <<1, 20>>,          max_position_pct |-> <<10, 5000>>,
     risk_pct |-> <<1, 200>>,              max_stop_pct |-> <<10, 1000>>,
     reward_r |-> <<5, 100>>,              daily_loss_halt_pct |-> <<10, 1000>>,
     min_price |-> <<1000, 10000000>>,     max_entry_deviation_pct |-> <<1, 500>>,
     max_orders_per_run |-> <<1, 50>>,     max_orders_per_day |-> <<1, 500>>,
     max_turns |-> <<1, 100>>,             max_run_cost_cents |-> <<1, 2500>>,
     last_entry_time |-> <<0, 1439>>]

Keys == DOMAIN Bounds

ASSUME ConfigAssumption == Configs \subseteq [Keys -> Int] /\ Configs # {}
ASSUME PriceAssumption == Prices \subseteq Nat
ASSUME EquityAssumption == Equities \subseteq Nat
ASSUME TimeAssumption == Times \subseteq Nat

VARIABLES
    params,   \* the limits of the present run
    loaded,   \* did they pass from_dict?
    last,     \* last price, in mills
    bracket,  \* the bracket at the broker: [qty, entry, stop, target], qty 0 if none
    basis     \* what it was sized from: [entry, stop, start, params]

vars == <<params, loaded, last, bracket, basis>>

NoBracket == [qty |-> 0, entry |-> 0, stop |-> 0, target |-> 0]

Init ==
    /\ params \in Configs /\ loaded = FALSE
    /\ last \in Prices
    /\ bracket = NoBracket
    /\ basis = [entry |-> 0, stop |-> 0, start |-> 0, params |-> params]

----------------------------------------------------------------------------
(* Pure functions. *)

\* Mutant: only presence is checked, not the sane bounds.
ValidPresent(raw) == \A k \in Keys : raw[k] # -1

Valid(raw) == \A k \in Keys : Bounds[k][1] <= raw[k] /\ raw[k] <= Bounds[k][2]

\* round(x, 2) of a price in mills: the binary representation breaks the tie.
Cents(mills) == {(mills + 4) \div 10, (mills + 5) \div 10}

\* The same for a price in tenths of a mill.
CentsOfTenths(x) == {(x + 49) \div 100, (x + 50) \div 100}

DailyHalt(p, start, equity) ==
    start # 0 /\ 10000 * equity < start * (10000 - p["daily_loss_halt_pct"])

Apart(a, b) == IF a > b THEN a - b ELSE b - a

\* universe_reject_reason and evaluate_entry, as far as they judge prices.
MayEnter(p, entry, now, start, equity) ==
    /\ now < p["last_entry_time"]
    /\ ~DailyHalt(p, start, equity)
    /\ last >= p["min_price"] /\ last # 0
    /\ Apart(entry, last) * 10000 <= p["max_entry_deviation_pct"] * last

\* math.floor(num / den)
FloorOf(num, den) ==
    IF num > 0 /\ num % den = 0 THEN {num \div den, (num \div den) - 1} ELSE {num \div den}

ByRisk(p, start, entry, stop) == FloorOf(start * p["risk_pct"], 10 * (entry - stop))
ByNotional(p, start, entry) == FloorOf(start * p["max_position_pct"], 10 * entry)

\* Mutant: the position budget is forgotten.
SizesByRisk(p, start, entry, stop) == ByRisk(p, start, entry, stop)

Lesser(a, b) == IF a <= b THEN a ELSE b

\* The share counts size_bracket may compute.
Sizes(p, start, entry, stop) ==
    {Lesser(a, b) : a \in ByRisk(p, start, entry, stop), b \in ByNotional(p, start, entry)}

\* Mutant: the reward is counted from the stop.
TargetsFromStop(p, entry, stop) == CentsOfTenths(10 * stop + p["reward_r"] * (entry - stop))

Targets(p, entry, stop) == CentsOfTenths(10 * entry + p["reward_r"] * (entry - stop))

StopFits(p, entry, stop) ==
    /\ stop > 0 /\ stop < entry
    /\ (entry - stop) * 10000 <= p["max_stop_pct"] * entry

\* Mutant: a stop may be moved either way.
StopMovesBoth(current, new) == new # 10 * current /\ new < last

\* stop_move_reason: the stop at the broker is in cents.
StopMoves(current, new) == new > 10 * current /\ new < last

----------------------------------------------------------------------------
(* Runs and the broker. *)

\* A run starts: bad limits end it at once.
Load(raw) ==
    /\ params' = raw
    /\ loaded' = Valid(raw)
    /\ UNCHANGED <<last, bracket, basis>>

\* place_bracket_order: the checks, the size, the rounded prices.
Place(entry, stop, now, start, equity) ==
    /\ loaded /\ bracket.qty = 0
    /\ MayEnter(params, entry, now, start, equity)
    /\ StopFits(params, entry, stop)
    /\ \E q \in Sizes(params, start, entry, stop), e \in Cents(entry), s \in Cents(stop),
          t \in Targets(params, entry, stop) :
          /\ q >= 1
          /\ bracket' = [qty |-> q, entry |-> e, stop |-> s, target |-> t]
    /\ basis' = [entry |-> entry, stop |-> stop, start |-> start, params |-> params]
    /\ UNCHANGED <<params, loaded, last>>

\* move_stop_to: judged as asked, sent rounded.
MoveStop(new) ==
    /\ loaded /\ bracket.qty > 0
    /\ StopMoves(bracket.stop, new)
    /\ \E s \in Cents(new) : bracket' = [bracket EXCEPT !.stop = s]
    /\ UNCHANGED <<params, loaded, last, basis>>

PriceMoves(price) ==
    /\ last' = price
    /\ UNCHANGED <<params, loaded, bracket, basis>>

\* The bracket is cancelled, or its stop or target is filled.
Exit ==
    /\ bracket.qty > 0
    /\ bracket' = NoBracket
    /\ basis' = [entry |-> 0, stop |-> 0, start |-> 0, params |-> params]
    /\ UNCHANGED <<params, loaded, last>>

Next ==
    \/ \E raw \in Configs : Load(raw)
    \/ \E entry, stop \in Prices, now \in Times, start, equity \in Equities :
          Place(entry, stop, now, start, equity)
    \/ \E new \in Prices : MoveStop(new)
    \/ \E price \in Prices : PriceMoves(price)
    \/ Exit

Spec == Init /\ [][Next]_vars

----------------------------------------------------------------------------
(* Properties. *)

TypeOK ==
    /\ params \in Configs /\ loaded \in BOOLEAN
    /\ loaded => Valid(params)
    /\ last \in Prices
    /\ bracket \in [qty : Nat, entry : Nat, stop : Nat, target : Nat]
    /\ basis \in [entry : Nat, stop : Nat, start : Nat, params : Configs]

Open == bracket.qty > 0

\* Does a share count stay within the risk and the position budget?
Affordable(q) ==
    /\ 10 * q * (basis.entry - basis.stop) <= basis.start * basis.params["risk_pct"]
    /\ 10 * q * basis.entry <= basis.start * basis.params["max_position_pct"]

\* Sizing (size_bracket) spends the tighter of the two budgets and never more:
\* it is at most one share short of the largest affordable count.
LargestSize == Open => Affordable(bracket.qty) /\ ~Affordable(bracket.qty + 2)

CentPriced == basis.entry % 10 = 0 /\ basis.stop % 10 = 0

\* What the bracket at the broker loses at its stop, whatever stop moves and
\* changes of the limits came since, is within the risk budget it was sized
\* for; prices asked for in fractions of a cent can add a cent a share.
RiskBound ==
    Open =>
       /\ 100 * bracket.qty * (bracket.entry - bracket.stop)
             <= basis.start * basis.params["risk_pct"] + 100 * bracket.qty
       /\ CentPriced => 100 * bracket.qty * (bracket.entry - bracket.stop)
             <= basis.start * basis.params["risk_pct"]

\* "They exist only to stop a typo in the private config from removing a
\* safety limit": with any config object an order risks at most 2% of the
\* equity and takes at most half of it, but for the rounding of its prices.
SaneExposure ==
    Open =>
       /\ bracket.qty * (bracket.entry - bracket.stop) <= 2 * basis.start + bracket.qty
       /\ 2 * bracket.qty * bracket.entry <= 100 * basis.start + bracket.qty

\* The prices sent: rounding never turns the bracket round, and the stop stays
\* strictly under the entry when both were asked for in whole cents.
PlacedInOrder ==
    (~Open /\ Open') =>
       /\ bracket'.stop <= bracket'.entry /\ bracket'.entry <= bracket'.target
       /\ CentPriced' => bracket'.stop < bracket'.entry

BracketOrdered == [][PlacedInOrder]_vars

\* "Stops may only be tightened, never widened", also after rounding, and a
\* moved stop is under the last price but for the rounding.
StopTightened ==
    (Open /\ Open') =>
       /\ bracket'.stop >= bracket.stop
       /\ bracket'.stop # bracket.stop => 10 * bracket'.stop < last + 5
       /\ bracket'.qty = bracket.qty /\ bracket'.entry = bracket.entry

StopRatchets == [][StopTightened]_vars
=============================================================================
