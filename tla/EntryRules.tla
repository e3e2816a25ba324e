----------------------------- MODULE EntryRules -----------------------------
(***************************************************************************)
(* What the guardrails promise of the entries of a day, as if evaluate_entry *)
(* and the order were one step: an entry <<run, symbol>> reaches the broker   *)
(* only at a moment at which every limit leaves room for it.  How near the    *)
(* tools come to that with reads, a journal and an order that are calls of    *)
(* their own is the business of TradingDay.                                  *)
(***************************************************************************)
EXTENDS Naturals, FiniteSets

CONSTANTS Ids, MaxPerRun, MaxPerDay, MaxPositions

VARIABLES
    entered,  \* the entries of the day
    exposed   \* those that work at the broker or have become a position

Occupied == {e[2] : e \in exposed}

Init == entered = {} /\ exposed = {}

Enter(e) ==
    /\ e \notin entered
    /\ Cardinality({d \in entered : d[1] = e[1]}) < MaxPerRun
    /\ Cardinality(entered) < MaxPerDay
    /\ e[2] \notin Occupied
    /\ Cardinality(Occupied) < MaxPositions
    /\ entered' = entered \cup {e}
    /\ exposed' = exposed \cup {e}

\* Entries expire, positions are closed.
Settle == exposed' \subseteq exposed /\ UNCHANGED entered

Next == (\E e \in Ids : Enter(e)) \/ Settle

Spec == Init /\ [][Next]_<<entered, exposed>>
=============================================================================
