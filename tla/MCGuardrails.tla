---------------------------- MODULE MCGuardrails ----------------------------
(* Limits, prices and equities for TLC: limits at and beyond their bounds,    *)
(* prices on, between and half way between cents.                             *)
EXTENDS Guardrails

Wide ==
    [max_positions |-> 5, max_position_pct |-> 5000, risk_pct |-> 200,
     max_stop_pct |-> 1000, reward_r |-> 5, daily_loss_halt_pct |-> 1000,
     min_price |-> 1000, max_entry_deviation_pct |-> 500, last_entry_time |-> 900,
     max_orders_per_run |-> 3, max_orders_per_day |-> 10, max_turns |-> 25,
     max_run_cost_cents |-> 200]

Tight ==
    [Wide EXCEPT !["max_position_pct"] = 10, !["risk_pct"] = 1, !["max_stop_pct"] = 100,
                 !["reward_r"] = 20, !["daily_loss_halt_pct"] = 10]

MCConfigs ==
    {Wide, Tight,
     [Wide EXCEPT !["risk_pct"] = 2000],
     [Wide EXCEPT !["max_position_pct"] = 9000],
     [Tight EXCEPT !["max_stop_pct"] = -1]}
MCPrices == {0, 990, 1000, 1004, 1005, 1006, 1015, 1020, 1040, 1115}
MCEquities == {0, 1, 90, 100, 2000}
MCTimes == {899, 900}
=============================================================================
