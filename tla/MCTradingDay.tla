---------------------------- MODULE MCTradingDay ----------------------------
(***************************************************************************)
(* TradingDay for TLC: the symbols are interchangeable.                     *)
(***************************************************************************)
EXTENDS TradingDay, TLC

SymbolSymmetry == Permutations(Symbols)
=============================================================================
