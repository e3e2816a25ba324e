----------------------------- MODULE MCWingCopy -----------------------------
(***************************************************************************)
(* WingCopy for TLC: a wing of two drawers, one that is empty at first, and *)
(* one excluded.                                                           *)
(***************************************************************************)
EXTENDS WingCopy, TLC

CONSTANTS large, small, private, d1, d2, d3

MCStored == large :> <<d1, d2>> @@ small :> <<>> @@ private :> <<d3>>
=============================================================================
