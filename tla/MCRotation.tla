----------------------------- MODULE MCRotation -----------------------------
(***************************************************************************)
(* Instances of RotationRuntime: a root of a few units, one pair entered   *)
(* by a BUY and one entered by a SELL.                                     *)
(***************************************************************************)
EXTENDS RotationRuntime, TLC

CONSTANTS buy, sell

BothPairs == {buy, sell}
OnlyBuy == {buy}
Prices == buy :> 1 @@ sell :> 2
BuyPrice == buy :> 1
UnitPrices == buy :> 1 @@ sell :> 1
=============================================================================
