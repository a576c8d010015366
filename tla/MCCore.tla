------------------------------- MODULE MCCore -------------------------------
(***************************************************************************)
(* Instances of CoreRuntime: DOGE/USD and one other pair, which are not    *)
(* interchangeable, since DOGE is what the bot gathers.                    *)
(***************************************************************************)
EXTENDS CoreRuntime

LongAlt == {[pair |-> "ALT", side |-> "buy"]}
OneEach == {[usd |-> 1, doge |-> 1]}

=============================================================================
