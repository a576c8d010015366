-------------------------------- MODULE Grid --------------------------------
(***************************************************************************)
(* The grid package: grid/engine.py, states.py, sizing.py, accounting.py.  *)
(* Pure functions on the state of one pair's grid: slots of two legs, an A *)
(* leg that sells to enter and a B leg that buys to enter.  Nothing in the *)
(* program calls them yet; a caller that applies one fill at a time is     *)
(* taken for granted.                                                      *)
(*                                                                         *)
(* Prices are left out: a slot of minimum size costs one unit of capital,  *)
(* and a unit of profit buys one of quantity.  Parts is a common multiple  *)
(* of the numbers of slots, so that profits divide evenly.                 *)
(***************************************************************************)
EXTENDS Integers, Sequences

CONSTANTS
  Capitals, Capacities,   \* capital and order capacity a grid may be offered
  HeadroomPct,            \* GRID_HEADROOM_PCT
  Minimum,                \* the minimum order quantity
  Parts,
  MaxQuantity,            \* bound on the quantity of a leg
  MaxCycles               \* bound on the cycles booked

ASSUME GridAssumption ==
  /\ Capitals \subseteq Nat /\ Capacities \subseteq Nat
  /\ HeadroomPct \in 0 .. 100 /\ Minimum \in Nat \ {0} /\ Parts \in Nat \ {0}

VARIABLES
  slots,        \* the legs of each slot
  accepting,    \* accepting_new_entries
  pendingProfit,      \* pending_profit_usd
  summary       \* GridAccountingSummary: the cycles, and what they traded

gridVars == <<slots, accepting, pendingProfit, summary>>

GridInit ==
  slots = <<>> /\ accepting = FALSE /\ pendingProfit = 0 /\ summary = [cycles |-> 0, traded |-> 0]

HasLiveGrid == accepting \/ slots # <<>>

Leg(kind, quantity) == [kind |-> kind, quantity |-> quantity]

HeadroomBudget(capacity) == (capacity * HeadroomPct) \div 100

\* As many slots as the capital pays for and the budget of orders holds.
SlotCount(capital, capacity) ==
  LET affordable == capital
      budget == HeadroomBudget(capacity) \div 2
  IN IF affordable <= budget THEN affordable ELSE budget

\* No slot at all leaves the grid inactive.
Activate(capital, capacity) ==
  /\ ~HasLiveGrid
  /\ LET count == SlotCount(capital, capacity)
         entry == Leg("entry", Minimum * Parts)
     IN /\ slots' = [i \in 1 .. count |-> [a |-> entry, b |-> entry]]
        /\ accepting' = (count > 0)
  /\ UNCHANGED <<pendingProfit, summary>>

\* The slots stay, so the grid counts as live for ever.
DeactivateGrid ==
  /\ HasLiveGrid
  /\ accepting' = FALSE
  /\ UNCHANGED <<slots, pendingProfit, summary>>

Grown(leg, increment) == [leg EXCEPT !.quantity = @ + increment]

\* mutant: an exit keeps the quantity it was bought with
GrownEntries(slot, increment) ==
  [leg \in {"a", "b"} |->
     IF slot[leg].kind = "entry" THEN Grown(slot[leg], increment) ELSE slot[leg]]

IncreaseSlot(slot, increment) == [leg \in {"a", "b"} |-> Grown(slot[leg], increment)]

RedistributeProfits(profit) ==
  LET total == pendingProfit + profit IN
    IF total = 0 \/ slots = <<>>
      THEN pendingProfit' = total /\ UNCHANGED slots
      ELSE /\ slots' = [i \in DOMAIN slots |->
                IncreaseSlot(slots[i], (total * Parts) \div Len(slots))]
           /\ \A i \in DOMAIN slots : slots'[i].a.quantity <= MaxQuantity
           /\ pendingProfit' = 0

Redistribute(profit) ==
  /\ pendingProfit + profit <= MaxQuantity
  /\ RedistributeProfits(profit)
  /\ UNCHANGED <<accepting, summary>>

BookCycle(quantity) ==
  /\ summary.cycles < MaxCycles
  /\ summary' = [cycles |-> summary.cycles + 1, traded |-> summary.traded + quantity]

\* An A entry sells and its exit buys, a B entry buys and its exit sells.
Side(leg, kind) == IF (leg = "a") = (kind = "entry") THEN "sell" ELSE "buy"

\* _find_leg: the kind and the side of a fill tell the leg, or the fill is refused.
FindLeg(slot, kind, side) ==
  {leg \in {"a", "b"} : slot[leg].kind = kind /\ Side(leg, kind) = side}

EntryFill(i, side) ==
  \E leg \in FindLeg(slots[i], "entry", side) :
    /\ slots' = [slots EXCEPT ![i][leg].kind = "exit"]
    /\ UNCHANGED <<accepting, pendingProfit, summary>>

ExitFill(i, side) ==
  \E leg \in FindLeg(slots[i], "exit", side) :
    /\ slots' = [slots EXCEPT ![i][leg].kind = "entry"]
    /\ BookCycle(slots[i][leg].quantity)
    /\ UNCHANGED <<accepting, pendingProfit>>

GridNext ==
  \/ \E capital \in Capitals, capacity \in Capacities : Activate(capital, capacity)
  \/ DeactivateGrid
  \/ \E profit \in {0, 1} : Redistribute(profit)
  \/ \E i \in DOMAIN slots, side \in {"buy", "sell"} : EntryFill(i, side) \/ ExitFill(i, side)

GridSpec == GridInit /\ [][GridNext]_gridVars

-----------------------------------------------------------------------------
(* Properties *)

\* Whatever fills and redistributions come in which order, all slots of a grid
\* trade the same quantity on both legs, so that what a slot sells it can buy
\* back.
LegsLevel ==
  \A i, j \in DOMAIN slots :
    /\ slots[i].a.quantity = slots[j].b.quantity
    /\ slots[i].a.quantity >= Minimum * Parts
=============================================================================
