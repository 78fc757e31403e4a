------------------------------ MODULE GridBook ------------------------------
(***************************************************************************)
(* The pure part of the grid bot: what a ticker price makes the grid want  *)
(* (gridAction, gridLevel), whether its book allows the order (check) and  *)
(* what a confirmed fill does to the book (record).                        *)
(*                                                                         *)
(* Prices and quantities are integers in the smallest unit of each, so the *)
(* positionEpsilon of the float comparisons has nothing to absorb here.    *)
(***************************************************************************)
EXTENDS Integers, FiniteSets

CONSTANTS
    Lower, Upper,     \* the price range of the grid (lowerPrice, upperPrice)
    Levels,           \* gridLevels
    Quantity,         \* base quantity of every grid order
    PositionLimit,    \* grid.maxPosition; 0 means "one fill per level"
    Investment,       \* quote cap on the inventory; 0 means none
    Prices            \* the prices the ticker may show

\* validateGridParams refuses to start a grid with any other parameters.
ASSUME GridParams ==
    /\ Lower \in Nat \ {0} /\ Upper \in Nat /\ Lower < Upper
    /\ Levels \in Nat \ {0}
    /\ Quantity \in Nat \ {0}
    /\ PositionLimit \in Nat
    /\ Investment \in Nat
    /\ Prices \subseteq Nat \ {0}

LevelIds == 0 .. Levels - 1

Sides == {"BUY", "SELL"}

MaxPosition == IF PositionLimit > 0 THEN PositionLimit ELSE Quantity * Levels

(***************************************************************************)
(* BUY in the bottom band, SELL in the top band, wait in between.  The     *)
(* band is (Upper - Lower) / Levels wide; the comparisons are multiplied   *)
(* out by Levels to stay in the integers.                                  *)
(***************************************************************************)
GridAction(price) ==
    CASE (price - Lower) * Levels <= Upper - Lower -> "BUY"
      [] /\ (price - Lower) * Levels > Upper - Lower
         /\ (Upper - price) * Levels <= Upper - Lower -> "SELL"
      [] OTHER -> "WAIT"

\* Fault: a price outside the range is given a level outside the grid.
GridLevelUnclamped(price) == ((price - Lower) * Levels) \div (Upper - Lower)

\* The band the price falls in, clamped to the grid.
GridLevel(price) ==
    LET band == ((price - Lower) * Levels) \div (Upper - Lower)
    IN  IF band < 0 THEN 0 ELSE IF band >= Levels THEN Levels - 1 ELSE band

(***************************************************************************)
(* Whether the book (position, held) allows an order.                      *)
(***************************************************************************)
WithinExposure(position, price) ==
    Investment > 0 => position * price <= Investment

\* Fault: the held levels are not looked at.
CheckBuyAnyLevel(position, held, level, price) ==
    /\ position + Quantity <= MaxPosition
    /\ WithinExposure(position + Quantity, price)

\* Fault: the cap is compared with the position before the order.
CheckBuyBeforeOrder(position, held, level, price) ==
    /\ level \notin held
    /\ position < MaxPosition
    /\ WithinExposure(position + Quantity, price)

CheckBuy(position, held, level, price) ==
    /\ level \notin held
    /\ position + Quantity <= MaxPosition
    /\ WithinExposure(position + Quantity, price)

\* Fault: anything held is enough to sell a whole quantity.
CheckSellAnything(position) == position > 0

CheckSell(position) == position >= Quantity

Check(side, position, held, level, price) ==
    \/ side = "BUY" /\ CheckBuy(position, held, level, price)
    \/ side = "SELL" /\ CheckSell(position)

(***************************************************************************)
(* What a confirmed fill of qty does to the position and the held levels.  *)
(* A SELL of a whole level's quantity releases the lowest held level, a    *)
(* partial one releases nothing.                                           *)
(***************************************************************************)
RecordPosition(side, position, qty) ==
    IF side = "BUY" THEN position + qty
    ELSE IF position > qty THEN position - qty ELSE 0

Lowest(held) == {l \in held : \A m \in held : l <= m}

RecordHeld(side, held, level, qty) ==
    IF side = "BUY" THEN held \cup {level}
    ELSE IF qty < Quantity THEN held
    ELSE held \ Lowest(held)
=============================================================================
