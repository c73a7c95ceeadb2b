--------------------------- MODULE KeyArithmetic ---------------------------
(***************************************************************************)
(* The unsigned arithmetic of the ACBS priority keys                       *)
(* (internal/search/acbs.go:873-920).  Distances and keys are uint64 words *)
(* and MaxUint64 doubles as the "infinite" distance; potentials are signed *)
(* integers.  MaxUint64 is a parameter, so that the model checker meets    *)
(* the saturating branches with small numbers.                             *)
(***************************************************************************)
EXTENDS Integers

CONSTANT MaxUint64

ASSUME WidthAssumption == MaxUint64 \in Nat \ {0}

inf == MaxUint64

Word == 0 .. MaxUint64

\* The sum, or inf when it does not fit the word.
addWrapping(a, b) == (a + b) % (MaxUint64 + 1)   \* fault: the carry is lost
saturatingAdd(a, b) == IF a > MaxUint64 - b THEN MaxUint64 ELSE a + b

\* Twice a distance plus a signed shift, clamped to the word at both ends.  A
\* distance of which the double does not fit has key inf whatever the shift.
doubledPlusSigned(distance, delta) ==
  IF distance > MaxUint64 \div 2 THEN inf
  ELSE IF delta >= 0 THEN saturatingAdd(2 * distance, delta)
  ELSE IF -delta >= 2 * distance THEN 0
  ELSE 2 * distance + delta

\* An original s-t cost on the scale of the sum of two frontier keys.
originalToReducedUpperBound(original, phiS, phiT) ==
  doubledPlusSigned(original, phiT - phiS)

\* A bound on that scale brought back to original costs, rounded down.
reducedToOriginalLowerBound(reduced, phiS, phiT) ==
  LET shift == phiT - phiS
  IN  IF shift < 0 THEN saturatingAdd(reduced, -shift) \div 2
      ELSE IF shift >= reduced THEN 0
      ELSE (reduced - shift) \div 2

\* Incumbent pruning: cost so far plus a lower bound of the rest cannot beat
\* the incumbent.
boundBarelyImproves(gCost, heuristic, incumbent) ==   \* fault: off by one
  heuristic + 1 >= incumbent - gCost
boundCannotImprove(gCost, heuristic, incumbent) ==
  \/ gCost >= incumbent
  \/ heuristic >= incumbent - gCost
=============================================================================
