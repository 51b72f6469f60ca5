------------------------------ MODULE Mappers ------------------------------
(***************************************************************************)
(* The result mappers (contracts/src/mappers): what a final score makes of *)
(* the outcomes of a market.  A result is a function from outcome ids to   *)
(* weights in basis points.  Lines are in thousandths of a goal; a         *)
(* handicap is added to the home team's goals.                             *)
(***************************************************************************)
EXTENDS Integers

FULL_WEIGHT    == 10000
HALF_WEIGHT    == 5000
LINE_PRECISION == 1000
OUTCOME_OTHER  == 999

Only(id) == [o \in {id} |-> FULL_WEIGHT]
Halves(id, other) == [o \in {id, other} |-> HALF_WEIGHT]

\* Win, draw and loss of the home team.
WDL_Mapper(home, away) == Only(IF home > away THEN 0 ELSE IF home = away THEN 1 ELSE 2)

OddEven_Mapper(home, away) == Only(IF (home + away) % 2 = 1 THEN 0 ELSE 1)

\* Over, push and under.
OU_Mapper(line, home, away) ==
    LET totalGoalsScaled == (home + away) * LINE_PRECISION
    IN Only(IF totalGoalsScaled > line THEN 0
            ELSE IF totalGoalsScaled < line THEN 2 ELSE 1)

\* The result that the oracle names.
Identity_Mapper(id) == Only(id)

-----------------------------------------------------------------------------
(***************************************************************************)
(* Handicaps.                                                              *)
(***************************************************************************)
lineType(line) ==
    CASE line % LINE_PRECISION = LINE_PRECISION \div 2 -> "half"
      [] line % LINE_PRECISION = 0 -> "whole"
      [] OTHER -> "quarter"

\* Outcomes 0 and 1 of a half line, 0 to 2 of the others.
HalfLine(diff) == Only(IF diff > 0 THEN 0 ELSE 1)

WholeLine(diff) == Only(IF diff > 0 THEN 0 ELSE IF diff < 0 THEN 2 ELSE 1)

QuarterLine(diff) ==
    IF diff > LINE_PRECISION \div 2 THEN Only(0)
    ELSE IF diff < -(LINE_PRECISION \div 2) THEN Only(2)
    ELSE IF diff > 0 THEN Halves(0, 1)
    ELSE IF diff < 0 THEN Halves(2, 1)
    ELSE Only(1)

AH_Mapper(line, home, away) ==
    LET diff == (home - away) * LINE_PRECISION + line
    IN CASE lineType(line) = "half"  -> HalfLine(diff)
         [] lineType(line) = "whole" -> WholeLine(diff)
         [] OTHER                    -> QuarterLine(diff)

-----------------------------------------------------------------------------
(***************************************************************************)
(* Correct scores.                                                         *)
(***************************************************************************)
encodeOutcome(maxGoals, home, away) ==
    IF home <= maxGoals /\ away <= maxGoals THEN home * 10 + away ELSE OUTCOME_OTHER

Score_Mapper(maxGoals, home, away) == Only(encodeOutcome(maxGoals, home, away))

\* The ids that decodeOutcome takes: any other reverts.
Decodable(maxGoals, id) ==
    id = OUTCOME_OTHER \/ (id \div 10 <= maxGoals /\ id % 10 <= maxGoals)

\* The score of an id that can be decoded, and whether it is "other".
decodeOutcome(id) ==
    IF id = OUTCOME_OTHER THEN <<0, 0, TRUE>> ELSE <<id \div 10, id % 10, FALSE>>

\* Where the deployed template lists a score among its outcomes; "other" is not
\* there.
TemplateOutcome(maxGoals, home, away) == home * (maxGoals + 1) + away

totalOutcomes(maxGoals) == (maxGoals + 1) * (maxGoals + 1) + 1

\* outcomeCount of each mapper; the identity mapper gives 0, for any number.
WDLOutcomes == 3
OddEvenOutcomes == 2
OUOutcomes == 3
AHOutcomes(line) == IF lineType(line) = "half" THEN 2 ELSE 3
============================================================================
