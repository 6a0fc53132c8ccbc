------------------------------- MODULE Combat -------------------------------
(***************************************************************************)
(* Armies and battles of the Kingdoms scenario: the unit table of          *)
(* scenarios/kingdoms/units.ts and resolveAttack of rules/combat.ts.       *)
(*                                                                         *)
(* The pieces on a tile are abstracted to a force, a bag that counts the   *)
(* units of every kind: a battle depends on nothing else, since its        *)
(* casualties are picked at random.                                        *)
(*                                                                         *)
(* resolveAttack compares  attack * sqrt(n)  of both sides in doubles.     *)
(* Here the squares are compared, which are integers.  Where the exact     *)
(* values are equal, or an expected casualty count is exactly an integer,  *)
(* the double may have been rounded to either side of it: both outcomes    *)
(* are allowed there, and only there.                                      *)
(***************************************************************************)
EXTENDS Integers

UnitKinds == {"spearman", "cannoneer", "noble"}

\* Kinds that may lead an assault on an enemy tile.
CombatUnitKinds == {"spearman", "cannoneer"}

UnitAttack == [spearman |-> 3, cannoneer |-> 8, noble |-> 1]

Army == [UnitKinds -> Nat]

NoForce == [k \in UnitKinds |-> 0]

Single(k) == [j \in UnitKinds |-> IF j = k THEN 1 ELSE 0]

Size(f) == f["spearman"] + f["cannoneer"] + f["noble"]

\* Units of f that may lead an assault on an enemy tile.
CombatSize(f) == f["spearman"] + f["cannoneer"]

TotalAttack(f) ==
  LET By(k) == f[k] * UnitAttack[k]
  IN  By("spearman") + By("cannoneer") + By("noble")

f (+) g == [k \in UnitKinds |-> f[k] + g[k]]
f (-) g == [k \in UnitKinds |-> f[k] - g[k]]

\* The forces that can be selected from f.
SubForces(f) ==
  { [k \in UnitKinds |-> IF k = "spearman" THEN s ELSE IF k = "noble" THEN n ELSE c] :
      s \in 0 .. f["spearman"], c \in 0 .. f["cannoneer"], n \in 0 .. f["noble"] }

-----------------------------------------------------------------------------
\* Ten times the terrain's defence bonus.
TerrainDefense == [plains |-> 10, hills |-> 13, forest |-> 15, mountain |-> 20]

\* 100 times the square of computeStrength for a force of n units, total
\* attack a, under a defence bonus of bonus10 / 10.
Power(a, n, bonus10) == a * a * n * bonus10 * bonus10

Outcomes(a, n, d, m, bonus10) ==
  LET att == Power(a, n, 10)
      def == Power(d, m, bonus10)
      \* floor(size * share / 10 * sqrt(weak / strong)) for share / 10 = 0.5
      \* and 0.4: the greatest c with 100 c^2 strong <= (size * share)^2 weak.
      Below(c, size, share, weak, strong) ==
        100 * c * c * strong <= size * share * size * share * weak
      Exact(c, size, share, weak, strong) ==
        100 * c * c * strong = size * share * size * share * weak
      Casualties(size, share, weak, strong) ==
        { c \in 0 .. size :
            /\ Below(c, size, share, weak, strong)
            /\ \/ ~ Below(c + 1, size, share, weak, strong)
               \/ Exact(c + 1, size, share, weak, strong) }
  IN  IF m = 0
      THEN { [attackerWins |-> TRUE, losses |-> 0] }
      ELSE { [attackerWins |-> TRUE, losses |-> c] :
                c \in IF att >= def THEN Casualties(n, 5, def, att) ELSE {} }
           \cup
           { [attackerWins |-> FALSE, losses |-> c] :
                c \in IF att <= def THEN Casualties(m, 4, att, def) ELSE {} }
=============================================================================
