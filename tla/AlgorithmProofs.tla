-------------------------- MODULE AlgorithmProofs --------------------------
(***************************************************************************)
(* The pure algorithms.  The proofs of a Merkle tree verify, for any       *)
(* leaves, any hash and any order; the result mappers give every score     *)
(* what the kind of bet promises, for any line.                            *)
(***************************************************************************)
EXTENDS Merkle, Mappers, TLAPS

Levels == Seq(Hashes) \ {<<>>}

LEMMA HashPairOK ==
    ASSUME NEW a \in Hashes, NEW b \in Hashes
    PROVE  HashPair(a, b) \in Hashes /\ HashPair(a, b) = HashPair(b, a)
<1>1. CASE a = b
    BY <1>1, MerkleAssumption DEF HashPair
<1>2. CASE a # b
    BY <1>2, MerkleAssumption DEF HashPair
<1> QED BY <1>1, <1>2

LEMMA NextLevelOK ==
    ASSUME NEW level \in Levels
    PROVE  NextLevel(level) \in Levels /\ Len(NextLevel(level)) = (Len(level) + 1) \div 2
<1> DEFINE n == (Len(level) + 1) \div 2
           node(i) == HashPair(level[2 * i - 1],
                          IF 2 * i <= Len(level) THEN level[2 * i] ELSE level[2 * i - 1])
<1>1. Len(level) \in Nat \ {0} /\ n \in Nat \ {0}
    BY DEF Levels
<1>2. ASSUME NEW i \in 1 .. n PROVE node(i) \in Hashes
    <2>1. 2 * i - 1 \in 1 .. Len(level)
        BY <1>1
    <2>2. level[2 * i - 1] \in Hashes
        BY <2>1 DEF Levels
    <2>3. 2 * i <= Len(level) => level[2 * i] \in Hashes
        BY <1>1 DEF Levels
    <2> QED BY <2>2, <2>3, HashPairOK
<1>3. NextLevel(level) = [i \in 1 .. n |-> node(i)]
    BY DEF NextLevel
<1> HIDE DEF node, n
<1>4. [i \in 1 .. n |-> node(i)] \in Seq(Hashes) /\ Len([i \in 1 .. n |-> node(i)]) = n
    BY <1>1, <1>2
<1> QED BY <1>1, <1>3, <1>4 DEF Levels, n

\* A node and its sibling make the node above.
LEMMA SiblingOK ==
    ASSUME NEW level \in Levels, NEW i \in 1 .. Len(level)
    PROVE  /\ Sibling(level, i) \in Hashes
           /\ (i + 1) \div 2 \in 1 .. Len(NextLevel(level))
           /\ HashPair(level[i], Sibling(level, i)) = NextLevel(level)[(i + 1) \div 2]
<1> DEFINE up == (i + 1) \div 2
<1>1. Len(level) \in Nat /\ level \in [1 .. Len(level) -> Hashes]
    BY DEF Levels
<1>2. up \in 1 .. (Len(level) + 1) \div 2
    BY <1>1
<1>3. NextLevel(level)[up] = HashPair(level[2 * up - 1],
          IF 2 * up <= Len(level) THEN level[2 * up] ELSE level[2 * up - 1])
    BY <1>2 DEF NextLevel
<1>4. CASE i % 2 = 0
    <2>1. 2 * up = i /\ i - 1 \in 1 .. Len(level)
        BY <1>1, <1>4
    <2>2. Sibling(level, i) = level[i - 1] /\ level[i - 1] \in Hashes /\ level[i] \in Hashes
        BY <1>1, <1>4, <2>1 DEF Sibling
    <2> HIDE DEF up
    <2>3. NextLevel(level)[up] = HashPair(level[i - 1], level[i])
        BY <1>1, <1>3, <2>1
    <2> QED BY <1>2, <2>2, <2>3, HashPairOK, NextLevelOK DEF up
<1>5. CASE i % 2 # 0
    <2>1. 2 * up - 1 = i /\ 2 * up = i + 1
        BY <1>1, <1>5
    <2>2. Sibling(level, i) = IF i + 1 <= Len(level) THEN level[i + 1] ELSE level[i]
        BY <1>5 DEF Sibling
    <2>3. Sibling(level, i) \in Hashes
        BY <1>1, <2>2
    <2> HIDE DEF up
    <2>4. NextLevel(level)[up] = HashPair(level[i], Sibling(level, i))
        BY <1>3, <2>1, <2>2
    <2> QED BY <1>2, <2>3, <2>4, NextLevelOK DEF up
<1> QED BY <1>4, <1>5

-----------------------------------------------------------------------------
LEMMA ClimbingInit == Init => Climbing
<1> SUFFICES ASSUME Init PROVE Climbing
    OBVIOUS
<1>1. PICK leaves \in LeafLists : nodes = <<leaves>>
    BY DEF Init
<1>2. leaves \in Seq(Hashes) \ {<<>>} /\ leaves[1] \in Hashes
    BY MerkleAssumption
<1>3. TypeOK
    BY <1>1, <1>2 DEF Init, TypeOK
<1>4. LevelsLinked /\ PathClimbs /\ OnPath
    BY <1>1 DEF Init, LevelsLinked, PathClimbs, OnPath
<1> QED BY <1>3, <1>4 DEF Climbing

LEMMA BuildLevelKeeps == Climbing /\ BuildLevel => Climbing'
<1> SUFFICES ASSUME Climbing, BuildLevel PROVE Climbing'
    OBVIOUS
<1> USE DEF BuildLevel
<1>1. nodes \in Seq(Levels) /\ nodes # <<>> /\ Top \in Levels
    BY DEF Climbing, TypeOK, Levels, Top
<1>2. NextLevel(Top) \in Levels
    BY <1>1, NextLevelOK
<1>3. nodes' \in Seq(Levels) /\ nodes' # <<>> /\ Len(nodes') = Len(nodes) + 1
    BY <1>1, <1>2
<1>4. TypeOK'
    BY <1>3 DEF Climbing, TypeOK, Levels
<1>5. LevelsLinked'
    <2> SUFFICES ASSUME NEW k \in 1 .. Len(nodes) PROVE nodes'[k + 1] = NextLevel(nodes'[k])
        BY <1>3 DEF LevelsLinked
    <2>1. CASE k = Len(nodes)
        BY <2>1, <1>1 DEF Top
    <2>2. CASE k # Len(nodes)
        BY <2>2, <1>1 DEF Climbing, LevelsLinked
    <2> QED BY <2>1, <2>2
<1> QED BY <1>4, <1>5 DEF Climbing, PathClimbs, OnPath

LEMMA StartProofKeeps ==
    ASSUME Climbing, NEW i \in 1 .. Len(nodes[1]), StartProof(i)
    PROVE  Climbing'
<1> USE DEF StartProof
<1>1. nodes \in Seq(Levels) /\ nodes # <<>> /\ nodes[1] \in Levels
    BY DEF Climbing, TypeOK, Levels
<1>2. i \in Nat \ {0} /\ i <= Len(nodes[1])
    BY <1>1 DEF Levels
<1>3. TypeOK' /\ LevelsLinked' /\ OnPath'
    BY <1>2 DEF Climbing, TypeOK, LevelsLinked, OnPath
<1>4. PathClimbs'
    BY <1>1, <1>2 DEF Climbing, TypeOK, PathClimbs, Top
<1> QED BY <1>3, <1>4 DEF Climbing

LEMMA ProveLevelKeeps == Climbing /\ ProveLevel => Climbing'
<1> SUFFICES ASSUME Climbing, ProveLevel PROVE Climbing'
    OBVIOUS
<1> USE DEF ProveLevel
<1> DEFINE n == Len(path)
           level == nodes[n]
<1>1. /\ nodes \in Seq(Levels) /\ path \in Seq(Nat \ {0}) /\ proof \in Seq(Hashes)
      /\ n = Len(proof) + 1 /\ n < Len(nodes) /\ Now \in Nat \ {0}
    BY DEF Climbing, TypeOK, PathClimbs, Levels, Now
<1>2. level \in Levels /\ Now \in 1 .. Len(level) /\ nodes[n + 1] = NextLevel(level)
    BY <1>1 DEF Climbing, PathClimbs, LevelsLinked, Now, Levels
<1>3. Sibling(level, Now) \in Hashes /\ (Now + 1) \div 2 \in 1 .. Len(nodes[n + 1])
    BY <1>2, SiblingOK
<1>4. /\ path' \in Seq(Nat \ {0}) /\ proof' \in Seq(Hashes)
      /\ Len(path') = n + 1 /\ Len(proof') = n
      /\ path'[n + 1] = (Now + 1) \div 2 /\ proof'[n] = Sibling(level, Now)
      /\ \A k \in 1 .. n : path'[k] = path[k]
      /\ \A k \in 1 .. n - 1 : proof'[k] = proof[k]
    BY <1>1, <1>3
<1>5. TypeOK' /\ LevelsLinked' /\ OnPath'
    BY <1>1, <1>4 DEF Climbing, TypeOK, LevelsLinked, OnPath
<1>6. PathClimbs'
    <2>1. \A k \in 1 .. n + 1 : path'[k] <= Len(nodes[k])
        BY <1>1, <1>3, <1>4 DEF Climbing, PathClimbs
    <2> HIDE DEF n, level
    <2>2. ASSUME NEW k \in 1 .. n
          PROVE  path'[k + 1] = (path'[k] + 1) \div 2 /\ proof'[k] = Sibling(nodes[k], path'[k])
        <3>1. CASE k = n
            BY <3>1, <1>1, <1>4 DEF Now, n, level
        <3>2. CASE k # n
            <4>1. k \in 1 .. Len(proof) /\ k \in 1 .. n - 1 /\ k + 1 \in 1 .. n
                BY <3>2, <1>1
            <4>2. path[k + 1] = (path[k] + 1) \div 2 /\ proof[k] = Sibling(nodes[k], path[k])
                BY <4>1 DEF Climbing, PathClimbs
            <4> QED BY <4>1, <4>2, <1>4
        <3> QED BY <3>1, <3>2
    <2>3. step' # "NewMerkleTree" /\ Len(Top') = 1 /\ n + 1 <= Len(nodes')
        BY <1>1 DEF Climbing, PathClimbs, Top
    <2>4. nodes' = nodes
        OBVIOUS
    <2> QED BY <1>4, <2>1, <2>2, <2>3, <2>4 DEF PathClimbs
<1> QED BY <1>5, <1>6 DEF Climbing

LEMMA StartVerifyKeeps == Climbing /\ StartVerify => Climbing'
<1> SUFFICES ASSUME Climbing, StartVerify PROVE Climbing'
    OBVIOUS
<1> USE DEF StartVerify
<1>1. /\ nodes \in Seq(Levels) /\ nodes # <<>> /\ used = 0
      /\ path[1] \in 1 .. Len(nodes[1])
    BY DEF Climbing, TypeOK, PathClimbs, OnPath, Levels
<1>2. computed' \in Hashes
    BY <1>1 DEF Levels
<1> QED BY <1>1, <1>2 DEF Climbing, TypeOK, LevelsLinked, PathClimbs, OnPath, Top

LEMMA VerifyLevelKeeps == Climbing /\ VerifyLevel => Climbing'
<1> SUFFICES ASSUME Climbing, VerifyLevel PROVE Climbing'
    OBVIOUS
<1> USE DEF VerifyLevel
<1> DEFINE k == used + 1
<1>1. /\ nodes \in Seq(Levels) /\ path \in Seq(Nat \ {0}) /\ proof \in Seq(Hashes)
      /\ used \in Nat /\ k \in 1 .. Len(proof)
      /\ Len(path) = Len(proof) + 1 /\ Len(path) = Len(nodes)
    BY DEF Climbing, TypeOK, PathClimbs, OnPath, Levels
<1>2. nodes[k] \in Levels /\ path[k] \in 1 .. Len(nodes[k]) /\ nodes[k + 1] = NextLevel(nodes[k])
    <2>1. k \in 1 .. Len(nodes) - 1 /\ k \in 1 .. Len(path)
        BY <1>1
    <2> HIDE DEF k
    <2>2. nodes[k + 1] = NextLevel(nodes[k])
        BY <2>1 DEF Climbing, LevelsLinked
    <2>3. path[k] <= Len(nodes[k])
        BY <2>1 DEF Climbing, PathClimbs
    <2> QED BY <1>1, <2>1, <2>2, <2>3
<1>3. /\ computed = nodes[k][path[k]] /\ proof[k] = Sibling(nodes[k], path[k])
      /\ path[k + 1] = (path[k] + 1) \div 2
    BY <1>1 DEF Climbing, PathClimbs, OnPath
<1>4. computed' = nodes[k + 1][path[k + 1]]
    BY <1>2, <1>3, SiblingOK
<1>5. computed' \in Hashes
    <2>1. computed \in Hashes /\ proof[k] \in Hashes
        BY <1>1 DEF Climbing, TypeOK
    <2> QED BY <2>1, HashPairOK
<1>6. TypeOK' /\ LevelsLinked'
    BY <1>1, <1>5 DEF Climbing, TypeOK, LevelsLinked
<1>7. PathClimbs'
    <2>1. PathClimbs /\ UNCHANGED <<step, nodes, path, proof>>
        BY DEF Climbing
    <2> QED BY <2>1 DEF PathClimbs, Top
<1>8. OnPath'
    BY <1>1, <1>4 DEF OnPath
<1> QED BY <1>6, <1>7, <1>8 DEF Climbing

\* Each level of a tree is made from the one below, the proof in the making has
\* the siblings of the path so far, and the hash computed from it is on the path.
THEOREM ClimbingCorrect == Spec => []Climbing
<1>1. Climbing /\ [Next]_vars => Climbing'
    <2> SUFFICES ASSUME Climbing, [Next]_vars PROVE Climbing'
        OBVIOUS
    <2>1. CASE \E i \in 1 .. Len(nodes[1]) : StartProof(i)
        BY <2>1, StartProofKeeps
    <2>2. CASE UNCHANGED vars
        BY <2>2 DEF vars, Climbing, TypeOK, LevelsLinked, PathClimbs, OnPath, Top
    <2> QED BY <2>1, <2>2, BuildLevelKeeps, ProveLevelKeeps, StartVerifyKeeps,
               VerifyLevelKeeps DEF Next
<1> QED BY <1>1, ClimbingInit, PTL DEF Spec

\* merkle.go:135: whatever the number of leaves and whichever of them it is for,
\* the proof that generateProof builds leads VerifyProof to the root.
THEOREM ProofsVerifyCorrect == Spec => []ProofsVerify
<1>1. Climbing => ProofsVerify
    <2> SUFFICES ASSUME Climbing, step = "VerifyProof", used = Len(proof)
                 PROVE  computed = Root
        BY DEF ProofsVerify
    <2>1. Len(Top) = 1 /\ path[Len(nodes)] <= Len(Top) /\ path[Len(nodes)] \in Nat \ {0}
        BY DEF Climbing, TypeOK, PathClimbs, OnPath, Top
    <2>2. computed = Top[path[Len(nodes)]]
        BY DEF Climbing, TypeOK, PathClimbs, OnPath, Top
    <2> QED BY <2>1, <2>2 DEF Root
<1> QED BY <1>1, ClimbingCorrect, PTL

-----------------------------------------------------------------------------
(***************************************************************************)
(* Handicaps.                                                              *)
(***************************************************************************)
Share(r, id) == IF id \in DOMAIN r THEN r[id] ELSE 0

\* What bets on the home team and on the away team win, in basis points.
HomeWins(line, home, away) == Share(AH_Mapper(line, home, away), 0)

AwayWins(line, home, away) ==
    Share(AH_Mapper(line, home, away), IF lineType(line) = "half" THEN 1 ELSE 2)

\* Lines by their distance from a whole number of goals.
LEMMA LineParts ==
    ASSUME NEW line \in Int
    PROVE  lineType(line) = IF line % 1000 = 500 THEN "half"
                            ELSE IF line % 1000 = 0 THEN "whole" ELSE "quarter"
  <1>1. LINE_PRECISION = 1000 /\ LINE_PRECISION \div 2 = 500
    BY DEF LINE_PRECISION
  <1> QED
    BY <1>1 DEF lineType

LEMMA TypeOfLine ==
    ASSUME NEW line \in Int, NEW q \in Int, NEW r \in 0 .. 999, line = 1000 * q + r
    PROVE  lineType(line) = IF r = 500 THEN "half" ELSE IF r = 0 THEN "whole" ELSE "quarter"
  <1>1. line % 1000 = r
    OBVIOUS
  <1> QED
    BY <1>1, LineParts

LEMMA SharesOfResults ==
    ASSUME NEW id \in Int, NEW other \in Int, NEW x \in Int
    PROVE  /\ Share(Only(id), x) = IF x = id THEN 10000 ELSE 0
           /\ Share(Halves(id, other), x) = IF x = id \/ x = other THEN 5000 ELSE 0
  BY DEF Share, Only, Halves, FULL_WEIGHT, HALF_WEIGHT

\* What both sides win, by the difference of the goals after the handicap.
LEMMA WinsByDifference ==
    ASSUME NEW line \in Int, NEW home \in Int, NEW away \in Int, NEW diff \in Int,
           diff = (home - away) * 1000 + line
    PROVE  /\ HomeWins(line, home, away) =
                  IF lineType(line) = "quarter" /\ diff <= 500
                  THEN IF diff > 0 THEN 5000 ELSE 0
                  ELSE IF diff > 0 THEN 10000 ELSE 0
           /\ AwayWins(line, home, away) =
                  IF lineType(line) = "half" THEN IF diff > 0 THEN 0 ELSE 10000
                  ELSE IF lineType(line) = "quarter" /\ diff >= -500
                       THEN IF diff < 0 THEN 5000 ELSE 0
                       ELSE IF diff < 0 THEN 10000 ELSE 0
  <1>1. lineType(line) \in {"half", "whole", "quarter"}
    BY LineParts
  <1>2. (home - away) * LINE_PRECISION + line = diff /\ LINE_PRECISION \div 2 = 500
    BY DEF LINE_PRECISION
  <1>3. CASE lineType(line) = "half"
    <2>1. AH_Mapper(line, home, away) = Only(IF diff > 0 THEN 0 ELSE 1)
      BY <1>2, <1>3 DEF AH_Mapper, HalfLine
    <2> QED
      BY <1>3, <2>1, SharesOfResults DEF HomeWins, AwayWins
  <1>4. CASE lineType(line) = "whole"
    <2>1. AH_Mapper(line, home, away) = Only(IF diff > 0 THEN 0 ELSE IF diff < 0 THEN 2 ELSE 1)
      BY <1>2, <1>4 DEF AH_Mapper, WholeLine
    <2> QED
      BY <1>4, <2>1, SharesOfResults DEF HomeWins, AwayWins
  <1>5. CASE lineType(line) = "quarter"
    <2>1. AH_Mapper(line, home, away) = QuarterLine(diff)
      BY <1>2, <1>5 DEF AH_Mapper
    <2>2. QuarterLine(diff) = IF diff > 500 THEN Only(0)
                              ELSE IF diff < -500 THEN Only(2)
                              ELSE IF diff > 0 THEN Halves(0, 1)
                              ELSE IF diff < 0 THEN Halves(2, 1) ELSE Only(1)
      BY <1>2 DEF QuarterLine
    <2> QED
      BY <1>5, <2>1, <2>2, SharesOfResults DEF HomeWins, AwayWins
  <1> QED
    BY <1>1, <1>3, <1>4, <1>5

\* A bet on a quarter line is two bets of half the stake on the lines beside
\* it, for either side and every score: what AH_Mapper.sol:172 says a quarter
\* line is, against the cases of _handleQuarterLine.
THEOREM QuarterLineIsTwoLines ==
    ASSUME NEW q \in Int, NEW r \in {250, 750}, NEW home \in Nat, NEW away \in Nat
    PROVE  LET line == 1000 * q + r
           IN /\ 2 * HomeWins(line, home, away) =
                     HomeWins(line - 250, home, away) + HomeWins(line + 250, home, away)
              /\ 2 * AwayWins(line, home, away) =
                     AwayWins(line - 250, home, away) + AwayWins(line + 250, home, away)
  <1> DEFINE line == 1000 * q + r
             diff == (home - away) * 1000 + line
  <1>1. line \in Int /\ diff \in Int /\ lineType(line) = "quarter"
    BY TypeOfLine
  <1>2. \E k \in Int : diff = 1000 * k + r
    <2>1. diff = 1000 * (home - away + q) + r
      OBVIOUS
    <2> QED
      BY <2>1
  <1>3. line - 250 \in Int /\ diff - 250 = (home - away) * 1000 + (line - 250)
    BY <1>1
  <1>4. line + 250 \in Int /\ diff + 250 = (home - away) * 1000 + (line + 250)
    BY <1>1
  <1>5. lineType(line - 250) = IF r = 250 THEN "whole" ELSE "half"
    <2> DEFINE s == r - 250
    <2>1. s \in 0 .. 999 /\ line - 250 = 1000 * q + s
      OBVIOUS
    <2> HIDE DEF line, s
    <2>2. (line - 250) % 1000 = s
      BY <1>3, <2>1
    <2>3. lineType(line - 250) = IF s = 500 THEN "half" ELSE IF s = 0 THEN "whole" ELSE "quarter"
      BY <1>3, <2>2, LineParts
    <2> QED
      BY <2>3 DEF s
  <1>6. lineType(line + 250) = IF r = 250 THEN "half" ELSE "whole"
    <2> DEFINE p == IF r = 250 THEN q ELSE q + 1
               s == IF r = 250 THEN 500 ELSE 0
    <2>1. p \in Int /\ s \in 0 .. 999 /\ line + 250 = 1000 * p + s
      OBVIOUS
    <2> HIDE DEF line, p, s
    <2>2. (line + 250) % 1000 = s
      BY <1>4, <2>1
    <2>3. lineType(line + 250) = IF s = 500 THEN "half" ELSE IF s = 0 THEN "whole" ELSE "quarter"
      BY <1>4, <2>2, LineParts
    <2> QED
      BY <2>3 DEF s
  <1> HIDE DEF line, diff
  <1>7. /\ HomeWins(line, home, away) = IF diff > 500 THEN 10000 ELSE IF diff > 0 THEN 5000 ELSE 0
        /\ AwayWins(line, home, away) = IF diff < -500 THEN 10000 ELSE IF diff < 0 THEN 5000 ELSE 0
    BY <1>1, WinsByDifference DEF diff
  <1>8. /\ HomeWins(line - 250, home, away) = IF diff - 250 > 0 THEN 10000 ELSE 0
        /\ AwayWins(line - 250, home, away) =
               IF r = 750 THEN IF diff - 250 > 0 THEN 0 ELSE 10000
               ELSE IF diff - 250 < 0 THEN 10000 ELSE 0
    BY <1>1, <1>3, <1>5, WinsByDifference
  <1>9. /\ HomeWins(line + 250, home, away) = IF diff + 250 > 0 THEN 10000 ELSE 0
        /\ AwayWins(line + 250, home, away) =
               IF r = 250 THEN IF diff + 250 > 0 THEN 0 ELSE 10000
               ELSE IF diff + 250 < 0 THEN 10000 ELSE 0
    BY <1>1, <1>4, <1>6, WinsByDifference
  <1>10. \/ diff > 500
         \/ diff = 250 /\ r = 250
         \/ diff = -250 /\ r = 750
         \/ diff < -500
    BY <1>1, <1>2
  <1>11. CASE diff > 500
    <2>1. /\ HomeWins(line, home, away) = 10000 /\ AwayWins(line, home, away) = 0
          /\ HomeWins(line - 250, home, away) = 10000 /\ AwayWins(line - 250, home, away) = 0
          /\ HomeWins(line + 250, home, away) = 10000 /\ AwayWins(line + 250, home, away) = 0
      BY <1>1, <1>7, <1>8, <1>9, <1>11
    <2> QED
      BY <2>1 DEF line
  <1>12. CASE diff = 250 /\ r = 250
    <2>1. /\ HomeWins(line, home, away) = 5000 /\ AwayWins(line, home, away) = 0
          /\ HomeWins(line - 250, home, away) = 0 /\ AwayWins(line - 250, home, away) = 0
          /\ HomeWins(line + 250, home, away) = 10000 /\ AwayWins(line + 250, home, away) = 0
      BY <1>1, <1>7, <1>8, <1>9, <1>12
    <2> QED
      BY <2>1 DEF line
  <1>13. CASE diff = -250 /\ r = 750
    <2>1. /\ HomeWins(line, home, away) = 0 /\ AwayWins(line, home, away) = 5000
          /\ HomeWins(line - 250, home, away) = 0 /\ AwayWins(line - 250, home, away) = 10000
          /\ HomeWins(line + 250, home, away) = 0 /\ AwayWins(line + 250, home, away) = 0
      BY <1>1, <1>7, <1>8, <1>9, <1>13
    <2> QED
      BY <2>1 DEF line
  <1>14. CASE diff < -500
    <2>1. /\ HomeWins(line, home, away) = 0 /\ AwayWins(line, home, away) = 10000
          /\ HomeWins(line - 250, home, away) = 0 /\ AwayWins(line - 250, home, away) = 10000
          /\ HomeWins(line + 250, home, away) = 0 /\ AwayWins(line + 250, home, away) = 10000
      BY <1>1, <1>7, <1>8, <1>9, <1>14
    <2> QED
      BY <2>1 DEF line
  <1> QED
    BY <1>10, <1>11, <1>12, <1>13, <1>14

\* Nobody gains by the side a handicap is written for: what the home team
\* wins with a line, the away team wins with the opposite line and the teams
\* exchanged (AH_Mapper.sol, constructor and _mapScores).
THEOREM HandicapsAreMirrored ==
    ASSUME NEW line \in Int, NEW home \in Nat, NEW away \in Nat
    PROVE  HomeWins(line, home, away) = AwayWins(-line, away, home)
  <1> DEFINE diff == (home - away) * 1000 + line
  <1>1. /\ line % 1000 \in 0 .. 999
        /\ line = 1000 * (line \div 1000) + (line % 1000)
    OBVIOUS
  <1>2. lineType(-line) = lineType(line)
    <2>1. (-line) % 1000 = IF line % 1000 = 0 THEN 0 ELSE 1000 - (line % 1000)
      OBVIOUS
    <2>2. -line \in Int
      OBVIOUS
    <2>3. lineType(-line) = IF (-line) % 1000 = 500 THEN "half"
                            ELSE IF (-line) % 1000 = 0 THEN "whole" ELSE "quarter"
      BY <2>2, LineParts
    <2>4. lineType(line) = IF line % 1000 = 500 THEN "half"
                           ELSE IF line % 1000 = 0 THEN "whole" ELSE "quarter"
      BY LineParts
    <2> QED
      BY <1>1, <2>1, <2>3, <2>4
  <1>3. diff \in Int /\ -diff = (away - home) * 1000 + (-line) /\ -line \in Int
    OBVIOUS
  <1>4. lineType(line) = "half" => diff # 0
    <2>1. diff = 1000 * (home - away + (line \div 1000)) + (line % 1000)
      BY <1>1
    <2>2. lineType(line) = "half" => line % 1000 = 500
      BY LineParts
    <2> QED
      BY <1>1, <2>1, <2>2
  <1> HIDE DEF diff
  <1>5. HomeWins(line, home, away) =
            IF lineType(line) = "quarter" /\ diff <= 500
            THEN IF diff > 0 THEN 5000 ELSE 0 ELSE IF diff > 0 THEN 10000 ELSE 0
    BY <1>3, WinsByDifference DEF diff
  <1>6. AwayWins(-line, away, home) =
            IF lineType(line) = "half" THEN IF -diff > 0 THEN 0 ELSE 10000
            ELSE IF lineType(line) = "quarter" /\ -diff >= -500
                 THEN IF -diff < 0 THEN 5000 ELSE 0
                 ELSE IF -diff < 0 THEN 10000 ELSE 0
    BY <1>2, <1>3, WinsByDifference
  <1>7. lineType(line) \in {"half", "whole", "quarter"}
    BY LineParts
  <1> QED
    BY <1>3, <1>4, <1>5, <1>6, <1>7

-----------------------------------------------------------------------------
(***************************************************************************)
(* Outcome ids.                                                            *)
(***************************************************************************)
\* Every result names outcomes that the mapper counts, so that a market with
\* that many outcomes takes it (Market_V3.sol:387).
THEOREM OutcomesAreCounted ==
    ASSUME NEW line \in Int, NEW home \in Nat, NEW away \in Nat
    PROVE  /\ DOMAIN WDL_Mapper(home, away) \subseteq 0 .. WDLOutcomes - 1
           /\ DOMAIN OddEven_Mapper(home, away) \subseteq 0 .. OddEvenOutcomes - 1
           /\ DOMAIN OU_Mapper(line, home, away) \subseteq 0 .. OUOutcomes - 1
           /\ DOMAIN AH_Mapper(line, home, away) \subseteq 0 .. AHOutcomes(line) - 1
  <1>1. /\ DOMAIN WDL_Mapper(home, away) \subseteq 0 .. WDLOutcomes - 1
        /\ DOMAIN OddEven_Mapper(home, away) \subseteq 0 .. OddEvenOutcomes - 1
        /\ DOMAIN OU_Mapper(line, home, away) \subseteq 0 .. OUOutcomes - 1
    BY DEF WDL_Mapper, OddEven_Mapper, OU_Mapper, WDLOutcomes, OddEvenOutcomes, OUOutcomes, Only
  <1>2. DOMAIN AH_Mapper(line, home, away) \subseteq 0 .. AHOutcomes(line) - 1
    BY DEF AH_Mapper, HalfLine, WholeLine, QuarterLine, AHOutcomes, Only, Halves
  <1> QED
    BY <1>1, <1>2

\* A correct score is read back from its id, and is never "other"; and an id
\* that does not revert, "other" apart, is that of the score it is read as
\* (Score_Mapper.sol:166, 191).
THEOREM ScoresAreDecoded ==
    ASSUME NEW maxGoals \in 2 .. 9
    PROVE  /\ \A home, away \in 0 .. maxGoals :
                  LET id == encodeOutcome(maxGoals, home, away)
                  IN  /\ id # OUTCOME_OTHER
                      /\ Decodable(maxGoals, id)
                      /\ decodeOutcome(id) = <<home, away, FALSE>>
           /\ \A id \in Nat \ {OUTCOME_OTHER} :
                  Decodable(maxGoals, id) =>
                      encodeOutcome(maxGoals, id \div 10, id % 10) = id
  <1>1. ASSUME NEW home \in 0 .. maxGoals, NEW away \in 0 .. maxGoals
        PROVE  LET id == encodeOutcome(maxGoals, home, away)
               IN  /\ id # OUTCOME_OTHER
                   /\ Decodable(maxGoals, id)
                   /\ decodeOutcome(id) = <<home, away, FALSE>>
    <2> DEFINE id == home * 10 + away
    <2>1. encodeOutcome(maxGoals, home, away) = id
      BY DEF encodeOutcome
    <2>2. id \div 10 = home /\ id % 10 = away /\ id # OUTCOME_OTHER
      BY DEF OUTCOME_OTHER
    <2>3. home <= maxGoals /\ away <= maxGoals
      OBVIOUS
    <2> HIDE DEF id
    <2>4. Decodable(maxGoals, id) /\ decodeOutcome(id) = <<home, away, FALSE>>
      BY <2>2, <2>3 DEF Decodable, decodeOutcome
    <2> QED
      BY <2>1, <2>2, <2>4
  <1>2. ASSUME NEW id \in Nat \ {OUTCOME_OTHER}, Decodable(maxGoals, id)
        PROVE  encodeOutcome(maxGoals, id \div 10, id % 10) = id
    <2>1. id \div 10 <= maxGoals /\ id % 10 <= maxGoals
      BY <1>2 DEF Decodable
    <2>2. (id \div 10) * 10 + (id % 10) = id
      OBVIOUS
    <2> QED
      BY <2>1, <2>2 DEF encodeOutcome
  <1> QED
    BY <1>1, <1>2

\* But the ids are not below the number of outcomes that the mapper counts:
\* "other" never is, and the highest score only with nine goals, so a market
\* with that many outcomes refuses those results (Score_Mapper.sol:96,
\* Market_V3.sol:387).
THEOREM ScoresBeyondCount ==
    ASSUME NEW maxGoals \in 2 .. 9
    PROVE  /\ OUTCOME_OTHER >= totalOutcomes(maxGoals)
           /\ maxGoals # 9 =>
                  encodeOutcome(maxGoals, maxGoals, maxGoals) >= totalOutcomes(maxGoals)
  <1>1. \A m \in 2 .. 9 : (m + 1) * (m + 1) + 1 <= 101
    <2>1. \A m \in 2 .. 9 : m = 2 \/ m = 3 \/ m = 4 \/ m = 5 \/ m = 6 \/ m = 7 \/ m = 8 \/ m = 9
      OBVIOUS
    <2> QED
      BY <2>1
  <1>2. maxGoals \in 2 .. 8 => maxGoals * 10 + maxGoals >= (maxGoals + 1) * (maxGoals + 1) + 1
    <2>1. maxGoals \in 2 .. 8 => maxGoals = 2 \/ maxGoals = 3 \/ maxGoals = 4 \/ maxGoals = 5
                                   \/ maxGoals = 6 \/ maxGoals = 7 \/ maxGoals = 8
      OBVIOUS
    <2> QED
      BY <2>1
  <1> QED
    BY <1>1, <1>2 DEF OUTCOME_OTHER, totalOutcomes, encodeOutcome

\* The deployed template lists its scores row by row, and the mapper numbers
\* them in tens: the two agree on the scores without a goal of the home team
\* only, and of every other score a market made from that template pays another
\* one or refuses the result (Deploy_V3.s.sol:534, Score_Mapper.sol:86).
THEOREM ScoresAgreeInRowZero ==
    ASSUME NEW maxGoals \in 2 .. 8, NEW home \in 0 .. maxGoals, NEW away \in 0 .. maxGoals
    PROVE  encodeOutcome(maxGoals, home, away) = TemplateOutcome(maxGoals, home, away)
               <=> home = 0
  <1>1. encodeOutcome(maxGoals, home, away) = home * 10 + away
    BY DEF encodeOutcome
  <1>2. home * 10 = home * (maxGoals + 1) <=> home = 0
    <2>1. maxGoals = 2 \/ maxGoals = 3 \/ maxGoals = 4 \/ maxGoals = 5
              \/ maxGoals = 6 \/ maxGoals = 7 \/ maxGoals = 8
      OBVIOUS
    <2> QED
      BY <2>1
  <1>3. home * (maxGoals + 1) \in Nat /\ home * 10 \in Nat
    OBVIOUS
  <1> QED
    BY <1>1, <1>2, <1>3 DEF TemplateOutcome
=============================================================================
