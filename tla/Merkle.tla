------------------------------- MODULE Merkle -------------------------------
(***************************************************************************)
(* The Merkle tree of a week's rewards (internal/rewards/merkle.go): the   *)
(* loops of NewMerkleTree, generateProof and VerifyProof, one iteration a  *)
(* step.  MerkleProof.verify, which the contract calls, has the loop of    *)
(* VerifyProof.  Nodes are counted from 1, where the code counts from 0.   *)
(***************************************************************************)
EXTENDS Integers, Sequences

CONSTANTS
    Hashes,         \* the 256-bit words
    Keccak(_, _),   \* the hash of two words
    Below(_, _),    \* the order of their hexadecimal forms
    LeafLists       \* the leaves of the distributions, sorted by user

ASSUME MerkleAssumption ==
    /\ LeafLists \subseteq Seq(Hashes) \ {<<>>}
    /\ \A a, b \in Hashes : Keccak(a, b) \in Hashes
    /\ \A a, b \in Hashes : a # b => (Below(a, b) <=> ~Below(b, a))

VARIABLES
    step,       \* the function that runs
    nodes,      \* the levels of the tree, the leaves first
    path,       \* the values of index in generateProof, the last one now
    proof,
    computed,   \* computedHash in VerifyProof
    used        \* how many elements of the proof it has used

vars == <<step, nodes, path, proof, computed, used>>

HashPair(a, b) == IF Below(a, b) THEN Keccak(a, b) ELSE Keccak(b, a)

\* The last node of a level of odd width is paired with itself.
NextLevel(level) ==
    [i \in 1 .. (Len(level) + 1) \div 2 |->
        HashPair(level[2 * i - 1],
                 IF 2 * i <= Len(level) THEN level[2 * i] ELSE level[2 * i - 1])]

Top == nodes[Len(nodes)]
Root == Top[1]

Init ==
    /\ step = "NewMerkleTree"
    /\ \E leaves \in LeafLists : nodes = <<leaves>>
    /\ path = <<>> /\ proof = <<>>
    /\ computed = nodes[1][1]
    /\ used = 0

BuildLevel ==
    /\ step = "NewMerkleTree"
    /\ Len(Top) > 1
    /\ nodes' = Append(nodes, NextLevel(Top))
    /\ UNCHANGED <<step, path, proof, computed, used>>

\* The proof of one entry; those of the others do not touch it.
StartProof(i) ==
    /\ step = "NewMerkleTree"
    /\ Len(Top) = 1
    /\ step' = "generateProof"
    /\ path' = <<i>>
    /\ UNCHANGED <<nodes, proof, computed, used>>

Now == path[Len(path)]

\* Mutant: the node to the right, whatever side the node is on.
SiblingRight(level, i) == IF i + 1 <= Len(level) THEN level[i + 1] ELSE level[i]

\* index ^ 1, or the node itself when there is none.
Sibling(level, i) ==
    IF i % 2 = 0 THEN level[i - 1] ELSE IF i + 1 <= Len(level) THEN level[i + 1] ELSE level[i]

ProveLevel ==
    /\ step = "generateProof"
    /\ Len(path) < Len(nodes)
    /\ proof' = Append(proof, Sibling(nodes[Len(path)], Now))
    /\ path' = Append(path, (Now + 1) \div 2)
    /\ UNCHANGED <<step, nodes, computed, used>>

StartVerify ==
    /\ step = "generateProof"
    /\ Len(path) = Len(nodes)
    /\ step' = "VerifyProof"
    /\ computed' = nodes[1][path[1]]
    /\ UNCHANGED <<nodes, path, proof, used>>

VerifyLevel ==
    /\ step = "VerifyProof"
    /\ used < Len(proof)
    /\ computed' = HashPair(computed, proof[used + 1])
    /\ used' = used + 1
    /\ UNCHANGED <<step, nodes, path, proof>>

Next ==
    \/ BuildLevel
    \/ \E i \in 1 .. Len(nodes[1]) : StartProof(i)
    \/ ProveLevel
    \/ StartVerify
    \/ VerifyLevel

Spec == Init /\ [][Next]_vars

-----------------------------------------------------------------------------
\* merkle.go:135, for every number of leaves, every entry and every hash: the
\* proof that generateProof builds for a leaf leads VerifyProof to the root.
ProofsVerify == (step = "VerifyProof" /\ used = Len(proof)) => computed = Root

(***************************************************************************)
(* Why: each level is made from the one below, the proof holds the sibling *)
(* of every node on the path, and what has been computed is on the path.   *)
(***************************************************************************)
TypeOK ==
    /\ step \in {"NewMerkleTree", "generateProof", "VerifyProof"}
    /\ nodes \in Seq(Seq(Hashes) \ {<<>>}) /\ nodes # <<>>
    /\ path \in Seq(Nat \ {0})
    /\ proof \in Seq(Hashes)
    /\ computed \in Hashes
    /\ used \in 0 .. Len(proof)

LevelsLinked == \A k \in 1 .. Len(nodes) - 1 : nodes[k + 1] = NextLevel(nodes[k])

PathClimbs ==
    IF step = "NewMerkleTree" THEN proof = <<>> ELSE
        /\ Len(Top) = 1
        /\ Len(path) = Len(proof) + 1 /\ Len(path) <= Len(nodes)
        /\ \A k \in 1 .. Len(path) : path[k] <= Len(nodes[k])
        /\ \A k \in 1 .. Len(proof) :
               /\ path[k + 1] = (path[k] + 1) \div 2
               /\ proof[k] = Sibling(nodes[k], path[k])

OnPath ==
    IF step # "VerifyProof" THEN used = 0 ELSE
        Len(path) = Len(nodes) /\ computed = nodes[used + 1][path[used + 1]]

Climbing == TypeOK /\ LevelsLinked /\ PathClimbs /\ OnPath
=============================================================================
