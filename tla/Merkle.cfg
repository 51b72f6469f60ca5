CONSTANTS
  Hashes <- SmallHashes
  Keccak <- SmallKeccak
  Below <- SmallBelow
  LeafLists <- SmallLists
SPECIFICATION Spec
INVARIANTS ProofsVerify
CHECK_DEADLOCK FALSE
