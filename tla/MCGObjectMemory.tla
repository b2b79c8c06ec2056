-------------------------- MODULE MCGObjectMemory --------------------------
EXTENDS GObjectMemory, TLC

Interchangeable ==
  Permutations(Object) \cup Permutations(Block) \cup Permutations(Slot) \cup Permutations(Connection)
=============================================================================
