-------------------------- MODULE MCStorageManager --------------------------
EXTENDS StorageManager, TLC
\* Driver objects, storages and mount paths are alike.
Symmetric == Permutations(Inst) \cup Permutations(Id) \cup Permutations(Mount)
=============================================================================
