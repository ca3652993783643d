------------------------ MODULE MCSqliteRepository ------------------------
(* Small instances of SqliteRepository for TLC.                            *)
EXTENDS SqliteRepository, TLC

Symmetry == Permutations(Runs)

UpdateOps == {"read", "set", "update"}
=============================================================================
