--------------------------- MODULE MCSqliteWriter ---------------------------
(* Small instances of SqliteWriter for TLC.                                  *)
EXTENDS SqliteWriter, TLC

WriterSymmetry == Permutations(Events) \cup Permutations(Callers)
=============================================================================
