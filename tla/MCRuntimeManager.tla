-------------------------- MODULE MCRuntimeManager --------------------------
(* Small instances of ResultsPages and the RuntimeManager it extends: configs *)
(* A and C listen on p, B on q; A and B write to the same database.           *)
EXTENDS ResultsPages

CONSTANTS A, B, C, p, q, x, y

MCListenAddr == [c \in Configs |-> IF c = B THEN q ELSE p]
MCSqlitePath == [c \in Configs |-> IF c = C THEN y ELSE x]
=============================================================================
