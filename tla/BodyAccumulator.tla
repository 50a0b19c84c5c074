-------------------------- MODULE BodyAccumulator --------------------------
(* src/src/capture.rs, BodyAccumulator: a running hash of a whole body and a *)
(* preview capped at body_max_bytes. Bytes are counted, not represented: the *)
(* hash of a body is known by the length of the prefix that was hashed.      *)
EXTENDS Naturals, Sequences

CONSTANT BodyMaxBytes               \* cfg.body_max_bytes

ASSUME BodyMaxAssumption == BodyMaxBytes \in Nat \ {0}

Accumulators == [hashed : Nat, retained : 0..BodyMaxBytes, truncated : BOOLEAN]

NewAccumulator == [hashed |-> 0, retained |-> 0, truncated |-> FALSE]

\* BodySummary: a column is null (the empty sequence) or has a value.
Summaries == [sha256 : Seq(Nat), preview : Seq(Nat), truncated : BOOLEAN]

SmallerOf(m, n) == IF m <= n THEN m ELSE n

\* Mutant, off by one: a chunk that exactly fills the preview is called truncated.
ObserveEager(acc, n) ==
  [hashed |-> acc.hashed + n,
   retained |-> SmallerOf(BodyMaxBytes, acc.retained + n),
   truncated |-> acc.truncated \/ acc.retained + n >= BodyMaxBytes]

\* Mutant: the chunk that reaches the cap is kept whole.
ObserveWhole(acc, n) ==
  CASE n = 0 -> acc
    [] n # 0 /\ acc.retained < BodyMaxBytes ->
         [acc EXCEPT !.hashed = @ + n, !.retained = @ + n]
    [] n # 0 /\ acc.retained >= BodyMaxBytes ->
         [acc EXCEPT !.hashed = @ + n, !.truncated = TRUE]

\* BodyAccumulator::observe, for a chunk of n bytes. An empty chunk changes
\* nothing, and neither does a frame without data, such as trailers.
Observe(acc, n) ==
  LET take == SmallerOf(BodyMaxBytes - acc.retained, n) IN
  CASE n = 0 -> acc
    [] n # 0 /\ acc.retained < BodyMaxBytes ->
         [hashed |-> acc.hashed + n,
          retained |-> acc.retained + take,
          truncated |-> acc.truncated \/ take < n]
    [] n # 0 /\ acc.retained >= BodyMaxBytes ->
         [acc EXCEPT !.hashed = @ + n, !.truncated = TRUE]

\* BodyAccumulator::finish: a body without bytes has no hash and no preview.
SomeIf(n) == IF n > 0 THEN <<n>> ELSE << >>
Finish(acc) ==
  [sha256 |-> SomeIf(acc.hashed), preview |-> SomeIf(acc.retained),
   truncated |-> acc.truncated]

\* What the accumulator has to say of a body of which `hashed` bytes went by.
Exact(acc) ==
  /\ acc.retained = SmallerOf(acc.hashed, BodyMaxBytes)
  /\ acc.truncated <=> acc.hashed > BodyMaxBytes
=============================================================================
