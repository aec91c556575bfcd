---------------------------- MODULE MissingPlan ----------------------------
(***************************************************************************)
(* How the bulk absence check cuts its list into chunks                    *)
(* (packstore/missing.rs: plan, chunk_bounds), for every length and every  *)
(* number of processors.                                                   *)
(***************************************************************************)
EXTENDS Integers

CONSTANTS
    MIN_MISSING_CHUNK,   \* the fewest keys worth a worker
    MAX_PARALLEL         \* the most workers

\* What the theorems assume of the constants.
PlanAssumption ==
    /\ MIN_MISSING_CHUNK \in Nat \ {0}
    /\ MAX_PARALLEL \in Nat \ {0}

Lesser(a, b) == IF a < b THEN a ELSE b

\* usize::div_ceil
div_ceil(a, b) == (a + b - 1) \div b

\* The number of workers.
workers(len, parallelism) ==
    Lesser(Lesser(div_ceil(len, MIN_MISSING_CHUNK), parallelism), MAX_PARALLEL)

\* The number of workers and the length of a chunk.
plan(len, parallelism) ==
    LET w == workers(len, parallelism)
    IN  IF w = 0 THEN <<0, 0>> ELSE <<w, div_ceil(len, w)>>

\* The half-open range of worker i, from 0.
chunk_bounds(len, chunk_len, i) ==
    <<Lesser(i * chunk_len, len), Lesser((i + 1) * chunk_len, len)>>

\* Position p is in worker i's chunk of a list of that length.
InChunk(p, len, chunk_len, i) ==
    LET b == chunk_bounds(len, chunk_len, i)
    IN  b[1] <= p /\ p < b[2]

\* The chunks partition the list: every position is one worker's and no other's.
\* The call has nothing to do exactly when there is no key or no processor.
Partitions(len, parallelism) ==
    LET p == plan(len, parallelism)
    IN  /\ p[1] = 0 <=> len = 0 \/ parallelism = 0
        /\ p[1] # 0 => \A pos \in 0 .. len - 1 :
              /\ \E i \in 0 .. p[1] - 1 : InChunk(pos, len, p[2], i)
              /\ \A i, j \in 0 .. p[1] - 1 :
                    InChunk(pos, len, p[2], i) /\ InChunk(pos, len, p[2], j) => i = j

============================================================================
