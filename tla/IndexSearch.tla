----------------------------- MODULE IndexSearch -----------------------------
(***************************************************************************)
(* The index of a sealed segment (packstore/footer.rs): what parsing it    *)
(* checks, and the search of a key, a bucket on the key's first byte and a *)
(* binary search in it, one probe per step.  The index is any that a file  *)
(* may hold; WellFormed says what the writer of the section makes.         *)
(*                                                                         *)
(* Keys are numbers in their byte order; First gives the first byte.  Rows *)
(* count from 0, as in the code.                                           *)
(***************************************************************************)
EXTENDS Integers, FiniteSets

CONSTANTS Keys, Fan,     \* the largest first byte
          First(_), MaxRows

\* What the theorems assume of the constants.
IndexAssumption ==
    /\ Keys \subseteq Nat /\ Fan \in Nat /\ MaxRows \in Nat
    /\ \A k \in Keys : First(k) \in 0..Fan
    /\ \A j, k \in Keys : j <= k => First(j) <= First(k)

None == -1
Rows == UNION {[0..(c - 1) -> Keys] : c \in 0..MaxRows}
Fanouts == [0..Fan -> 0..MaxRows]

VARIABLES rows, count, fanout,   \* the index section and its key count
          key, lo, n, low, high, \* search_index_pos
          pos,                   \* what it returned
          pc
vars == <<rows, count, fanout, key, lo, n, low, high, pos, pc>>
index == <<rows, count, fanout>>

BucketStart(b) == IF b > 0 THEN fanout[b - 1] ELSE 0

\* Built by build_index_section: ascending keys, and every key in its bucket.
WellFormed ==
    /\ \A i, j \in 0..(count - 1) : i < j => rows[i] < rows[j]
    /\ \A i \in 0..(count - 1), b \in 0..Fan :
          First(rows[i]) = b <=> i \in BucketStart(b)..(fanout[b] - 1)

Init ==
    /\ rows \in Rows /\ fanout \in Fanouts
    /\ count \in 0..MaxRows /\ DOMAIN rows = 0..(count - 1)
    /\ key = 0 /\ lo = 0 /\ n = 0 /\ low = 0 /\ high = 0 /\ pos = None
    /\ pc = "read"

\* parse_index_section, of a section of the right length.
Monotonic ==
    /\ \A b, c \in 0..Fan : b <= c => fanout[b] <= fanout[c]
    /\ fanout[Fan] = count

Parse ==
    /\ pc = "read"
    /\ pc' = IF Monotonic THEN "idle" ELSE "corrupt"
    /\ UNCHANGED <<index, key, lo, n, low, high, pos>>

\* search_index_pos
Search(k) ==
    /\ pc = "idle"
    /\ key' = k /\ lo' = BucketStart(First(k)) /\ n' = fanout[First(k)] - BucketStart(First(k))
    /\ low' = 0 /\ high' = fanout[First(k)] - BucketStart(First(k))
    /\ pc' = "probe"
    /\ UNCHANGED <<index, pos>>

Mid == (low + high) \div 2

Probe ==
    /\ pc = "probe" /\ low < high
    /\ IF rows[lo + Mid] < key THEN low' = Mid + 1 /\ UNCHANGED high
       ELSE high' = Mid /\ UNCHANGED low
    /\ UNCHANGED <<index, key, lo, n, pos, pc>>

Finish ==
    /\ pc = "probe" /\ low >= high
    /\ pos' = IF low < n /\ rows[lo + low] = key THEN lo + low ELSE None
    /\ pc' = "done"
    /\ UNCHANGED <<index, key, lo, n, low, high>>

Next == Parse \/ Probe \/ Finish \/ \E k \in Keys : Search(k)

Spec == Init /\ [][Next]_vars
-----------------------------------------------------------------------------
TypeOK ==
    /\ rows \in Rows /\ count \in 0..MaxRows /\ DOMAIN rows = 0..(count - 1) /\ fanout \in Fanouts
    /\ key \in Nat /\ lo \in Nat /\ n \in Nat /\ low \in Nat /\ high \in Nat
    /\ pos \in Nat \cup {None} /\ pc \in {"read", "idle", "probe", "done", "corrupt"}

\* search_index finds exactly what is in the index: the position it returns
\* holds the key, and when it returns none no row does.
LookupExact ==
    pc = "done" /\ WellFormed =>
        IF pos = None THEN \A i \in 0..(count - 1) : rows[i] # key
        ELSE pos \in 0..(count - 1) /\ rows[pos] = key

\* Whatever rows a file holds, once its fanout passed parse_index_section no
\* probe reads outside of the index.
RowsInBounds ==
    pc = "probe" =>
        /\ low < high => lo + Mid \in 0..(count - 1)
        /\ low >= high /\ low < n => lo + low \in 0..(count - 1)

\* The inductive invariant: where the search stands in its bucket, and, in a
\* well formed index, what it has ruled out.
IInv ==
    /\ TypeOK
    /\ pc \in {"idle", "probe", "done"} => Monotonic
    /\ pc = "probe" =>
          /\ key \in Keys /\ lo = BucketStart(First(key)) /\ n = fanout[First(key)] - lo
          /\ low <= high /\ high <= n
          /\ WellFormed =>
                /\ \A i \in 0..(low - 1) : rows[lo + i] < key
                /\ \A i \in high..(n - 1) : rows[lo + i] >= key
    /\ LookupExact

=============================================================================
