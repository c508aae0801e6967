------------------------------ MODULE Selection ------------------------------
(***************************************************************************)
(* Python's list comprehension with a condition: the elements of a list    *)
(* that are in a set, in their order.  It is SelectSeq of Sequences for    *)
(* the test "is in T", written with a recursive function, which the prover *)
(* can unfold.                                                             *)
(***************************************************************************)
EXTENDS Naturals, Sequences

\* Sift(s, T)[n]: of the first n elements of s those in T.
Sift(s, T) ==
    LET f[n \in 0..Len(s)] ==
          IF n = 0 THEN <<>> ELSE IF s[n] \in T THEN Append(f[n - 1], s[n]) ELSE f[n - 1]
    IN  f

Only(s, T) == Sift(s, T)[Len(s)]
=============================================================================
