------------------------------ MODULE JavaInts ------------------------------
(***************************************************************************)
(* The ints of the Java programs, with their width scaled down.            *)
(***************************************************************************)
EXTENDS Integers

CONSTANT MaxInt  \* Integer.MAX_VALUE

ASSUME JavaIntsAssumption == MaxInt \in Nat \ {0}

JavaInt == (-MaxInt - 1)..MaxInt

\* The sum or difference of two ints, which leaves the range at most once.
Wrap(x) == CASE x > MaxInt -> x - 2 * (MaxInt + 1)
             [] x < -MaxInt - 1 -> x + 2 * (MaxInt + 1)
             [] OTHER -> x
=============================================================================
