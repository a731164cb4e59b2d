------------------------------ MODULE Rounding ------------------------------
(***************************************************************************)
(* Python's round(): to the nearest integer, halves to the even one.  Bands *)
(* are kept doubled, so that a half band is 1 and round(x * 2) / 2 is a     *)
(* rounding of integers.                                                    *)
(***************************************************************************)
EXTENDS Integers

\* a / b with halves up.
RoundedHalfUp(a, b) == (2 * a + b) \div (2 * b)

\* round(a / b) for a \in Nat and b \in Nat \ {0}.
Rounded(a, b) ==
    LET low == a \div b
        rest == 2 * (a % b)
    IN  IF rest > b \/ (rest = b /\ low % 2 = 1) THEN low + 1 ELSE low

=============================================================================
