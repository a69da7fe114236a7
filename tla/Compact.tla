------------------------------ MODULE Compact ------------------------------
(***************************************************************************)
(* arith_uint256::GetCompact and SetCompact (arith_uint256.cpp): a size in *)
(* digits and a mantissa of three digits, the highest of which leaves its  *)
(* first bit to the sign.  A digit is a byte in the code (Base = 256).     *)
(***************************************************************************)
EXTENDS Integers

CONSTANT Base

Pow3 == Base * Base * Base

\* The number of digits: (bits() + 7) / 8.
Digits(n) == CHOOSE k \in 0..n : n < Base ^ k /\ (k > 0 => n >= Base ^ (k - 1))

SetCompact(c) ==
    IF c.size <= 3 THEN c.word \div Base ^ (3 - c.size) ELSE c.word * Base ^ (c.size - 3)

GetCompact(n) ==
    LET size == Digits(n)
        word == IF size <= 3 THEN n * Base ^ (3 - size) ELSE n \div Base ^ (size - 3)
    IN IF word >= Pow3 \div 2 THEN [size |-> size + 1, word |-> word \div Base]
       ELSE [size |-> size, word |-> word]
=============================================================================
