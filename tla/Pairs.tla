------------------------------- MODULE Pairs --------------------------------
(***************************************************************************)
(* std::cmp::min and max of two sizes: what FiniteSetsExt's Min and Max    *)
(* give on a set of two.                                                   *)
(***************************************************************************)
EXTENDS Integers, FiniteSetsExt, TLAPS

\* The larger of two numbers is their Max (usize::max in clamp_io_size).
LEMMA MaxOfTwo ==
    ASSUME NEW a \in Int, NEW b \in Int
    PROVE  Max({a, b}) = IF a >= b THEN a ELSE b
<1> DEFINE m == IF a >= b THEN a ELSE b
<1>1. m \in {a, b} /\ \A y \in {a, b} : m >= y
  OBVIOUS
<1>2. \A x \in {a, b} : (\A y \in {a, b} : x >= y) => x = m
  OBVIOUS
<1> QED
  BY <1>1, <1>2 DEF Max

\* The smaller of two numbers is their Min (usize::min in clamp_io_size).
LEMMA MinOfTwo ==
    ASSUME NEW a \in Int, NEW b \in Int
    PROVE  Min({a, b}) = IF a <= b THEN a ELSE b
<1> DEFINE m == IF a <= b THEN a ELSE b
<1>1. m \in {a, b} /\ \A y \in {a, b} : m <= y
  OBVIOUS
<1>2. \A x \in {a, b} : (\A y \in {a, b} : x <= y) => x = m
  OBVIOUS
<1> QED
  BY <1>1, <1>2 DEF Min
=============================================================================
