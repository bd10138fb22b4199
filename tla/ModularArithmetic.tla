------------------------- MODULE ModularArithmetic -------------------------
(***************************************************************************)
(* What the pool's permutations rest on: calls of multiplyModulo,          *)
(* greatestCommonDivisor and permutationParams with every operand that a   *)
(* word holds, one after the other.                                        *)
(***************************************************************************)
EXTENDS PoolLayout

VARIABLE operands

\* A modulus, a number below it, or seed, and a number up to it.
Operands ==
    { o \in [modulus : 1 .. WordSize - 1, left : 0 .. WordSize - 1, right : 0 .. WordSize - 1] :
        o.left < o.modulus /\ o.right <= o.modulus }

OperandsInit == operands \in { o \in Operands : o.right = 0 }

NextOperand ==
    /\ operands.right < operands.modulus
    /\ operands' = [operands EXCEPT !.right = @ + 1]

OperandsSpec == OperandsInit /\ [][NextOperand]_operands

-----------------------------------------------------------------------------
\* multiplyModulo returns the product modulo modulus although no word could
\* hold the product; Euclid's algorithm, by which permutationParams accepts a
\* step, finds no common divisor exactly when Coprime says so; and the step and
\* the first index it returns make the walk index, index + step, ... (mod
\* count) visit every index.
ModularArithmeticExact ==
    LET modulus == operands.modulus
        left    == operands.left
        right   == operands.right
        step    == PermutationStep(modulus, left)
        first   == PermutationFirst(modulus, left)
    IN  /\ MultiplyModulo(left, right, modulus) = ProductModulo(left, right, modulus)
        /\ GreatestCommonDivisor(left, modulus) = 1 <=> Coprime(left, modulus)
        /\ modulus > 1 =>
             { (first + k * step) % modulus : k \in 0 .. modulus - 1 } = 0 .. modulus - 1
=============================================================================
