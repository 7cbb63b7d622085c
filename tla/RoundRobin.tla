----------------------------- MODULE RoundRobin -----------------------------
(***************************************************************************)
(* The arithmetic of RotationEngine.getNextBackend (core/rotation.go): a   *)
(* shared counter of a fixed width gives each call its first index, and    *)
(* the call looks at as many indices as the pool has backends.             *)
(***************************************************************************)
EXTENDS Integers

CONSTANT Modulus   \* 2^32: nextIndex is an atomic.Uint32

ASSUME ModulusAssumption == Modulus \in Nat \ {0}

\* Mutants: the counter grows for ever; it is read and not advanced.
BumpUnbounded(next) == next + 1
BumpNever(next) == next

\* nextIndex.Add(1): the counter wraps around.
Bump(next) == (next + 1) % Modulus

\* The i-th index a call looks at; the addition is one of uint32 values.
Index(start, i, n) == ((start + i) % Modulus) % n

\* No addition of the call wraps around.
NoWrap(start, n) == start + n <= Modulus
=============================================================================
