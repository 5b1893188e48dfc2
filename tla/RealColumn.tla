----------------------------- MODULE RealColumn -----------------------------
(***************************************************************************)
(* A time in a column of type REAL (core/schema_specs.py), which keeps the *)
(* nearest multiple of Quantum ticks only: a 4-byte float on PostgreSQL,   *)
(* so 128 seconds for today's dates; exact, Quantum = 1 tick, on SQLite.   *)
(* A time that is compared with the column takes the column's type.        *)
(***************************************************************************)
EXTENDS Integers

CONSTANT Quantum    \* ticks between two neighbouring values of the column

ASSUME QuantumAssumption == Quantum \in Nat \ {0}

\* The number of the nearest multiple, ties to the even one.
Stored(t) ==
    LET below == t \div Quantum
        rest  == t % Quantum
    IN  IF 2 * rest > Quantum \/ (2 * rest = Quantum /\ below % 2 = 1)
        THEN below + 1 ELSE below
=============================================================================
