----------------------------- MODULE MCSpinLock -----------------------------
(* SpinLock for TLC: one CPU takes interrupts, below LOCK_LEVEL = 2; mutex m *)
(* has level m + 1.                                                          *)
EXTENDS SpinLock, TLC

CONSTANT Interrupted   \* the CPU with interrupts

Interrupts == [c \in CPUs |-> IF c = Interrupted THEN {1} ELSE {}]
Minspl == [m \in Mutexes |-> m + 1]
Symmetry == Permutations(DispLocks)
=============================================================================
