----------------------------- MODULE MCDecorator -----------------------------
(***************************************************************************)
(* Two threads of an application: a calls two operations and may change the*)
(* settings before either of them, b calls one, in a library with OpenMP   *)
(* whose environment asks for two threads.  NTMaxPrime is 2, so that three *)
(* threads, a prime number above it, become two.  block_ptrs has room for  *)
(* one array, so that a second one at the same time makes it grow.         *)
(***************************************************************************)
EXTENDS Decorator

InitialRntm == FromEnv("openmp", 2, -1, -1, -1, -1)
Impls2 == {"single", "openmp"}

\* For RntmSingle.cfg: a library with pthreads.
PosixRntm == FromEnv("posix", 2, -1, -1, -1, -1)
WithPosix == {"single", "posix"}

\* Up to this number of threads, and for these sizes of C, the ways of both
\* factorizations multiply to the number of threads.
ASSUME FactorsMultiplyToNT == FactorsMultiply(1 .. 40, {1, 7, 48, 1000})

SettingsOf == [x \in {"a", "b"} |-> IF x = "a" THEN 1 ELSE 0]
OpsOf == [x \in {"a", "b"} |-> IF x = "a" THEN 2 ELSE 1]

WaysAsked == {<<1, 3, 1, 1>>, <<1, 1, 1, 0>>}
SizesOfC == {<<1, 9>>}
=============================================================================
