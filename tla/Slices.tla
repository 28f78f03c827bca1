-------------------------------- MODULE Slices --------------------------------
(***************************************************************************)
(* The items of a job that each thread computes.  PF_scalar_B() and        *)
(* PF_scalar_AB() begin with the same lines.                               *)
(***************************************************************************)
EXTENDS Integers

CONSTANT Cores \* get_active_core_count()

ASSUME CoresAssumption == Cores \in Nat \ {0}

Thread == 0 .. Cores-1
Master == 0

\* MUTANT: rounded down
SliceLenDown(len) == len \div Cores

\* The slice of thread t: items first+1 .. last of a job with len items.
SliceLen(len) == (len + Cores - 1) \div Cores
\* MUTANT: slices start at multiples of the rounded-down length
SliceFirstDown(t, len) == t * (len \div Cores)

SliceFirst(t, len) == t * SliceLen(len)
SliceLast(t, len) ==
  IF SliceFirst(t, len) + SliceLen(len) > len
  THEN len ELSE SliceFirst(t, len) + SliceLen(len)
=============================================================================
