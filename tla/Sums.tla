--------------------------------- MODULE Sums ---------------------------------
(* Sums of numbers over finite sets.                                        *)
EXTENDS FiniteSetsExt

\* The sum of f over the elements of a finite set.
SumOver(f, S) == MapThenSumSet(LAMBDA x : f[x], S)
=============================================================================
