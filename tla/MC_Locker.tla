------------------------------ MODULE MC_Locker ------------------------------
(* A small instance of Locker: three deposits at most, two accounts.        *)
EXTENDS Locker

CONSTANTS owner, holder

OtherAccounts == {holder}
\* lockOne, and lockMany for both accounts.
SmallBatches ==
  LET d(a, t) == [who |-> a, amount |-> 1, unlock |-> t] IN
  {<<d(holder, 1)>>, <<d(owner, 1), d(holder, 2)>>}
\* A sum that is exact leaves the same allowance as lockOne does.
Errors == {-1, 1}
=============================================================================
