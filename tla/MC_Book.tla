------------------------------ MODULE MC_Book -------------------------------
(* A small instance of Book: two users, one address, three rows, pages of one. *)
EXTENDS Book, TLC

CONSTANTS u1, u2, a1, q1

\* u1 asks, for his own rows or for those of u2.
Query(list, whose, status) ==
  [list |-> list, user |-> u1, whose |-> whose, address |-> a1, status |-> status]
SomeQueries ==
  {Query("transfers", u2, "pending"), Query("payments", u1, "any")}
=============================================================================
