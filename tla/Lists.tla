--------------------------------- MODULE Lists ---------------------------------
(***************************************************************************)
(* Parts of a list, without recursion, so that they can be reasoned about. *)
(***************************************************************************)
EXTENDS Naturals, Sequences, FiniteSets

\* The elements at some places, in their order.
Picked(list, places) ==
  LET place(n) == CHOOSE i \in places : Cardinality({j \in places : j <= i}) = n
  IN [n \in 1..Cardinality(places) |-> list[place(n)]] \o <<>>

\* What becomes of each element.  (With the empty list TLC works it out at once; a
\* function it would keep as its definition.)
Each(list, Op(_)) == [i \in DOMAIN list |-> Op(list[i])] \o <<>>

\* Each element once, where it is first.
Distinct(list) == Picked(list, {i \in DOMAIN list : \A j \in 1..(i - 1) : list[j] # list[i]})
===============================================================================
