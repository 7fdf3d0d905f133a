------------------------------ MODULE KeptPlaces -------------------------------
(***************************************************************************)
(* Loops that append to a list the items that pass a test:                 *)
(*   for item in items:                                                    *)
(*     if test(item):                                                      *)
(*       kept.append(...)                                                  *)
(* The items are told apart by their places, so the operator below is      *)
(* about numbers.  It is a recursive function, which can be reasoned       *)
(* about; SelectSeq cannot.                                                *)
(***************************************************************************)
EXTENDS Naturals, Sequences

\* The places of I among the first n, in the order in which the loop meets them.
Kept(I, n) ==
  LET kept[i \in Nat] == IF i = 0 THEN <<>>
                         ELSE IF i \in I THEN Append(kept[i - 1], i)
                         ELSE kept[i - 1]
  IN kept[n]
===============================================================================
