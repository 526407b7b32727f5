------------------------------ MODULE Listing ------------------------------
(***************************************************************************)
(* The list handling of Python that the selections are made of: a list     *)
(* comprehension with a condition or a loop that appends what is new       *)
(* (Kept), sort (InOrder), sum (SumTo), a slice from the start (FirstOf).  *)
(* They are recursive functions and choices, so that they can be proved    *)
(* about.                                                                  *)
(***************************************************************************)
EXTENDS Naturals, Sequences, FiniteSets

(* The elements of s at the places in I, in their order.                   *)
Kept(s, I) ==
  LET kept[n \in 0 .. Len(s)] ==
        IF n = 0 THEN <<>>
        ELSE IF n \in I THEN Append(kept[n - 1], s[n]) ELSE kept[n - 1]
  IN  kept[Len(s)]

(* Where s has something for the first time, and s with that alone.        *)
Firsts(s) == {k \in DOMAIN s : \A l \in 1 .. k - 1 : s[l] # s[k]}
Unique(s) == Kept(s, Firsts(s))

(* The members of C in the order of the pairs in ahead.                    *)
InOrder(C, ahead) ==
  LET place(i) == Cardinality({j \in C : <<j, i>> \in ahead}) + 1
  IN  [k \in 1 .. Cardinality(C) |-> CHOOSE i \in C : place(i) = k]

(* sum(s[:n])                                                              *)
SumTo(s, n) ==
  LET sum[k \in 0 .. Len(s)] == IF k = 0 THEN 0 ELSE sum[k - 1] + s[k]
  IN  sum[n]

(* s[:n]                                                                   *)
FirstOf(s, n) == SubSeq(s, 1, IF Len(s) < n THEN Len(s) ELSE n)
=============================================================================
