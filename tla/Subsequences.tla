---- MODULE Subsequences ----
(***************************************************************************)
(* The members of a sequence that are in a set, in their order: what       *)
(* Array.prototype.filter returns.  SelectSeq says the same recursively;   *)
(* here the n-th member kept is the one at the n-th index kept, a form     *)
(* that can be reasoned about without recursion.                           *)
(***************************************************************************)
EXTENDS Naturals, Sequences, FiniteSets

KeptAt(s, S) == {i \in 1 .. Len(s) : s[i] \in S}

(* The place of index i among the indices I, counted from 1.               *)
Place(I, i) == Cardinality({j \in I : j <= i})

Keep(s, S) ==
    LET I == KeptAt(s, S)
    IN  [n \in 1 .. Cardinality(I) |-> s[CHOOSE i \in I : Place(I, i) = n]]
====
