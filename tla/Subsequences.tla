---------------------------- MODULE Subsequences ----------------------------
(***************************************************************************)
(* Picking out of a sequence without recursion: the result of filter, the  *)
(* first of every kind.                                                    *)
(***************************************************************************)
EXTENDS Naturals, Sequences, FiniteSets

Rank(I, i) == Cardinality({j \in I : j <= i})

\* The items of s at the indices I, in their order.
Subsequence(s, I) == [k \in 1..Cardinality(I) |-> s[CHOOSE i \in I : Rank(I, i) = k]]

\* The indices at which something comes for the first time.
Firsts(s) == {i \in DOMAIN s : \A j \in 1..(i - 1) : s[j] # s[i]}
=============================================================================
