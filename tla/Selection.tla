------------------------------ MODULE Selection ------------------------------
(***************************************************************************)
(* A sequence made of some elements of another one, in their order.  It is *)
(* what SelectSeq returns, said without recursion: the n-th element chosen *)
(* stands at the n-th place.                                               *)
(***************************************************************************)
EXTENDS Integers, Sequences, FiniteSets

\* The positions of s up to n whose element is in T.
ChosenUpTo(s, T, n) == {i \in 1 .. n : s[i] \in T}

\* a consists of the elements of s that are in T, in the order of s.
IsSelection(a, s, T) ==
  /\ Len(a) = Cardinality(ChosenUpTo(s, T, Len(s)))
  /\ \A i \in ChosenUpTo(s, T, Len(s)) : a[Cardinality(ChosenUpTo(s, T, i))] = s[i]
=============================================================================
