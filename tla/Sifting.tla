------------------------------ MODULE Sifting -------------------------------
(***************************************************************************)
(* Sift(s, S) is the elements of a sequence s that are in S, in the order  *)
(* they have in s: what slices.DeleteFunc leaves of a history, or the      *)
(* deletions of tokens of a list.  It is SelectSeq for a set, written as a *)
(* recursive function so that it can be reasoned about (SiftingProofs).    *)
(***************************************************************************)
EXTENDS Naturals, Sequences

Sift(s, S) ==
  LET sifted[i \in 0 .. Len(s)] ==
        IF i = 0 THEN <<>>
        ELSE IF s[i] \in S THEN Append(sifted[i - 1], s[i]) ELSE sifted[i - 1]
  IN  sifted[Len(s)]
=============================================================================
