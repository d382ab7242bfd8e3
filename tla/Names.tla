------------------------------- MODULE Names -------------------------------
(***************************************************************************)
(* Texts as sequences of characters, split at slashes and joined again     *)
(* (package strings, external to the repository).                          *)
(***************************************************************************)
EXTENDS Naturals, Sequences, FiniteSets, SequencesExt

Slash == "/"

(* strings.Split(s, "/") and strings.Join(elems, "/").                     *)
Split(s) ==
  LET cuts  == {0, Len(s) + 1} \cup {i \in 1 .. Len(s) : s[i] = Slash}
      ends  == SetToSortSeq(cuts, <)
  IN  [k \in 1 .. Len(ends) - 1 |-> SubSeq(s, ends[k] + 1, ends[k + 1] - 1)]
Join(elems) ==
  FoldLeft(LAMBDA s, e : IF s = <<>> THEN e ELSE s \o <<Slash>> \o e, <<>>, elems)
=============================================================================
