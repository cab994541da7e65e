--------------------------------- MODULE Walk ---------------------------------
(***************************************************************************)
(* The walk along a sequence that parsers do, each item changing what has  *)
(* been gathered so far.  It is FoldLeft of SequencesExt, as a function:   *)
(* TLC then evaluates a constant that is made with it once, not at every   *)
(* mention.                                                                *)
(***************************************************************************)
EXTENDS Integers, Sequences

Walk(step(_, _), start, seq) ==
  LET f[k \in 0 .. Len(seq)] == IF k = 0 THEN start ELSE step(f[k - 1], seq[k]) IN f[Len(seq)]
=============================================================================
