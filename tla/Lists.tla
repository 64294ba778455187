------------------------------- MODULE Lists -------------------------------
(* The loops over lists that the components share.                         *)
EXTENDS Naturals, Sequences, SequencesExt

\* The elements that are in S, in their order.
Keep(s, S) ==
    LET kept[i \in 0..Len(s)] ==
          IF i = 0 THEN <<>>
          ELSE IF s[i] \in S THEN Append(kept[i - 1], s[i]) ELSE kept[i - 1]
    IN kept[Len(s)]

Dedup_mutant(s) == s

\* Each element once, at its first place.
Dedup(s) ==
    LET kept[i \in 0..Len(s)] ==
          IF i = 0 THEN <<>>
          ELSE IF s[i] \in ToSet(kept[i - 1]) THEN kept[i - 1] ELSE Append(kept[i - 1], s[i])
    IN kept[Len(s)]
=============================================================================
