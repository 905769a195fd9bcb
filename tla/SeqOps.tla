------------------------------- MODULE SeqOps -------------------------------
(***************************************************************************)
(* What the modules of texts and of replies share: the community module of *)
(* sequences, and the choice of some elements by their positions.          *)
(***************************************************************************)
EXTENDS Integers, Sequences

S == INSTANCE SequencesExt

\* The elements at these positions, in their order.
Kept(q, positions) ==
  S!FlattenSeq([i \in DOMAIN q |-> IF i \in positions THEN <<q[i]>> ELSE <<>>])

=============================================================================
