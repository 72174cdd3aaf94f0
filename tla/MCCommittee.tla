---------------------------- MODULE MCCommittee ----------------------------
(* Two validators, one of them with a transparency log. *)
EXTENDS Committee, TLC

MCV == {1, 2}
MCLogged == {1}

\* Reshare ids are interchangeable, and so are the coins asked for.
Symmetry == Permutations(ReshareIds) \cup Permutations(Ops)

\* Nothing depends on what a log holds once an append to it was cut short, so
\* that such logs need not be told apart.
View ==
    <<share, disk, ceremony, deal, session, op, faults,
      [v \in Logged |-> IF log[v].hurt THEN <<>> ELSE log[v].lines],
      [v \in Logged |-> IF log[v].hurt THEN -1 ELSE log[v].last]>>
=============================================================================
