-------------------------- MODULE MCTardusProgram --------------------------
(***************************************************************************)
(* Small instances of TardusProgram.                                       *)
(***************************************************************************)
EXTENDS TardusProgram

CONSTANTS c1, c2, n1, n2, pkA, pkB

MCNullifier == [c \in Coins |-> IF c = c1 THEN n1 ELSE n2]

Offer(id, d, pk, e) == [keyset_id |-> id, denom |-> d, joint_pk |-> pk, epoch |-> e]

\* Keysets of one denomination: a first one, its successor under another key,
\* a reshare that ties with the successor's epoch under the first key, and an
\* offer that reuses the first id for another denomination.
SpendOffers == {Offer(1, 2, pkA, 1), Offer(2, 2, pkB, 2), Offer(3, 2, pkA, 2),
                Offer(1, 3, pkB, 1)}

\* Rent grows with the size.
MCRent(s) == 1 + (s \div 80)
=============================================================================
