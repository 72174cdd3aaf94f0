------------------------------ MODULE MCDevnet ------------------------------
(***************************************************************************)
(* A small instance of DevnetClient: a coin signed under the registered    *)
(* key, and a second key and two coins for a demo's own committee.         *)
(***************************************************************************)
EXTENDS DevnetClient

CONSTANTS c1, c2, c3, n1, n2, n3, pkA, pkB

MCNullifier == [c \in Coins |-> IF c = c1 THEN n1 ELSE IF c = c2 THEN n2 ELSE n3]

\* What others register: the next epoch under the second key.
OthersOffers == {[keyset_id |-> pkB, denom |-> 2, joint_pk |-> pkB, epoch |-> 2],
                 [keyset_id |-> pkA, denom |-> 2, joint_pk |-> pkA, epoch |-> 1]}

\* Rent grows with the size.
MCRent(s) == 1 + (s \div 80)

\* The rate of the SDK is not the cluster's.
MCClientRent(s) == MCRent(s) + 1
=============================================================================
