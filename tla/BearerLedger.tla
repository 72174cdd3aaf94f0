---------------------------- MODULE BearerLedger ----------------------------
(***************************************************************************)
(* What the on-chain program promises to a holder of coins, whatever the   *)
(* keysets, accounts and transactions are: a pot of lamports per           *)
(* denomination, and nullifiers that are used once, either melted (the     *)
(* coin was refreshed) or cashed (the coin was withdrawn from one pot, for *)
(* exactly that pot's denomination).                                       *)
(***************************************************************************)
EXTENDS Integers

CONSTANTS
    Denoms,      \* denominations in lamports
    Nullifiers   \* nullifiers of all coins

VARIABLES
    held,    \* held[d]: lamports in the pot of denomination d
    melted,  \* nullifiers of refreshed coins
    cashed   \* cashed[d]: nullifiers of the coins withdrawn from pot d

vars == <<held, melted, cashed>>

Used == melted \cup UNION {cashed[d] : d \in Denoms}

Init ==
    /\ held = [d \in Denoms |-> 0]
    /\ melted = {}
    /\ cashed = [d \in Denoms |-> {}]

\* Lamports can be added to a pot by anybody at any time.
Fund ==
    /\ \E d \in Denoms :
          /\ held'[d] > held[d]
          /\ held' = [held EXCEPT ![d] = held'[d]]
    /\ UNCHANGED <<melted, cashed>>

Melt ==
    /\ \E n \in Nullifiers \ Used : melted' = melted \cup {n}
    /\ UNCHANGED <<held, cashed>>

\* A fresh coin takes d lamports out of pot d.  The recipient may be a pot too.
Cash ==
    \E d \in Denoms, n \in Nullifiers \ Used :
        LET taken == [held EXCEPT ![d] = @ - d]
        IN  /\ held[d] >= d
            /\ held' = taken \/ \E e \in Denoms : held' = [taken EXCEPT ![e] = @ + d]
            /\ cashed' = [cashed EXCEPT ![d] = @ \cup {n}]
            /\ UNCHANGED melted

Next == Fund \/ Melt \/ Cash

Spec == Init /\ [][Next]_vars
=============================================================================
