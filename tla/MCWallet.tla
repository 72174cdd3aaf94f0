------------------------------ MODULE MCWallet ------------------------------
(***************************************************************************)
(* A small instance of WalletGui: a wallet with two coins of an earlier    *)
(* session that share a label, one of them spent.                          *)
(***************************************************************************)
EXTENDS WalletGui

MyLabel == Label("user", 1)

MCStartFile == << StoredCoin(1, 1, "Spent", MyLabel), StoredCoin(2, 2, "Active", MyLabel) >>

MCStartKeysets == [n \in Names |-> 2]

MCLabels == {MyLabel, NoLabel}
MCRecipients == {Me, Peer}
=============================================================================
