--------------------------- MODULE SolanaRuntime ---------------------------
(***************************************************************************)
(* What the tardus program relies on of the Solana runtime and its system  *)
(* program.  None of this is code of the repository: it is modelled from   *)
(* the way crates/tardus-program uses it.  A transaction is atomic, so a   *)
(* handler that returns an error leaves no trace and is no step at all.    *)
(***************************************************************************)
EXTENDS Integers

CONSTANTS
    Rent(_),          \* Rent(s): rent-exempt minimum of an account of s bytes
    MaxDataIncrease,  \* bytes one instruction may add to an account (10 KiB)
    U64Max            \* largest u64

ASSUME LimitsAssumption == MaxDataIncrease \in Nat /\ U64Max \in Nat

\* An account a transaction touched must be gone (no lamports) or rent exempt.
RentSettled(balance, size) == balance = 0 \/ balance >= Rent(size)

\* Lamports n move from account p to account q; p = q moves nothing.
Move(balances, p, q, n) == [[balances EXCEPT ![p] = @ - n] EXCEPT ![q] = @ + n]

\* u64::saturating_add
SaturatingAdd(a, b) == IF a + b > U64Max THEN U64Max ELSE a + b

\* u64::saturating_sub
SaturatingSub(a, b) == IF a < b THEN 0 ELSE a - b
=============================================================================
