---------------------------- MODULE SponsorPool ----------------------------
(***************************************************************************)
(* The sponsor pool of the on-chain program: a program-owned account that  *)
(* holds lamports and, in its data, the slot of the last payout and two    *)
(* lifetime counters.  Anybody may pay in or have a payout made, at most   *)
(* one every MIN_SLOTS_BETWEEN_PAYOUTS slots.                              *)
(***************************************************************************)
EXTENDS SolanaRuntime, Sequences

CONSTANTS
    MIN_SLOTS_BETWEEN_PAYOUTS,  \* 5
    BOOTSTRAP_MAX_SIZE,         \* 64 KiB
    PoolBytes,                  \* 32, the allocation Bootstrap makes for the pool
    Sizes,                      \* sizes ResizeAccount is asked for
    Amounts,                    \* amounts of transfers, deposits and payouts
    Supply,                     \* lamports in existence
    FirstSlots,                 \* slots at which the program may be deployed
    MaxSlot,                    \* bound on the slot number
    MaxPayouts                  \* bound on the number of payouts

ASSUME PoolAssumption ==
    /\ MIN_SLOTS_BETWEEN_PAYOUTS \in Nat
    /\ BOOTSTRAP_MAX_SIZE \in Nat
    /\ PoolBytes \in 1..BOOTSTRAP_MAX_SIZE
    /\ \A s \in 0..BOOTSTRAP_MAX_SIZE : Rent(s) \in Nat \ {0}
    /\ Sizes \subseteq Nat /\ Amounts \subseteq Nat /\ Supply \in Nat
    /\ MaxSlot \in Nat /\ MaxPayouts \in Nat
\* Slot 0 is the genesis of the chain; no program is deployed in it.
ASSUME FirstSlotsAssumption == FirstSlots \subseteq Nat \ {0}

VARIABLES
    slot,       \* Clock::slot
    outside,    \* lamports of every account but the pool
    balance,    \* lamports of the pool account
    size,       \* bytes of the pool account; positive iff it is program owned
    pool,       \* the SponsorPool record stored in it
    \* What has happened so far, for the properties.
    life,       \* number of times the account has been created
    payouts     \* [slot, life] of every payout

vars == <<slot, outside, balance, size, pool, life, payouts>>

\* SponsorPool::default, also what zeroed bytes are read as.
NoPayouts == [last_payout_slot |-> 0, total_payouts |-> 0, total_deposits |-> 0]

Init ==
    /\ slot \in FirstSlots
    /\ outside = Supply
    /\ balance = 0
    /\ size = 0
    /\ pool = NoPayouts
    /\ life = 0
    /\ payouts = <<>>

\* Bootstrap of kind SponsorPool; the size the caller asks for is ignored.
Bootstrap ==
    /\ balance = 0
    /\ PoolBytes <= MaxDataIncrease
    /\ outside >= Rent(PoolBytes)
    /\ outside' = outside - Rent(PoolBytes)
    /\ balance' = Rent(PoolBytes)
    /\ size' = PoolBytes
    /\ pool' = NoPayouts
    /\ life' = life + 1
    /\ UNCHANGED <<slot, payouts>>

\* Faulty: the rent of the new size is not looked at.
ResizeAccountUnpaid(new_size) ==
    /\ new_size # 0 /\ new_size <= BOOTSTRAP_MAX_SIZE
    /\ size > 0
    /\ new_size > size
    /\ size' = new_size
    /\ UNCHANGED <<slot, outside, balance, pool, life, payouts>>

ResizeAccount(new_size) ==
    /\ new_size # 0 /\ new_size <= BOOTSTRAP_MAX_SIZE
    /\ size > 0
    /\ new_size > size
    /\ balance >= Rent(new_size)
    /\ new_size - size <= MaxDataIncrease
    /\ size' = new_size
    /\ UNCHANGED <<slot, outside, balance, pool, life, payouts>>

\* Faulty: a plain addition.
SponsorDepositWide(amount) ==
    /\ size > 0
    /\ pool' = [pool EXCEPT !.total_deposits = @ + amount]
    /\ UNCHANGED <<slot, outside, balance, size, life, payouts>>

\* The handler counts the amount it is told; the lamports are the business of
\* a system transfer that it does not look at.
SponsorDeposit(amount) ==
    /\ size > 0
    /\ pool' = [pool EXCEPT !.total_deposits = SaturatingAdd(@, amount)]
    /\ UNCHANGED <<slot, outside, balance, size, life, payouts>>

\* Faulty: the distance of one slot less is enough.
RateLimitedOffByOne ==
    /\ pool.last_payout_slot # 0
    /\ SaturatingSub(slot, pool.last_payout_slot) < MIN_SLOTS_BETWEEN_PAYOUTS - 1

\* Whether the rate limit refuses a payout now.
RateLimited ==
    /\ pool.last_payout_slot # 0
    /\ SaturatingSub(slot, pool.last_payout_slot) < MIN_SLOTS_BETWEEN_PAYOUTS

\* The pool account after a payout: an account left without lamports is
\* removed by the runtime, bytes and all.
AfterPayout(left, record) ==
    /\ RentSettled(left, size)
    /\ balance' = left
    /\ size' = IF left = 0 THEN 0 ELSE size
    /\ pool' = IF left = 0 THEN NoPayouts ELSE record

\* toPool: the recipient named in the instruction is the pool itself.
SponsorPayout(amount, toPool) ==
    /\ Len(payouts) < MaxPayouts
    /\ size > 0
    /\ amount # 0
    /\ ~RateLimited
    /\ balance >= amount
    /\ AfterPayout(IF toPool THEN balance ELSE balance - amount,
                   [pool EXCEPT !.last_payout_slot = slot,
                                !.total_payouts = SaturatingAdd(@, amount)])
    /\ outside' = IF toPool THEN outside ELSE outside + amount
    /\ payouts' = Append(payouts, [slot |-> slot, life |-> life])
    /\ UNCHANGED <<slot, life>>

\* A plain system transfer into the pool's address.
Transfer(amount) ==
    /\ outside >= amount
    /\ RentSettled(balance + amount, size)
    /\ outside' = outside - amount
    /\ balance' = balance + amount
    /\ UNCHANGED <<slot, size, pool, life, payouts>>

NextSlot ==
    /\ slot < MaxSlot
    /\ slot' = slot + 1
    /\ UNCHANGED <<outside, balance, size, pool, life, payouts>>

Next ==
    \/ Bootstrap
    \/ \E s \in Sizes : ResizeAccount(s)
    \/ \E amount \in Amounts : SponsorDeposit(amount)
    \/ \E amount \in Amounts, toPool \in BOOLEAN : SponsorPayout(amount, toPool)
    \/ \E amount \in Amounts : Transfer(amount)
    \/ NextSlot

Spec == Init /\ [][Next]_vars

-----------------------------------------------------------------------------
Record ==
    [last_payout_slot : Nat, total_payouts : 0..U64Max, total_deposits : 0..U64Max]

TypeOK ==
    /\ slot \in Nat /\ outside \in Nat /\ balance \in Nat
    /\ size \in 0..BOOTSTRAP_MAX_SIZE
    /\ pool \in Record
    /\ life \in Nat
    /\ payouts \in Seq([slot : Nat, life : Nat])

\* Two payouts out of the same account are at least
\* MIN_SLOTS_BETWEEN_PAYOUTS slots apart, whoever calls and however the calls
\* are interleaved with deposits, resizes and transfers (sponsor_payout).
PayoutsSpaced ==
    \A i, j \in DOMAIN payouts :
        i < j /\ payouts[i].life = payouts[j].life =>
            payouts[j].slot - payouts[i].slot >= MIN_SLOTS_BETWEEN_PAYOUTS

\* No lamport is made or lost, and the pool is rent exempt whenever it is
\* program owned: a payout takes all of it or leaves the rent
\* (sponsor_payout moves lamports by hand, not by a system transfer).
PoolSolvent ==
    /\ balance + outside = Supply
    /\ size > 0 => balance >= Rent(size)
=============================================================================
