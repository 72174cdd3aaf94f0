------------------------- MODULE SponsorPoolProofs -------------------------
(***************************************************************************)
(* Proofs about SponsorPool, for every value of its constants.             *)
(***************************************************************************)
EXTENDS SponsorPool, TLAPS

(***************************************************************************)
(* The payouts of the account's present life are covered by the slot the   *)
(* account remembers, and that slot is never in the future.  An account    *)
(* that was removed remembers nothing, but then no payout is possible      *)
(* before it is created again, which starts another life.                  *)
(***************************************************************************)
SlotsInOrder ==
    /\ slot > 0
    /\ pool.last_payout_slot <= slot
    /\ \A i \in DOMAIN payouts : payouts[i].slot \in 1..slot /\ payouts[i].life <= life

LastPayoutRemembered ==
    size > 0 =>
        \A i \in DOMAIN payouts :
            payouts[i].life = life => payouts[i].slot <= pool.last_payout_slot

IInv == TypeOK /\ SlotsInOrder /\ LastPayoutRemembered /\ PayoutsSpaced

LEMMA SaturatingAddType ==
    ASSUME NEW a \in 0..U64Max, NEW b \in Nat
    PROVE  SaturatingAdd(a, b) \in 0..U64Max
BY LimitsAssumption DEF SaturatingAdd

LEMMA ElementType ==
    ASSUME NEW S, NEW q \in Seq(S), NEW i \in DOMAIN q
    PROVE  q[i] \in S
OBVIOUS

LEMMA PayoutType ==
    ASSUME TypeOK, NEW i \in DOMAIN payouts
    PROVE  payouts[i] \in [slot : Nat, life : Nat]
BY ElementType DEF TypeOK

LEMMA InitIInv == Init => IInv
BY FirstSlotsAssumption, PoolAssumption, LimitsAssumption DEF Init, IInv, TypeOK, SlotsInOrder, LastPayoutRemembered,
   PayoutsSpaced, NoPayouts, Record

\* A payout that is not refused comes late enough after every earlier payout
\* of the same life.
LEMMA PayoutIsLate ==
    ASSUME IInv, size > 0, ~RateLimited,
           NEW i \in DOMAIN payouts, payouts[i].life = life
    PROVE  slot - payouts[i].slot >= MIN_SLOTS_BETWEEN_PAYOUTS
<1> DEFINE last == pool.last_payout_slot
<1>1. slot \in Nat /\ last \in Nat /\ MIN_SLOTS_BETWEEN_PAYOUTS \in Nat
  BY PoolAssumption DEF IInv, TypeOK, Record
<1>2. payouts[i].slot \in 1..slot /\ payouts[i].slot <= last /\ last <= slot
  BY DEF IInv, SlotsInOrder, LastPayoutRemembered
<1>3. SaturatingSub(slot, last) = slot - last
  BY <1>1, <1>2 DEF SaturatingSub
<1>4. slot - last >= MIN_SLOTS_BETWEEN_PAYOUTS
  BY <1>1, <1>2, <1>3 DEF RateLimited
<1> HIDE DEF last
<1>5. QED BY <1>1, <1>2, <1>4

LEMMA PayoutIInv ==
    ASSUME IInv, NEW amount \in Amounts, NEW toPool \in BOOLEAN, SponsorPayout(amount, toPool)
    PROVE  IInv'
<1> DEFINE entry == [slot |-> slot, life |-> life]
           record == [pool EXCEPT !.last_payout_slot = slot,
                                  !.total_payouts = SaturatingAdd(@, amount)]
<1>1. /\ TypeOK /\ SlotsInOrder /\ LastPayoutRemembered /\ PayoutsSpaced
      /\ payouts' = Append(payouts, entry) /\ slot' = slot /\ life' = life
      /\ size > 0 /\ ~RateLimited /\ amount \in Nat /\ balance >= amount
      /\ entry \in [slot : Nat, life : Nat]
  BY PoolAssumption DEF IInv, SponsorPayout, TypeOK
<1>2. record \in Record /\ NoPayouts \in Record
  <2>1. pool \in Record /\ slot \in Nat /\ pool.total_payouts \in 0..U64Max
    BY <1>1 DEF TypeOK, Record
  <2>2. SaturatingAdd(pool.total_payouts, amount) \in 0..U64Max
    BY <1>1, <2>1, SaturatingAddType
  <2>3. record = [last_payout_slot |-> slot,
                  total_payouts |-> SaturatingAdd(pool.total_payouts, amount),
                  total_deposits |-> pool.total_deposits]
    <3> DEFINE total == SaturatingAdd(pool.total_payouts, amount)
    <3>1. record = [[pool EXCEPT !.last_payout_slot = slot] EXCEPT !.total_payouts = total]
      BY <2>1 DEF Record
    <3> HIDE DEF total, record
    <3>2. QED BY <2>1, <3>1 DEF Record, total
  <2>4. pool.total_deposits \in 0..U64Max /\ 0 \in 0..U64Max
    BY <2>1, LimitsAssumption DEF Record
  <2> HIDE DEF record
  <2>5. QED BY <2>1, <2>2, <2>3, <2>4 DEF Record, NoPayouts
<1>3. size' \in {0, size} /\ pool' \in {NoPayouts, record} /\ (size' > 0 => pool' = record)
  BY <1>1 DEF SponsorPayout, AfterPayout, TypeOK
<1>4. TypeOK'
  <2>1. outside' \in Nat /\ balance' \in Nat
    <3>1. balance \in Nat /\ outside \in Nat /\ balance - amount \in Nat /\ outside + amount \in Nat
      BY <1>1 DEF TypeOK
    <3>2. QED BY <3>1 DEF SponsorPayout, AfterPayout
  <2>2. payouts' \in Seq([slot : Nat, life : Nat])
    BY <1>1 DEF TypeOK
  <2>3. pool' \in Record /\ size' \in 0..BOOTSTRAP_MAX_SIZE /\ slot' \in Nat /\ life' \in Nat
    <3> HIDE DEF record
    <3> QED BY <1>1, <1>2, <1>3, PoolAssumption DEF TypeOK
  <2>4. QED BY <2>1, <2>2, <2>3 DEF TypeOK
<1>5. /\ Len(payouts') = Len(payouts) + 1
      /\ \A i \in DOMAIN payouts : payouts'[i] = payouts[i]
      /\ payouts'[Len(payouts) + 1] = entry
      /\ DOMAIN payouts' = 1..(Len(payouts) + 1) /\ DOMAIN payouts = 1..Len(payouts)
  BY <1>1 DEF TypeOK
<1>6. record.last_payout_slot = slot /\ NoPayouts.last_payout_slot = 0
  BY <1>1 DEF TypeOK, Record, NoPayouts
<1>7. SlotsInOrder'
  <2> HIDE DEF record
  <2>1. slot > 0 /\ slot \in Nat /\ life \in Nat
    BY <1>1 DEF SlotsInOrder, TypeOK
  <2>2. ASSUME NEW i \in DOMAIN payouts'
        PROVE  payouts'[i].slot \in 1..slot /\ payouts'[i].life <= life
    BY <1>1, <1>5, <2>1 DEF SlotsInOrder
  <2>3. QED BY <1>1, <1>3, <1>6, <2>1, <2>2 DEF SlotsInOrder
<1>8. LastPayoutRemembered'
  <2> HIDE DEF record
  <2> SUFFICES ASSUME size' > 0, NEW i \in DOMAIN payouts', payouts'[i].life = life
               PROVE  payouts'[i].slot <= slot
    BY <1>1, <1>3, <1>6 DEF LastPayoutRemembered
  <2> QED BY <1>1, <1>5 DEF SlotsInOrder, TypeOK
<1>9. PayoutsSpaced'
  <2> SUFFICES ASSUME NEW i \in DOMAIN payouts', NEW j \in DOMAIN payouts', i < j,
                      payouts'[i].life = payouts'[j].life
               PROVE  payouts'[j].slot - payouts'[i].slot >= MIN_SLOTS_BETWEEN_PAYOUTS
    BY DEF PayoutsSpaced
  <2>1. CASE j \in DOMAIN payouts
    <3>1. i \in DOMAIN payouts /\ payouts'[i] = payouts[i] /\ payouts'[j] = payouts[j]
      BY <1>1, <1>5, <2>1 DEF TypeOK
    <3>2. QED BY <1>1, <2>1, <3>1 DEF PayoutsSpaced
  <2>2. CASE j = Len(payouts) + 1
    <3>1. i \in DOMAIN payouts /\ payouts[i].life = life
      BY <1>1, <1>5, <2>2 DEF TypeOK
    <3>2. slot - payouts[i].slot >= MIN_SLOTS_BETWEEN_PAYOUTS
      BY <1>1, <3>1, PayoutIsLate
    <3>3. QED BY <1>5, <2>2, <3>1, <3>2
  <2>3. QED BY <1>1, <1>5, <2>1, <2>2 DEF TypeOK
<1>10. QED BY <1>4, <1>7, <1>8, <1>9 DEF IInv

LEMMA NextIInv == IInv /\ [Next]_vars => IInv'
<1> SUFFICES ASSUME IInv, [Next]_vars PROVE IInv'
  OBVIOUS
<1> USE DEF IInv, TypeOK, SlotsInOrder, LastPayoutRemembered, PayoutsSpaced
<1>1. CASE Bootstrap
  <2>1. NoPayouts \in Record /\ NoPayouts.last_payout_slot = 0
    BY LimitsAssumption DEF NoPayouts, Record
  <2>2. TypeOK'
    BY <1>1, <2>1, PoolAssumption DEF Bootstrap
  <2>3. SlotsInOrder'
    <3>1. /\ slot' = slot /\ payouts' = payouts /\ life' = life + 1
          /\ pool'.last_payout_slot = 0 /\ slot \in Nat /\ life \in Nat
      BY <1>1, <2>1 DEF Bootstrap
    <3>2. \A i \in DOMAIN payouts : payouts[i].life \in Nat
      BY PayoutType
    <3>3. QED BY <3>1, <3>2
  <2>6. PayoutsSpaced'
    BY <1>1 DEF Bootstrap
  <2>4. LastPayoutRemembered'
    BY <1>1, <2>1 DEF Bootstrap
  <2>5. QED BY <2>2, <2>3, <2>4, <2>6
<1>2. ASSUME NEW s \in Sizes, ResizeAccount(s) PROVE IInv'
  BY <1>2, PoolAssumption DEF ResizeAccount
<1>3. ASSUME NEW amount \in Amounts, SponsorDeposit(amount) PROVE IInv'
  <2>1. /\ pool' \in Record /\ pool'.last_payout_slot = pool.last_payout_slot
    BY <1>3, SaturatingAddType, PoolAssumption DEF SponsorDeposit, Record
  <2>2. QED BY <1>3, <2>1 DEF SponsorDeposit
<1>4. ASSUME NEW amount \in Amounts, NEW toPool \in BOOLEAN, SponsorPayout(amount, toPool)
      PROVE IInv'
  BY <1>4, PayoutIInv
<1>5. ASSUME NEW amount \in Amounts, Transfer(amount) PROVE IInv'
  <2>1. amount \in Nat /\ outside - amount \in Nat /\ balance + amount \in Nat
    BY <1>5, PoolAssumption DEF Transfer
  <2>2. TypeOK'
    BY <1>5, <2>1 DEF Transfer
  <2>3. QED BY <1>5, <2>2 DEF Transfer
<1>6. CASE NextSlot
  <2>1. slot' = slot + 1 /\ slot \in Nat /\ pool \in Record
    BY <1>6 DEF NextSlot
  <2>2. pool.last_payout_slot \in Nat
    BY <2>1 DEF Record
  <2>3. TypeOK' /\ PayoutsSpaced' /\ LastPayoutRemembered'
    BY <1>6, <2>1 DEF NextSlot
  <2>4. SlotsInOrder'
    BY <1>6, <2>1, <2>2 DEF NextSlot
  <2>5. QED BY <2>3, <2>4
<1>7. CASE UNCHANGED vars
  BY <1>7 DEF vars
<1>8. QED BY <1>1, <1>2, <1>3, <1>4, <1>5, <1>6, <1>7 DEF Next

\* Every reachable state has the types of TypeOK, for every chain, rent
\* schedule and number of payouts.
THEOREM PoolTypeCorrect == Spec => []TypeOK
<1>1. IInv => TypeOK
  BY DEF IInv
<1>2. QED BY InitIInv, NextIInv, <1>1, PTL DEF Spec

\* The rate limit of sponsor_payout holds between any two payouts of one life
\* of the account.
THEOREM PoolPayoutsSpaced == Spec => []PayoutsSpaced
<1>1. IInv => PayoutsSpaced
  BY DEF IInv
<1>2. QED BY InitIInv, NextIInv, <1>1, PTL DEF Spec

\* Lamports are conserved and the pool stays rent exempt from step to step.
LEMMA NextSolvent == TypeOK /\ PoolSolvent /\ [Next]_vars => PoolSolvent'
<1> SUFFICES ASSUME TypeOK, PoolSolvent, [Next]_vars PROVE PoolSolvent'
  OBVIOUS
<1>0. balance \in Nat /\ outside \in Nat /\ size \in Nat /\ Supply \in Nat
  BY PoolAssumption DEF TypeOK
<1>1. CASE Bootstrap
  <2>1. Rent(PoolBytes) \in Nat
    BY PoolAssumption
  <2>2. QED BY <1>0, <1>1, <2>1 DEF Bootstrap, PoolSolvent
<1>2. ASSUME NEW s \in Sizes, ResizeAccount(s) PROVE PoolSolvent'
  BY <1>2 DEF ResizeAccount, PoolSolvent
<1>3. ASSUME NEW amount \in Amounts, SponsorDeposit(amount) PROVE PoolSolvent'
  BY <1>3 DEF SponsorDeposit, PoolSolvent
<1>4. ASSUME NEW amount \in Amounts, NEW toPool \in BOOLEAN, SponsorPayout(amount, toPool)
      PROVE PoolSolvent'
  <2> DEFINE left == IF toPool THEN balance ELSE balance - amount
  <2>1. amount \in Nat /\ balance >= amount
    BY <1>4, PoolAssumption DEF SponsorPayout
  <2>2. left \in Nat /\ left + outside' = Supply
    BY <1>0, <1>4, <2>1 DEF SponsorPayout, PoolSolvent
  <2>3. /\ balance' = left /\ size' = IF left = 0 THEN 0 ELSE size
        /\ left = 0 \/ left >= Rent(size)
    BY <1>4 DEF SponsorPayout, AfterPayout, RentSettled
  <2> HIDE DEF left
  <2>4. QED BY <1>0, <2>2, <2>3 DEF PoolSolvent
<1>5. ASSUME NEW amount \in Amounts, Transfer(amount) PROVE PoolSolvent'
  <2>1. amount \in Nat /\ (size > 0 => Rent(size) \in Nat)
    BY PoolAssumption DEF TypeOK
  <2>2. QED BY <1>0, <1>5, <2>1 DEF Transfer, PoolSolvent
<1>6. CASE NextSlot
  BY <1>6 DEF NextSlot, PoolSolvent
<1>7. CASE UNCHANGED vars
  BY <1>7 DEF vars, PoolSolvent
<1>8. QED BY <1>1, <1>2, <1>3, <1>4, <1>5, <1>6, <1>7 DEF Next

\* sponsor_payout, which moves lamports by hand, neither makes nor loses any,
\* and takes all of the pool or leaves its rent.
THEOREM PoolIsSolvent == Spec => []PoolSolvent
<1>1. Init => PoolSolvent
  BY PoolAssumption DEF Init, PoolSolvent
<1>2. QED BY <1>1, NextSolvent, PoolTypeCorrect, PTL DEF Spec
=============================================================================
