--------------------------- MODULE TardusProgram ---------------------------
(***************************************************************************)
(* The on-chain program (crates/tardus-program): the keyset registry, the  *)
(* nullifier set, one lamport vault per denomination, and the allocation   *)
(* of their accounts.  One action per instruction handler; an action is a  *)
(* transaction in which the handler succeeds.  A handler that fails aborts *)
(* its transaction, whatever it had already written, so it is no action.   *)
(* The sponsor pool, which shares no account with these, is SponsorPool.   *)
(***************************************************************************)
EXTENDS SolanaRuntime, Sequences, FiniteSets

CONSTANTS
    Coins,        \* coin public keys
    Nullifiers,   \* values of SHA-256("TARDUS-nullifier-v1" || coin_pubkey)
    Nullifier,    \* compute_nullifier
    JointKeys,    \* joint public keys of keysets
    Offers,       \* the RegisterKeyset instructions that can be sent
    Denoms,       \* denominations in lamports
    Amounts,      \* amounts of plain system transfers
    Sizes,        \* allocation sizes asked for
    Supply,       \* lamports in existence
    KEYSET_REGISTRY_CAPACITY,  \* 256
    BOOTSTRAP_MAX_SIZE,        \* 64 KiB
    MaxCredits    \* bound on the Deposit instructions counted per denomination

KeysetIds == {o.keyset_id : o \in Offers}

KeysetEntry ==
    [keyset_id : KeysetIds, denom : Denoms, joint_pk : JointKeys,
     epoch : Nat, status : {"Active", "Revoked"}]

ASSUME DenomsAssumption == Denoms \subseteq Nat /\ Amounts \subseteq Nat
ASSUME SizesAssumption ==
    /\ Sizes \subseteq Nat
    /\ BOOTSTRAP_MAX_SIZE \in Nat
    /\ \A s \in 0..BOOTSTRAP_MAX_SIZE : Rent(s) \in Nat \ {0}
ASSUME BoundsAssumption ==
    Supply \in Nat /\ KEYSET_REGISTRY_CAPACITY \in Nat /\ MaxCredits \in Nat
ASSUME OffersAssumption ==
    \A o \in Offers :
        /\ o.denom \in Denoms
        /\ o.joint_pk \in JointKeys
        /\ o.epoch \in Nat
\* SHA-256 is collision free on the coins of a model.
ASSUME NullifierAssumption ==
    /\ Nullifier \in [Coins -> Nullifiers]
    /\ \A c1, c2 \in Coins : Nullifier[c1] = Nullifier[c2] => c1 = c2

(***************************************************************************)
(* Accounts, named by their PDA seeds; Outside stands for every account    *)
(* that is not one of the program's.                                       *)
(***************************************************************************)
Registry == <<"keyset-registry", 0>>
NullifierTree == <<"nullifier-tree", 0>>
Vault(d) == <<"vault", d>>
Outside == <<"outside", 0>>

DataAccounts == {Registry, NullifierTree}
Vaults == {Vault(d) : d \in Denoms}
PDAs == DataAccounts \cup Vaults
Accounts == PDAs \cup {Outside}

VARIABLES
    registry,    \* entries of the KeysetRegistry account, in order
    nullifiers,  \* leaves of the NullifierSet account
    alloc,       \* alloc[a]: data bytes of a; a data account with bytes is program owned
    lamports,    \* lamports[a]: balance of account a
    signed,      \* <<coin, joint_pk>> for which the mint has produced a signature
    \* What has happened so far, for the properties; no handler reads it.
    melted,      \* nullifiers inserted by Refresh
    cashed,      \* cashed[d]: nullifiers inserted by Withdraw from vault d
    received,    \* received[d]: lamports that ever came into vault d
    credits      \* credits[d]: Deposit instructions accepted for d

chain == <<registry, nullifiers, alloc, lamports>>
history == <<melted, cashed, received, credits>>
vars == <<chain, signed, history>>

Init ==
    /\ registry = <<>>
    /\ nullifiers = {}
    /\ alloc = [a \in PDAs |-> 0]
    /\ lamports = [a \in Accounts |-> IF a = Outside THEN Supply ELSE 0]
    /\ signed = {}
    /\ melted = {}
    /\ cashed = [d \in Denoms |-> {}]
    /\ received = [d \in Denoms |-> 0]
    /\ credits = [d \in Denoms |-> 0]

-----------------------------------------------------------------------------
(***************************************************************************)
(* Helpers                                                                 *)
(***************************************************************************)

\* Borsh sizes: version byte, length prefix and 82 bytes per entry; length
\* prefix and 32 bytes per leaf.
RegistryBytes(n) == 5 + 82 * n
NullifierBytes(n) == 4 + 32 * n

\* store_registry / store_nullifiers fail when the account is too small.
StoreRegistry(entries) ==
    /\ RegistryBytes(Len(entries)) <= alloc[Registry]
    /\ registry' = entries

\* Faulty: the size is taken before the insertion.
StoreNullifiersStaleSize(leaves) ==
    /\ NullifierBytes(Cardinality(nullifiers)) <= alloc[NullifierTree]
    /\ nullifiers' = leaves

StoreNullifiers(leaves) ==
    /\ NullifierBytes(Cardinality(leaves)) <= alloc[NullifierTree]
    /\ nullifiers' = leaves

\* Positions of the Active entries of a denomination.
ActiveFor(d) ==
    {i \in DOMAIN registry : registry[i].denom = d /\ registry[i].status = "Active"}

\* find_active_for_denom: the latest epoch wins; among equal epochs
\* max_by_key returns the last entry.
FindActiveForDenom(d) ==
    {i \in ActiveFor(d) :
        \A j \in ActiveFor(d) :
            \/ registry[j].epoch < registry[i].epoch
            \/ registry[j].epoch = registry[i].epoch /\ j <= i}

\* Faulty: the key of the verified signature is not compared.
VerifyEd25519PrecompileAnyKey(pre, joint_pk, c) == pre[1] = c

\* The preceding ed25519 instruction verified pre = <<coin_pubkey, public key>>.
VerifyEd25519Precompile(pre, joint_pk, c) == pre = <<c, joint_pk>>

\* The coin checks Refresh and Withdraw share.
VerifyCoinForSpend(d, c, pre) ==
    \E i \in FindActiveForDenom(d) : VerifyEd25519Precompile(pre, registry[i].joint_pk, c)

\* The runtime accepts the balances a transaction leaves behind.
Settled(balances, sizes) == \A a \in PDAs : RentSettled(balances[a], sizes[a])

\* received after lamports n have come into account a.
ReceivedBy(a, n) ==
    [d \in Denoms |-> IF a = Vault(d) THEN received[d] + n ELSE received[d]]

-----------------------------------------------------------------------------
(***************************************************************************)
(* Instructions.  The authorization field of RegisterKeyset and Revoke is  *)
(* read by no handler, so no action depends on it.                         *)
(***************************************************************************)

\* Faulty: the duplicate check is missing.
RegisterKeysetAgain(o) ==
    /\ Len(registry) < KEYSET_REGISTRY_CAPACITY
    /\ StoreRegistry(Append(registry,
            [keyset_id |-> o.keyset_id, denom |-> o.denom, joint_pk |-> o.joint_pk,
             epoch |-> o.epoch, status |-> "Active"]))
    /\ UNCHANGED <<nullifiers, alloc, lamports, signed, history>>

RegisterKeyset(o) ==
    /\ \A i \in DOMAIN registry : registry[i].keyset_id # o.keyset_id
    /\ Len(registry) < KEYSET_REGISTRY_CAPACITY
    /\ StoreRegistry(Append(registry,
            [keyset_id |-> o.keyset_id, denom |-> o.denom, joint_pk |-> o.joint_pk,
             epoch |-> o.epoch, status |-> "Active"]))
    /\ UNCHANGED <<nullifiers, alloc, lamports, signed, history>>

\* Revoking a revoked keyset succeeds and changes nothing.
Revoke(id) ==
    /\ \E i \in DOMAIN registry :
          /\ registry[i].keyset_id = id
          /\ \A j \in 1..(i - 1) : registry[j].keyset_id # id
          /\ StoreRegistry([registry EXCEPT ![i].status = "Revoked"])
    /\ UNCHANGED <<nullifiers, alloc, lamports, signed, history>>

\* process_deposit, whose credit goes to a shadow of the vault and is dropped.
ProcessDeposit(d, amount) ==
    /\ d = amount
    /\ FindActiveForDenom(d) # {}
    /\ lamports[Vault(d)] + amount <= U64Max

\* The handler writes nothing: it looks at the balance of the whole vault and
\* at the registry, and succeeds.
Deposit(d, amount) ==
    /\ credits[d] < MaxCredits
    /\ lamports[Vault(d)] >= amount
    /\ ProcessDeposit(d, amount)
    /\ credits' = [credits EXCEPT ![d] = @ + 1]
    /\ UNCHANGED <<chain, signed, melted, cashed, received>>

\* Faulty: the result of the insertion is ignored.
RefreshSpent(c, d, pre) ==
    /\ VerifyCoinForSpend(d, c, pre)
    /\ StoreNullifiers(nullifiers \cup {Nullifier[c]})
    /\ melted' = melted \cup {Nullifier[c]}
    /\ UNCHANGED <<registry, alloc, lamports, signed, cashed, received, credits>>

Refresh(c, d, pre) ==
    /\ VerifyCoinForSpend(d, c, pre)
    /\ Nullifier[c] \notin nullifiers
    /\ StoreNullifiers(nullifiers \cup {Nullifier[c]})
    /\ melted' = melted \cup {Nullifier[c]}
    /\ UNCHANGED <<registry, alloc, lamports, signed, cashed, received, credits>>

\* Faulty: the result of the insertion is ignored.
WithdrawSpent(c, d, recipient, pre) ==
    /\ VerifyCoinForSpend(d, c, pre)
    /\ StoreNullifiers(nullifiers \cup {Nullifier[c]})
    /\ lamports[Vault(d)] >= d
    /\ lamports' = Move(lamports, Vault(d), recipient, d)
    /\ Settled(lamports', alloc)
    /\ cashed' = [cashed EXCEPT ![d] = @ \cup {Nullifier[c]}]
    /\ received' = ReceivedBy(recipient, d)
    /\ UNCHANGED <<registry, alloc, signed, melted, credits>>

Withdraw(c, d, recipient, pre) ==
    /\ VerifyCoinForSpend(d, c, pre)
    /\ Nullifier[c] \notin nullifiers
    /\ StoreNullifiers(nullifiers \cup {Nullifier[c]})
    /\ lamports[Vault(d)] >= d
    /\ lamports' = Move(lamports, Vault(d), recipient, d)
    /\ Settled(lamports', alloc)
    /\ cashed' = [cashed EXCEPT ![d] = @ \cup {Nullifier[c]}]
    /\ received' = ReceivedBy(recipient, d)
    /\ UNCHANGED <<registry, alloc, signed, melted, credits>>

\* Faulty: an existing account is allocated again.
BootstrapAgain(a, size) ==
    /\ size # 0 /\ size <= BOOTSTRAP_MAX_SIZE
    /\ alloc' = [alloc EXCEPT ![a] = IF a \in Vaults THEN 0 ELSE size]
    /\ lamports[Outside] >= Rent(size)
    /\ lamports' = Move(lamports, Outside, a, Rent(size))
    /\ registry' = IF a = Registry THEN <<>> ELSE registry
    /\ nullifiers' = IF a = NullifierTree THEN {} ELSE nullifiers
    /\ received' = ReceivedBy(a, Rent(size))
    /\ UNCHANGED <<signed, melted, cashed, credits>>

\* create_account hands out zeroed bytes, which load_registry and
\* load_nullifiers read as an empty registry or an empty set.
Bootstrap(a, size) ==
    LET bytes == IF a \in Vaults THEN 0 ELSE size
    IN  /\ a \in DataAccounts => size # 0 /\ size <= BOOTSTRAP_MAX_SIZE
        /\ lamports[a] = 0
        /\ bytes <= MaxDataIncrease
        /\ lamports[Outside] >= Rent(bytes)
        /\ lamports' = Move(lamports, Outside, a, Rent(bytes))
        /\ alloc' = [alloc EXCEPT ![a] = bytes]
        /\ registry' = IF a = Registry THEN <<>> ELSE registry
        /\ nullifiers' = IF a = NullifierTree THEN {} ELSE nullifiers
        /\ received' = ReceivedBy(a, Rent(bytes))
        /\ UNCHANGED <<signed, melted, cashed, credits>>

\* Faulty: the cap is missing.
ResizeAccountUncapped(a, size) ==
    /\ a \in DataAccounts
    /\ alloc[a] > 0
    /\ size > alloc[a]
    /\ lamports[a] >= Rent(size)
    /\ size - alloc[a] <= MaxDataIncrease
    /\ alloc' = [alloc EXCEPT ![a] = size]
    /\ UNCHANGED <<registry, nullifiers, lamports, signed, history>>

ResizeAccount(a, size) ==
    /\ size # 0 /\ size <= BOOTSTRAP_MAX_SIZE
    /\ a \in DataAccounts
    /\ alloc[a] > 0
    /\ size > alloc[a]
    /\ lamports[a] >= Rent(size)
    /\ size - alloc[a] <= MaxDataIncrease
    /\ alloc' = [alloc EXCEPT ![a] = size]
    /\ UNCHANGED <<registry, nullifiers, lamports, signed, history>>

-----------------------------------------------------------------------------
(***************************************************************************)
(* The environment                                                         *)
(***************************************************************************)

\* A plain system transfer; the one paired with Deposit or ResizeAccount too.
Transfer(a, amount) ==
    /\ lamports[Outside] >= amount
    /\ lamports' = Move(lamports, Outside, a, amount)
    /\ Settled(lamports', alloc)
    /\ received' = ReceivedBy(a, amount)
    /\ UNCHANGED <<registry, nullifiers, alloc, signed, melted, cashed, credits>>

\* The off-chain committee signs a coin under a key it holds.  No part of it
\* looks at the registry or at a deposit.
MintSign(c, joint_pk) ==
    /\ signed' = signed \cup {<<c, joint_pk>>}
    /\ UNCHANGED <<chain, history>>

Next ==
    \/ \E o \in Offers : RegisterKeyset(o)
    \/ \E id \in KeysetIds : Revoke(id)
    \/ \E d \in Denoms, amount \in Denoms : Deposit(d, amount)
    \/ \E c \in Coins, d \in Denoms, pre \in signed : Refresh(c, d, pre)
    \/ \E c \in Coins, d \in Denoms, r \in Accounts, pre \in signed : Withdraw(c, d, r, pre)
    \/ \E a \in PDAs, size \in Sizes : Bootstrap(a, size)
    \/ \E a \in PDAs, size \in Sizes : ResizeAccount(a, size)
    \/ \E a \in PDAs, amount \in Amounts : Transfer(a, amount)
    \/ \E c \in Coins, k \in JointKeys : MintSign(c, k)

Spec == Init /\ [][Next]_vars

-----------------------------------------------------------------------------
(***************************************************************************)
(* Properties                                                              *)
(***************************************************************************)

TypeOK ==
    /\ registry \in Seq(KeysetEntry)
    /\ nullifiers \in SUBSET Nullifiers
    /\ alloc \in [PDAs -> 0..BOOTSTRAP_MAX_SIZE]
    /\ lamports \in [Accounts -> Nat]
    /\ signed \in SUBSET (Coins \X JointKeys)
    /\ melted \in SUBSET Nullifiers
    /\ cashed \in [Denoms -> SUBSET Nullifiers]
    /\ received \in [Denoms -> Nat]
    /\ credits \in [Denoms -> Nat]

\* No coin is used twice: a nullifier in the on-chain set was inserted by one
\* Refresh or by one Withdraw from one vault, and none is ever forgotten, in
\* particular not by allocating the nullifier account again (refresh,
\* withdraw and bootstrap of sbf_processor.rs).
OneUse ==
    /\ nullifiers = melted \cup UNION {cashed[d] : d \in Denoms}
    /\ \A d \in Denoms : melted \cap cashed[d] = {}
    /\ \A d, e \in Denoms : d # e => cashed[d] \cap cashed[e] = {}

\* Every lamport that came into a vault is still there or was paid for a
\* coin of its own: withdraw releases exactly the denomination per nullifier.
ValueConserved ==
    \A d \in Denoms : lamports[Vault(d)] + d * Cardinality(cashed[d]) = received[d]

\* A vault that loses lamports loses exactly its denomination, to a coin that
\* was not spent before and whose signature is under the key of the newest
\* Active keyset of that denomination.
PaysForValidCoin(d) ==
    lamports'[Vault(d)] < lamports[Vault(d)] =>
        /\ lamports[Vault(d)] - lamports'[Vault(d)] = d
        /\ \E c \in Coins, i \in FindActiveForDenom(d) :
              /\ <<c, registry[i].joint_pk>> \in signed
              /\ nullifiers' \ nullifiers = {Nullifier[c]}

\* No step of any transaction takes lamports out of a vault but a Withdraw of
\* a valid, unspent coin (withdraw, verify_ed25519_precompile).
VaultPaysForValidCoin == [][\A d \in Denoms : PaysForValidCoin(d)]_vars

\* An entry never moves, disappears or changes, except that Active becomes
\* Revoked, and no keyset_id comes twice.
LogStep ==
    /\ Len(registry) <= Len(registry')
    /\ \A i \in DOMAIN registry :
          registry'[i] \in {registry[i], [registry[i] EXCEPT !.status = "Revoked"]}
    /\ \A i, j \in DOMAIN registry' :
          registry'[i].keyset_id = registry'[j].keyset_id => i = j

\* The registry is a log whose entries can only be revoked, for good
\* (process_register_keyset, process_revoke, bootstrap).
RegistryIsALog == [][LogStep]_vars

\* What is stored fits the account it is stored in, and every account that
\* exists is rent exempt (store_registry, store_nullifiers, resize_account).
StorageSound ==
    /\ registry # <<>> => RegistryBytes(Len(registry)) <= alloc[Registry]
    /\ nullifiers # {} => NullifierBytes(Cardinality(nullifiers)) <= alloc[NullifierTree]
    /\ \A a \in DataAccounts : alloc[a] > 0 => lamports[a] >= Rent(alloc[a])
    /\ \A d \in Denoms : alloc[Vault(d)] = 0

\* The program implements the ledger of BearerLedger: the pots are the vaults.
Ledger == INSTANCE BearerLedger WITH held <- [d \in Denoms |-> lamports[Vault(d)]]
ImplementsLedger == Ledger!Spec

\* Comment of sbf_processor.rs 240-241 on the system transfer that comes with
\* a Deposit: "the post-condition check verifies it".
DepositsBacked == \A d \in Denoms : d * credits[d] <= received[d]

\* A coin that Refresh and Withdraw accept.
Accepted(c, d) ==
    /\ Nullifier[c] \notin nullifiers
    /\ \E pre \in signed : VerifyCoinForSpend(d, c, pre)

\* spec/sections/08-failure-modes.tex 101-104 (F5), on recovery by Revoke and
\* registration of a fresh keyset: "existing coins remain valid".  As long as
\* the denomination has an Active keyset, a change of the registry leaves the
\* coins accepted that were accepted before it.
ExistingCoinsRemainValid ==
    [][registry' # registry =>
          \A c \in Coins, d \in Denoms :
              Accepted(c, d) /\ ActiveFor(d)' # {} => Accepted(c, d)']_vars
=============================================================================
