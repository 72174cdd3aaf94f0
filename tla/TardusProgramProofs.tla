------------------------ MODULE TardusProgramProofs ------------------------
(***************************************************************************)
(* Proofs about TardusProgram, for every value of its constants.           *)
(***************************************************************************)
EXTENDS TardusProgram, FiniteSetTheorems, TLAPS

(***************************************************************************)
(* Facts about the operators of the model                                  *)
(***************************************************************************)

\* No two of the program's accounts have the same seeds.
LEMMA AccountsDistinct ==
    /\ Registry \in PDAs /\ NullifierTree \in PDAs /\ Outside \in Accounts
    /\ PDAs \subseteq Accounts
    /\ Registry # NullifierTree
    /\ Outside \notin PDAs
    /\ \A d \in Denoms : Vault(d) \in PDAs /\ Vault(d) \in Vaults /\ Vault(d) \notin DataAccounts
    /\ \A d, e \in Denoms : Vault(d) = Vault(e) => d = e
    /\ \A a \in Vaults : \E d \in Denoms : a = Vault(d)
<1>1. \A d, e \in Denoms : Vault(d) = Vault(e) => d = e
  BY DEF Vault
<1>2. \A d : Vault(d) # Registry /\ Vault(d) # NullifierTree /\ Vault(d) # Outside
  BY DEF Vault, Registry, NullifierTree, Outside
<1>3. Registry # NullifierTree /\ Registry # Outside /\ NullifierTree # Outside
  BY DEF Registry, NullifierTree, Outside
<1>4. QED BY <1>1, <1>2, <1>3 DEF PDAs, Accounts, DataAccounts, Vaults

\* Moving lamports changes the two accounts it names, and nothing when they
\* are the same.
LEMMA MoveFacts ==
    ASSUME NEW b \in [Accounts -> Nat], NEW p \in Accounts, NEW q \in Accounts,
           NEW n \in Nat, b[p] >= n
    PROVE  /\ Move(b, p, q, n) \in [Accounts -> Nat]
           /\ p = q => Move(b, p, q, n)[p] = b[p]
           /\ p # q => Move(b, p, q, n)[p] = b[p] - n /\ Move(b, p, q, n)[q] = b[q] + n
           /\ \A a \in Accounts \ {p, q} : Move(b, p, q, n)[a] = b[a]
<1> DEFINE b1 == [b EXCEPT ![p] = @ - n]
<1>1. b1 \in [Accounts -> Nat] /\ b1[p] = b[p] - n /\ \A a \in Accounts \ {p} : b1[a] = b[a]
  OBVIOUS
<1>2. Move(b, p, q, n) = [b1 EXCEPT ![q] = @ + n]
  BY DEF Move
<1> HIDE DEF b1
<1>3. QED BY <1>1, <1>2

LEMMA ReceivedByFacts ==
    ASSUME received \in [Denoms -> Nat], NEW a, NEW n \in Nat
    PROVE  /\ ReceivedBy(a, n) \in [Denoms -> Nat]
           /\ \A d \in Denoms : a = Vault(d) => ReceivedBy(a, n)[d] = received[d] + n
           /\ \A d \in Denoms : a # Vault(d) => ReceivedBy(a, n)[d] = received[d]
BY DEF ReceivedBy

LEMMA EntryType ==
    ASSUME NEW S, NEW q \in Seq(S), NEW i \in DOMAIN q
    PROVE  q[i] \in S
OBVIOUS

LEMMA OneMore == ASSUME NEW d \in Nat, NEW n \in Nat PROVE d * (n + 1) = d * n + d
OBVIOUS

-----------------------------------------------------------------------------
(***************************************************************************)
(* The inductive invariant.  OneUse and ValueConserved are not inductive   *)
(* alone: that a Bootstrap can never empty the nullifier account again     *)
(* needs StorageSound (leaves only in an allocated account, an allocated   *)
(* account holds its rent), and counting the withdrawn coins needs the set *)
(* of nullifiers to be finite.                                             *)
(***************************************************************************)
IdsUnique ==
    \A i, j \in DOMAIN registry : registry[i].keyset_id = registry[j].keyset_id => i = j

IInv ==
    /\ TypeOK
    /\ IsFiniteSet(nullifiers)
    /\ IdsUnique
    /\ StorageSound
    /\ OneUse
    /\ ValueConserved

LEMMA TypeInit == Init => TypeOK
BY BoundsAssumption, SizesAssumption DEF Init, TypeOK

LEMMA InitIInv == Init => IInv
<1> SUFFICES ASSUME Init PROVE IInv
  OBVIOUS
<1>1. TypeOK
  BY TypeInit
<1>2. IsFiniteSet(nullifiers) /\ Cardinality({}) = 0
  BY FS_EmptySet DEF Init
<1>3. IdsUnique
  BY DEF Init, IdsUnique
<1>4. StorageSound
  BY AccountsDistinct DEF Init, StorageSound, PDAs
<1>5. OneUse
  BY DEF Init, OneUse
<1>6. ValueConserved
  BY <1>2, AccountsDistinct, DenomsAssumption DEF Init, ValueConserved
<1>7. QED BY <1>1, <1>2, <1>3, <1>4, <1>5, <1>6 DEF IInv

-----------------------------------------------------------------------------
(***************************************************************************)
(* One lemma per action                                                    *)
(***************************************************************************)

\* Steps that touch neither the vaults nor the nullifiers.
LEMMA LedgerUntouched ==
    ASSUME OneUse, ValueConserved, UNCHANGED <<nullifiers, lamports, melted, cashed, received>>
    PROVE  OneUse' /\ ValueConserved'
BY DEF OneUse, ValueConserved

LEMMA RegisterKeysetIInv ==
    ASSUME IInv, NEW o, o.keyset_id \in KeysetIds, o.denom \in Denoms,
           o.joint_pk \in JointKeys, o.epoch \in Nat, RegisterKeyset(o)
    PROVE  IInv'
<1> DEFINE e == [keyset_id |-> o.keyset_id, denom |-> o.denom, joint_pk |-> o.joint_pk,
                 epoch |-> o.epoch, status |-> "Active"]
<1>1. e \in KeysetEntry /\ e.keyset_id = o.keyset_id
  BY DEF KeysetEntry
<1>2. /\ registry' = Append(registry, e)
      /\ RegistryBytes(Len(registry')) <= alloc[Registry]
      /\ UNCHANGED <<nullifiers, alloc, lamports, signed, melted, cashed, received, credits>>
      /\ \A i \in DOMAIN registry : registry[i].keyset_id # e.keyset_id
  BY <1>1 DEF RegisterKeyset, StoreRegistry, history
<1> HIDE DEF e
<1>3. registry \in Seq(KeysetEntry)
  BY DEF IInv, TypeOK
<1>4. TypeOK'
  BY <1>1, <1>2, <1>3 DEF IInv, TypeOK
<1>5. IdsUnique'
  <2>1. /\ DOMAIN registry = 1..Len(registry) /\ DOMAIN registry' = 1..(Len(registry) + 1)
        /\ Len(registry) \in Nat
        /\ \A i \in DOMAIN registry : registry'[i] = registry[i]
        /\ registry'[Len(registry) + 1] = e
    BY <1>1, <1>2, <1>3
  <2> SUFFICES ASSUME NEW i \in DOMAIN registry', NEW j \in DOMAIN registry',
                      registry'[i].keyset_id = registry'[j].keyset_id
               PROVE  i = j
    BY DEF IdsUnique
  <2>2. CASE i \in DOMAIN registry /\ j \in DOMAIN registry
    BY <2>1, <2>2 DEF IInv, IdsUnique
  <2>3. CASE i \in DOMAIN registry /\ j = Len(registry) + 1
    BY <1>2, <2>1, <2>3
  <2>4. CASE i = Len(registry) + 1 /\ j \in DOMAIN registry
    BY <1>2, <2>1, <2>4
  <2>5. QED BY <2>1, <2>2, <2>3, <2>4
<1>6. StorageSound'
  BY <1>2 DEF IInv, StorageSound
<1>7. QED BY <1>2, <1>4, <1>5, <1>6, LedgerUntouched DEF IInv

LEMMA RevokeIInv ==
    ASSUME IInv, NEW id \in KeysetIds, Revoke(id)
    PROVE  IInv'
<1>1. PICK i \in DOMAIN registry :
          /\ registry' = [registry EXCEPT ![i].status = "Revoked"]
          /\ RegistryBytes(Len(registry')) <= alloc[Registry]
  BY DEF Revoke, StoreRegistry
<1>2. UNCHANGED <<nullifiers, alloc, lamports, signed, melted, cashed, received, credits>>
  BY DEF Revoke, history
<1>3. registry \in Seq(KeysetEntry) /\ registry[i] \in KeysetEntry
  BY EntryType DEF IInv, TypeOK
<1>4. [registry[i] EXCEPT !.status = "Revoked"] \in KeysetEntry
  BY <1>3 DEF KeysetEntry
<1>5. /\ registry' \in Seq(KeysetEntry) /\ DOMAIN registry' = DOMAIN registry
      /\ Len(registry') = Len(registry)
      /\ \A j \in DOMAIN registry : registry'[j].keyset_id = registry[j].keyset_id
  BY <1>1, <1>3, <1>4 DEF KeysetEntry
<1>6. TypeOK'
  BY <1>2, <1>5 DEF IInv, TypeOK
<1>7. IdsUnique'
  BY <1>5 DEF IInv, IdsUnique
<1>8. StorageSound'
  BY <1>1, <1>2 DEF IInv, StorageSound
<1>9. QED BY <1>2, <1>6, <1>7, <1>8, LedgerUntouched DEF IInv

LEMMA DepositIInv ==
    ASSUME IInv, NEW d \in Denoms, NEW amount \in Denoms, Deposit(d, amount)
    PROVE  IInv'
<1>1. UNCHANGED <<registry, nullifiers, alloc, lamports, signed, melted, cashed, received>>
  BY DEF Deposit, chain
<1>2. TypeOK'
  BY <1>1 DEF Deposit, IInv, TypeOK
<1>3. IdsUnique' /\ StorageSound'
  BY <1>1 DEF IInv, IdsUnique, StorageSound
<1>4. QED BY <1>1, <1>2, <1>3, LedgerUntouched DEF IInv

LEMMA MintSignIInv ==
    ASSUME IInv, NEW c \in Coins, NEW k \in JointKeys, MintSign(c, k)
    PROVE  IInv'
<1>1. UNCHANGED <<registry, nullifiers, alloc, lamports, melted, cashed, received, credits>>
  BY DEF MintSign, chain, history
<1>2. TypeOK'
  BY <1>1 DEF MintSign, IInv, TypeOK
<1>3. IdsUnique' /\ StorageSound'
  BY <1>1 DEF IInv, IdsUnique, StorageSound
<1>4. QED BY <1>1, <1>2, <1>3, LedgerUntouched DEF IInv

LEMMA ResizeAccountIInv ==
    ASSUME IInv, NEW a \in PDAs, NEW size \in Sizes, ResizeAccount(a, size)
    PROVE  IInv'
<1>1. UNCHANGED <<registry, nullifiers, lamports, signed, melted, cashed, received, credits>>
  BY DEF ResizeAccount, history
<1>2. /\ size \in 0..BOOTSTRAP_MAX_SIZE /\ alloc \in [PDAs -> 0..BOOTSTRAP_MAX_SIZE]
      /\ alloc' = [alloc EXCEPT ![a] = size] /\ size > alloc[a] /\ lamports[a] >= Rent(size)
      /\ a \in DataAccounts
  BY SizesAssumption DEF ResizeAccount, IInv, TypeOK
<1>3. TypeOK'
  BY <1>1, <1>2 DEF IInv, TypeOK
<1>4. IdsUnique'
  BY <1>1 DEF IInv, IdsUnique
<1>5. StorageSound'
  <2>1. /\ \A b \in PDAs : alloc'[b] >= alloc[b] /\ (b # a => alloc'[b] = alloc[b])
        /\ alloc'[a] = size
    BY <1>2
  <2>2. registry' # <<>> => RegistryBytes(Len(registry')) <= alloc'[Registry]
    <3> SUFFICES ASSUME registry # <<>> PROVE RegistryBytes(Len(registry)) <= alloc'[Registry]
      BY <1>1
    <3>1. RegistryBytes(Len(registry)) \in Nat
      BY DEF IInv, TypeOK, RegistryBytes
    <3>2. alloc[Registry] \in Nat /\ alloc'[Registry] \in Nat
      BY <1>2, <1>3, AccountsDistinct DEF TypeOK
    <3>3. QED BY <2>1, <3>1, <3>2, AccountsDistinct DEF IInv, StorageSound
  <2>3. nullifiers' # {} => NullifierBytes(Cardinality(nullifiers')) <= alloc'[NullifierTree]
    <3> SUFFICES ASSUME nullifiers # {}
                 PROVE NullifierBytes(Cardinality(nullifiers)) <= alloc'[NullifierTree]
      BY <1>1
    <3>1. NullifierBytes(Cardinality(nullifiers)) \in Nat
      BY FS_CardinalityType DEF IInv, NullifierBytes
    <3>2. alloc[NullifierTree] \in Nat /\ alloc'[NullifierTree] \in Nat
      BY <1>2, <1>3, AccountsDistinct DEF TypeOK
    <3>3. QED BY <2>1, <3>1, <3>2, AccountsDistinct DEF IInv, StorageSound
  <2>4. \A b \in DataAccounts : alloc'[b] > 0 => lamports'[b] >= Rent(alloc'[b])
    BY <1>1, <1>2, <2>1 DEF IInv, StorageSound, PDAs
  <2>5. \A d \in Denoms : alloc'[Vault(d)] = 0
    BY <1>2, <2>1, AccountsDistinct DEF IInv, StorageSound
  <2>6. QED BY <2>2, <2>3, <2>4, <2>5 DEF StorageSound
<1>6. QED BY <1>1, <1>3, <1>4, <1>5, LedgerUntouched DEF IInv

\* A coin that is refreshed or withdrawn is new to the nullifier set, to
\* melted and to every cashed[d]; the set stays finite and fits its account.
LEMMA FreshNullifier ==
    ASSUME IInv, NEW c \in Coins, Nullifier[c] \notin nullifiers,
           StoreNullifiers(nullifiers \cup {Nullifier[c]})
    PROVE  /\ Nullifier[c] \in Nullifiers
           /\ Nullifier[c] \notin melted
           /\ \A d \in Denoms : Nullifier[c] \notin cashed[d] /\ IsFiniteSet(cashed[d])
           /\ nullifiers' = nullifiers \cup {Nullifier[c]}
           /\ IsFiniteSet(nullifiers')
           /\ NullifierBytes(Cardinality(nullifiers')) <= alloc[NullifierTree]
<1>1. nullifiers = melted \cup UNION {cashed[d] : d \in Denoms} /\ IsFiniteSet(nullifiers)
  BY DEF IInv, OneUse
<1>2. \A d \in Denoms : cashed[d] \subseteq nullifiers
  BY <1>1
<1>3. IsFiniteSet(nullifiers \cup {Nullifier[c]})
  BY <1>1, FS_AddElement
<1>4. QED BY <1>1, <1>2, <1>3, FS_Subset, NullifierAssumption DEF StoreNullifiers

LEMMA RefreshIInv ==
    ASSUME IInv, NEW c \in Coins, NEW d \in Denoms, NEW pre \in signed, Refresh(c, d, pre)
    PROVE  IInv'
<1> DEFINE n == Nullifier[c]
<1>1. /\ n \in Nullifiers /\ n \notin melted
      /\ \A x \in Denoms : n \notin cashed[x]
      /\ nullifiers' = nullifiers \cup {n} /\ IsFiniteSet(nullifiers')
      /\ NullifierBytes(Cardinality(nullifiers')) <= alloc[NullifierTree]
  BY FreshNullifier DEF Refresh
<1>2. /\ melted' = melted \cup {n}
      /\ UNCHANGED <<registry, alloc, lamports, signed, cashed, received, credits>>
  BY DEF Refresh
<1> HIDE DEF n
<1>3. TypeOK'
  BY <1>1, <1>2 DEF IInv, TypeOK
<1>4. IdsUnique' /\ StorageSound'
  BY <1>1, <1>2 DEF IInv, IdsUnique, StorageSound
<1>5. OneUse'
  BY <1>1, <1>2 DEF IInv, OneUse
<1>6. ValueConserved'
  BY <1>2 DEF IInv, ValueConserved
<1>7. QED BY <1>1, <1>3, <1>4, <1>5, <1>6 DEF IInv

LEMMA WithdrawIInv ==
    ASSUME IInv, NEW c \in Coins, NEW d \in Denoms, NEW r \in Accounts, NEW pre \in signed,
           Withdraw(c, d, r, pre)
    PROVE  IInv'
<1> DEFINE n == Nullifier[c]
<1>1. /\ n \in Nullifiers /\ n \notin melted
      /\ \A x \in Denoms : n \notin cashed[x] /\ IsFiniteSet(cashed[x])
      /\ nullifiers' = nullifiers \cup {n} /\ IsFiniteSet(nullifiers')
      /\ NullifierBytes(Cardinality(nullifiers')) <= alloc[NullifierTree]
  BY FreshNullifier DEF Withdraw
<1>2. /\ lamports[Vault(d)] >= d
      /\ lamports' = Move(lamports, Vault(d), r, d)
      /\ Settled(lamports', alloc)
      /\ cashed' = [cashed EXCEPT ![d] = @ \cup {n}]
      /\ received' = ReceivedBy(r, d)
      /\ UNCHANGED <<registry, alloc, signed, melted, credits>>
  BY DEF Withdraw
<1> HIDE DEF n
<1>3. d \in Nat /\ Vault(d) \in Accounts /\ Vault(d) \notin DataAccounts
  BY DenomsAssumption, AccountsDistinct
<1>4. lamports \in [Accounts -> Nat] /\ received \in [Denoms -> Nat]
      /\ cashed \in [Denoms -> SUBSET Nullifiers]
  BY DEF IInv, TypeOK
<1>5. /\ lamports' \in [Accounts -> Nat]
      /\ Vault(d) = r => lamports'[Vault(d)] = lamports[Vault(d)]
      /\ Vault(d) # r => /\ lamports'[Vault(d)] = lamports[Vault(d)] - d
                         /\ lamports'[r] = lamports[r] + d
      /\ \A a \in Accounts \ {Vault(d), r} : lamports'[a] = lamports[a]
  BY <1>2, <1>3, <1>4, MoveFacts
<1>6. /\ received' \in [Denoms -> Nat]
      /\ \A x \in Denoms : r = Vault(x) => received'[x] = received[x] + d
      /\ \A x \in Denoms : r # Vault(x) => received'[x] = received[x]
  BY <1>2, <1>3, <1>4, ReceivedByFacts
<1>7. TypeOK'
  BY <1>1, <1>2, <1>4, <1>5, <1>6 DEF IInv, TypeOK
<1>8. IdsUnique'
  BY <1>2 DEF IInv, IdsUnique
<1>9. StorageSound'
  <2>1. ASSUME NEW a \in DataAccounts, alloc[a] > 0 PROVE lamports'[a] >= Rent(alloc[a])
    <3>1. lamports[a] >= Rent(alloc[a]) /\ a \in Accounts /\ a # Vault(d)
      BY <1>3, <2>1 DEF IInv, StorageSound, Accounts, PDAs
    <3>2. alloc[a] \in 0..BOOTSTRAP_MAX_SIZE
      BY DEF IInv, TypeOK, PDAs
    <3>3. Rent(alloc[a]) \in Nat
      BY <3>2, SizesAssumption
    <3>4. lamports'[a] >= lamports[a] /\ lamports[a] \in Nat /\ lamports'[a] \in Nat
      BY <1>3, <1>4, <1>5, <3>1
    <3>5. QED BY <3>1, <3>3, <3>4
  <2>2. QED BY <1>1, <1>2, <2>1 DEF IInv, StorageSound
<1>10. OneUse'
  <2>1. \A x \in Denoms : cashed'[x] = IF x = d THEN cashed[d] \cup {n} ELSE cashed[x]
    BY <1>2, <1>4
  <2>2. nullifiers' = melted' \cup UNION {cashed'[x] : x \in Denoms}
    BY <1>1, <1>2, <2>1 DEF IInv, OneUse
  <2>3. \A x \in Denoms : melted' \cap cashed'[x] = {}
    BY <1>1, <1>2, <2>1 DEF IInv, OneUse
  <2>4. \A x, y \in Denoms : x # y => cashed'[x] \cap cashed'[y] = {}
    BY <1>1, <2>1 DEF IInv, OneUse
  <2>5. QED BY <2>2, <2>3, <2>4 DEF OneUse
<1>11. ValueConserved'
  <2> SUFFICES ASSUME NEW x \in Denoms
               PROVE  lamports'[Vault(x)] + x * Cardinality(cashed'[x]) = received'[x]
    BY DEF ValueConserved
  <2>1. lamports[Vault(x)] + x * Cardinality(cashed[x]) = received[x]
    BY DEF IInv, ValueConserved
  <2>2. /\ Vault(x) \in Accounts /\ x \in Nat /\ Cardinality(cashed[x]) \in Nat
        /\ lamports[Vault(x)] \in Nat /\ received[x] \in Nat
    BY <1>1, <1>4, AccountsDistinct, DenomsAssumption, FS_CardinalityType
  <2>3. CASE x = d
    <3>1. cashed'[d] = cashed[d] \cup {n}
      BY <1>2, <1>4
    <3>2. Cardinality(cashed'[d]) = Cardinality(cashed[d]) + 1
      BY <1>1, <3>1, FS_AddElement
    <3>3. d * Cardinality(cashed'[d]) = d * Cardinality(cashed[d]) + d
      BY <2>2, <2>3, <3>2, OneMore
    <3>4. d * Cardinality(cashed[d]) \in Nat
      BY <2>2, <2>3
    <3>5. QED BY <1>5, <1>6, <2>1, <2>2, <2>3, <3>3, <3>4
  <2>4. CASE x # d
    <3>1. cashed'[x] = cashed[x] /\ Vault(x) # Vault(d)
      BY <1>2, <1>4, <2>4, AccountsDistinct
    <3>2. x * Cardinality(cashed[x]) \in Nat
      BY <2>2
    <3>3. QED BY <1>3, <1>5, <1>6, <2>1, <2>2, <3>1, <3>2
  <2>5. QED BY <2>3, <2>4
<1>12. QED BY <1>1, <1>7, <1>8, <1>9, <1>10, <1>11 DEF IInv

\* Lamports that come from outside into one of the program's accounts.
LEMMA PayIn ==
    ASSUME IInv, NEW a \in PDAs, NEW n \in Nat, lamports[Outside] >= n,
           lamports' = Move(lamports, Outside, a, n),
           received' = ReceivedBy(a, n),
           UNCHANGED <<melted, cashed>>
    PROVE  /\ lamports' \in [Accounts -> Nat]
           /\ received' \in [Denoms -> Nat]
           /\ lamports'[a] = lamports[a] + n
           /\ \A b \in PDAs : lamports[b] \in Nat /\ lamports'[b] \in Nat /\ lamports'[b] >= lamports[b]
           /\ \A b \in PDAs \ {a} : lamports'[b] = lamports[b]
           /\ ValueConserved'
<1>1. lamports \in [Accounts -> Nat] /\ received \in [Denoms -> Nat]
  BY DEF IInv, TypeOK
<1>2. Outside \in Accounts /\ a \in Accounts /\ Outside # a
  BY AccountsDistinct
<1>3. /\ lamports' \in [Accounts -> Nat]
      /\ lamports'[a] = lamports[a] + n
      /\ \A b \in Accounts \ {Outside, a} : lamports'[b] = lamports[b]
  BY <1>1, <1>2, MoveFacts
<1>4. \A b \in PDAs : b \in Accounts \ {Outside}
  BY AccountsDistinct
<1>5. /\ received' \in [Denoms -> Nat]
      /\ \A d \in Denoms : a = Vault(d) => received'[d] = received[d] + n
      /\ \A d \in Denoms : a # Vault(d) => received'[d] = received[d]
  BY <1>1, ReceivedByFacts
<1>6. ValueConserved'
  <2> SUFFICES ASSUME NEW d \in Denoms
               PROVE  lamports'[Vault(d)] + d * Cardinality(cashed[d]) = received'[d]
    BY DEF ValueConserved
  <2>1. Vault(d) \in Accounts \ {Outside} /\ d \in Nat
    BY <1>4, AccountsDistinct, DenomsAssumption
  <2>2. cashed[d] \subseteq nullifiers /\ IsFiniteSet(nullifiers)
    BY DEF IInv, OneUse
  <2>3. Cardinality(cashed[d]) \in Nat
    BY <2>2, FS_Subset, FS_CardinalityType
  <2>4. d * Cardinality(cashed[d]) \in Nat /\ lamports[Vault(d)] \in Nat /\ received[d] \in Nat
    BY <1>1, <2>1, <2>3
  <2>5. lamports[Vault(d)] + d * Cardinality(cashed[d]) = received[d]
    BY DEF IInv, ValueConserved
  <2>6. QED BY <1>3, <1>5, <2>1, <2>4, <2>5
<1>7. QED BY <1>1, <1>3, <1>4, <1>5, <1>6

\* An account that holds no lamports was never allocated, so allocating it
\* erases nothing: the registry and the nullifiers survive every Bootstrap.
LEMMA BootstrapErasesNothing ==
    ASSUME IInv, NEW a \in PDAs, NEW size \in Nat, Bootstrap(a, size)
    PROVE  registry' = registry /\ nullifiers' = nullifiers /\ alloc[a] = 0
<1>1. lamports[a] = 0
  BY DEF Bootstrap
<1>2. alloc[a] \in 0..BOOTSTRAP_MAX_SIZE
  BY DEF IInv, TypeOK
<1>3. Rent(alloc[a]) \in Nat \ {0}
  BY <1>2, SizesAssumption
<1>4. alloc[a] = 0
  <2>1. CASE a \in DataAccounts
    BY <1>1, <1>2, <1>3, <2>1, SizesAssumption DEF IInv, StorageSound
  <2>2. CASE a \in Vaults
    BY <2>2 DEF IInv, StorageSound, Vaults
  <2>3. QED BY <2>1, <2>2 DEF PDAs
<1>5. CASE a = Registry
  <2>1. RegistryBytes(Len(registry)) > 0
    BY DEF RegistryBytes, IInv, TypeOK
  <2>2. registry = <<>>
    BY <1>4, <1>5, <2>1 DEF IInv, StorageSound, RegistryBytes, TypeOK
  <2>3. QED BY <1>4, <1>5, <2>2, AccountsDistinct DEF Bootstrap
<1>6. CASE a = NullifierTree
  <2>1. NullifierBytes(Cardinality(nullifiers)) \in Nat /\ NullifierBytes(Cardinality(nullifiers)) > 0
    BY FS_CardinalityType DEF NullifierBytes, IInv
  <2>2. nullifiers = {}
    BY <1>4, <1>6, <2>1 DEF IInv, StorageSound
  <2>3. QED BY <1>4, <1>6, <2>2, AccountsDistinct DEF Bootstrap
<1>7. CASE a # Registry /\ a # NullifierTree
  BY <1>4, <1>7 DEF Bootstrap
<1>8. QED BY <1>5, <1>6, <1>7

LEMMA BootstrapIInv ==
    ASSUME IInv, NEW a \in PDAs, NEW size \in Nat, Bootstrap(a, size)
    PROVE  IInv'
<1> DEFINE bytes == IF a \in Vaults THEN 0 ELSE size
<1>1. bytes \in 0..BOOTSTRAP_MAX_SIZE /\ (a \in Vaults => bytes = 0)
  BY SizesAssumption DEF Bootstrap, PDAs
<1>2. /\ lamports[a] = 0 /\ lamports[Outside] >= Rent(bytes)
      /\ lamports' = Move(lamports, Outside, a, Rent(bytes))
      /\ alloc' = [alloc EXCEPT ![a] = bytes]
      /\ received' = ReceivedBy(a, Rent(bytes))
      /\ UNCHANGED <<signed, melted, cashed, credits>>
  BY DEF Bootstrap
<1> HIDE DEF bytes
<1>3. registry' = registry /\ nullifiers' = nullifiers /\ alloc[a] = 0
  BY BootstrapErasesNothing
<1>4. Rent(bytes) \in Nat
  BY <1>1, SizesAssumption
<1>5. /\ lamports' \in [Accounts -> Nat] /\ received' \in [Denoms -> Nat]
      /\ lamports'[a] = Rent(bytes)
      /\ \A b \in PDAs \ {a} : lamports'[b] = lamports[b]
      /\ ValueConserved'
  BY <1>2, <1>4, PayIn
<1>6. /\ alloc' \in [PDAs -> 0..BOOTSTRAP_MAX_SIZE] /\ alloc'[a] = bytes
      /\ \A b \in PDAs \ {a} : alloc'[b] = alloc[b]
  BY <1>1, <1>2 DEF IInv, TypeOK
<1>7. TypeOK'
  BY <1>2, <1>3, <1>5, <1>6 DEF IInv, TypeOK
<1>8. IdsUnique' /\ OneUse'
  BY <1>2, <1>3 DEF IInv, IdsUnique, OneUse
<1>9. StorageSound'
  <2>1. registry # <<>> => RegistryBytes(Len(registry)) <= alloc'[Registry]
    <3>1. RegistryBytes(Len(registry)) \in Nat /\ RegistryBytes(Len(registry)) > 0
      BY DEF RegistryBytes, IInv, TypeOK
    <3>2. registry # <<>> => a # Registry
      BY <1>3, <3>1 DEF IInv, StorageSound
    <3>3. QED BY <1>6, <3>2, AccountsDistinct DEF IInv, StorageSound
  <2>2. nullifiers # {} => NullifierBytes(Cardinality(nullifiers)) <= alloc'[NullifierTree]
    <3>1. NullifierBytes(Cardinality(nullifiers)) \in Nat /\ NullifierBytes(Cardinality(nullifiers)) > 0
      BY FS_CardinalityType DEF NullifierBytes, IInv
    <3>2. nullifiers # {} => a # NullifierTree
      BY <1>3, <3>1 DEF IInv, StorageSound
    <3>3. QED BY <1>6, <3>2, AccountsDistinct DEF IInv, StorageSound
  <2>3. \A b \in DataAccounts : alloc'[b] > 0 => lamports'[b] >= Rent(alloc'[b])
    BY <1>4, <1>5, <1>6 DEF IInv, StorageSound, PDAs
  <2>4. \A d \in Denoms : alloc'[Vault(d)] = 0
    BY <1>1, <1>6, AccountsDistinct DEF IInv, StorageSound
  <2>5. QED BY <1>3, <2>1, <2>2, <2>3, <2>4 DEF StorageSound
<1>10. QED BY <1>3, <1>5, <1>7, <1>8, <1>9 DEF IInv

LEMMA TransferIInv ==
    ASSUME IInv, NEW a \in PDAs, NEW amount \in Nat, Transfer(a, amount)
    PROVE  IInv'
<1>1. /\ amount \in Nat /\ lamports[Outside] >= amount
      /\ lamports' = Move(lamports, Outside, a, amount)
      /\ received' = ReceivedBy(a, amount)
      /\ UNCHANGED <<registry, nullifiers, alloc, signed, melted, cashed, credits>>
  BY DEF Transfer
<1>2. /\ lamports' \in [Accounts -> Nat] /\ received' \in [Denoms -> Nat]
      /\ \A b \in PDAs : lamports[b] \in Nat /\ lamports'[b] \in Nat /\ lamports'[b] >= lamports[b]
      /\ ValueConserved'
  BY <1>1, PayIn
<1>3. TypeOK'
  BY <1>1, <1>2 DEF IInv, TypeOK
<1>4. IdsUnique' /\ OneUse'
  BY <1>1 DEF IInv, IdsUnique, OneUse
<1>5. StorageSound'
  <2>1. ASSUME NEW b \in DataAccounts, alloc[b] > 0 PROVE lamports'[b] >= Rent(alloc[b])
    <3>1. lamports[b] >= Rent(alloc[b]) /\ b \in PDAs /\ alloc[b] \in 0..BOOTSTRAP_MAX_SIZE
      BY <2>1 DEF IInv, StorageSound, PDAs, TypeOK
    <3>2. Rent(alloc[b]) \in Nat
      BY <3>1, SizesAssumption
    <3>3. QED BY <1>2, <3>1, <3>2
  <2>2. QED BY <1>1, <2>1 DEF IInv, StorageSound
<1>6. QED BY <1>1, <1>2, <1>3, <1>4, <1>5 DEF IInv

LEMMA StutterIInv ==
    ASSUME IInv, UNCHANGED vars
    PROVE  IInv'
<1>1. UNCHANGED <<registry, nullifiers, alloc, lamports, signed, melted, cashed, received, credits>>
  BY DEF vars, chain, history
<1>2. TypeOK' /\ IdsUnique' /\ StorageSound'
  BY <1>1 DEF IInv, TypeOK, IdsUnique, StorageSound
<1>3. QED BY <1>1, <1>2, LedgerUntouched DEF IInv

LEMMA NextIInv == IInv /\ [Next]_vars => IInv'
<1> SUFFICES ASSUME IInv, [Next]_vars PROVE IInv'
  OBVIOUS
<1>1. ASSUME Next PROVE IInv'
  <2>1. ASSUME NEW o \in Offers, RegisterKeyset(o) PROVE IInv'
    BY <2>1, OffersAssumption, RegisterKeysetIInv DEF KeysetIds
  <2>2. ASSUME NEW a \in PDAs, NEW size \in Sizes, Bootstrap(a, size) PROVE IInv'
    BY <2>2, SizesAssumption, BootstrapIInv
  <2>3. ASSUME NEW a \in PDAs, NEW amount \in Amounts, Transfer(a, amount) PROVE IInv'
    BY <2>3, DenomsAssumption, TransferIInv
  <2>4. QED
    BY <1>1, <2>1, <2>2, <2>3, RevokeIInv, DepositIInv, RefreshIInv, WithdrawIInv,
       ResizeAccountIInv, MintSignIInv DEF Next
<1>2. QED BY <1>1, StutterIInv

LEMMA Invariance == Spec => []IInv
BY InitIInv, NextIInv, PTL DEF Spec

-----------------------------------------------------------------------------
(***************************************************************************)
(* Theorems                                                                *)
(***************************************************************************)

\* Type correctness of the program's accounts and of the history.
THEOREM ProgramTypeCorrect == Spec => []TypeOK
<1>1. IInv => TypeOK
  BY DEF IInv
<1>2. QED BY Invariance, <1>1, PTL

\* Nothing is stored that does not fit, and an allocated account keeps the
\* rent that protects it from being allocated again.
THEOREM ProgramStorageSound == Spec => []StorageSound
<1>1. IInv => StorageSound
  BY DEF IInv
<1>2. QED BY Invariance, <1>1, PTL

\* No double spend: a nullifier is used by one Refresh or one Withdraw, and
\* no transaction makes the program forget it.
THEOREM ProgramOneUse == Spec => []OneUse
<1>1. IInv => OneUse
  BY DEF IInv
<1>2. QED BY Invariance, <1>1, PTL

\* What left a vault is its denomination times the number of coins withdrawn.
THEOREM ProgramValueConserved == Spec => []ValueConserved
<1>1. IInv => ValueConserved
  BY DEF IInv
<1>2. QED BY Invariance, <1>1, PTL

-----------------------------------------------------------------------------
(***************************************************************************)
(* The registry as a log, and what a vault pays for                        *)
(***************************************************************************)

\* The only actions that change the registry are RegisterKeyset and Revoke.
LEMMA RegistryChanges ==
    ASSUME IInv, Next
    PROVE  \/ registry' = registry
           \/ \E o \in Offers : RegisterKeyset(o)
           \/ \E id \in KeysetIds : Revoke(id)
<1>1. ASSUME NEW d \in Denoms, NEW amount \in Denoms, Deposit(d, amount)
      PROVE registry' = registry
  BY <1>1 DEF Deposit, chain
<1>2. ASSUME NEW c \in Coins, NEW d \in Denoms, NEW pre \in signed, Refresh(c, d, pre)
      PROVE registry' = registry
  BY <1>2 DEF Refresh
<1>3. ASSUME NEW c \in Coins, NEW d \in Denoms, NEW r \in Accounts, NEW pre \in signed,
             Withdraw(c, d, r, pre)
      PROVE registry' = registry
  BY <1>3 DEF Withdraw
<1>4. ASSUME NEW a \in PDAs, NEW size \in Sizes, Bootstrap(a, size) \/ ResizeAccount(a, size)
      PROVE registry' = registry
  BY <1>4, SizesAssumption, BootstrapErasesNothing DEF ResizeAccount
<1>5. ASSUME NEW a \in PDAs, NEW amount \in Amounts, Transfer(a, amount)
      PROVE registry' = registry
  BY <1>5 DEF Transfer
<1>6. ASSUME NEW c \in Coins, NEW k \in JointKeys, MintSign(c, k) PROVE registry' = registry
  BY <1>6 DEF MintSign, chain
<1>7. QED BY <1>1, <1>2, <1>3, <1>4, <1>5, <1>6 DEF Next

LEMMA LogStepHolds == IInv /\ IInv' /\ [Next]_vars => LogStep
<1> SUFFICES ASSUME IInv, IInv', [Next]_vars PROVE LogStep
  OBVIOUS
<1>1. registry \in Seq(KeysetEntry) /\ IdsUnique'
  BY DEF IInv, TypeOK
<1>2. CASE registry' = registry
  BY <1>1, <1>2 DEF LogStep, IdsUnique
<1>3. ASSUME NEW o \in Offers, RegisterKeyset(o) PROVE LogStep
  <2>1. PICK e : registry' = Append(registry, e)
    BY <1>3 DEF RegisterKeyset, StoreRegistry
  <2>2. Len(registry) <= Len(registry') /\ \A i \in DOMAIN registry : registry'[i] = registry[i]
    BY <1>1, <2>1
  <2>3. QED BY <1>1, <2>2 DEF LogStep, IdsUnique
<1>4. ASSUME NEW id \in KeysetIds, Revoke(id) PROVE LogStep
  <2>1. PICK i \in DOMAIN registry : registry' = [registry EXCEPT ![i].status = "Revoked"]
    BY <1>4 DEF Revoke, StoreRegistry
  <2>2. /\ Len(registry') = Len(registry)
        /\ registry'[i] = [registry[i] EXCEPT !.status = "Revoked"]
        /\ \A j \in DOMAIN registry : j # i => registry'[j] = registry[j]
    BY <1>1, <2>1
  <2>3. Len(registry) <= Len(registry')
    BY <1>1, <2>2
  <2>4. QED BY <1>1, <2>2, <2>3 DEF LogStep, IdsUnique
<1>5. CASE UNCHANGED vars
  BY <1>2, <1>5 DEF vars, chain
<1>6. QED BY <1>2, <1>3, <1>4, <1>5, RegistryChanges

\* The registry is append-only up to revocation, which is final, whatever
\* transactions come in whatever order.
THEOREM ProgramRegistryIsALog == Spec => RegistryIsALog
BY Invariance, LogStepHolds, PTL DEF Spec, RegistryIsALog

\* Of all actions only Withdraw debits a vault.
LEMMA VaultChanges ==
    ASSUME IInv, Next
    PROVE  \/ \A d \in Denoms : lamports'[Vault(d)] >= lamports[Vault(d)]
           \/ \E c \in Coins, d \in Denoms, r \in Accounts, pre \in signed : Withdraw(c, d, r, pre)
<1> DEFINE NoDebit == \A d \in Denoms : lamports'[Vault(d)] >= lamports[Vault(d)]
<1>1. ASSUME lamports' = lamports PROVE NoDebit
  <2>1. \A d \in Denoms : lamports[Vault(d)] \in Nat
    BY AccountsDistinct DEF IInv, TypeOK
  <2>2. QED BY <1>1, <2>1
<1>2. ASSUME NEW o \in Offers, RegisterKeyset(o) PROVE lamports' = lamports
  BY <1>2 DEF RegisterKeyset
<1>3. ASSUME NEW id \in KeysetIds, Revoke(id) PROVE lamports' = lamports
  BY <1>3 DEF Revoke
<1>4. ASSUME NEW d \in Denoms, NEW amount \in Denoms, Deposit(d, amount)
      PROVE lamports' = lamports
  BY <1>4 DEF Deposit, chain
<1>5. ASSUME NEW c \in Coins, NEW d \in Denoms, NEW pre \in signed, Refresh(c, d, pre)
      PROVE lamports' = lamports
  BY <1>5 DEF Refresh
<1>6. ASSUME NEW a \in PDAs, NEW size \in Sizes, ResizeAccount(a, size)
      PROVE lamports' = lamports
  BY <1>6 DEF ResizeAccount
<1>7. ASSUME NEW c \in Coins, NEW k \in JointKeys, MintSign(c, k) PROVE lamports' = lamports
  BY <1>7 DEF MintSign, chain
<1>8. ASSUME NEW a \in PDAs, NEW size \in Sizes, Bootstrap(a, size) PROVE NoDebit
  <2> DEFINE bytes == IF a \in Vaults THEN 0 ELSE size
  <2>1. bytes \in 0..BOOTSTRAP_MAX_SIZE
    BY <1>8, SizesAssumption DEF Bootstrap, PDAs
  <2>2. /\ lamports[Outside] >= Rent(bytes)
        /\ lamports' = Move(lamports, Outside, a, Rent(bytes))
        /\ received' = ReceivedBy(a, Rent(bytes))
        /\ UNCHANGED <<melted, cashed>>
    BY <1>8 DEF Bootstrap
  <2> HIDE DEF bytes
  <2>3. Rent(bytes) \in Nat
    BY <2>1, SizesAssumption
  <2>4. \A b \in PDAs : lamports'[b] >= lamports[b]
    BY <2>2, <2>3, PayIn
  <2>5. QED BY <2>4, AccountsDistinct
<1>9. ASSUME NEW a \in PDAs, NEW amount \in Amounts, Transfer(a, amount) PROVE NoDebit
  <2>1. /\ amount \in Nat /\ lamports[Outside] >= amount
        /\ lamports' = Move(lamports, Outside, a, amount)
        /\ received' = ReceivedBy(a, amount)
        /\ UNCHANGED <<melted, cashed>>
    BY <1>9, DenomsAssumption DEF Transfer
  <2>2. \A b \in PDAs : lamports'[b] >= lamports[b]
    BY <2>1, PayIn
  <2>3. QED BY <2>2, AccountsDistinct
<1> HIDE DEF NoDebit
<1>10. QED BY <1>1, <1>2, <1>3, <1>4, <1>5, <1>6, <1>7, <1>8, <1>9 DEF Next, NoDebit

LEMMA PaysForValidCoinHolds == IInv /\ [Next]_vars => \A d \in Denoms : PaysForValidCoin(d)
<1> SUFFICES ASSUME IInv, [Next]_vars, NEW d \in Denoms,
                    lamports'[Vault(d)] < lamports[Vault(d)]
             PROVE  /\ lamports[Vault(d)] - lamports'[Vault(d)] = d
                    /\ \E c \in Coins, i \in FindActiveForDenom(d) :
                          /\ <<c, registry[i].joint_pk>> \in signed
                          /\ nullifiers' \ nullifiers = {Nullifier[c]}
  BY DEF PaysForValidCoin
<1>1. /\ lamports \in [Accounts -> Nat]
      /\ Vault(d) \in Accounts /\ lamports[Vault(d)] \in Nat /\ d \in Nat
  BY AccountsDistinct, DenomsAssumption DEF IInv, TypeOK
<1>2. lamports' # lamports
  BY <1>1
<1>3. Next
  BY <1>2 DEF vars, chain
<1>4. IInv'
  BY NextIInv
<1>5. lamports'[Vault(d)] \in Nat
  BY <1>1, <1>4 DEF IInv, TypeOK
<1>6. ~(lamports'[Vault(d)] >= lamports[Vault(d)])
  BY <1>1, <1>5
<1>7. PICK c \in Coins, e \in Denoms, r \in Accounts, pre \in signed : Withdraw(c, e, r, pre)
  BY <1>3, <1>6, VaultChanges
<1>8. /\ lamports[Vault(e)] >= e
      /\ lamports' = Move(lamports, Vault(e), r, e)
      /\ VerifyCoinForSpend(e, c, pre)
      /\ Nullifier[c] \notin nullifiers
      /\ nullifiers' = nullifiers \cup {Nullifier[c]}
  BY <1>7 DEF Withdraw, StoreNullifiers
<1>9. /\ Vault(e) \in Accounts /\ e \in Nat
  BY AccountsDistinct, DenomsAssumption
<1>10. /\ Vault(e) = r => lamports'[Vault(e)] = lamports[Vault(e)]
       /\ Vault(e) # r => /\ lamports'[Vault(e)] = lamports[Vault(e)] - e
                          /\ lamports'[r] = lamports[r] + e
       /\ \A a \in Accounts \ {Vault(e), r} : lamports'[a] = lamports[a]
  BY <1>1, <1>8, <1>9, MoveFacts
<1>11. Vault(d) # r \/ Vault(d) = Vault(e)
  BY <1>1, <1>6, <1>9, <1>10
<1>12. Vault(d) = Vault(e) /\ r # Vault(e)
  BY <1>1, <1>6, <1>9, <1>10, <1>11
<1>13. d = e
  BY <1>12, AccountsDistinct
<1>14. PICK i \in FindActiveForDenom(d) : pre = <<c, registry[i].joint_pk>>
  BY <1>8, <1>13 DEF VerifyCoinForSpend, VerifyEd25519Precompile
<1>15. lamports[Vault(d)] - lamports'[Vault(d)] = d
  BY <1>1, <1>10, <1>12, <1>13
<1>16. QED BY <1>8, <1>14, <1>15

\* A vault pays one denomination for one valid coin that was not yet spent,
\* and for nothing else.
THEOREM ProgramVaultPaysForValidCoin == Spec => VaultPaysForValidCoin
BY Invariance, PaysForValidCoinHolds, PTL DEF Spec, VaultPaysForValidCoin

-----------------------------------------------------------------------------
(***************************************************************************)
(* The program implements BearerLedger                                     *)
(***************************************************************************)

\* The pots of the ledger.
Held == [d \in Denoms |-> lamports[Vault(d)]]

LEMMA LedgerInit == Init => Ledger!Init
<1> SUFFICES ASSUME Init PROVE Ledger!Init
  OBVIOUS
<1>1. \A d \in Denoms : Vault(d) \in Accounts /\ Vault(d) # Outside
  BY AccountsDistinct
<1>2. \A d \in Denoms : lamports[Vault(d)] = 0
  BY <1>1 DEF Init
<1>3. QED BY <1>2 DEF Init, Ledger!Init

LEMMA UsedNullifiers == OneUse => Ledger!Used = nullifiers
BY DEF OneUse, Ledger!Used

LEMMA RefreshMelts ==
    ASSUME IInv, NEW c \in Coins, NEW d \in Denoms, NEW pre \in signed, Refresh(c, d, pre)
    PROVE  Ledger!Melt
<1>1. /\ Nullifier[c] \in Nullifiers /\ Nullifier[c] \notin nullifiers
      /\ melted' = melted \cup {Nullifier[c]} /\ lamports' = lamports /\ cashed' = cashed
  BY NullifierAssumption DEF Refresh
<1>2. Ledger!Used = nullifiers
  BY UsedNullifiers DEF IInv
<1>3. QED BY <1>1, <1>2 DEF Ledger!Melt

LEMMA WithdrawCashes ==
    ASSUME IInv, NEW c \in Coins, NEW d \in Denoms, NEW r \in Accounts, NEW pre \in signed,
           Withdraw(c, d, r, pre)
    PROVE  Ledger!Cash
<1>1. /\ Nullifier[c] \in Nullifiers /\ Nullifier[c] \notin nullifiers
      /\ lamports[Vault(d)] >= d
      /\ lamports' = Move(lamports, Vault(d), r, d)
      /\ cashed' = [cashed EXCEPT ![d] = @ \cup {Nullifier[c]}]
      /\ melted' = melted
  BY NullifierAssumption DEF Withdraw
<1>2. Ledger!Used = nullifiers
  BY UsedNullifiers DEF IInv
<1>3. d \in Nat /\ Vault(d) \in Accounts /\ lamports \in [Accounts -> Nat]
  BY DenomsAssumption, AccountsDistinct DEF IInv, TypeOK
<1>4. /\ Vault(d) = r => lamports'[Vault(d)] = lamports[Vault(d)]
      /\ Vault(d) # r => /\ lamports'[Vault(d)] = lamports[Vault(d)] - d
                         /\ lamports'[r] = lamports[r] + d
      /\ \A a \in Accounts \ {Vault(d), r} : lamports'[a] = lamports[a]
  BY <1>1, <1>3, MoveFacts
<1>5. \A x \in Denoms : Vault(x) \in Accounts /\ lamports[Vault(x)] \in Nat /\ (Vault(x) = Vault(d) => x = d)
  BY <1>3, AccountsDistinct
<1> DEFINE paid == [Held EXCEPT ![d] = @ - d]
<1>6. /\ \A x \in Denoms : paid[x] = IF x = d THEN lamports[Vault(d)] - d ELSE lamports[Vault(x)]
      /\ paid = [x \in Denoms |-> paid[x]]
  BY DEF Held
<1>7. Held' = [x \in Denoms |-> lamports'[Vault(x)]]
  BY DEF Held
<1>8. Held' = paid \/ \E e \in Denoms : Held' = [paid EXCEPT ![e] = @ + d]
  <2> HIDE DEF paid
  <2>1. CASE \E e \in Denoms : r = Vault(e)
    <3>1. PICK e \in Denoms : r = Vault(e)
      BY <2>1
    <3>2. \A x \in Denoms : Vault(x) = Vault(e) => x = e
      BY AccountsDistinct
    <3>3. \A x \in Denoms : lamports'[Vault(x)] = IF x = e THEN paid[e] + d ELSE paid[x]
      BY <1>3, <1>4, <1>5, <1>6, <3>1, <3>2
    <3>4. [paid EXCEPT ![e] = @ + d] = [x \in Denoms |-> IF x = e THEN paid[e] + d ELSE paid[x]]
      BY <1>6
    <3>5. QED BY <1>7, <3>3, <3>4
  <2>2. CASE ~\E e \in Denoms : r = Vault(e)
    <3>1. \A x \in Denoms : lamports'[Vault(x)] = paid[x]
      BY <1>4, <1>5, <1>6, <2>2
    <3>2. QED BY <1>6, <1>7, <3>1
  <2>3. QED BY <2>1, <2>2
<1>9. QED BY <1>1, <1>2, <1>8 DEF Ledger!Cash, Held

\* A payment into an account from outside funds a pot or is invisible.
LEMMA PayInFunds ==
    ASSUME IInv, NEW a \in PDAs, NEW n \in Nat, lamports[Outside] >= n,
           lamports' = Move(lamports, Outside, a, n), received' = ReceivedBy(a, n),
           UNCHANGED <<melted, cashed>>
    PROVE  [Ledger!Next]_(Ledger!vars)
<1>1. /\ lamports'[a] = lamports[a] + n
      /\ \A b \in PDAs : lamports[b] \in Nat /\ lamports'[b] \in Nat /\ lamports'[b] >= lamports[b]
      /\ \A b \in PDAs \ {a} : lamports'[b] = lamports[b]
  BY PayIn
<1>2. Held' = [x \in Denoms |-> lamports'[Vault(x)]]
  BY DEF Held
<1>3. CASE \E d \in Denoms : a = Vault(d) /\ n > 0
  <2>1. PICK d \in Denoms : a = Vault(d) /\ n > 0
    BY <1>3
  <2>2. \A x \in Denoms \ {d} : Vault(x) \in PDAs \ {a}
    BY <2>1, AccountsDistinct
  <2>3. Held'[d] = Held[d] + n /\ Held[d] \in Nat
    BY <1>1, <2>1 DEF Held
  <2>4. Held' = [Held EXCEPT ![d] = Held'[d]]
    BY <1>1, <1>2, <2>2 DEF Held
  <2>5. Held'[d] > Held[d]
    BY <2>1, <2>3
  <2>6. Ledger!Fund
    BY <2>4, <2>5 DEF Ledger!Fund, Held
  <2>7. QED BY <2>6 DEF Ledger!Next
<1>4. CASE ~\E d \in Denoms : a = Vault(d) /\ n > 0
  <2>1. \A x \in Denoms : lamports'[Vault(x)] = lamports[Vault(x)]
    BY <1>1, <1>4, AccountsDistinct
  <2>2. Held' = Held
    BY <2>1 DEF Held
  <2>3. QED BY <2>2 DEF Ledger!vars, Held
<1>5. QED BY <1>3, <1>4

LEMMA LedgerStep == IInv /\ [Next]_vars => [Ledger!Next]_(Ledger!vars)
<1> SUFFICES ASSUME IInv, [Next]_vars PROVE [Ledger!Next]_(Ledger!vars)
  OBVIOUS
<1>1. ASSUME UNCHANGED <<lamports, melted, cashed>> PROVE [Ledger!Next]_(Ledger!vars)
  BY <1>1 DEF Ledger!vars
<1>2. ASSUME NEW o \in Offers, RegisterKeyset(o) PROVE [Ledger!Next]_(Ledger!vars)
  BY <1>1, <1>2 DEF RegisterKeyset, history
<1>3. ASSUME NEW id \in KeysetIds, Revoke(id) PROVE [Ledger!Next]_(Ledger!vars)
  BY <1>1, <1>3 DEF Revoke, history
<1>4. ASSUME NEW d \in Denoms, NEW amount \in Denoms, Deposit(d, amount)
      PROVE [Ledger!Next]_(Ledger!vars)
  BY <1>1, <1>4 DEF Deposit, chain
<1>5. ASSUME NEW c \in Coins, NEW d \in Denoms, NEW pre \in signed, Refresh(c, d, pre)
      PROVE [Ledger!Next]_(Ledger!vars)
  BY <1>5, RefreshMelts DEF Ledger!Next
<1>6. ASSUME NEW c \in Coins, NEW d \in Denoms, NEW r \in Accounts, NEW pre \in signed,
             Withdraw(c, d, r, pre)
      PROVE [Ledger!Next]_(Ledger!vars)
  BY <1>6, WithdrawCashes DEF Ledger!Next
<1>7. ASSUME NEW a \in PDAs, NEW size \in Sizes, Bootstrap(a, size)
      PROVE [Ledger!Next]_(Ledger!vars)
  <2> DEFINE bytes == IF a \in Vaults THEN 0 ELSE size
  <2>1. bytes \in 0..BOOTSTRAP_MAX_SIZE
    BY <1>7, SizesAssumption DEF Bootstrap, PDAs
  <2>2. /\ lamports[Outside] >= Rent(bytes)
        /\ lamports' = Move(lamports, Outside, a, Rent(bytes))
        /\ received' = ReceivedBy(a, Rent(bytes))
        /\ UNCHANGED <<melted, cashed>>
    BY <1>7 DEF Bootstrap
  <2> HIDE DEF bytes
  <2>3. Rent(bytes) \in Nat
    BY <2>1, SizesAssumption
  <2>4. QED BY <2>2, <2>3, PayInFunds
<1>8. ASSUME NEW a \in PDAs, NEW size \in Sizes, ResizeAccount(a, size)
      PROVE [Ledger!Next]_(Ledger!vars)
  BY <1>1, <1>8 DEF ResizeAccount, history
<1>9. ASSUME NEW a \in PDAs, NEW amount \in Amounts, Transfer(a, amount)
      PROVE [Ledger!Next]_(Ledger!vars)
  BY <1>9, PayInFunds, DenomsAssumption DEF Transfer
<1>10. ASSUME NEW c \in Coins, NEW k \in JointKeys, MintSign(c, k)
       PROVE [Ledger!Next]_(Ledger!vars)
  BY <1>1, <1>10 DEF MintSign, chain, history
<1>11. CASE UNCHANGED vars
  BY <1>1, <1>11 DEF vars, chain, history
<1>12. QED BY <1>2, <1>3, <1>4, <1>5, <1>6, <1>7, <1>8, <1>9, <1>10, <1>11 DEF Next

\* Whatever the registry, the accounts and the transactions do, a holder sees
\* the ledger of BearerLedger.
THEOREM ProgramImplementsLedger == Spec => ImplementsLedger
BY Invariance, LedgerInit, LedgerStep, PTL DEF Spec, ImplementsLedger, Ledger!Spec
=============================================================================
