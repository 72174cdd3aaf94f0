---------------------------- MODULE DevnetProofs ----------------------------
(***************************************************************************)
(* Proofs about DevnetClient: what the devnet commands tell their users is *)
(* so, and their pre-flight checks agree with the program's, for any       *)
(* number of clients, commands, coins and keysets.  The program's own      *)
(* invariant is that of TardusProgramProofs.                               *)
(***************************************************************************)
EXTENDS DevnetClient, TardusProgramProofs

(***************************************************************************)
(* The inductive invariant.  Programs: which step may come after which, so *)
(* that the step a client is at says what it has done.                     *)
(***************************************************************************)
StepNames ==
    {"bootRegistry", "bootNullifiers", "bootVault", "tryVault", "fundVault", "register", "issue",
     "swap", "committee", "registry", "nullifiers", "vault", "refresh", "withdraw", "query",
     "sizeRegistry", "sizeNullifiers", "resizeRegistry", "resizeNullifiers",
     "fund", "payout", "payIn", "bootPool"}

\* Steps that come after the demo has its key, or register one.
Keyed == {"tryVault", "fundVault", "register", "issue", "swap"}

\* t may come right after s.
Follows(s, t) ==
    /\ t = "nullifiers" => s = "registry"
    /\ t \in {"vault", "refresh"} => s = "nullifiers"
    /\ t = "withdraw" => s = "vault"
    /\ t = "resizeRegistry" => s = "sizeRegistry"
    /\ t = "resizeNullifiers" => s = "sizeNullifiers"
    /\ t = "bootNullifiers" => s = "bootRegistry"
    /\ t \in Keyed => s \in Keyed \cup {"committee"}

\* The step a command ends with.
Goal(cmd, s) ==
    /\ cmd \in MeltCommands => s = "refresh"
    /\ cmd \in CashCommands => s = "withdraw"
    /\ cmd = "bootstrap-singletons" => s = "bootNullifiers"
    /\ cmd = "resize-registry" => s = "resizeRegistry"
    /\ cmd = "resize-nullifier-tree" => s = "resizeNullifiers"
    /\ cmd = "register-keyset" => s = "register"
    /\ s # "registry"

Linked(todo) == \A i \in 1..(Len(todo) - 1) : Follows(todo[i], todo[i + 1])

Program(todo, cmd) ==
    /\ todo \in Seq(StepNames) /\ Len(todo) > 0
    /\ Goal(cmd, todo[Len(todo)])
    /\ Linked(todo)

ClientType ==
    [run : Nat, todo : Seq(StepNames), job : Job, sent : {"no", "sent", "landed"}, stale : BOOLEAN]

Shape(c) ==
    /\ c \in ClientType
    /\ \/ c.run = 0 /\ c.todo = <<>> /\ c.sent = "no"
       \/ /\ c.run # 0
          /\ Program(c.todo, c.job.cmd)
          /\ c.sent # "no" => Head(c.todo) \in TxSteps

\* What the clients' knowledge is about.
World ==
    [melted |-> melted, cashed |-> cashed, spent |-> nullifiers, alloc |-> alloc,
     held |-> lamports, registered |-> {registry[i].joint_pk : i \in DOMAIN registry},
     keys |-> [d \in Denoms |-> KeyForDenom(d)]]

\* What is so once the transaction of a step has landed.
Done(w, step, job) ==
    /\ step = "refresh" => Nullifier[job.coin] \in w.melted
    /\ step = "withdraw" => Nullifier[job.coin] \in w.cashed[job.denom]
    /\ step = "bootRegistry" => w.held[Registry] > 0
    /\ step = "bootNullifiers" => w.held[NullifierTree] > 0
    /\ step = "resizeRegistry" => w.alloc[Registry] >= job.size
    /\ step = "resizeNullifiers" => w.alloc[NullifierTree] >= job.size
    /\ step = "register" => job.key \in w.registered

\* What is so whenever a client is at a step.
Prepared(w, step, job) ==
    /\ step = "resizeRegistry" => w.held[Registry] + job.topup >= Rent(job.size)
    /\ step = "resizeNullifiers" => w.held[NullifierTree] + job.topup >= Rent(job.size)
    /\ step = "bootNullifiers" => w.held[Registry] > 0
    /\ step \in Keyed => job.key \in JointKeys

\* What is so at a step if nobody else has changed the chain since the registry
\* was read.
Known(w, step, job) ==
    /\ step \in {"nullifiers", "vault", "refresh", "withdraw"} => job.key \in w.keys[job.denom]
    /\ step \in {"vault", "refresh", "withdraw"} => Nullifier[job.coin] \notin w.spent
    /\ step = "withdraw" => w.held[Vault(job.denom)] >= job.denom

Facts(w, c) ==
    c.run # 0 =>
        /\ Prepared(w, Head(c.todo), c.job)
        /\ c.sent = "landed" => Done(w, Head(c.todo), c.job)
        /\ c.sent # "landed" /\ ~c.stale => Known(w, Head(c.todo), c.job)

ReportType == [run : Nat \ {0}, job : Job, result : Results]

IsSpend(r) == r.result = "ok" /\ r.job.cmd \in MeltCommands \cup CashCommands

\* What a report says is so.
ReportTrue(w, r) ==
    /\ r.result = "ok" =>
          /\ r.job.cmd \in MeltCommands => Nullifier[r.job.coin] \in w.melted
          /\ r.job.cmd \in CashCommands => Nullifier[r.job.coin] \in w.cashed[r.job.denom]
          /\ r.job.cmd = "bootstrap-singletons" =>
                w.held[Registry] > 0 /\ w.held[NullifierTree] > 0
          /\ r.job.cmd = "resize-registry" => w.alloc[Registry] >= r.job.size
          /\ r.job.cmd = "resize-nullifier-tree" => w.alloc[NullifierTree] >= r.job.size
          /\ r.job.cmd = "register-keyset" => r.job.key \in w.registered
    /\ r.result \in {"double-spend", "spent"} => Nullifier[r.job.coin] \in w.spent

\* The client has spent its coin and is about to say so.
Claims(c) == c.run # 0 /\ c.sent = "landed" /\ Head(c.todo) \in {"refresh", "withdraw"}

TxType == [run : Nat \ {0}, step : TxSteps, job : Job]

\* A transaction on its way belongs to a command that has ended, to the one
\* waiting for it, or is the demo's bootstrap_vault, which is not waited for to
\* the end.
Awaited(tx, c) ==
    tx.run = c.run =>
        tx.step = "tryVault" \/ (c.sent = "sent" /\ tx.step = Head(c.todo) /\ tx.job = c.job)

\* The chain is the program's: its invariant is that of TardusProgramProofs.
ChainInv == IInv

ClientInv ==
    /\ client \in [Clients -> ClientType]
    /\ \A k \in Clients : Shape(client[k]) /\ Facts(World, client[k])

NetworkInv ==
    /\ network \subseteq TxType
    /\ \A tx \in network :
          /\ tx.run <= runs
          /\ tx.step = "register" => tx.job.key \in JointKeys
          /\ \A k \in Clients : Awaited(tx, client[k])

\* A run belongs to one client, then to one report.
RunsInv ==
    /\ \A k \in Clients : client[k].run <= runs
    /\ \A r \in reports : r.run <= runs
    /\ \A j, k \in Clients : client[j].run = client[k].run /\ client[j].run # 0 => j = k
    /\ \A r \in reports, k \in Clients : r.run # client[k].run
    /\ \A r, s \in reports : r.run = s.run => r = s

ReportInv == reports \subseteq ReportType /\ \A r \in reports : ReportTrue(World, r)

\* A coin is claimed once, by a report or by a client about to make one.
ClaimInv ==
    /\ \A r, s \in reports : IsSpend(r) /\ IsSpend(s) /\ r.job.coin = s.job.coin => r = s
    /\ \A r \in reports, k \in Clients :
          IsSpend(r) /\ Claims(client[k]) => r.job.coin # client[k].job.coin
    /\ \A j, k \in Clients :
          Claims(client[j]) /\ Claims(client[k]) /\ client[j].job.coin = client[k].job.coin
              => j = k

CountInv == pool \in Nat /\ runs \in 0..MaxRuns /\ others \in 0..MaxOthers

DInv == ChainInv /\ ClientInv /\ NetworkInv /\ RunsInv /\ ReportInv /\ ClaimInv /\ CountInv
-----------------------------------------------------------------------------
(***************************************************************************)
(* The chain only grows                                                    *)
(***************************************************************************)
\* What the clients rely on is never taken back.
Grows ==
    /\ melted \subseteq melted' /\ nullifiers \subseteq nullifiers'
    /\ \A d \in Denoms : cashed[d] \subseteq cashed'[d]
    /\ \A a \in DataAccounts :
          /\ alloc[a] \in Nat /\ alloc'[a] \in Nat /\ alloc'[a] >= alloc[a]
          /\ lamports[a] \in Nat /\ lamports'[a] \in Nat /\ lamports'[a] >= lamports[a]
    /\ \A i \in DOMAIN registry :
          i \in DOMAIN registry' /\ registry'[i].joint_pk = registry[i].joint_pk

LEMMA ChainTypes ==
    ASSUME IInv
    PROVE  /\ \A a \in PDAs : alloc[a] \in Nat /\ lamports[a] \in Nat
           /\ \A d \in Denoms : cashed[d] \subseteq nullifiers
           /\ melted \subseteq nullifiers
           /\ lamports \in [Accounts -> Nat]
           /\ lamports[Outside] \in Nat
           /\ DataAccounts \subseteq PDAs
<1>1. /\ alloc \in [PDAs -> 0..BOOTSTRAP_MAX_SIZE] /\ lamports \in [Accounts -> Nat]
      /\ PDAs \subseteq Accounts /\ Outside \in Accounts
  BY AccountsDistinct DEF IInv, TypeOK
<1>2. nullifiers = melted \cup UNION {cashed[d] : d \in Denoms}
  BY DEF IInv, OneUse
<1>3. BOOTSTRAP_MAX_SIZE \in Nat
  BY SizesAssumption
<1>4. QED BY <1>1, <1>2, <1>3 DEF PDAs

LEMMA QuietGrows ==
    ASSUME ChainInv, UNCHANGED <<registry, nullifiers, alloc, lamports, melted, cashed>>
    PROVE  Grows
<1>1. IInv
  BY DEF ChainInv
<1>2. \A a \in DataAccounts : alloc[a] \in Nat /\ lamports[a] \in Nat
  BY <1>1, ChainTypes
<1>3. QED BY <1>1, <1>2 DEF Grows

LEMMA RegisterKeysetGrows ==
    ASSUME ChainInv, NEW o, o.keyset_id \in KeysetIds, o.denom \in Denoms,
           o.joint_pk \in JointKeys, o.epoch \in Nat, RegisterKeyset(o)
    PROVE  /\ ChainInv' /\ Grows
           /\ \E i \in DOMAIN registry' : registry'[i].joint_pk = o.joint_pk
<1>1. IInv /\ IInv'
  BY RegisterKeysetIInv DEF ChainInv
<1> DEFINE e == [keyset_id |-> o.keyset_id, denom |-> o.denom, joint_pk |-> o.joint_pk,
                 epoch |-> o.epoch, status |-> "Active"]
<1>2. /\ registry' = Append(registry, e) /\ e.joint_pk = o.joint_pk
      /\ UNCHANGED <<nullifiers, alloc, lamports, melted, cashed>>
  BY DEF RegisterKeyset, StoreRegistry, history
<1> HIDE DEF e
<1>3. registry \in Seq(KeysetEntry)
  BY <1>1 DEF IInv, TypeOK
<1>4. /\ \A i \in DOMAIN registry : i \in DOMAIN registry' /\ registry'[i] = registry[i]
      /\ Len(registry) + 1 \in DOMAIN registry' /\ registry'[Len(registry) + 1] = e
  BY <1>2, <1>3
<1>5. \A a \in DataAccounts : alloc[a] \in Nat /\ lamports[a] \in Nat
  BY <1>1, ChainTypes
<1>6. Grows
  BY <1>1, <1>2, <1>4, <1>5 DEF Grows
<1>7. QED BY <1>1, <1>2, <1>4, <1>6 DEF ChainInv

LEMMA RevokeGrows ==
    ASSUME ChainInv, NEW id \in KeysetIds, Revoke(id)
    PROVE  ChainInv' /\ Grows
<1>1. IInv /\ IInv'
  BY RevokeIInv DEF ChainInv
<1>2. PICK i \in DOMAIN registry : registry' = [registry EXCEPT ![i].status = "Revoked"]
  BY DEF Revoke, StoreRegistry
<1>3. UNCHANGED <<nullifiers, alloc, lamports, melted, cashed>>
  BY DEF Revoke, history
<1>4. registry \in Seq(KeysetEntry) /\ registry[i] \in KeysetEntry
  BY <1>1, EntryType DEF IInv, TypeOK
<1>5. [registry[i] EXCEPT !.status = "Revoked"].joint_pk = registry[i].joint_pk
  BY <1>4 DEF KeysetEntry
<1>6. \A j \in DOMAIN registry : j \in DOMAIN registry' /\ registry'[j].joint_pk = registry[j].joint_pk
  BY <1>2, <1>4, <1>5
<1>7. \A a \in DataAccounts : alloc[a] \in Nat /\ lamports[a] \in Nat
  BY <1>1, ChainTypes
<1>8. Grows
  BY <1>1, <1>3, <1>6, <1>7 DEF Grows
<1>9. QED BY <1>1, <1>8 DEF ChainInv

LEMMA MintSignGrows ==
    ASSUME ChainInv, NEW c \in Coins, NEW key \in JointKeys, MintSign(c, key)
    PROVE  ChainInv'
<1>1. IInv /\ IInv'
  BY MintSignIInv DEF ChainInv
<1>2. UNCHANGED <<registry, nullifiers, alloc, lamports, melted, cashed>>
  BY DEF MintSign, chain, history
<1>3. QED BY <1>1, <1>2 DEF ChainInv

LEMMA RefreshGrows ==
    ASSUME ChainInv, NEW c, NEW d \in Denoms, NEW key, <<c, key>> \in signed,
           Refresh(c, d, <<c, key>>)
    PROVE  ChainInv' /\ Grows /\ Nullifier[c] \in melted'
<1>1. IInv
  BY DEF ChainInv
<1>2. c \in Coins
  BY <1>1 DEF IInv, TypeOK
<1>3. IInv'
  BY <1>1, <1>2, RefreshIInv
<1>4. /\ melted' = melted \cup {Nullifier[c]} /\ nullifiers' = nullifiers \cup {Nullifier[c]}
      /\ UNCHANGED <<registry, alloc, lamports, cashed>>
  BY DEF Refresh, StoreNullifiers
<1>5. \A a \in DataAccounts : alloc[a] \in Nat /\ lamports[a] \in Nat
  BY <1>1, ChainTypes
<1>6. Grows
  BY <1>1, <1>4, <1>5 DEF Grows
<1>7. QED BY <1>3, <1>4, <1>6 DEF ChainInv

LEMMA WithdrawGrows ==
    ASSUME ChainInv, NEW c, NEW d \in Denoms, NEW key, <<c, key>> \in signed,
           Withdraw(c, d, Outside, <<c, key>>)
    PROVE  ChainInv' /\ Grows /\ Nullifier[c] \in cashed'[d]
<1>1. IInv /\ cashed \in [Denoms -> SUBSET Nullifiers]
  BY DEF ChainInv, IInv, TypeOK
<1>2. c \in Coins /\ Outside \in Accounts
  BY <1>1, AccountsDistinct DEF IInv, TypeOK
<1>3. IInv'
  BY <1>1, <1>2, WithdrawIInv
<1>4. /\ cashed' = [cashed EXCEPT ![d] = @ \cup {Nullifier[c]}]
      /\ nullifiers' = nullifiers \cup {Nullifier[c]}
      /\ lamports[Vault(d)] >= d
      /\ lamports' = Move(lamports, Vault(d), Outside, d)
      /\ UNCHANGED <<registry, alloc, melted>>
  BY DEF Withdraw, StoreNullifiers
<1>5. /\ \A a \in DataAccounts : alloc[a] \in Nat /\ lamports[a] \in Nat
      /\ lamports \in [Accounts -> Nat]
  BY <1>1, ChainTypes
<1>6. Vault(d) \in Accounts /\ DataAccounts \subseteq Accounts \ {Vault(d), Outside} /\ d \in Nat
  BY AccountsDistinct, DenomsAssumption DEF PDAs
<1>7. \A a \in DataAccounts : lamports'[a] = lamports[a]
  BY <1>2, <1>4, <1>5, <1>6, MoveFacts
<1>8. \A e \in Denoms : cashed[e] \subseteq cashed'[e]
  BY <1>1, <1>4
<1>9. Grows
  BY <1>1, <1>4, <1>5, <1>7, <1>8 DEF Grows
<1>10. QED BY <1>1, <1>3, <1>4, <1>9 DEF ChainInv

LEMMA TransferGrows ==
    ASSUME ChainInv, NEW a \in PDAs, NEW n \in Nat, Transfer(a, n)
    PROVE  ChainInv' /\ Grows
<1>1. IInv /\ IInv'
  BY TransferIInv DEF ChainInv
<1>2. /\ lamports[Outside] >= n
      /\ lamports' = Move(lamports, Outside, a, n)
      /\ received' = ReceivedBy(a, n)
      /\ UNCHANGED <<registry, nullifiers, alloc, melted, cashed>>
  BY DEF Transfer
<1>3. \A b \in PDAs : lamports[b] \in Nat /\ lamports'[b] \in Nat /\ lamports'[b] >= lamports[b]
  BY <1>1, <1>2, PayIn
<1>4. \A b \in DataAccounts : b \in PDAs /\ alloc[b] \in Nat
  BY <1>1, ChainTypes DEF PDAs
<1>5. Grows
  BY <1>2, <1>3, <1>4 DEF Grows
<1>6. QED BY <1>1, <1>5 DEF ChainInv

LEMMA BootstrapGrows ==
    ASSUME ChainInv, NEW a \in PDAs, NEW size \in Nat, Bootstrap(a, size)
    PROVE  /\ ChainInv' /\ Grows
           /\ registry' = registry /\ nullifiers' = nullifiers
           /\ \A b \in PDAs : lamports'[b] \in Nat /\ lamports'[b] >= lamports[b]
           /\ lamports'[a] > 0
<1> DEFINE bytes == IF a \in Vaults THEN 0 ELSE size
<1>1. IInv
  BY DEF ChainInv
<1>2. IInv'
  BY <1>1, BootstrapIInv
<1>3. registry' = registry /\ nullifiers' = nullifiers /\ alloc[a] = 0
  BY <1>1, BootstrapErasesNothing
<1>4. /\ lamports[a] = 0 /\ lamports[Outside] >= Rent(bytes)
      /\ lamports' = Move(lamports, Outside, a, Rent(bytes))
      /\ alloc' = [alloc EXCEPT ![a] = bytes]
      /\ received' = ReceivedBy(a, Rent(bytes))
      /\ UNCHANGED <<melted, cashed>>
      /\ a \in DataAccounts => size # 0 /\ size <= BOOTSTRAP_MAX_SIZE
  BY DEF Bootstrap
<1>5. bytes \in 0..BOOTSTRAP_MAX_SIZE /\ bytes \in Nat
  BY <1>4, SizesAssumption DEF PDAs
<1> HIDE DEF bytes
<1>6. Rent(bytes) \in Nat \ {0}
  BY <1>5, SizesAssumption
<1>7. Rent(bytes) \in Nat /\ Rent(bytes) > 0
  BY <1>6
<1>8. /\ \A b \in PDAs : lamports[b] \in Nat /\ lamports'[b] \in Nat /\ lamports'[b] >= lamports[b]
      /\ lamports'[a] = lamports[a] + Rent(bytes)
  BY <1>1, <1>4, <1>7, PayIn
<1>9. \A b \in PDAs : alloc[b] \in Nat
  BY <1>1, ChainTypes
<1>10. alloc'[a] = bytes /\ \A b \in PDAs \ {a} : alloc'[b] = alloc[b]
  BY <1>1, <1>4 DEF IInv, TypeOK
<1>11. \A b \in PDAs : alloc'[b] \in Nat /\ alloc'[b] >= alloc[b]
  BY <1>3, <1>5, <1>9, <1>10
<1>12. DataAccounts \subseteq PDAs
  BY DEF PDAs
<1>13. Grows
  BY <1>3, <1>4, <1>8, <1>9, <1>11, <1>12 DEF Grows
<1>14. lamports'[a] > 0
  BY <1>4, <1>7, <1>8
<1>15. QED BY <1>2, <1>3, <1>8, <1>13, <1>14 DEF ChainInv

LEMMA ResizeGrows ==
    ASSUME ChainInv, NEW a \in DataAccounts, NEW size \in Nat, NEW topup \in Nat,
           Resize(a, size, topup)
    PROVE  ChainInv' /\ Grows /\ alloc'[a] >= size
<1>1. IInv /\ DataAccounts \subseteq PDAs /\ a \in PDAs
  BY DEF ChainInv, PDAs
<1>2. /\ size <= BOOTSTRAP_MAX_SIZE /\ alloc[a] > 0 /\ size > alloc[a]
      /\ lamports[Outside] >= topup /\ lamports[a] + topup >= Rent(size)
      /\ lamports' = Move(lamports, Outside, a, topup)
      /\ alloc' = [alloc EXCEPT ![a] = size]
      /\ UNCHANGED <<registry, nullifiers, signed, melted, cashed, received, credits>>
  BY DEF Resize, history
<1>3. a \in Accounts /\ Outside \in Accounts /\ a # Outside
  BY <1>1, AccountsDistinct
<1>4. /\ lamports' \in [Accounts -> Nat] /\ lamports \in [Accounts -> Nat]
      /\ lamports'[a] = lamports[a] + topup
      /\ \A b \in Accounts \ {a, Outside} : lamports'[b] = lamports[b]
  BY <1>1, <1>2, <1>3, ChainTypes, MoveFacts
<1>5. /\ alloc' \in [PDAs -> 0..BOOTSTRAP_MAX_SIZE] /\ alloc'[a] = size
      /\ \A b \in PDAs \ {a} : alloc'[b] = alloc[b]
      /\ \A b \in PDAs : alloc[b] \in Nat
  BY <1>1, <1>2, SizesAssumption, ChainTypes DEF IInv, TypeOK
<1>6. TypeOK'
  BY <1>1, <1>2, <1>4, <1>5 DEF IInv, TypeOK
<1>7. IsFiniteSet(nullifiers') /\ IdsUnique' /\ OneUse'
  BY <1>1, <1>2 DEF IInv, IdsUnique, OneUse
<1>8. \A b \in PDAs : alloc'[b] \in Nat /\ alloc'[b] >= alloc[b]
  BY <1>2, <1>5
<1>9. \A b \in PDAs \ {a} : lamports'[b] = lamports[b]
  BY <1>4, AccountsDistinct
<1>10. ValueConserved'
  <2>1. \A d \in Denoms : lamports'[Vault(d)] = lamports[Vault(d)]
    BY <1>9, AccountsDistinct
  <2>2. QED BY <1>1, <1>2, <2>1 DEF IInv, ValueConserved
<1>11. StorageSound'
  <2>1. registry # <<>> => RegistryBytes(Len(registry)) <= alloc'[Registry]
    <3>1. RegistryBytes(Len(registry)) \in Nat
      BY <1>1 DEF RegistryBytes, IInv, TypeOK
    <3>2. QED BY <1>1, <1>5, <1>8, <3>1, AccountsDistinct DEF IInv, StorageSound
  <2>2. nullifiers # {} => NullifierBytes(Cardinality(nullifiers)) <= alloc'[NullifierTree]
    <3>1. NullifierBytes(Cardinality(nullifiers)) \in Nat
      BY <1>1, FS_CardinalityType DEF NullifierBytes, IInv
    <3>2. QED BY <1>1, <1>5, <1>8, <3>1, AccountsDistinct DEF IInv, StorageSound
  <2>3. \A b \in DataAccounts : alloc'[b] > 0 => lamports'[b] >= Rent(alloc'[b])
    BY <1>1, <1>2, <1>4, <1>5, <1>9 DEF IInv, StorageSound
  <2>4. \A d \in Denoms : alloc'[Vault(d)] = 0
    <3>1. \A d \in Denoms : Vault(d) \in PDAs \ {a}
      BY AccountsDistinct
    <3>2. QED BY <1>1, <1>5, <3>1 DEF IInv, StorageSound
  <2>5. QED BY <1>2, <2>1, <2>2, <2>3, <2>4 DEF StorageSound
<1>12. \A b \in DataAccounts : lamports[b] \in Nat /\ lamports'[b] \in Nat /\ lamports'[b] >= lamports[b]
  BY <1>1, <1>3, <1>4, <1>9, ChainTypes
<1>13. Grows
  BY <1>1, <1>2, <1>5, <1>8, <1>12 DEF Grows
<1>14. QED BY <1>5, <1>6, <1>7, <1>10, <1>11, <1>13 DEF ChainInv, IInv

-----------------------------------------------------------------------------
(***************************************************************************)
(* What the clients know of it                                             *)
(***************************************************************************)
GrowsTo(w, v) ==
    /\ w.melted \subseteq v.melted /\ w.spent \subseteq v.spent
    /\ \A d \in Denoms : w.cashed[d] \subseteq v.cashed[d]
    /\ \A a \in DataAccounts :
          /\ w.alloc[a] \in Nat /\ v.alloc[a] \in Nat /\ v.alloc[a] >= w.alloc[a]
          /\ w.held[a] \in Nat /\ v.held[a] \in Nat /\ v.held[a] >= w.held[a]
    /\ w.registered \subseteq v.registered

LEMMA WorldFields ==
    /\ World.melted = melted /\ World.cashed = cashed /\ World.spent = nullifiers
    /\ World.alloc = alloc /\ World.held = lamports
    /\ World.registered = {registry[i].joint_pk : i \in DOMAIN registry}
    /\ World.keys = [d \in Denoms |-> KeyForDenom(d)]
BY DEF World

LEMMA WorldFieldsNext ==
    /\ World'.melted = melted' /\ World'.cashed = cashed' /\ World'.spent = nullifiers'
    /\ World'.alloc = alloc' /\ World'.held = lamports'
    /\ World'.registered = {registry'[i].joint_pk : i \in DOMAIN registry'}
    /\ World'.keys = [d \in Denoms |-> KeyForDenom(d)']
BY DEF World

LEMMA KeysKept ==
    ASSUME registry' = registry
    PROVE  World'.keys = World.keys
<1>1. \A d \in Denoms : KeyForDenom(d)' = KeyForDenom(d)
  BY DEF KeyForDenom, FindActiveForDenom, ActiveFor
<1>2. QED BY <1>1, WorldFields, WorldFieldsNext

LEMMA WorldQuiet ==
    ASSUME UNCHANGED <<registry, nullifiers, alloc, lamports, melted, cashed>>
    PROVE  World' = World
<1>1. \A d \in Denoms : KeyForDenom(d)' = KeyForDenom(d)
  BY DEF KeyForDenom, FindActiveForDenom, ActiveFor
<1>2. QED BY <1>1 DEF World

LEMMA WorldGrows ==
    ASSUME Grows
    PROVE  GrowsTo(World, World')
<1>1. World.registered \subseteq World'.registered
  BY WorldFields, WorldFieldsNext DEF Grows
<1>2. QED BY <1>1, WorldFields, WorldFieldsNext DEF Grows, GrowsTo

LEMMA JobFields ==
    ASSUME NEW job \in Job
    PROVE  /\ job.denom \in Denoms /\ job.denom \in Nat
           /\ job.size \in Nat /\ Rent(job.size) \in Nat
           /\ ClientRent(job.size) \in Nat /\ ClientRent(job.size) >= Rent(job.size)
           /\ job.topup \in Nat /\ job.epoch \in Nat
           /\ job.key \in JointKeys \cup {None} /\ job.coin \in Coins \cup {None}
<1>1. /\ job.denom \in Denoms /\ job.size \in Sizes \cup {0}
      /\ job.topup \in Nat /\ job.epoch \in Nat
      /\ job.key \in JointKeys \cup {None} /\ job.coin \in Coins \cup {None}
  BY DEF Job
<1>2. Denoms \subseteq Nat /\ Sizes \subseteq Nat
  BY DenomsAssumption, SizesAssumption
<1>3. /\ Rent(job.size) \in Nat
      /\ ClientRent(job.size) \in Nat /\ ClientRent(job.size) >= Rent(job.size)
  BY <1>1, DevnetAssumption, ClientRentAssumption
<1>4. job.denom \in Nat
  BY <1>1, <1>2
<1>5. job.size \in Nat
  <2>1. \A n \in Sizes \cup {0} : n \in Nat
    BY <1>2
  <2>2. QED BY <1>1, <2>1, Zenon
<1>6. QED BY <1>1, <1>3, <1>4, <1>5

LEMMA DataAccountsTwo == Registry \in DataAccounts /\ NullifierTree \in DataAccounts
BY DEF DataAccounts

LEMMA DoneGrows ==
    ASSUME NEW w, NEW v, GrowsTo(w, v), NEW step, NEW job \in Job, Done(w, step, job)
    PROVE  Done(v, step, job)
<1>1. /\ w.melted \subseteq v.melted /\ w.cashed[job.denom] \subseteq v.cashed[job.denom]
      /\ w.registered \subseteq v.registered
  BY JobFields DEF GrowsTo
<1>2. /\ w.alloc[Registry] \in Nat /\ v.alloc[Registry] \in Nat
      /\ v.alloc[Registry] >= w.alloc[Registry]
      /\ w.alloc[NullifierTree] \in Nat /\ v.alloc[NullifierTree] \in Nat
      /\ v.alloc[NullifierTree] >= w.alloc[NullifierTree]
      /\ w.held[Registry] \in Nat /\ v.held[Registry] \in Nat
      /\ v.held[Registry] >= w.held[Registry]
      /\ w.held[NullifierTree] \in Nat /\ v.held[NullifierTree] \in Nat
      /\ v.held[NullifierTree] >= w.held[NullifierTree]
      /\ job.size \in Nat
  BY DataAccountsTwo, JobFields DEF GrowsTo
<1>3. QED BY <1>1, <1>2 DEF Done

LEMMA PreparedGrows ==
    ASSUME NEW w, NEW v, GrowsTo(w, v), NEW step, NEW job \in Job, Prepared(w, step, job)
    PROVE  Prepared(v, step, job)
<1>1. /\ w.held[Registry] \in Nat /\ v.held[Registry] \in Nat
      /\ v.held[Registry] >= w.held[Registry]
      /\ w.held[NullifierTree] \in Nat /\ v.held[NullifierTree] \in Nat
      /\ v.held[NullifierTree] >= w.held[NullifierTree]
  BY DataAccountsTwo DEF GrowsTo
<1>2. job.topup \in Nat /\ Rent(job.size) \in Nat
  BY JobFields
<1>3. QED BY <1>1, <1>2 DEF Prepared

LEMMA ReportGrows ==
    ASSUME NEW w, NEW v, GrowsTo(w, v), NEW r \in ReportType, ReportTrue(w, r)
    PROVE  ReportTrue(v, r)
<1>1. r.job \in Job
  BY DEF ReportType
<1>2. /\ w.melted \subseteq v.melted /\ w.cashed[r.job.denom] \subseteq v.cashed[r.job.denom]
      /\ w.registered \subseteq v.registered /\ w.spent \subseteq v.spent
  BY <1>1, JobFields DEF GrowsTo
<1>3. /\ w.alloc[Registry] \in Nat /\ v.alloc[Registry] \in Nat
      /\ v.alloc[Registry] >= w.alloc[Registry]
      /\ w.alloc[NullifierTree] \in Nat /\ v.alloc[NullifierTree] \in Nat
      /\ v.alloc[NullifierTree] >= w.alloc[NullifierTree]
      /\ w.held[Registry] \in Nat /\ v.held[Registry] \in Nat
      /\ v.held[Registry] >= w.held[Registry]
      /\ w.held[NullifierTree] \in Nat /\ v.held[NullifierTree] \in Nat
      /\ v.held[NullifierTree] >= w.held[NullifierTree]
      /\ r.job.size \in Nat
  BY <1>1, DataAccountsTwo, JobFields DEF GrowsTo
<1>4. QED BY <1>2, <1>3 DEF ReportTrue

\* The demo's vault, created late, takes away nothing of what was read.
KnownKept(w, v) ==
    /\ v.keys = w.keys /\ v.spent = w.spent
    /\ \A d \in Denoms : /\ w.held[Vault(d)] \in Nat /\ v.held[Vault(d)] \in Nat
                         /\ v.held[Vault(d)] >= w.held[Vault(d)]

LEMMA KnownStays ==
    ASSUME NEW w, NEW v, KnownKept(w, v), NEW step, NEW job \in Job, Known(w, step, job)
    PROVE  Known(v, step, job)
<1>1. /\ job.denom \in Nat /\ w.held[Vault(job.denom)] \in Nat /\ v.held[Vault(job.denom)] \in Nat
      /\ v.held[Vault(job.denom)] >= w.held[Vault(job.denom)]
  BY JobFields DEF KnownKept
<1>2. v.keys = w.keys /\ v.spent = w.spent
  BY DEF KnownKept
<1>3. QED BY <1>1, <1>2 DEF Known

\* A transaction that lands does what its step is for, and the program's
\* invariant is kept.
LEMMA Executed ==
    ASSUME ChainInv, NEW step, NEW job \in Job,
           step = "register" => job.key \in JointKeys,
           ExecuteOnChain(step, job)
    PROVE  /\ ChainInv' /\ Grows /\ Done(World', step, job)
           /\ step = "tryVault" => KnownKept(World, World')
           /\ step \in {"refresh", "withdraw"} => Nullifier[job.coin] \notin nullifiers
<1>0. /\ job.denom \in Denoms /\ job.denom \in Nat /\ job.size \in Nat
      /\ job.topup \in Nat /\ job.epoch \in Nat
  BY JobFields
<1> DEFINE P == /\ ChainInv' /\ Grows /\ Done(World', step, job)
                /\ step = "tryVault" => KnownKept(World, World')
                /\ step \in {"refresh", "withdraw"} => Nullifier[job.coin] \notin nullifiers
<1>1. ASSUME step \in DOMAIN BootSteps,
             Bootstrap(BootSteps[step],
                       IF step = "bootRegistry" THEN RegistrySize ELSE NullifierSize)
      PROVE  P
  <2>1. step \in {"bootRegistry", "bootNullifiers"}
    BY <1>1 DEF BootSteps
  <2>2. /\ step = "bootRegistry" => BootSteps[step] = Registry
        /\ step = "bootNullifiers" => BootSteps[step] = NullifierTree
    BY DEF BootSteps
  <2>3. BootSteps[step] \in PDAs /\ BootSteps[step] \in DataAccounts
    BY <2>1, <2>2, AccountsDistinct, DataAccountsTwo
  <2>4. RegistrySize \in Nat /\ NullifierSize \in Nat
    BY DevnetAssumption, SizesAssumption DEF RegistryBytes
  <2>5. ChainInv' /\ Grows /\ lamports'[BootSteps[step]] > 0
    BY <1>1, <2>3, <2>4, BootstrapGrows
  <2>6. Done(World', step, job)
    BY <2>1, <2>2, <2>5, WorldFieldsNext DEF Done
  <2>7. QED BY <2>1, <2>5, <2>6
<1>2. ASSUME step \in {"bootVault", "tryVault"}, Bootstrap(Vault(job.denom), 0)
      PROVE  P
  <2>1. Vault(job.denom) \in PDAs
    BY <1>0, AccountsDistinct
  <2>2. /\ ChainInv' /\ Grows /\ registry' = registry /\ nullifiers' = nullifiers
        /\ \A b \in PDAs : lamports'[b] \in Nat /\ lamports'[b] >= lamports[b]
    BY <1>2, <2>1, BootstrapGrows
  <2>3. \A b \in PDAs : lamports[b] \in Nat
    BY ChainTypes DEF ChainInv
  <2>4. KnownKept(World, World')
    BY <2>2, <2>3, KeysKept, WorldFields, WorldFieldsNext, AccountsDistinct DEF KnownKept
  <2>5. Done(World', step, job)
    BY <1>2 DEF Done
  <2>6. QED BY <1>2, <2>2, <2>4, <2>5
<1>3. ASSUME step \in DOMAIN ResizeSteps, Resize(ResizeSteps[step], job.size, job.topup)
      PROVE  P
  <2>1. step \in {"resizeRegistry", "resizeNullifiers"}
    BY <1>3 DEF ResizeSteps
  <2>2. /\ step = "resizeRegistry" => ResizeSteps[step] = Registry
        /\ step = "resizeNullifiers" => ResizeSteps[step] = NullifierTree
    BY DEF ResizeSteps
  <2>3. ResizeSteps[step] \in DataAccounts
    BY <2>1, <2>2, DataAccountsTwo
  <2>4. ChainInv' /\ Grows /\ alloc'[ResizeSteps[step]] >= job.size
    BY <1>0, <1>3, <2>3, ResizeGrows
  <2>5. Done(World', step, job)
    BY <2>1, <2>2, <2>4, WorldFieldsNext DEF Done
  <2>6. QED BY <2>1, <2>4, <2>5
<1>4. ASSUME step = "register",
             RegisterKeyset([keyset_id |-> KeysetId(job.key), denom |-> job.denom,
                             joint_pk |-> job.key, epoch |-> job.epoch])
      PROVE  P
  <2> DEFINE o == [keyset_id |-> KeysetId(job.key), denom |-> job.denom,
                   joint_pk |-> job.key, epoch |-> job.epoch]
  <2>1. /\ o.keyset_id \in KeysetIds /\ o.denom \in Denoms /\ o.joint_pk \in JointKeys
        /\ o.epoch \in Nat /\ o.joint_pk = job.key
    BY <1>0, <1>4, DevnetAssumption
  <2>2. RegisterKeyset(o)
    BY <1>4
  <2> HIDE DEF o
  <2>3. ChainInv' /\ Grows /\ \E i \in DOMAIN registry' : registry'[i].joint_pk = o.joint_pk
    BY <2>1, <2>2, RegisterKeysetGrows
  <2>4. job.key \in World'.registered
    BY <2>1, <2>3, WorldFieldsNext
  <2>5. QED BY <1>4, <2>3, <2>4 DEF Done
<1>5. ASSUME step = "fundVault", Transfer(Vault(job.denom), job.denom)
      PROVE  P
  <2>1. ChainInv' /\ Grows
    BY <1>0, <1>5, AccountsDistinct, TransferGrows
  <2>2. QED BY <1>5, <2>1 DEF Done
<1>6. ASSUME step = "refresh", <<job.coin, job.key>> \in signed,
             Refresh(job.coin, job.denom, <<job.coin, job.key>>)
      PROVE  P
  <2>1. ChainInv' /\ Grows /\ Nullifier[job.coin] \in melted'
    BY <1>0, <1>6, RefreshGrows
  <2>2. Nullifier[job.coin] \notin nullifiers
    BY <1>6 DEF Refresh
  <2>3. QED BY <1>6, <2>1, <2>2, WorldFieldsNext DEF Done
<1>7. ASSUME step = "withdraw", <<job.coin, job.key>> \in signed,
             Withdraw(job.coin, job.denom, Outside, <<job.coin, job.key>>)
      PROVE  P
  <2>1. ChainInv' /\ Grows /\ Nullifier[job.coin] \in cashed'[job.denom]
    BY <1>0, <1>7, WithdrawGrows
  <2>2. Nullifier[job.coin] \notin nullifiers
    BY <1>7 DEF Withdraw
  <2>3. QED BY <1>7, <2>1, <2>2, WorldFieldsNext DEF Done
<1>8. QED BY <1>1, <1>2, <1>3, <1>4, <1>5, <1>6, <1>7 DEF ExecuteOnChain

-----------------------------------------------------------------------------
(***************************************************************************)
(* Steps of one client                                                     *)
(***************************************************************************)
LEMMA AboveOne == \A n \in Nat : n > 0 /\ n # 1 => n > 1
OBVIOUS

LEMMA ProgramTail ==
    ASSUME NEW cmd, NEW todo, Program(todo, cmd), Len(todo) # 1
    PROVE  /\ Program(Tail(todo), cmd)
           /\ Follows(Head(todo), Head(Tail(todo)))
<1>1. todo \in Seq(StepNames) /\ Len(todo) > 0 /\ Goal(cmd, todo[Len(todo)]) /\ Linked(todo)
  BY DEF Program
<1>2. Len(todo) \in Nat /\ Len(todo) > 1
  <2>1. Len(todo) \in Nat
    BY <1>1
  <2>2. QED BY <1>1, <2>1, AboveOne, Zenon
<1>3. /\ Tail(todo) \in Seq(StepNames) /\ Len(Tail(todo)) = Len(todo) - 1
      /\ \A i \in 1..(Len(todo) - 1) : Tail(todo)[i] = todo[i + 1]
      /\ Head(todo) = todo[1] /\ Head(Tail(todo)) = todo[2]
  BY <1>1, <1>2
<1>4. Tail(todo)[Len(Tail(todo))] = todo[Len(todo)]
  BY <1>2, <1>3
<1>5. Linked(Tail(todo))
  <2> SUFFICES ASSUME NEW i \in 1..(Len(Tail(todo)) - 1)
               PROVE  Follows(Tail(todo)[i], Tail(todo)[i + 1])
    BY DEF Linked
  <2>1. i \in 1..(Len(todo) - 1) /\ i + 1 \in 1..(Len(todo) - 1)
    BY <1>2, <1>3
  <2>2. Tail(todo)[i] = todo[i + 1] /\ Tail(todo)[i + 1] = todo[(i + 1) + 1]
    BY <1>3, <2>1
  <2>3. Follows(todo[i + 1], todo[(i + 1) + 1])
    BY <1>1, <2>1 DEF Linked
  <2>4. QED BY <2>2, <2>3
<1>6. Follows(todo[1], todo[2])
  BY <1>1, <1>2 DEF Linked
<1>7. QED BY <1>1, <1>2, <1>3, <1>4, <1>5, <1>6 DEF Program

LEMMA ProgramOne ==
    ASSUME NEW cmd, NEW todo, Program(todo, cmd), Len(todo) = 1
    PROVE  Goal(cmd, Head(todo))
<1>1. Head(todo) = todo[1]
  BY DEF Program
<1>2. QED BY <1>1 DEF Program

LEMMA NoJobTyped == NoJob \in Job /\ NoJob.denom \in Denoms
<1> DEFINE d0 == CHOOSE d \in Denoms : TRUE
<1>1. d0 \in Denoms
  BY DevnetAssumption
<1>2. NoJob = [cmd |-> "none", coin |-> None, denom |-> d0,
               key |-> None, size |-> 0, topup |-> 0, epoch |-> 0]
  BY DEF NoJob
<1> HIDE DEF d0
<1>3. None \in Coins \cup {None} /\ None \in JointKeys \cup {None} /\ 0 \in Sizes \cup {0}
  BY Zenon
<1>4. "none" \in CommandNames /\ 0 \in Nat
  BY DEF CommandNames
<1>5. NoJob.denom = d0
  BY <1>2
<1>6. QED BY <1>1, <1>2, <1>3, <1>4, <1>5, Zenon DEF Job

LEMMA IdleShape ==
    /\ Idle \in ClientType /\ Shape(Idle) /\ Idle.run = 0
    /\ \A w : Facts(w, Idle)
    /\ ~Claims(Idle)
<1>1. /\ Idle.run = 0 /\ Idle.todo = <<>> /\ Idle.sent = "no" /\ Idle.stale = FALSE
      /\ Idle.job = NoJob
  BY DEF Idle
<1>2. Idle \in ClientType
  BY NoJobTyped DEF Idle, ClientType
<1>3. QED BY <1>1, <1>2 DEF Shape, Facts, Claims

\* The step a client is at when it has nothing more to do says what it has done.
LEMMA FinishTrue ==
    ASSUME NEW w, NEW todo, NEW job \in Job, NEW run, Program(todo, job.cmd), Len(todo) = 1,
           Done(w, Head(todo), job), Prepared(w, Head(todo), job),
           NEW r, r = [run |-> run, job |-> job, result |-> "ok"]
    PROVE  /\ ReportTrue(w, r)
           /\ IsSpend(r) => Head(todo) \in {"refresh", "withdraw"}
<1>1. Goal(job.cmd, Head(todo))
  BY ProgramOne
<1>2. r.job = job /\ r.result = "ok"
  OBVIOUS
<1>3. ReportTrue(w, r)
  BY <1>1, <1>2 DEF ReportTrue, Goal, Done, Prepared
<1>4. QED BY <1>1, <1>2, <1>3 DEF IsSpend, Goal

\* Client k ends with a report that is true, and if it is about a spend, of a
\* coin the client has a claim on.
LEMMA EndInv ==
    ASSUME DInv, ChainInv', World' = World,
           NEW k \in Clients, client[k].run # 0, NEW job \in Job, NEW result \in Results,
           NEW rep, rep = [run |-> client[k].run, job |-> job, result |-> result],
           client' = [client EXCEPT ![k] = Idle],
           reports' = reports \cup {rep},
           ReportTrue(World, rep),
           IsSpend(rep) => Claims(client[k]) /\ job.coin = client[k].job.coin,
           network' \subseteq network, runs' = runs, others' = others, pool' \in Nat
    PROVE  DInv'
<1>0. ClientInv /\ NetworkInv /\ RunsInv /\ ReportInv /\ ClaimInv /\ CountInv
  BY DEF DInv
<1>1. /\ client \in [Clients -> ClientType] /\ client' \in [Clients -> ClientType]
      /\ client'[k] = Idle
      /\ \A j \in Clients \ {k} : client'[j] = client[j]
  BY <1>0, IdleShape DEF ClientInv
<1>2. /\ client[k].run \in Nat \ {0} /\ client[k].run <= runs
      /\ rep.run = client[k].run /\ rep.job = job /\ rep.result = result
      /\ rep \in ReportType
  BY <1>0, <1>1 DEF RunsInv, ReportType, ClientType
<1>3. ClientInv'
  <2>1. ASSUME NEW j \in Clients PROVE Shape(client'[j]) /\ Facts(World', client'[j])
    BY <1>0, <1>1, IdleShape DEF ClientInv
  <2>2. QED BY <1>1, <2>1 DEF ClientInv
<1>4. NetworkInv'
  <2>1. ASSUME NEW tx \in network, NEW j \in Clients PROVE Awaited(tx, client'[j])
    <3>1. tx.run # 0 /\ Awaited(tx, client[j])
      BY <1>0 DEF NetworkInv, TxType
    <3>2. QED BY <1>1, <3>1, IdleShape DEF Awaited
  <2>2. QED BY <1>0, <2>1 DEF NetworkInv
<1>5. RunsInv'
  <2>1. \A j \in Clients : client'[j].run <= runs
    BY <1>0, <1>1, <1>2, IdleShape DEF RunsInv, CountInv
  <2>2. \A r \in reports' : r.run <= runs
    BY <1>0, <1>2 DEF RunsInv
  <2>3. \A i, j \in Clients : client'[i].run = client'[j].run /\ client'[i].run # 0 => i = j
    BY <1>0, <1>1, IdleShape DEF RunsInv
  <2>4. ASSUME NEW r \in reports', NEW j \in Clients PROVE r.run # client'[j].run
    <3>1. r.run # 0
      BY <1>0, <1>2 DEF ReportInv, ReportType
    <3>2. QED BY <1>0, <1>1, <1>2, <3>1, IdleShape DEF RunsInv
  <2>5. \A r, s \in reports' : r.run = s.run => r = s
    BY <1>0, <1>2 DEF RunsInv
  <2>6. QED BY <2>1, <2>2, <2>3, <2>4, <2>5 DEF RunsInv
<1>6. ReportInv'
  BY <1>0, <1>2 DEF ReportInv
<1>7. ClaimInv'
  <2>1. ASSUME NEW r \in reports, IsSpend(r), IsSpend(rep) PROVE r.job.coin # rep.job.coin
    BY <1>0, <1>2, <2>1 DEF ClaimInv
  <2>2. \A r, s \in reports' : IsSpend(r) /\ IsSpend(s) /\ r.job.coin = s.job.coin => r = s
    BY <1>0, <2>1 DEF ClaimInv
  <2>3. \A j \in Clients : Claims(client'[j]) => j # k /\ Claims(client[j]) /\ client'[j] = client[j]
    BY <1>1, IdleShape
  <2>4. ASSUME NEW r \in reports', NEW j \in Clients, IsSpend(r), Claims(client'[j])
        PROVE  r.job.coin # client'[j].job.coin
    <3>1. CASE r \in reports
      BY <1>0, <2>3, <2>4, <3>1 DEF ClaimInv
    <3>2. CASE r = rep
      <4>1. Claims(client[k]) /\ rep.job.coin = client[k].job.coin
        BY <1>2, <2>4, <3>2
      <4>2. QED BY <1>0, <2>3, <2>4, <3>2, <4>1 DEF ClaimInv
    <3>3. QED BY <3>1, <3>2
  <2>5. \A i, j \in Clients :
            Claims(client'[i]) /\ Claims(client'[j]) /\ client'[i].job.coin = client'[j].job.coin
                => i = j
    BY <1>0, <2>3 DEF ClaimInv
  <2>6. QED BY <2>2, <2>4, <2>5 DEF ClaimInv
<1>8. CountInv'
  BY <1>0 DEF CountInv
<1>9. QED BY <1>3, <1>4, <1>5, <1>6, <1>7, <1>8 DEF DInv

\* Client k goes on with its run and makes no claim; the transactions on their
\* way are those of before, and perhaps one of its own that it waits for.
LEMMA MoveInv ==
    ASSUME DInv, ChainInv', World' = World,
           NEW k \in Clients, client[k].run # 0,
           NEW c, Shape(c), c.run = client[k].run, Facts(World, c), ~Claims(c),
           client' = [client EXCEPT ![k] = c], reports' = reports,
           \A tx \in network' :
              /\ Awaited(tx, c)
              /\ \/ tx \in network
                 \/ /\ tx \in TxType /\ tx.run = client[k].run
                    /\ tx.step = "register" => tx.job.key \in JointKeys,
           runs' = runs, others' = others, pool' \in Nat
    PROVE  DInv'
<1>0. ClientInv /\ NetworkInv /\ RunsInv /\ ReportInv /\ ClaimInv /\ CountInv
  BY DEF DInv
<1>1. /\ client \in [Clients -> ClientType] /\ client' \in [Clients -> ClientType]
      /\ client'[k] = c
      /\ \A j \in Clients \ {k} : client'[j] = client[j]
  BY <1>0 DEF ClientInv, Shape
<1>2. \A j \in Clients : client'[j].run = client[j].run
  BY <1>1
<1>3. ClientInv'
  <2>1. ASSUME NEW j \in Clients PROVE Shape(client'[j]) /\ Facts(World', client'[j])
    BY <1>0, <1>1 DEF ClientInv
  <2>2. QED BY <1>1, <2>1 DEF ClientInv
<1>4. NetworkInv'
  <2>1. network' \subseteq TxType
    BY <1>0 DEF NetworkInv
  <2>2. ASSUME NEW tx \in network'
        PROVE  tx.run <= runs /\ (tx.step = "register" => tx.job.key \in JointKeys)
    BY <1>0 DEF NetworkInv, RunsInv
  <2>3. ASSUME NEW tx \in network', NEW j \in Clients PROVE Awaited(tx, client'[j])
    <3>1. CASE j = k
      BY <1>1, <3>1
    <3>2. CASE j # k /\ tx \in network
      BY <1>0, <1>1, <3>2 DEF NetworkInv
    <3>3. CASE j # k /\ tx \notin network
      <4>1. tx.run # client[j].run
        BY <1>0, <3>3 DEF RunsInv
      <4>2. QED BY <1>1, <3>3, <4>1 DEF Awaited
    <3>4. QED BY <3>1, <3>2, <3>3
  <2>4. QED BY <2>1, <2>2, <2>3 DEF NetworkInv
<1>5. RunsInv'
  BY <1>0, <1>2 DEF RunsInv
<1>6. ReportInv'
  BY <1>0 DEF ReportInv
<1>7. ClaimInv'
  <2>1. \A j \in Clients : Claims(client'[j]) => Claims(client[j]) /\ client'[j] = client[j]
    BY <1>1
  <2>2. QED BY <1>0, <2>1 DEF ClaimInv
<1>8. CountInv'
  BY <1>0 DEF CountInv
<1>9. QED BY <1>3, <1>4, <1>5, <1>6, <1>7, <1>8 DEF DInv

LEMMA Quiet ==
    ASSUME ChainInv, UNCHANGED vars
    PROVE  ChainInv' /\ World' = World
<1>1. UNCHANGED <<registry, nullifiers, alloc, lamports, melted, cashed>>
  BY DEF vars, chain, history
<1>2. IInv'
  BY StutterIInv DEF ChainInv
<1>3. World' = World
  BY <1>1, WorldQuiet
<1>4. QED BY <1>2, <1>3 DEF ChainInv

LEMMA Running ==
    ASSUME DInv, NEW k \in Clients, client[k].todo # <<>>
    PROVE  /\ client[k].run # 0 /\ client[k] \in ClientType
           /\ client[k].job \in Job
           /\ Program(client[k].todo, client[k].job.cmd)
           /\ client[k].sent # "no" => Head(client[k].todo) \in TxSteps
           /\ Prepared(World, Head(client[k].todo), client[k].job)
           /\ client[k].sent = "landed" => Done(World, Head(client[k].todo), client[k].job)
           /\ client[k].sent # "landed" /\ ~client[k].stale
                 => Known(World, Head(client[k].todo), client[k].job)
           /\ client[k].sent # "sent" =>
                 \A tx \in network : tx.run = client[k].run => tx.step = "tryVault"
<1>1. Shape(client[k]) /\ Facts(World, client[k])
  BY DEF DInv, ClientInv
<1>2. client[k].run # 0 /\ client[k] \in ClientType
  BY <1>1 DEF Shape
<1>3. client[k].job \in Job
  BY <1>2 DEF ClientType
<1>4. \A tx \in network : Awaited(tx, client[k])
  BY DEF DInv, NetworkInv
<1>5. QED BY <1>1, <1>2, <1>3, <1>4 DEF Shape, Facts, Awaited

LEMMA ProceedInv ==
    ASSUME DInv, ChainInv', World' = World, NEW k \in Clients, client[k].todo # <<>>,
           NEW job \in Job, job.cmd = client[k].job.cmd, Proceed(k, job),
           Done(World, Head(client[k].todo), job),
           Prepared(World, Head(client[k].todo), job),
           Head(client[k].todo) \in {"refresh", "withdraw"} =>
               client[k].sent = "landed" /\ job.coin = client[k].job.coin,
           \A t : Follows(Head(client[k].todo), t) =>
                     Prepared(World, t, job) /\ (~client[k].stale => Known(World, t, job)),
           network' \subseteq network,
           \A tx \in network' : tx.run = client[k].run => tx.step = "tryVault",
           runs' = runs, others' = others, pool' \in Nat
    PROVE  DInv'
<1>1. /\ client[k].run # 0 /\ client[k] \in ClientType
      /\ Program(client[k].todo, client[k].job.cmd)
  BY Running
<1>2. CASE Len(client[k].todo) = 1
  <2> DEFINE rep == [run |-> client[k].run, job |-> job, result |-> "ok"]
  <2>1. client' = [client EXCEPT ![k] = Idle] /\ reports' = reports \cup {rep}
    BY <1>2 DEF Proceed
  <2>2. Program(client[k].todo, job.cmd)
    BY <1>1
  <2>3. ReportTrue(World, rep) /\ (IsSpend(rep) => Head(client[k].todo) \in {"refresh", "withdraw"})
    BY <1>2, <2>2, FinishTrue
  <2>4. IsSpend(rep) => Claims(client[k]) /\ job.coin = client[k].job.coin
    BY <1>1, <2>3 DEF Claims
  <2>5. "ok" \in Results
    BY DEF Results
  <2>6. QED BY <1>1, <2>1, <2>3, <2>4, <2>5, EndInv
<1>3. CASE Len(client[k].todo) # 1
  <2> DEFINE c == [client[k] EXCEPT !.todo = Tail(client[k].todo), !.job = job, !.sent = "no"]
  <2>1. client \in [Clients -> ClientType]
    BY DEF DInv, ClientInv
  <2>2. client' = [client EXCEPT ![k] = c] /\ reports' = reports
    BY <1>1, <1>3, <2>1 DEF Proceed, ClientType
  <2>3. /\ Program(Tail(client[k].todo), client[k].job.cmd)
        /\ Follows(Head(client[k].todo), Head(Tail(client[k].todo)))
    BY <1>1, <1>3, ProgramTail
  <2>4. /\ c.run = client[k].run /\ c.todo = Tail(client[k].todo) /\ c.job = job
        /\ c.sent = "no" /\ c.stale = client[k].stale
    BY <1>1 DEF ClientType
  <2>5. c \in ClientType
    BY <1>1, <2>3 DEF ClientType, Program
  <2> HIDE DEF c
  <2>6. Shape(c)
    BY <1>1, <2>3, <2>4, <2>5 DEF Shape
  <2>7. Facts(World, c)
    BY <2>3, <2>4 DEF Facts
  <2>8. ~Claims(c)
    BY <2>4 DEF Claims
  <2>9. \A tx \in network' : Awaited(tx, c) /\ tx \in network
    BY <2>4 DEF Awaited
  <2>10. QED BY <1>1, <2>2, <2>4, <2>6, <2>7, <2>8, <2>9, MoveInv
<1>4. QED BY <1>2, <1>3

LEMMA ReportInvStep ==
    ASSUME DInv, UNCHANGED vars, NEW k \in Clients, client[k].todo # <<>>,
           NEW result \in Results \ {"ok"}, Report(k, result),
           result \in {"double-spend", "spent"} => Nullifier[client[k].job.coin] \in nullifiers,
           network' = network, runs' = runs, others' = others, pool' = pool
    PROVE  DInv'
<1>1. client[k].run # 0 /\ client[k].job \in Job
  BY Running
<1>2. ChainInv' /\ World' = World
  BY Quiet DEF DInv
<1> DEFINE rep == [run |-> client[k].run, job |-> client[k].job, result |-> result]
<1>3. client' = [client EXCEPT ![k] = Idle] /\ reports' = reports \cup {rep}
  BY DEF Report
<1>4. ReportTrue(World, rep)
  BY WorldFields DEF ReportTrue
<1>5. ~IsSpend(rep)
  BY DEF IsSpend
<1>6. pool' \in Nat
  BY DEF DInv, CountInv
<1>7. QED BY <1>1, <1>2, <1>3, <1>4, <1>5, <1>6, EndInv

\* A step that reads, or is confirmed, and changes nothing but the client.
LEMMA OfflineProceed ==
    ASSUME DInv, Offline, NEW k \in Clients, client[k].todo # <<>>,
           client[k].sent # "sent" \/ Head(client[k].todo) = "tryVault",
           NEW job \in Job, job.cmd = client[k].job.cmd, Proceed(k, job),
           Done(World, Head(client[k].todo), job),
           Prepared(World, Head(client[k].todo), job),
           Head(client[k].todo) \in {"refresh", "withdraw"} =>
               client[k].sent = "landed" /\ job.coin = client[k].job.coin,
           \A t : Follows(Head(client[k].todo), t) =>
                     Prepared(World, t, job) /\ (~client[k].stale => Known(World, t, job))
    PROVE  DInv'
<1>1. /\ UNCHANGED vars /\ network' = network /\ runs' = runs /\ others' = others /\ pool' = pool
  BY DEF Offline
<1>2. ChainInv' /\ World' = World
  BY <1>1, Quiet DEF DInv
<1>3. pool' \in Nat
  BY <1>1 DEF DInv, CountInv
<1>4. \A tx \in network' : tx.run = client[k].run => tx.step = "tryVault"
  <2>1. \A tx \in network : Awaited(tx, client[k])
    BY DEF DInv, NetworkInv
  <2>2. QED BY <1>1, <2>1 DEF Awaited
<1>5. QED BY <1>1, <1>2, <1>3, <1>4, ProceedInv

LEMMA ReadRegistryInv ==
    ASSUME DInv, NEW k \in Clients, ReadRegistry(k)
    PROVE  DInv'
<1>1. /\ client[k].todo # <<>> /\ Head(client[k].todo) = "registry" /\ client[k].sent = "no"
  BY DEF ReadRegistry, At
<1>2. /\ client[k].run # 0 /\ client[k] \in ClientType /\ client[k].job \in Job
      /\ Program(client[k].todo, client[k].job.cmd)
      /\ \A tx \in network : tx.run = client[k].run => tx.step = "tryVault"
  BY <1>1, Running
<1>3. PICK key \in KeyForDenom(client[k].job.denom) :
          client' = [client EXCEPT ![k].todo = Tail(@), ![k].job.key = key, ![k].stale = FALSE]
  BY DEF ReadRegistry
<1>4. /\ UNCHANGED vars /\ network' = network /\ runs' = runs /\ others' = others
      /\ pool' = pool /\ reports' = reports
  BY DEF ReadRegistry, Offline
<1>5. ChainInv' /\ World' = World
  BY <1>4, Quiet DEF DInv
<1>6. key \in JointKeys /\ key \in World.keys[client[k].job.denom]
  <2>1. registry \in Seq(KeysetEntry)
    BY DEF DInv, ChainInv, IInv, TypeOK
  <2>2. ASSUME NEW i \in DOMAIN registry PROVE registry[i].joint_pk \in JointKeys
    <3>1. registry[i] \in KeysetEntry
      BY <2>1, EntryType
    <3>2. QED BY <3>1 DEF KeysetEntry
  <2>3. key \in JointKeys
    BY <1>3, <2>2 DEF KeyForDenom, FindActiveForDenom, ActiveFor
  <2>4. QED BY <1>2, <1>3, <2>3, WorldFields, JobFields
<1>7. Len(client[k].todo) # 1
  <2>1. ~Goal(client[k].job.cmd, "registry")
    BY DEF Goal
  <2>2. QED BY <1>1, <1>2, <2>1, ProgramOne
<1> DEFINE job == [client[k].job EXCEPT !.key = key]
           c == [client[k] EXCEPT !.todo = Tail(client[k].todo), !.job = job, !.stale = FALSE]
<1>8. job \in Job /\ job.cmd = client[k].job.cmd /\ job.key = key /\ job.denom = client[k].job.denom
  BY <1>2, <1>6 DEF Job
<1>9. client \in [Clients -> ClientType]
  BY DEF DInv, ClientInv
<1>10. client' = [client EXCEPT ![k] = c]
  BY <1>2, <1>3, <1>9 DEF ClientType
<1>11. /\ Program(Tail(client[k].todo), client[k].job.cmd)
       /\ Follows("registry", Head(Tail(client[k].todo)))
  BY <1>1, <1>2, <1>7, ProgramTail
<1> HIDE DEF job
<1>12. /\ c.run = client[k].run /\ c.todo = Tail(client[k].todo) /\ c.job = job
       /\ c.sent = "no" /\ c.stale = FALSE
  BY <1>1, <1>2 DEF ClientType
<1>13. c \in ClientType
  BY <1>2, <1>8, <1>11 DEF ClientType, Program
<1> HIDE DEF c
<1>14. Shape(c)
  BY <1>2, <1>8, <1>11, <1>12, <1>13 DEF Shape
<1>15. Facts(World, c)
  <2>1. Prepared(World, Head(c.todo), c.job)
    BY <1>11, <1>12 DEF Prepared, Follows, Keyed
  <2>2. Known(World, Head(c.todo), c.job)
    BY <1>6, <1>8, <1>11, <1>12 DEF Known, Follows
  <2>3. QED BY <1>12, <2>1, <2>2 DEF Facts
<1>16. ~Claims(c)
  BY <1>12 DEF Claims
<1>17. \A tx \in network' : Awaited(tx, c) /\ tx \in network
  BY <1>2, <1>4, <1>12 DEF Awaited
<1>18. pool' \in Nat
  BY <1>4 DEF DInv, CountInv
<1>19. QED BY <1>2, <1>4, <1>5, <1>10, <1>12, <1>14, <1>15, <1>16, <1>17, <1>18, MoveInv

LEMMA ReadNullifiersInv ==
    ASSUME DInv, NEW k \in Clients, ReadNullifiers(k)
    PROVE  DInv'
<1>1. /\ client[k].todo # <<>> /\ Head(client[k].todo) = "nullifiers" /\ client[k].sent = "no"
      /\ Offline
  BY DEF ReadNullifiers, At
<1>2. CASE SpentOnChain(client[k].job.coin)
  <2>1. Report(k, "double-spend") /\ Nullifier[client[k].job.coin] \in nullifiers
    BY <1>2 DEF ReadNullifiers, SpentOnChain
  <2>2. "double-spend" \in Results \ {"ok"}
    BY DEF Results
  <2>3. QED BY <1>1, <2>1, <2>2, ReportInvStep DEF Offline
<1>3. CASE ~SpentOnChain(client[k].job.coin)
  <2>1. Proceed(k, client[k].job) /\ Nullifier[client[k].job.coin] \notin World.spent
    BY <1>3, WorldFields DEF ReadNullifiers, SpentOnChain
  <2>2. /\ client[k].job \in Job
        /\ ~client[k].stale => Known(World, "nullifiers", client[k].job)
    BY <1>1, Running
  <2>3. /\ Done(World, Head(client[k].todo), client[k].job)
        /\ Prepared(World, Head(client[k].todo), client[k].job)
    BY <1>1 DEF Done, Prepared, Keyed
  <2>4. ASSUME NEW t, Follows(Head(client[k].todo), t)
        PROVE  /\ Prepared(World, t, client[k].job)
               /\ ~client[k].stale => Known(World, t, client[k].job)
    <3>1. Prepared(World, t, client[k].job)
      BY <1>1, <2>4 DEF Follows, Prepared, Keyed
    <3>2. ASSUME ~client[k].stale PROVE Known(World, t, client[k].job)
      BY <1>1, <2>1, <2>2, <2>4, <3>2 DEF Follows, Known
    <3>3. QED BY <3>1, <3>2
  <2>5. QED BY <1>1, <2>1, <2>2, <2>3, <2>4, OfflineProceed
<1>4. QED BY <1>2, <1>3

LEMMA ReadVaultInv ==
    ASSUME DInv, NEW k \in Clients, ReadVault(k)
    PROVE  DInv'
<1>1. /\ client[k].todo # <<>> /\ Head(client[k].todo) = "vault" /\ client[k].sent = "no"
      /\ Offline /\ Proceed(k, client[k].job)
      /\ World.held[Vault(client[k].job.denom)] >= client[k].job.denom
  BY WorldFields DEF ReadVault, At
<1>2. /\ client[k].job \in Job
      /\ ~client[k].stale => Known(World, "vault", client[k].job)
  BY <1>1, Running
<1>3. /\ Done(World, Head(client[k].todo), client[k].job)
      /\ Prepared(World, Head(client[k].todo), client[k].job)
  BY <1>1 DEF Done, Prepared, Keyed
<1>4. ASSUME NEW t, Follows(Head(client[k].todo), t)
      PROVE  /\ Prepared(World, t, client[k].job)
             /\ ~client[k].stale => Known(World, t, client[k].job)
  <2>1. Prepared(World, t, client[k].job)
    BY <1>1, <1>4 DEF Follows, Prepared, Keyed
  <2>2. ASSUME ~client[k].stale PROVE Known(World, t, client[k].job)
    BY <1>1, <1>2, <1>4, <2>2 DEF Follows, Known
  <2>3. QED BY <2>1, <2>2
<1>5. QED BY <1>1, <1>2, <1>3, <1>4, OfflineProceed

LEMMA QueryInv ==
    ASSUME DInv, NEW k \in Clients, Query(k)
    PROVE  DInv'
<1>1. /\ client[k].todo # <<>> /\ Offline
  BY DEF Query, At
<1>2. CASE SpentOnChain(client[k].job.coin)
  <2>1. Report(k, "spent") /\ Nullifier[client[k].job.coin] \in nullifiers
    BY <1>2 DEF Query, SpentOnChain
  <2>2. "spent" \in Results \ {"ok"}
    BY DEF Results
  <2>3. QED BY <1>1, <2>1, <2>2, ReportInvStep DEF Offline
<1>3. CASE ~SpentOnChain(client[k].job.coin)
  <2>1. Report(k, "unspent")
    BY <1>3 DEF Query
  <2>2. "unspent" \in Results \ {"ok"} /\ "unspent" \notin {"double-spend", "spent"}
    BY DEF Results
  <2>3. QED BY <1>1, <2>1, <2>2, ReportInvStep DEF Offline
<1>4. QED BY <1>2, <1>3

LEMMA TopupSuffices ==
    ASSUME NEW need \in Nat, NEW held \in Nat
    PROVE  SaturatingSub(need, held) \in Nat /\ held + SaturatingSub(need, held) >= need
BY DEF SaturatingSub

LEMMA ReadSizeInv ==
    ASSUME DInv, NEW k \in Clients, ReadSize(k)
    PROVE  DInv'
<1>1. PICK step \in DOMAIN SizeSteps :
          /\ At(k, step)
          /\ Proceed(k, [client[k].job EXCEPT
                    !.topup = Topup(client[k].job.size, lamports[SizeSteps[step]])])
  BY DEF ReadSize
<1>2. /\ client[k].todo # <<>> /\ Head(client[k].todo) = step /\ client[k].sent = "no"
      /\ Offline
  BY <1>1 DEF ReadSize, At
<1>3. /\ step \in {"sizeRegistry", "sizeNullifiers"}
      /\ step = "sizeRegistry" => SizeSteps[step] = Registry
      /\ step = "sizeNullifiers" => SizeSteps[step] = NullifierTree
  BY DEF SizeSteps
<1>4. client[k].job \in Job
  BY <1>2, Running
<1>5. lamports[SizeSteps[step]] \in Nat
  BY <1>3, ChainTypes, AccountsDistinct DEF DInv, ChainInv
<1> DEFINE n == Topup(client[k].job.size, lamports[SizeSteps[step]])
           job == [client[k].job EXCEPT !.topup = n]
<1>6. n \in Nat /\ lamports[SizeSteps[step]] + n >= Rent(client[k].job.size)
  <2>1. /\ ClientRent(client[k].job.size) \in Nat /\ Rent(client[k].job.size) \in Nat
        /\ ClientRent(client[k].job.size) >= Rent(client[k].job.size)
    BY <1>4, JobFields
  <2>2. n \in Nat /\ lamports[SizeSteps[step]] + n >= ClientRent(client[k].job.size)
    BY <1>5, <2>1, TopupSuffices DEF Topup
  <2> HIDE DEF n
  <2>3. QED BY <1>5, <2>1, <2>2
<1> HIDE DEF n
<1>7. /\ job \in Job /\ job.cmd = client[k].job.cmd /\ job.topup = n
      /\ job.size = client[k].job.size
  BY <1>4, <1>6 DEF Job
<1>8. Proceed(k, job)
  BY <1>1 DEF n
<1> HIDE DEF job
<1>9. /\ Done(World, Head(client[k].todo), job)
      /\ Prepared(World, Head(client[k].todo), job)
      /\ Head(client[k].todo) \notin {"refresh", "withdraw"}
  BY <1>2, <1>3 DEF Done, Prepared, Keyed
<1>10. ASSUME NEW t, Follows(Head(client[k].todo), t)
       PROVE  Prepared(World, t, job) /\ Known(World, t, job)
  <2>1. Known(World, t, job)
    BY <1>2, <1>3, <1>10 DEF Follows, Known
  <2>2. /\ t = "resizeRegistry" => lamports[Registry] + job.topup >= Rent(job.size)
        /\ t = "resizeNullifiers" => lamports[NullifierTree] + job.topup >= Rent(job.size)
    BY <1>2, <1>3, <1>6, <1>7, <1>10 DEF Follows
  <2>3. t # "bootNullifiers" /\ t \notin Keyed
    BY <1>2, <1>3, <1>10 DEF Follows, Keyed
  <2>4. QED BY <2>1, <2>2, <2>3, WorldFields DEF Prepared
<1>11. QED BY <1>2, <1>7, <1>8, <1>9, <1>10, OfflineProceed

LEMMA SkipBootstrapInv ==
    ASSUME DInv, NEW k \in Clients, SkipBootstrap(k)
    PROVE  DInv'
<1>1. /\ client[k].todo # <<>> /\ client[k].sent = "no" /\ Offline
      /\ Proceed(k, client[k].job) /\ lamports[Created(k)] > 0
  BY DEF SkipBootstrap, At
<1>2. Head(client[k].todo) \in {"bootRegistry", "bootNullifiers", "bootVault", "tryVault"}
  BY DEF SkipBootstrap, At, BootSteps
<1>3. /\ client[k].job \in Job
      /\ Prepared(World, Head(client[k].todo), client[k].job)
  BY <1>1, Running
<1>4. /\ Head(client[k].todo) = "bootRegistry" => lamports[Registry] > 0
      /\ Head(client[k].todo) = "bootNullifiers" => lamports[NullifierTree] > 0
  BY <1>1 DEF Created, BootSteps
<1>5. Done(World, Head(client[k].todo), client[k].job)
  BY <1>2, <1>4, WorldFields DEF Done
<1>6. ASSUME NEW t, Follows(Head(client[k].todo), t)
      PROVE  Prepared(World, t, client[k].job) /\ Known(World, t, client[k].job)
  <2>1. Known(World, t, client[k].job)
    BY <1>2, <1>6 DEF Follows, Known
  <2>2. t \in Keyed => client[k].job.key \in JointKeys
    BY <1>2, <1>3, <1>6 DEF Follows, Keyed, Prepared
  <2>3. t = "bootNullifiers" => World.held[Registry] > 0
    BY <1>4, <1>6, WorldFields DEF Follows
  <2>4. t # "resizeRegistry" /\ t # "resizeNullifiers"
    BY <1>2, <1>6 DEF Follows
  <2>5. QED BY <2>1, <2>2, <2>3, <2>4 DEF Prepared
<1>7. QED BY <1>1, <1>2, <1>3, <1>5, <1>6, OfflineProceed

LEMMA RunCommitteeInv ==
    ASSUME DInv, NEW k \in Clients, RunCommittee(k)
    PROVE  DInv'
<1>1. /\ client[k].todo # <<>> /\ Head(client[k].todo) = "committee" /\ client[k].sent = "no"
      /\ Offline
  BY DEF RunCommittee, At
<1>2. PICK key \in JointKeys : Proceed(k, [client[k].job EXCEPT !.key = key, !.epoch = 1])
  BY DEF RunCommittee, FreshKeys
<1> DEFINE job == [client[k].job EXCEPT !.key = key, !.epoch = 1]
<1>3. client[k].job \in Job
  BY <1>1, Running
<1>4. job \in Job /\ job.cmd = client[k].job.cmd /\ job.key = key /\ Proceed(k, job)
  BY <1>2, <1>3 DEF Job
<1> HIDE DEF job
<1>5. /\ Done(World, Head(client[k].todo), job)
      /\ Prepared(World, Head(client[k].todo), job)
      /\ Head(client[k].todo) \notin {"refresh", "withdraw"}
  BY <1>1 DEF Done, Prepared, Keyed
<1>6. ASSUME NEW t, Follows(Head(client[k].todo), t)
      PROVE  Prepared(World, t, job) /\ Known(World, t, job)
  BY <1>1, <1>4, <1>6 DEF Follows, Known, Prepared, Keyed
<1>7. QED BY <1>1, <1>4, <1>5, <1>6, OfflineProceed

\* A step that has a coin signed.
LEMMA SignProceed ==
    ASSUME DInv, NEW k \in Clients, NEW c \in Coins, MintSign(c, client[k].job.key),
           client[k].todo # <<>>, client[k].sent = "no",
           Head(client[k].todo) \in {"issue", "swap"},
           NEW job \in Job, job.cmd = client[k].job.cmd, job.key = client[k].job.key,
           Proceed(k, job), UNCHANGED <<network, pool, runs, others>>
    PROVE  DInv'
<1>1. /\ client[k].job.key \in JointKeys
      /\ \A tx \in network : tx.run = client[k].run => tx.step = "tryVault"
  BY Running DEF Prepared, Keyed
<1>2. ChainInv'
  BY <1>1, MintSignGrows DEF DInv
<1>3. World' = World
  BY WorldQuiet DEF MintSign, chain, history
<1>4. /\ Done(World, Head(client[k].todo), job)
      /\ Prepared(World, Head(client[k].todo), job)
      /\ Head(client[k].todo) \notin {"refresh", "withdraw"}
  BY <1>1 DEF Done, Prepared, Keyed
<1>5. ASSUME NEW t, Follows(Head(client[k].todo), t)
      PROVE  Prepared(World, t, job) /\ Known(World, t, job)
  BY <1>1, <1>5 DEF Follows, Known, Prepared, Keyed
<1>6. pool' \in Nat
  BY DEF DInv, CountInv
<1>7. QED BY <1>1, <1>2, <1>3, <1>4, <1>5, <1>6, ProceedInv

LEMMA IssueCoinInv ==
    ASSUME DInv, NEW k \in Clients, IssueCoin(k)
    PROVE  DInv'
<1>1. /\ client[k].todo # <<>> /\ Head(client[k].todo) = "issue" /\ client[k].sent = "no"
      /\ UNCHANGED <<network, pool, runs, others>>
  BY DEF IssueCoin, At
<1>2. PICK c \in Coins : /\ MintSign(c, client[k].job.key)
                         /\ Proceed(k, [client[k].job EXCEPT !.coin = c])
  BY DEF IssueCoin, FreshCoins
<1> DEFINE job == [client[k].job EXCEPT !.coin = c]
<1>3. client[k].job \in Job
  BY <1>1, Running
<1>4. job \in Job /\ job.cmd = client[k].job.cmd /\ job.key = client[k].job.key /\ Proceed(k, job)
  BY <1>2, <1>3 DEF Job
<1> HIDE DEF job
<1>5. QED BY <1>1, <1>2, <1>4, SignProceed

LEMMA SwapCoinInv ==
    ASSUME DInv, NEW k \in Clients, SwapCoin(k)
    PROVE  DInv'
<1>1. /\ client[k].todo # <<>> /\ Head(client[k].todo) = "swap" /\ client[k].sent = "no"
      /\ UNCHANGED <<network, pool, runs, others>> /\ Proceed(k, client[k].job)
  BY DEF SwapCoin, At
<1>2. PICK c \in Coins : MintSign(c, client[k].job.key)
  BY DEF SwapCoin, FreshCoins
<1>3. client[k].job \in Job
  BY <1>1, Running
<1>4. QED BY <1>1, <1>2, <1>3, SignProceed

LEMMA WaitingRuns ==
    ASSUME DInv, NEW k \in Clients, client[k].sent # "no"
    PROVE  client[k].todo # <<>>
<1>1. Shape(client[k])
  BY DEF DInv, ClientInv
<1>2. Len(client[k].todo) > 0
  BY <1>1 DEF Shape, Program
<1>3. QED BY <1>2

LEMMA TxStepNames ==
    TxSteps = {"bootRegistry", "bootNullifiers", "resizeRegistry", "resizeNullifiers", "bootVault",
               "tryVault", "fundVault", "register", "refresh", "withdraw", "fund", "payout",
               "payIn", "bootPool"}
<1>1. /\ DOMAIN BootSteps = {"bootRegistry", "bootNullifiers"}
      /\ DOMAIN ResizeSteps = {"resizeRegistry", "resizeNullifiers"}
  BY DEF BootSteps, ResizeSteps
<1>2. QED BY <1>1 DEF TxSteps

LEMMA SubmitInv ==
    ASSUME DInv, NEW k \in Clients, Submit(k)
    PROVE  DInv'
<1>1. /\ client[k].todo # <<>> /\ client[k].sent = "no" /\ Head(client[k].todo) \in TxSteps
      /\ network' = network \cup {Tx(k)}
      /\ client' = [client EXCEPT ![k].sent = "sent"]
      /\ UNCHANGED <<vars, reports, pool, runs, others>>
  BY DEF Submit, At
<1>2. /\ client[k].run # 0 /\ client[k] \in ClientType /\ client[k].job \in Job
      /\ Program(client[k].todo, client[k].job.cmd)
      /\ Prepared(World, Head(client[k].todo), client[k].job)
      /\ ~client[k].stale => Known(World, Head(client[k].todo), client[k].job)
      /\ \A tx \in network : tx.run = client[k].run => tx.step = "tryVault"
  BY <1>1, Running
<1>3. ChainInv' /\ World' = World /\ pool' \in Nat
  BY <1>1, Quiet DEF DInv, CountInv
<1> DEFINE c == [client[k] EXCEPT !.sent = "sent"]
<1>4. client \in [Clients -> ClientType]
  BY DEF DInv, ClientInv
<1>5. client' = [client EXCEPT ![k] = c]
  BY <1>1, <1>2, <1>4 DEF ClientType
<1>6. /\ c.run = client[k].run /\ c.todo = client[k].todo /\ c.job = client[k].job
      /\ c.sent = "sent" /\ c.stale = client[k].stale /\ c \in ClientType
  BY <1>2 DEF ClientType
<1> HIDE DEF c
<1>7. Shape(c)
  BY <1>1, <1>2, <1>6 DEF Shape
<1>8. Facts(World, c) /\ ~Claims(c)
  BY <1>2, <1>6 DEF Facts, Claims
<1>9. /\ Tx(k).run = client[k].run /\ Tx(k).step = Head(client[k].todo)
      /\ Tx(k).job = client[k].job
  BY DEF Tx
<1>10. Tx(k) \in TxType
  BY <1>1, <1>2 DEF Tx, TxType, ClientType
<1>11. Tx(k).step = "register" => Tx(k).job.key \in JointKeys
  BY <1>2, <1>9 DEF Prepared, Keyed
<1>12. ASSUME NEW tx \in network'
       PROVE  /\ Awaited(tx, c)
              /\ \/ tx \in network
                 \/ /\ tx \in TxType /\ tx.run = client[k].run
                    /\ tx.step = "register" => tx.job.key \in JointKeys
  <2>1. CASE tx \in network
    BY <1>2, <1>6, <2>1 DEF Awaited
  <2>2. CASE tx = Tx(k)
    BY <1>6, <1>9, <1>10, <1>11, <2>2 DEF Awaited
  <2>3. QED BY <1>1, <2>1, <2>2
<1>13. QED BY <1>1, <1>2, <1>3, <1>5, <1>6, <1>7, <1>8, <1>12, MoveInv

\* Whatever follows a transaction needs no more than that it has landed.
LEMMA AfterTx ==
    ASSUME NEW w, NEW step \in TxSteps, NEW job, NEW t, Follows(step, t),
           Prepared(w, step, job), step = "bootRegistry" => w.held[Registry] > 0
    PROVE  Prepared(w, t, job) /\ Known(w, t, job)
<1>1. Known(w, t, job)
  BY TxStepNames DEF Follows, Known
<1>2. t \in Keyed => job.key \in JointKeys
  BY TxStepNames DEF Follows, Keyed, Prepared
<1>3. t = "bootNullifiers" => w.held[Registry] > 0
  BY DEF Follows
<1>4. t # "resizeRegistry" /\ t # "resizeNullifiers"
  BY TxStepNames DEF Follows
<1>5. QED BY <1>1, <1>2, <1>3, <1>4 DEF Prepared

LEMMA ConfirmedInv ==
    ASSUME DInv, NEW k \in Clients, Confirmed(k)
    PROVE  DInv'
<1>1. /\ client[k].sent = "landed" /\ Proceed(k, client[k].job) /\ Offline
  BY DEF Confirmed
<1>2. client[k].todo # <<>>
  BY <1>1, WaitingRuns
<1>3. /\ client[k].job \in Job /\ Head(client[k].todo) \in TxSteps
      /\ Prepared(World, Head(client[k].todo), client[k].job)
      /\ Done(World, Head(client[k].todo), client[k].job)
  BY <1>1, <1>2, Running
<1>4. ASSUME NEW t, Follows(Head(client[k].todo), t)
      PROVE  Prepared(World, t, client[k].job) /\ Known(World, t, client[k].job)
  <2>1. Head(client[k].todo) = "bootRegistry" => World.held[Registry] > 0
    BY <1>3 DEF Done
  <2>2. QED BY <1>3, <1>4, <2>1, AfterTx
<1>5. QED BY <1>1, <1>2, <1>3, <1>4, OfflineProceed

LEMMA PoolExistsInv ==
    ASSUME DInv, NEW k \in Clients, PoolExists(k)
    PROVE  DInv'
<1>1. /\ client[k].sent = "sent" /\ Head(client[k].todo) = "bootPool"
      /\ network' = network \ {Tx(k)} /\ Proceed(k, client[k].job)
      /\ UNCHANGED <<vars, pool, runs, others>>
  BY DEF PoolExists
<1>2. client[k].todo # <<>>
  BY <1>1, WaitingRuns
<1>3. /\ client[k].job \in Job /\ Head(client[k].todo) \in TxSteps
      /\ Prepared(World, Head(client[k].todo), client[k].job)
  BY <1>1, <1>2, Running
<1>4. ChainInv' /\ World' = World /\ pool' \in Nat
  BY <1>1, Quiet DEF DInv, CountInv
<1>5. Done(World, Head(client[k].todo), client[k].job)
  BY <1>1 DEF Done
<1>6. ASSUME NEW t, Follows(Head(client[k].todo), t)
      PROVE  Prepared(World, t, client[k].job) /\ Known(World, t, client[k].job)
  BY <1>1, <1>3, <1>6, AfterTx
<1>7. ASSUME NEW tx \in network', tx.run = client[k].run PROVE tx.step = "tryVault"
  <2>1. tx \in TxType /\ Awaited(tx, client[k]) /\ tx # Tx(k)
    BY <1>1 DEF DInv, NetworkInv
  <2>2. tx = [run |-> tx.run, step |-> tx.step, job |-> tx.job]
    BY <2>1 DEF TxType
  <2>3. QED BY <1>7, <2>1, <2>2 DEF Awaited, Tx
<1>8. Head(client[k].todo) \notin {"refresh", "withdraw"} /\ network' \subseteq network
  BY <1>1
<1>9. QED BY <1>1, <1>2, <1>3, <1>4, <1>5, <1>6, <1>7, <1>8, ProceedInv

LEMMA FailInv ==
    ASSUME DInv, NEW k \in Clients, Fail(k)
    PROVE  DInv'
<1>1. client[k].todo # <<>> /\ Offline
  BY DEF Fail
<1>2. CASE Head(client[k].todo) = "tryVault"
  <2>1. Proceed(k, client[k].job)
    BY <1>2 DEF Fail
  <2>2. /\ client[k].job \in Job
        /\ Prepared(World, Head(client[k].todo), client[k].job)
    BY <1>1, Running
  <2>3. Done(World, Head(client[k].todo), client[k].job)
    BY <1>2 DEF Done
  <2>4. Head(client[k].todo) \in TxSteps
    BY <1>2, TxStepNames
  <2>5. ASSUME NEW t, Follows(Head(client[k].todo), t)
        PROVE  Prepared(World, t, client[k].job) /\ Known(World, t, client[k].job)
    BY <1>2, <2>2, <2>4, <2>5, AfterTx
  <2>6. QED BY <1>1, <1>2, <2>1, <2>2, <2>3, <2>5, OfflineProceed
<1>3. CASE Head(client[k].todo) # "tryVault"
  <2>1. Report(k, "error")
    BY <1>3 DEF Fail
  <2>2. "error" \in Results \ {"ok"} /\ "error" \notin {"double-spend", "spent"}
    BY DEF Results
  <2>3. QED BY <1>1, <2>1, <2>2, ReportInvStep DEF Offline
<1>4. QED BY <1>2, <1>3

-----------------------------------------------------------------------------
(***************************************************************************)
(* Commands start with programs                                            *)
(***************************************************************************)
LEMMA BeginInv ==
    ASSUME DInv, NEW k \in Clients, NEW job \in Job, NEW steps, Program(steps, job.cmd),
           Prepared(World, Head(steps), job), Known(World, Head(steps), job),
           Begin(k, steps, job)
    PROVE  DInv'
<1>0. ClientInv /\ NetworkInv /\ RunsInv /\ ReportInv /\ ClaimInv /\ CountInv
  BY DEF DInv
<1> DEFINE c == [Idle EXCEPT !.run = runs + 1, !.todo = steps, !.job = job]
<1>1. /\ runs < MaxRuns /\ runs' = runs + 1
      /\ client' = [client EXCEPT ![k] = c]
      /\ UNCHANGED <<vars, network, reports, pool, others>>
  BY DEF Begin
<1>2. ChainInv' /\ World' = World
  BY <1>1, Quiet DEF DInv
<1>3. runs \in Nat /\ runs + 1 \in Nat /\ runs + 1 # 0
  BY <1>0, DevnetAssumption DEF CountInv
<1>4. /\ c.run = runs + 1 /\ c.todo = steps /\ c.job = job /\ c.sent = "no" /\ c.stale = FALSE
  BY DEF Idle
<1>5. c \in ClientType
  BY <1>3 DEF Idle, ClientType, Program
<1> HIDE DEF c
<1>6. Shape(c) /\ Facts(World, c) /\ ~Claims(c)
  BY <1>3, <1>4, <1>5 DEF Shape, Facts, Claims
<1>7. /\ client' \in [Clients -> ClientType] /\ client'[k] = c
      /\ \A j \in Clients \ {k} : client'[j] = client[j]
  BY <1>0, <1>1, <1>5 DEF ClientInv
<1>8. \A j \in Clients : client[j].run \in Nat /\ client[j].run <= runs
  BY <1>0 DEF ClientInv, ClientType, RunsInv
<1>9. ClientInv'
  <2>1. ASSUME NEW j \in Clients PROVE Shape(client'[j]) /\ Facts(World', client'[j])
    BY <1>0, <1>2, <1>6, <1>7 DEF ClientInv
  <2>2. QED BY <1>7, <2>1 DEF ClientInv
<1>10. NetworkInv'
  <2>1. ASSUME NEW tx \in network
        PROVE  /\ tx.run <= runs' /\ (tx.step = "register" => tx.job.key \in JointKeys)
               /\ \A j \in Clients : Awaited(tx, client'[j])
    <3>1. /\ tx.run \in Nat /\ tx.run <= runs
          /\ tx.step = "register" => tx.job.key \in JointKeys
          /\ \A j \in Clients : Awaited(tx, client[j])
      BY <1>0 DEF NetworkInv, TxType
    <3>2. tx.run <= runs' /\ tx.run # c.run
      BY <1>1, <1>3, <1>4, <3>1
    <3>3. QED BY <1>7, <3>1, <3>2 DEF Awaited
  <2>2. QED BY <1>0, <1>1, <2>1 DEF NetworkInv
<1>11. RunsInv'
  <2>1. \A j \in Clients : client'[j].run <= runs'
    BY <1>1, <1>3, <1>4, <1>7, <1>8
  <2>2. \A r \in reports : r.run \in Nat /\ r.run <= runs
    BY <1>0 DEF RunsInv, ReportInv, ReportType
  <2>3. \A j \in Clients \ {k} : client'[j].run # c.run
    BY <1>3, <1>4, <1>7, <1>8
  <2>4. \A i, j \in Clients : client'[i].run = client'[j].run /\ client'[i].run # 0 => i = j
    BY <1>0, <1>7, <2>3 DEF RunsInv
  <2>5. \A r \in reports : r.run # c.run /\ r.run <= runs'
    BY <1>1, <1>3, <1>4, <2>2
  <2>6. \A r \in reports, j \in Clients : r.run # client'[j].run
    BY <1>0, <1>7, <2>5 DEF RunsInv
  <2>7. QED BY <1>0, <1>1, <2>1, <2>4, <2>5, <2>6 DEF RunsInv
<1>12. ReportInv'
  BY <1>0, <1>1, <1>2 DEF ReportInv
<1>13. ClaimInv'
  <2>1. \A j \in Clients : Claims(client'[j]) => Claims(client[j]) /\ client'[j] = client[j]
    BY <1>6, <1>7
  <2>2. QED BY <1>0, <1>1, <2>1 DEF ClaimInv
<1>14. CountInv'
  <2>1. runs' \in 0..MaxRuns
    BY <1>0, <1>1, <1>3, DevnetAssumption
  <2>2. QED BY <1>0, <1>1, <2>1 DEF CountInv
<1>15. QED BY <1>2, <1>9, <1>10, <1>11, <1>12, <1>13, <1>14 DEF DInv

\* One program after another.
LEMMA Joined ==
    ASSUME NEW cmd, NEW s \in Seq(StepNames), Len(s) > 0, Linked(s),
           NEW t, Program(t, cmd), Follows(s[Len(s)], t[1])
    PROVE  Program(s \o t, cmd) /\ Head(s \o t) = s[1] /\ (s \o t)[1] = s[1]
<1>1. t \in Seq(StepNames) /\ Len(t) > 0 /\ Goal(cmd, t[Len(t)]) /\ Linked(t)
  BY DEF Program
<1>2. Len(s) \in Nat /\ Len(t) \in Nat
  BY <1>1
<1>3. /\ s \o t \in Seq(StepNames) /\ Len(s \o t) = Len(s) + Len(t)
      /\ \A i \in 1..Len(s) : (s \o t)[i] = s[i]
      /\ \A i \in (Len(s) + 1)..(Len(s) + Len(t)) : (s \o t)[i] = t[i - Len(s)]
  BY <1>1
<1> DEFINE u == s \o t
<1>4. /\ u \in Seq(StepNames) /\ Len(u) = Len(s) + Len(t)
      /\ \A i \in 1..Len(s) : u[i] = s[i]
      /\ \A i \in (Len(s) + 1)..(Len(s) + Len(t)) : u[i] = t[i - Len(s)]
  BY <1>3
<1> HIDE DEF u
<1>5. u[1] = s[1] /\ Len(u) > 0
  BY <1>1, <1>2, <1>4
<1>6. Head(u) = u[1]
  BY <1>4, <1>5
<1>7. u[Len(u)] = t[Len(t)]
  BY <1>1, <1>2, <1>4
<1>8. Linked(u)
  <2> SUFFICES ASSUME NEW i \in 1..(Len(u) - 1) PROVE Follows(u[i], u[i + 1])
    BY DEF Linked
  <2>1. CASE i < Len(s)
    <3>1. i \in 1..(Len(s) - 1) /\ i \in 1..Len(s) /\ i + 1 \in 1..Len(s)
      BY <1>2, <1>4, <2>1
    <3>2. QED BY <1>4, <3>1 DEF Linked
  <2>2. CASE i = Len(s)
    <3>1. i \in 1..Len(s) /\ i + 1 \in (Len(s) + 1)..(Len(s) + Len(t)) /\ (i + 1) - Len(s) = 1
      BY <1>1, <1>2, <1>4, <2>2
    <3>2. QED BY <1>4, <2>2, <3>1
  <2>3. CASE i > Len(s)
    <3>1. /\ i \in (Len(s) + 1)..(Len(s) + Len(t)) /\ i + 1 \in (Len(s) + 1)..(Len(s) + Len(t))
          /\ i - Len(s) \in 1..(Len(t) - 1) /\ (i + 1) - Len(s) = (i - Len(s)) + 1
      BY <1>1, <1>2, <1>4, <2>3
    <3>2. QED BY <1>1, <1>4, <3>1 DEF Linked
  <2>4. QED BY <1>2, <1>4, <2>1, <2>2, <2>3
<1>9. Program(u, cmd)
  BY <1>1, <1>4, <1>5, <1>7, <1>8 DEF Program
<1>10. QED BY <1>5, <1>6, <1>9 DEF u

\* A step that may come after any other, and needs nothing.
Free == {"registry", "fund", "payout"}

LEMMA FreeFollows == \A s, t : t \in Free => Follows(s, t)
BY DEF Free, Follows, Keyed

LEMMA RefreshTail ==
    ASSUME NEW cmd \in MeltCommands
    PROVE  Program(<<"registry", "nullifiers", "refresh">>, cmd)
<1> DEFINE t == <<"registry", "nullifiers", "refresh">>
<1>1. /\ t \in Seq(StepNames) /\ Len(t) = 3
      /\ t[1] = "registry" /\ t[2] = "nullifiers" /\ t[3] = "refresh"
  BY DEF StepNames
<1> HIDE DEF t
<1>2. Goal(cmd, "refresh")
  BY DEF Goal, MeltCommands, CashCommands
<1>3. Follows("registry", "nullifiers") /\ Follows("nullifiers", "refresh")
  BY DEF Follows, Keyed
<1>4. Linked(t)
  BY <1>1, <1>3 DEF Linked
<1>5. Program(t, cmd)
  BY <1>1, <1>2, <1>4 DEF Program
<1>6. QED BY <1>5 DEF t

LEMMA WithdrawTail ==
    ASSUME NEW cmd \in CashCommands
    PROVE  Program(<<"registry", "nullifiers", "vault", "withdraw">>, cmd)
<1> DEFINE t == <<"registry", "nullifiers", "vault", "withdraw">>
<1>1. /\ t \in Seq(StepNames) /\ Len(t) = 4
      /\ t[1] = "registry" /\ t[2] = "nullifiers" /\ t[3] = "vault" /\ t[4] = "withdraw"
  BY DEF StepNames
<1> HIDE DEF t
<1>2. Goal(cmd, "withdraw")
  BY DEF Goal, MeltCommands, CashCommands
<1>3. /\ Follows("registry", "nullifiers") /\ Follows("nullifiers", "vault")
      /\ Follows("vault", "withdraw")
  BY DEF Follows, Keyed
<1>4. Linked(t)
  BY <1>1, <1>3 DEF Linked
<1>5. Program(t, cmd)
  BY <1>1, <1>2, <1>4 DEF Program
<1>6. QED BY <1>5 DEF t

LEMMA NothingFirst == \A t \in Seq(StepNames) : <<>> \o t = t
OBVIOUS

LEMMA OneFirst ==
    ASSUME NEW cmd, NEW s \in Free, NEW t, Program(t, cmd), t[1] = "registry"
    PROVE  Program(<<s>> \o t, cmd) /\ Head(<<s>> \o t) = s /\ (<<s>> \o t)[1] = s
<1> DEFINE u == <<s>>
<1>1. u \in Seq(StepNames) /\ Len(u) = 1 /\ u[1] = s
  BY DEF Free, StepNames
<1> HIDE DEF u
<1>2. Linked(u)
  BY <1>1 DEF Linked
<1>3. Follows(u[Len(u)], t[1])
  BY FreeFollows DEF Free
<1>4. Program(u \o t, cmd) /\ Head(u \o t) = u[1] /\ (u \o t)[1] = u[1]
  BY <1>1, <1>2, <1>3, Joined
<1>5. QED BY <1>1, <1>4 DEF u

\* The payer's step, if any, and then the reads.
LEMMA PaidFor ==
    ASSUME NEW cmd, NEW payer \in {"sponsor", "ephemeral", "pool"},
           NEW t, Program(t, cmd), t[1] = "registry"
    PROVE  /\ Program(PayerSteps(payer) \o t, cmd)
           /\ Head(PayerSteps(payer) \o t) \in Free /\ (PayerSteps(payer) \o t)[1] \in Free
<1>1. CASE payer = "sponsor"
  <2>1. PayerSteps(payer) = <<>> /\ t \in Seq(StepNames) /\ Head(t) = t[1]
    BY <1>1 DEF PayerSteps, Program
  <2>2. PayerSteps(payer) \o t = t
    BY <2>1, NothingFirst
  <2>3. "registry" \in Free
    BY DEF Free
  <2>4. QED BY <2>1, <2>2, <2>3
<1>2. CASE payer = "ephemeral"
  <2>1. PayerSteps(payer) = <<"fund">> /\ "fund" \in Free
    BY <1>2 DEF PayerSteps, Free
  <2>2. QED BY <2>1, OneFirst
<1>3. CASE payer = "pool"
  <2>1. PayerSteps(payer) = <<"payout">> /\ "payout" \in Free
    BY <1>3 DEF PayerSteps, Free
  <2>2. QED BY <2>1, OneFirst
<1>4. QED BY <1>1, <1>2, <1>3

LEMMA RefreshProgram ==
    ASSUME NEW cmd \in MeltCommands, NEW payer \in {"sponsor", "ephemeral", "pool"}
    PROVE  /\ Program(RefreshSteps(payer), cmd)
           /\ Head(RefreshSteps(payer)) \in Free /\ RefreshSteps(payer)[1] \in Free
<1> DEFINE t == <<"registry", "nullifiers", "refresh">>
<1>1. Program(t, cmd) /\ t[1] = "registry"
  BY RefreshTail
<1>2. RefreshSteps(payer) = PayerSteps(payer) \o t
  BY DEF RefreshSteps
<1> HIDE DEF t
<1>3. QED BY <1>1, <1>2, PaidFor

LEMMA WithdrawProgram ==
    ASSUME NEW cmd \in CashCommands, NEW payer \in {"sponsor", "ephemeral", "pool"}
    PROVE  /\ Program(WithdrawSteps(payer), cmd)
           /\ Head(WithdrawSteps(payer)) \in Free /\ WithdrawSteps(payer)[1] \in Free
<1> DEFINE t == <<"registry", "nullifiers", "vault", "withdraw">>
<1>1. Program(t, cmd) /\ t[1] = "registry"
  BY WithdrawTail
<1>2. WithdrawSteps(payer) = PayerSteps(payer) \o t
  BY DEF WithdrawSteps
<1> HIDE DEF t
<1>3. QED BY <1>1, <1>2, PaidFor

LEMMA PrivateTxProgram ==
    Program(PrivateTxSteps, "private-tx-demo") /\ Head(PrivateTxSteps) = "committee"
<1> DEFINE s == <<"committee", "register", "issue">>
           t == RefreshSteps("sponsor")
<1>1. /\ s \in Seq(StepNames) /\ Len(s) = 3
      /\ s[1] = "committee" /\ s[2] = "register" /\ s[3] = "issue"
  BY DEF StepNames
<1>2. Program(t, "private-tx-demo") /\ t[1] \in Free
  BY RefreshProgram DEF MeltCommands
<1>3. PrivateTxSteps = s \o t
  BY DEF PrivateTxSteps
<1> HIDE DEF s, t
<1>4. Follows("committee", "register") /\ Follows("register", "issue")
  BY DEF Follows, Keyed
<1>5. Linked(s)
  BY <1>1, <1>4 DEF Linked
<1>6. Len(s) > 0 /\ Follows(s[Len(s)], t[1])
  BY <1>1, <1>2, FreeFollows
<1>7. Program(s \o t, "private-tx-demo") /\ Head(s \o t) = s[1]
  BY <1>1, <1>2, <1>5, <1>6, Joined
<1>8. QED BY <1>1, <1>3, <1>7

LEMMA AlicePaysBobProgram ==
    ASSUME NEW payer \in {"sponsor", "ephemeral", "pool"}
    PROVE  /\ Program(AlicePaysBobSteps(payer), "alice-pays-bob")
           /\ Head(AlicePaysBobSteps(payer)) = "committee"
<1> DEFINE s == <<"committee", "register", "issue", "swap">>
           t == RefreshSteps(payer)
<1>1. /\ s \in Seq(StepNames) /\ Len(s) = 4
      /\ s[1] = "committee" /\ s[2] = "register" /\ s[3] = "issue" /\ s[4] = "swap"
  BY DEF StepNames
<1>2. Program(t, "alice-pays-bob") /\ t[1] \in Free
  BY RefreshProgram DEF MeltCommands
<1>3. AlicePaysBobSteps(payer) = s \o t
  BY DEF AlicePaysBobSteps
<1> HIDE DEF s, t
<1>4. Follows("committee", "register") /\ Follows("register", "issue") /\ Follows("issue", "swap")
  BY DEF Follows, Keyed
<1>5. Linked(s)
  BY <1>1, <1>4 DEF Linked
<1>6. Len(s) > 0 /\ Follows(s[Len(s)], t[1])
  BY <1>1, <1>2, FreeFollows
<1>7. Program(s \o t, "alice-pays-bob") /\ Head(s \o t) = s[1]
  BY <1>1, <1>2, <1>5, <1>6, Joined
<1>8. QED BY <1>1, <1>3, <1>7

LEMMA BobWithdrawsProgram ==
    ASSUME NEW payer \in {"sponsor", "ephemeral", "pool"}
    PROVE  /\ Program(BobWithdrawsSteps(payer), "bob-withdraws")
           /\ Head(BobWithdrawsSteps(payer)) = "committee"
<1> DEFINE s == <<"committee", "tryVault", "fundVault", "register", "issue">>
           t == WithdrawSteps(payer)
<1>1. /\ s \in Seq(StepNames) /\ Len(s) = 5
      /\ s[1] = "committee" /\ s[2] = "tryVault" /\ s[3] = "fundVault" /\ s[4] = "register"
      /\ s[5] = "issue"
  BY DEF StepNames
<1>2. Program(t, "bob-withdraws") /\ t[1] \in Free
  BY WithdrawProgram DEF CashCommands
<1>3. BobWithdrawsSteps(payer) = s \o t
  BY DEF BobWithdrawsSteps
<1> HIDE DEF s, t
<1>4. /\ Follows("committee", "tryVault") /\ Follows("tryVault", "fundVault")
      /\ Follows("fundVault", "register") /\ Follows("register", "issue")
  BY DEF Follows, Keyed
<1>5. Linked(s)
  BY <1>1, <1>4 DEF Linked
<1>6. Len(s) > 0 /\ Follows(s[Len(s)], t[1])
  BY <1>1, <1>2, FreeFollows
<1>7. Program(s \o t, "bob-withdraws") /\ Head(s \o t) = s[1]
  BY <1>1, <1>2, <1>5, <1>6, Joined
<1>8. QED BY <1>1, <1>3, <1>7

\* The programs of one step and of two.
LEMMA OneStep ==
    ASSUME NEW cmd, NEW step \in StepNames, Goal(cmd, step)
    PROVE  Program(<<step>>, cmd) /\ Head(<<step>>) = step
<1> DEFINE t == <<step>>
<1>1. t \in Seq(StepNames) /\ Len(t) = 1 /\ t[1] = step /\ Head(t) = step
  OBVIOUS
<1> HIDE DEF t
<1>2. Linked(t)
  BY <1>1 DEF Linked
<1>3. Program(t, cmd) /\ Head(t) = step
  BY <1>1, <1>2 DEF Program
<1>4. QED BY <1>3 DEF t

LEMMA TwoSteps ==
    ASSUME NEW cmd, NEW first \in StepNames, NEW last \in StepNames, Goal(cmd, last),
           Follows(first, last)
    PROVE  Program(<<first, last>>, cmd) /\ Head(<<first, last>>) = first
<1> DEFINE t == <<first, last>>
<1>1. t \in Seq(StepNames) /\ Len(t) = 2 /\ t[1] = first /\ t[2] = last /\ Head(t) = first
  OBVIOUS
<1> HIDE DEF t
<1>2. Linked(t)
  BY <1>1 DEF Linked
<1>3. Program(t, cmd) /\ Head(t) = first
  BY <1>1, <1>2 DEF Program
<1>4. QED BY <1>3 DEF t

\* A step that needs nothing to be known or done.
Blank == Free \cup {"committee", "bootRegistry", "bootVault", "sizeRegistry", "sizeNullifiers",
                    "query", "bootPool", "payIn"}

LEMMA BlankReady ==
    ASSUME NEW w, NEW step \in Blank, NEW job
    PROVE  Prepared(w, step, job) /\ Known(w, step, job)
BY DEF Blank, Free, Prepared, Known, Keyed

LEMMA BlankBegin ==
    ASSUME DInv, NEW k \in Clients, NEW job \in Job, NEW steps, Program(steps, job.cmd),
           Head(steps) \in Blank, Begin(k, steps, job)
    PROVE  DInv'
<1>1. Prepared(World, Head(steps), job) /\ Known(World, Head(steps), job)
  BY BlankReady
<1>2. QED BY <1>1, BeginInv

LEMMA GoalsMet ==
    /\ Goal("bootstrap-singletons", "bootNullifiers") /\ Goal("bootstrap-vault", "bootVault")
    /\ Goal("register-keyset", "register") /\ Goal("resize-registry", "resizeRegistry")
    /\ Goal("resize-nullifier-tree", "resizeNullifiers") /\ Goal("query-nullifier", "query")
    /\ Goal("sponsor-bootstrap", "bootPool") /\ Goal("sponsor-deposit", "payIn")
    /\ Goal("sponsor-payout", "payout")
BY DEF Goal, MeltCommands, CashCommands

\* What the commands are asked to work on.
LEMMA JobsTyped ==
    ASSUME NEW cmd \in CommandNames, NEW d \in Denoms
    PROVE  /\ [NoJob EXCEPT !.cmd = cmd] \in Job /\ [NoJob EXCEPT !.cmd = cmd].cmd = cmd
           /\ [NoJob EXCEPT !.cmd = cmd, !.denom = d] \in Job
           /\ [NoJob EXCEPT !.cmd = cmd, !.denom = d].cmd = cmd
           /\ \A s \in Sizes : /\ [NoJob EXCEPT !.cmd = cmd, !.size = s] \in Job
                               /\ [NoJob EXCEPT !.cmd = cmd, !.size = s].cmd = cmd
           /\ \A c \in Coins : /\ [NoJob EXCEPT !.cmd = cmd, !.coin = c] \in Job
                               /\ [NoJob EXCEPT !.cmd = cmd, !.coin = c].cmd = cmd
           /\ \A c \in Coins \cup {None} : /\ [Spend(c, d) EXCEPT !.cmd = cmd] \in Job
                                           /\ [Spend(c, d) EXCEPT !.cmd = cmd].cmd = cmd
<1>1. NoJob \in Job
  BY NoJobTyped
<1>2. [NoJob EXCEPT !.cmd = cmd] \in Job /\ [NoJob EXCEPT !.cmd = cmd].cmd = cmd
  BY <1>1 DEF Job
<1>3. /\ [NoJob EXCEPT !.cmd = cmd, !.denom = d] \in Job
      /\ [NoJob EXCEPT !.cmd = cmd, !.denom = d].cmd = cmd
  BY <1>1 DEF Job
<1>4. ASSUME NEW s \in Sizes
      PROVE  /\ [NoJob EXCEPT !.cmd = cmd, !.size = s] \in Job
             /\ [NoJob EXCEPT !.cmd = cmd, !.size = s].cmd = cmd
  <2>1. s \in Sizes \cup {0}
    BY Zenon
  <2>2. QED BY <1>1, <2>1 DEF Job
<1>5. ASSUME NEW c \in Coins
      PROVE  /\ [NoJob EXCEPT !.cmd = cmd, !.coin = c] \in Job
             /\ [NoJob EXCEPT !.cmd = cmd, !.coin = c].cmd = cmd
  <2>1. c \in Coins \cup {None}
    BY Zenon
  <2>2. QED BY <1>1, <2>1 DEF Job
<1>6. ASSUME NEW c \in Coins \cup {None}
      PROVE  [Spend(c, d) EXCEPT !.cmd = cmd] \in Job /\ [Spend(c, d) EXCEPT !.cmd = cmd].cmd = cmd
  BY <1>1 DEF Job, Spend
<1>7. QED BY <1>2, <1>3, <1>4, <1>5, <1>6

\* register_keyset starts with its key.
LEMMA RegisterBegin ==
    ASSUME DInv, NEW k \in Clients, NEW d \in Denoms, NEW key \in JointKeys, NEW e \in Epochs,
           Begin(k, <<"register">>, [NoJob EXCEPT !.cmd = "register-keyset", !.denom = d,
                                                  !.key = key, !.epoch = e])
    PROVE  DInv'
<1> DEFINE job == [NoJob EXCEPT !.cmd = "register-keyset", !.denom = d, !.key = key, !.epoch = e]
<1>1. NoJob \in Job
  BY NoJobTyped
<1>2. e \in Nat /\ "register-keyset" \in CommandNames /\ "register" \in StepNames
  BY DevnetAssumption DEF CommandNames, StepNames
<1>3. key \in JointKeys \cup {None}
  BY Zenon
<1>4. job \in Job /\ job.cmd = "register-keyset" /\ job.key = key
  BY <1>1, <1>2, <1>3 DEF Job
<1>5. Begin(k, <<"register">>, job)
  OBVIOUS
<1> HIDE DEF job
<1>6. Program(<<"register">>, job.cmd) /\ Head(<<"register">>) = "register"
  BY <1>2, <1>4, GoalsMet, OneStep
<1>7. Prepared(World, "register", job) /\ Known(World, "register", job)
  BY <1>4 DEF Prepared, Known
<1>8. QED BY <1>4, <1>5, <1>6, <1>7, BeginInv

LEMMA CoinBegin ==
    ASSUME DInv, NEW k \in Clients, NEW d \in Denoms, NEW c \in Coins \cup {None},
           NEW cmd \in CommandNames, NEW steps, Program(steps, cmd), Head(steps) \in Blank,
           Begin(k, steps, [Spend(c, d) EXCEPT !.cmd = cmd])
    PROVE  DInv'
<1> DEFINE job == [Spend(c, d) EXCEPT !.cmd = cmd]
<1>1. job \in Job /\ job.cmd = cmd /\ Begin(k, steps, job)
  BY JobsTyped
<1> HIDE DEF job
<1>2. QED BY <1>1, BlankBegin

LEMMA SpendBegin ==
    ASSUME DInv, NEW k \in Clients, NEW d \in Denoms, NEW c \in Coins \cup {None},
           NEW payer \in {"sponsor", "ephemeral", "pool"},
           \/ Begin(k, RefreshSteps(payer), [Spend(c, d) EXCEPT !.cmd = "refresh"])
           \/ Begin(k, WithdrawSteps(payer), [Spend(c, d) EXCEPT !.cmd = "withdraw"])
           \/ Begin(k, PrivateTxSteps, [Spend(c, d) EXCEPT !.cmd = "private-tx-demo"])
           \/ Begin(k, AlicePaysBobSteps(payer), [Spend(c, d) EXCEPT !.cmd = "alice-pays-bob"])
           \/ Begin(k, BobWithdrawsSteps(payer), [Spend(c, d) EXCEPT !.cmd = "bob-withdraws"])
    PROVE  DInv'
<1>0. /\ "refresh" \in CommandNames /\ "withdraw" \in CommandNames
      /\ "private-tx-demo" \in CommandNames /\ "alice-pays-bob" \in CommandNames
      /\ "bob-withdraws" \in CommandNames
  BY DEF CommandNames
<1>1. /\ "refresh" \in MeltCommands /\ "withdraw" \in CashCommands
      /\ Free \subseteq Blank /\ "committee" \in Blank
  BY DEF MeltCommands, CashCommands, Blank
<1>2. CASE Begin(k, RefreshSteps(payer), [Spend(c, d) EXCEPT !.cmd = "refresh"])
  <2>1. Program(RefreshSteps(payer), "refresh") /\ Head(RefreshSteps(payer)) \in Blank
    BY <1>1, RefreshProgram
  <2>2. QED BY <1>0, <1>2, <2>1, CoinBegin
<1>3. CASE Begin(k, WithdrawSteps(payer), [Spend(c, d) EXCEPT !.cmd = "withdraw"])
  <2>1. Program(WithdrawSteps(payer), "withdraw") /\ Head(WithdrawSteps(payer)) \in Blank
    BY <1>1, WithdrawProgram
  <2>2. QED BY <1>0, <1>3, <2>1, CoinBegin
<1>4. CASE Begin(k, PrivateTxSteps, [Spend(c, d) EXCEPT !.cmd = "private-tx-demo"])
  <2>1. Program(PrivateTxSteps, "private-tx-demo") /\ Head(PrivateTxSteps) \in Blank
    BY <1>1, PrivateTxProgram
  <2>2. QED BY <1>0, <1>4, <2>1, CoinBegin
<1>5. CASE Begin(k, AlicePaysBobSteps(payer), [Spend(c, d) EXCEPT !.cmd = "alice-pays-bob"])
  <2>1. Program(AlicePaysBobSteps(payer), "alice-pays-bob") /\ Head(AlicePaysBobSteps(payer)) \in Blank
    BY <1>1, AlicePaysBobProgram
  <2>2. QED BY <1>0, <1>5, <2>1, CoinBegin
<1>6. CASE Begin(k, BobWithdrawsSteps(payer), [Spend(c, d) EXCEPT !.cmd = "bob-withdraws"])
  <2>1. Program(BobWithdrawsSteps(payer), "bob-withdraws") /\ Head(BobWithdrawsSteps(payer)) \in Blank
    BY <1>1, BobWithdrawsProgram
  <2>2. QED BY <1>0, <1>6, <2>1, CoinBegin
<1>7. QED BY <1>2, <1>3, <1>4, <1>5, <1>6

LEMMA SetupBegin ==
    ASSUME DInv, NEW k \in Clients, NEW cmd \in CommandNames, NEW steps, Program(steps, cmd),
           Head(steps) \in Blank, NEW d \in Denoms,
           \/ Begin(k, steps, [NoJob EXCEPT !.cmd = cmd])
           \/ Begin(k, steps, [NoJob EXCEPT !.cmd = cmd, !.denom = d])
           \/ \E s \in Sizes : Begin(k, steps, [NoJob EXCEPT !.cmd = cmd, !.size = s])
           \/ \E c \in Coins : Begin(k, steps, [NoJob EXCEPT !.cmd = cmd, !.coin = c])
    PROVE  DInv'
<1>1. CASE Begin(k, steps, [NoJob EXCEPT !.cmd = cmd])
  <2> DEFINE job == [NoJob EXCEPT !.cmd = cmd]
  <2>1. job \in Job /\ job.cmd = cmd /\ Begin(k, steps, job)
    BY <1>1, JobsTyped
  <2> HIDE DEF job
  <2>2. QED BY <2>1, BlankBegin
<1>2. CASE Begin(k, steps, [NoJob EXCEPT !.cmd = cmd, !.denom = d])
  <2> DEFINE job == [NoJob EXCEPT !.cmd = cmd, !.denom = d]
  <2>1. job \in Job /\ job.cmd = cmd /\ Begin(k, steps, job)
    BY <1>2, JobsTyped
  <2> HIDE DEF job
  <2>2. QED BY <2>1, BlankBegin
<1>3. ASSUME NEW s \in Sizes, Begin(k, steps, [NoJob EXCEPT !.cmd = cmd, !.size = s])
      PROVE  DInv'
  <2> DEFINE job == [NoJob EXCEPT !.cmd = cmd, !.size = s]
  <2>1. job \in Job /\ job.cmd = cmd /\ Begin(k, steps, job)
    BY <1>3, JobsTyped
  <2> HIDE DEF job
  <2>2. QED BY <2>1, BlankBegin
<1>4. ASSUME NEW c \in Coins, Begin(k, steps, [NoJob EXCEPT !.cmd = cmd, !.coin = c])
      PROVE  DInv'
  <2> DEFINE job == [NoJob EXCEPT !.cmd = cmd, !.coin = c]
  <2>1. job \in Job /\ job.cmd = cmd /\ Begin(k, steps, job)
    BY <1>4, JobsTyped
  <2> HIDE DEF job
  <2>2. QED BY <2>1, BlankBegin
<1>5. QED BY <1>1, <1>2, <1>3, <1>4

\* The programs of the commands that set something up or only look.
LEMMA SetupPrograms ==
    /\ Program(BootstrapSteps, "bootstrap-singletons") /\ Head(BootstrapSteps) \in Blank
    /\ Program(<<"bootVault">>, "bootstrap-vault") /\ Head(<<"bootVault">>) \in Blank
    /\ Program(<<"sizeRegistry", "resizeRegistry">>, "resize-registry")
    /\ Head(<<"sizeRegistry", "resizeRegistry">>) \in Blank
    /\ Program(<<"sizeNullifiers", "resizeNullifiers">>, "resize-nullifier-tree")
    /\ Head(<<"sizeNullifiers", "resizeNullifiers">>) \in Blank
    /\ Program(<<"query">>, "query-nullifier") /\ Head(<<"query">>) \in Blank
    /\ Program(<<"bootPool">>, "sponsor-bootstrap") /\ Head(<<"bootPool">>) \in Blank
    /\ Program(<<"payIn">>, "sponsor-deposit") /\ Head(<<"payIn">>) \in Blank
    /\ Program(<<"payout">>, "sponsor-payout") /\ Head(<<"payout">>) \in Blank
<1>1. /\ "bootRegistry" \in StepNames /\ "bootNullifiers" \in StepNames
      /\ "bootVault" \in StepNames /\ "sizeRegistry" \in StepNames /\ "resizeRegistry" \in StepNames
      /\ "sizeNullifiers" \in StepNames /\ "resizeNullifiers" \in StepNames
      /\ "query" \in StepNames /\ "bootPool" \in StepNames /\ "payIn" \in StepNames
      /\ "payout" \in StepNames
  BY DEF StepNames
<1>2. /\ "bootRegistry" \in Blank /\ "bootVault" \in Blank /\ "sizeRegistry" \in Blank
      /\ "sizeNullifiers" \in Blank /\ "query" \in Blank /\ "bootPool" \in Blank
      /\ "payIn" \in Blank /\ "payout" \in Blank
  BY DEF Blank, Free
<1>3. /\ Follows("bootRegistry", "bootNullifiers") /\ Follows("sizeRegistry", "resizeRegistry")
      /\ Follows("sizeNullifiers", "resizeNullifiers")
  BY DEF Follows, Keyed
<1>4. Program(BootstrapSteps, "bootstrap-singletons") /\ Head(BootstrapSteps) \in Blank
  BY <1>1, <1>2, <1>3, GoalsMet, TwoSteps DEF BootstrapSteps
<1>5. /\ Program(<<"sizeRegistry", "resizeRegistry">>, "resize-registry")
      /\ Head(<<"sizeRegistry", "resizeRegistry">>) \in Blank
  BY <1>1, <1>2, <1>3, GoalsMet, TwoSteps
<1>6. /\ Program(<<"sizeNullifiers", "resizeNullifiers">>, "resize-nullifier-tree")
      /\ Head(<<"sizeNullifiers", "resizeNullifiers">>) \in Blank
  BY <1>1, <1>2, <1>3, GoalsMet, TwoSteps
<1>7. Program(<<"bootVault">>, "bootstrap-vault") /\ Head(<<"bootVault">>) \in Blank
  BY <1>1, <1>2, GoalsMet, OneStep
<1>8. Program(<<"query">>, "query-nullifier") /\ Head(<<"query">>) \in Blank
  BY <1>1, <1>2, GoalsMet, OneStep
<1>9. Program(<<"bootPool">>, "sponsor-bootstrap") /\ Head(<<"bootPool">>) \in Blank
  BY <1>1, <1>2, GoalsMet, OneStep
<1>10. Program(<<"payIn">>, "sponsor-deposit") /\ Head(<<"payIn">>) \in Blank
  BY <1>1, <1>2, GoalsMet, OneStep
<1>11. Program(<<"payout">>, "sponsor-payout") /\ Head(<<"payout">>) \in Blank
  BY <1>1, <1>2, GoalsMet, OneStep
<1>12. QED BY <1>4, <1>5, <1>6, <1>7, <1>8, <1>9, <1>10, <1>11

LEMMA CommandInv ==
    ASSUME DInv, NEW k \in Clients, Command(k)
    PROVE  DInv'
<1>1. /\ "bootstrap-singletons" \in CommandNames /\ "bootstrap-vault" \in CommandNames
      /\ "resize-registry" \in CommandNames /\ "resize-nullifier-tree" \in CommandNames
      /\ "query-nullifier" \in CommandNames /\ "sponsor-bootstrap" \in CommandNames
      /\ "sponsor-deposit" \in CommandNames /\ "sponsor-payout" \in CommandNames
  BY DEF CommandNames
<1>2. PICK d0 \in Denoms : TRUE
  BY DevnetAssumption
<1>3. CASE Begin(k, BootstrapSteps, [NoJob EXCEPT !.cmd = "bootstrap-singletons"])
  BY <1>1, <1>2, <1>3, SetupPrograms, SetupBegin
<1>4. ASSUME NEW d \in Denoms,
             Begin(k, <<"bootVault">>, [NoJob EXCEPT !.cmd = "bootstrap-vault", !.denom = d])
      PROVE  DInv'
  BY <1>1, <1>4, SetupPrograms, SetupBegin
<1>5. ASSUME NEW d \in Denoms, NEW key \in JointKeys, NEW e \in Epochs,
             Begin(k, <<"register">>, [NoJob EXCEPT !.cmd = "register-keyset",
                                       !.denom = d, !.key = key, !.epoch = e])
      PROVE  DInv'
  BY <1>5, RegisterBegin
<1>6. ASSUME NEW d \in Denoms, NEW c \in Coins, NEW payer \in Payers,
             \/ Begin(k, RefreshSteps(payer), [Spend(c, d) EXCEPT !.cmd = "refresh"])
             \/ Begin(k, WithdrawSteps(payer), [Spend(c, d) EXCEPT !.cmd = "withdraw"])
      PROVE  DInv'
  <2>1. payer \in {"sponsor", "ephemeral", "pool"} /\ c \in Coins \cup {None}
    BY DevnetAssumption, Zenon
  <2>2. QED BY <1>6, <2>1, SpendBegin
<1>7. ASSUME NEW d \in Denoms,
             Begin(k, PrivateTxSteps, [Spend(None, d) EXCEPT !.cmd = "private-tx-demo"])
      PROVE  DInv'
  <2>1. "pool" \in {"sponsor", "ephemeral", "pool"} /\ None \in Coins \cup {None}
    BY Zenon
  <2>2. QED BY <1>7, <2>1, SpendBegin
<1>8. ASSUME NEW d \in Denoms, NEW payer \in DemoPayers,
             \/ Begin(k, AlicePaysBobSteps(payer), [Spend(None, d) EXCEPT !.cmd = "alice-pays-bob"])
             \/ Begin(k, BobWithdrawsSteps(payer), [Spend(None, d) EXCEPT !.cmd = "bob-withdraws"])
      PROVE  DInv'
  <2>1. payer \in {"sponsor", "ephemeral", "pool"} /\ None \in Coins \cup {None}
    BY DevnetAssumption, Zenon
  <2>2. QED BY <1>8, <2>1, SpendBegin
<1>9. ASSUME NEW s \in Sizes,
             \/ Begin(k, <<"sizeRegistry", "resizeRegistry">>,
                      [NoJob EXCEPT !.cmd = "resize-registry", !.size = s])
             \/ Begin(k, <<"sizeNullifiers", "resizeNullifiers">>,
                      [NoJob EXCEPT !.cmd = "resize-nullifier-tree", !.size = s])
      PROVE  DInv'
  BY <1>1, <1>2, <1>9, SetupPrograms, SetupBegin
<1>10. ASSUME NEW c \in Coins,
              Begin(k, <<"query">>, [NoJob EXCEPT !.cmd = "query-nullifier", !.coin = c])
       PROVE  DInv'
  BY <1>1, <1>2, <1>10, SetupPrograms, SetupBegin
<1>11. CASE Begin(k, <<"bootPool">>, [NoJob EXCEPT !.cmd = "sponsor-bootstrap"])
  BY <1>1, <1>2, <1>11, SetupPrograms, SetupBegin
<1>12. CASE Begin(k, <<"payIn">>, [NoJob EXCEPT !.cmd = "sponsor-deposit"])
  BY <1>1, <1>2, <1>12, SetupPrograms, SetupBegin
<1>13. CASE Begin(k, <<"payout">>, [NoJob EXCEPT !.cmd = "sponsor-payout"])
  BY <1>1, <1>2, <1>13, SetupPrograms, SetupBegin
<1>14. QED
  BY <1>3, <1>4, <1>5, <1>6, <1>7, <1>8, <1>9, <1>10, <1>11, <1>12, <1>13 DEF Command

-----------------------------------------------------------------------------
(***************************************************************************)
(* Transactions that land, of clients and of others                        *)
(***************************************************************************)
\* While nobody changes the chain, what was read is so.
LEMMA SameChain ==
    ASSUME ChainInv, chain' = chain
    PROVE  KnownKept(World, World')
<1>1. registry' = registry /\ nullifiers' = nullifiers /\ lamports' = lamports
  BY DEF chain
<1>2. \A d \in Denoms : lamports[Vault(d)] \in Nat
  BY ChainTypes, AccountsDistinct DEF ChainInv
<1>3. QED BY <1>1, <1>2, KeysKept, WorldFields, WorldFieldsNext DEF KnownKept

\* A coin whose spend is done, or reported, is on the chain.
LEMMA ClaimSpent ==
    ASSUME IInv, NEW step \in {"refresh", "withdraw"}, NEW job \in Job, Done(World, step, job)
    PROVE  Nullifier[job.coin] \in nullifiers
<1>1. melted \subseteq nullifiers /\ cashed[job.denom] \subseteq nullifiers
  BY ChainTypes, JobFields
<1>2. QED BY <1>1, WorldFields DEF Done

LEMMA ReportSpent ==
    ASSUME IInv, NEW r \in ReportType, ReportTrue(World, r), IsSpend(r)
    PROVE  Nullifier[r.job.coin] \in nullifiers
<1>1. r.job \in Job
  BY DEF ReportType
<1>2. melted \subseteq nullifiers /\ cashed[r.job.denom] \subseteq nullifiers
  BY <1>1, ChainTypes, JobFields
<1>3. QED BY <1>2, WorldFields DEF ReportTrue, IsSpend

\* A transaction of run lands; the clients of told, at most one, see it.
LEMMA LearnInv ==
    ASSUME DInv, ChainInv', GrowsTo(World, World'),
           NEW run \in Nat, NEW told \in SUBSET Clients,
           \A k \in Clients : client'[k].sent = IF k \in told THEN "landed" ELSE client[k].sent,
           \A k \in Clients :
              client'[k].stale = (client[k].stale \/ (client[k].run \notin {0, run} /\ chain' # chain)),
           \A k \in Clients : /\ client'[k].run = client[k].run
                              /\ client'[k].todo = client[k].todo
                              /\ client'[k].job = client[k].job,
           client' \in [Clients -> ClientType],
           \A k \in told : /\ client[k].sent = "sent"
                           /\ Done(World', Head(client[k].todo), client[k].job)
                           /\ Head(client[k].todo) \in {"refresh", "withdraw"} =>
                                 Nullifier[client[k].job.coin] \notin nullifiers
                           /\ \A tx \in network' :
                                 tx.run = client[k].run => tx.step = "tryVault",
           \A j, k \in told : j = k,
           \A k \in Clients \ told :
              client[k].run = run /\ run # 0 => KnownKept(World, World'),
           network' \subseteq network, reports' = reports, runs' = runs,
           pool' \in Nat, others' \in 0..MaxOthers
    PROVE  DInv'
<1>0. /\ ChainInv /\ ClientInv /\ NetworkInv /\ RunsInv /\ ReportInv /\ ClaimInv /\ CountInv
      /\ IInv
  BY DEF DInv, ChainInv
<1>1. \A k \in Clients : Shape(client[k]) /\ Facts(World, client[k]) /\ client[k] \in ClientType
  BY <1>0 DEF ClientInv
<1>2. ASSUME NEW k \in Clients PROVE Shape(client'[k])
  <2>1. client'[k] \in ClientType
    OBVIOUS
  <2>2. CASE client[k].run = 0 /\ client[k].todo = <<>> /\ client[k].sent = "no"
    <3>1. k \notin told
      BY <2>2
    <3>2. QED BY <2>1, <2>2, <3>1 DEF Shape
  <2>3. CASE /\ client[k].run # 0
             /\ Program(client[k].todo, client[k].job.cmd)
             /\ client[k].sent # "no" => Head(client[k].todo) \in TxSteps
    <3>1. k \in told => client[k].sent # "no"
      OBVIOUS
    <3>2. QED BY <2>1, <2>3, <3>1 DEF Shape
  <2>4. QED BY <1>1, <2>2, <2>3 DEF Shape
<1>3. ASSUME NEW k \in Clients, client[k].run # 0 PROVE Facts(World', client'[k])
  <2>1. client[k].job \in Job
    BY <1>1 DEF ClientType
  <2>2. Prepared(World, Head(client[k].todo), client[k].job)
    BY <1>1, <1>3 DEF Facts
  <2>3. Prepared(World', Head(client[k].todo), client[k].job)
    BY <2>1, <2>2, PreparedGrows
  <2>4. CASE k \in told
    BY <2>3, <2>4 DEF Facts
  <2>5. CASE k \notin told
    <3>1. client[k].sent = "landed" => Done(World', Head(client[k].todo), client[k].job)
      BY <1>1, <1>3, <2>1, DoneGrows DEF Facts
    <3>2. ASSUME client[k].sent # "landed", ~client'[k].stale
          PROVE  Known(World', Head(client[k].todo), client[k].job)
      <4>1. ~client[k].stale /\ (client[k].run = run \/ chain' = chain)
        BY <1>3, <3>2
      <4>2. KnownKept(World, World')
        BY <1>0, <1>3, <2>5, <4>1, SameChain
      <4>3. Known(World, Head(client[k].todo), client[k].job)
        BY <1>1, <1>3, <3>2, <4>1 DEF Facts
      <4>4. QED BY <2>1, <4>2, <4>3, KnownStays
    <3>3. client'[k].sent = client[k].sent
      BY <2>5
    <3>4. QED BY <2>3, <3>1, <3>2, <3>3 DEF Facts
  <2>6. QED BY <2>4, <2>5
<1>4. ClientInv'
  <2>1. ASSUME NEW k \in Clients PROVE Facts(World', client'[k])
    BY <1>3 DEF Facts
  <2>2. QED BY <1>2, <2>1 DEF ClientInv
<1>5. NetworkInv'
  <2>1. ASSUME NEW tx \in network', NEW k \in Clients PROVE Awaited(tx, client'[k])
    <3>1. CASE k \in told
      BY <3>1 DEF Awaited
    <3>2. CASE k \notin told
      <4>1. Awaited(tx, client[k]) /\ client'[k].sent = client[k].sent
        BY <1>0, <3>2 DEF NetworkInv
      <4>2. QED BY <4>1 DEF Awaited
    <3>3. QED BY <3>1, <3>2
  <2>2. QED BY <1>0, <2>1 DEF NetworkInv
<1>6. RunsInv'
  BY <1>0 DEF RunsInv
<1>7. ReportInv'
  <2>1. ASSUME NEW r \in reports PROVE ReportTrue(World', r)
    BY <1>0, ReportGrows DEF ReportInv
  <2>2. QED BY <1>0, <2>1 DEF ReportInv
<1>8. ClaimInv'
  <2>1. \A k \in Clients : Claims(client'[k]) => k \in told \/ Claims(client[k])
    BY DEF Claims
  <2>2. ASSUME NEW k \in told, Claims(client'[k])
        PROVE  Nullifier[client[k].job.coin] \notin nullifiers
    BY <2>2 DEF Claims
  <2>3. ASSUME NEW k \in Clients, Claims(client[k])
        PROVE  Nullifier[client[k].job.coin] \in nullifiers
    <3>1. /\ client[k].job \in Job /\ Head(client[k].todo) \in {"refresh", "withdraw"}
          /\ Done(World, Head(client[k].todo), client[k].job)
      BY <1>1, <2>3 DEF Claims, Facts, ClientType
    <3>2. QED BY <1>0, <3>1, ClaimSpent
  <2>4. ASSUME NEW r \in reports, IsSpend(r) PROVE Nullifier[r.job.coin] \in nullifiers
    BY <1>0, <2>4, ReportSpent DEF ReportInv
  <2>5. \A r \in reports, k \in Clients :
           IsSpend(r) /\ Claims(client'[k]) => r.job.coin # client'[k].job.coin
    BY <1>0, <2>1, <2>2, <2>4 DEF ClaimInv
  <2>6. \A j, k \in Clients :
           Claims(client'[j]) /\ Claims(client'[k]) /\ client'[j].job.coin = client'[k].job.coin
               => j = k
    BY <1>0, <2>1, <2>2, <2>3 DEF ClaimInv
  <2>7. QED BY <1>0, <2>5, <2>6 DEF ClaimInv
<1>9. CountInv'
  BY <1>0 DEF CountInv
<1>10. QED BY <1>4, <1>5, <1>6, <1>7, <1>8, <1>9 DEF DInv

LEMMA LearnFields ==
    ASSUME NEW k \in Clients, client[k] \in ClientType, NEW run, NEW told \in BOOLEAN,
           NEW c, c = Learns(k, run, told)
    PROVE  /\ c \in ClientType
           /\ c.run = client[k].run /\ c.todo = client[k].todo /\ c.job = client[k].job
           /\ c.sent = IF client[k].sent = "sent" /\ told THEN "landed" ELSE client[k].sent
           /\ c.stale = (client[k].stale \/ (client[k].run \notin {0, run} /\ chain' # chain))
<1> DEFINE sent == IF client[k].sent = "sent" /\ told THEN "landed" ELSE client[k].sent
           stale == client[k].stale \/ (client[k].run \notin {0, run} /\ chain' # chain)
<1>1. c = [client[k] EXCEPT !.sent = sent, !.stale = stale]
  BY DEF Learns
<1>2. sent \in {"no", "sent", "landed"}
  BY DEF ClientType
<1>3. stale \in BOOLEAN
  BY DEF ClientType
<1>4. /\ sent = IF client[k].sent = "sent" /\ told THEN "landed" ELSE client[k].sent
      /\ stale = (client[k].stale \/ (client[k].run \notin {0, run} /\ chain' # chain))
  OBVIOUS
<1> HIDE DEF sent, stale
<1>5. /\ c \in ClientType /\ c.sent = sent /\ c.stale = stale
      /\ c.run = client[k].run /\ c.todo = client[k].todo /\ c.job = client[k].job
  BY <1>1, <1>2, <1>3 DEF ClientType
<1>6. QED BY <1>4, <1>5

LEMMA DropInv ==
    ASSUME DInv, NEW tx \in network, Drop(tx)
    PROVE  DInv'
<1>1. /\ network' \subseteq network /\ UNCHANGED vars
      /\ UNCHANGED <<client, reports, pool, runs, others>>
  BY DEF Drop
<1>2. ChainInv' /\ World' = World
  BY <1>1, Quiet DEF DInv
<1>3. ClientInv' /\ RunsInv' /\ ReportInv' /\ ClaimInv' /\ CountInv'
  BY <1>1, <1>2 DEF DInv, ClientInv, RunsInv, ReportInv, ClaimInv, CountInv
<1>4. NetworkInv'
  BY <1>1 DEF DInv, NetworkInv
<1>5. QED BY <1>2, <1>3, <1>4 DEF DInv

LEMMA OthersInv ==
    ASSUME DInv, Others
    PROVE  DInv'
<1>1. /\ others < MaxOthers /\ others' = others + 1
      /\ client' = [k \in Clients |-> Learns(k, 0, FALSE)]
      /\ UNCHANGED <<network, reports, pool, runs>>
  BY DEF Others
<1>2. ChainInv' /\ Grows
  <2>1. CASE \E o \in Offers : RegisterKeyset(o)
    <3>1. PICK o \in Offers : RegisterKeyset(o)
      BY <2>1
    <3>2. o.keyset_id \in KeysetIds /\ o.denom \in Denoms /\ o.joint_pk \in JointKeys /\ o.epoch \in Nat
      BY OffersAssumption DEF KeysetIds
    <3>3. QED BY <3>1, <3>2, RegisterKeysetGrows DEF DInv
  <2>2. CASE \E id \in KeysetIds : Revoke(id)
    BY <2>2, RevokeGrows DEF DInv
  <2>3. CASE \E a \in PDAs, n \in Amounts : Transfer(a, n)
    <3>1. PICK a \in PDAs, n \in Amounts : Transfer(a, n)
      BY <2>3
    <3>2. n \in Nat
      BY DenomsAssumption
    <3>3. QED BY <3>1, <3>2, TransferGrows DEF DInv
  <2>4. QED BY <2>1, <2>2, <2>3 DEF Others
<1>3. GrowsTo(World, World')
  BY <1>2, WorldGrows
<1>4. ASSUME NEW k \in Clients
      PROVE  /\ client'[k] \in ClientType
             /\ client'[k].run = client[k].run /\ client'[k].todo = client[k].todo
             /\ client'[k].job = client[k].job /\ client'[k].sent = client[k].sent
             /\ client'[k].stale =
                   (client[k].stale \/ (client[k].run \notin {0, 0} /\ chain' # chain))
  <2>1. PICK told \in BOOLEAN : told = FALSE
    OBVIOUS
  <2>2. client[k] \in ClientType /\ client'[k] = Learns(k, 0, told)
    BY <1>1, <2>1 DEF DInv, ClientInv
  <2> DEFINE c == client'[k]
  <2>3. c = Learns(k, 0, told)
    BY <2>2
  <2> HIDE DEF c
  <2>4. /\ c \in ClientType
        /\ c.run = client[k].run /\ c.todo = client[k].todo /\ c.job = client[k].job
        /\ c.sent = IF client[k].sent = "sent" /\ told THEN "landed" ELSE client[k].sent
        /\ c.stale = (client[k].stale \/ (client[k].run \notin {0, 0} /\ chain' # chain))
    BY <2>2, <2>3, LearnFields
  <2>5. QED BY <2>1, <2>4 DEF c
<1>5. client' \in [Clients -> ClientType]
  BY <1>1, <1>4
<1>6. pool' \in Nat /\ others' \in 0..MaxOthers
  BY <1>1, DevnetAssumption DEF DInv, CountInv
<1> DEFINE told == {j \in Clients : FALSE}
<1>7. told \in SUBSET Clients /\ \A k \in Clients : k \notin told
  OBVIOUS
<1> HIDE DEF told
<1>8. \A k \in Clients :
         /\ client'[k].sent = IF k \in told THEN "landed" ELSE client[k].sent
         /\ client'[k].stale = (client[k].stale \/ (client[k].run \notin {0, 0} /\ chain' # chain))
  BY <1>4, <1>7
<1>9. QED BY <1>1, <1>2, <1>3, <1>4, <1>5, <1>6, <1>7, <1>8, LearnInv

\* A transaction around the sponsor pool changes its balance only.
LEMMA PoolStays ==
    ASSUME DInv, NEW step, ExecuteOutside(step)
    PROVE  pool' \in Nat
<1>1. pool \in Nat /\ PayerLamports \in Nat /\ PoolRent \in Nat
  BY DevnetAssumption DEF DInv, CountInv
<1>2. QED BY <1>1 DEF ExecuteOutside

LEMMA LandInv ==
    ASSUME DInv, NEW tx \in network, Land(tx)
    PROVE  DInv'
<1>0. /\ ChainInv /\ ClientInv /\ NetworkInv /\ RunsInv /\ CountInv
      /\ \A k \in Clients : Shape(client[k]) /\ client[k] \in ClientType
  BY DEF DInv, ClientInv
<1>1. /\ network' = network \ {tx} /\ UNCHANGED <<reports, runs, others>>
      /\ client' = [k \in Clients |-> Learns(k, tx.run, client[k].todo # <<>> /\ Tx(k) = tx)]
      /\ \/ ExecuteOnChain(tx.step, tx.job) /\ UNCHANGED pool
         \/ ExecuteOutside(tx.step) /\ UNCHANGED vars
  BY DEF Land, OutsideOnly
<1>2. /\ tx \in TxType /\ tx.job \in Job /\ tx.run \in Nat /\ tx.run # 0
      /\ tx.step = "register" => tx.job.key \in JointKeys
      /\ \A k \in Clients : Awaited(tx, client[k])
  BY <1>0 DEF NetworkInv, TxType
<1>3. /\ ChainInv' /\ GrowsTo(World, World') /\ Done(World', tx.step, tx.job)
      /\ tx.step = "tryVault" => KnownKept(World, World')
      /\ tx.step \in {"refresh", "withdraw"} => Nullifier[tx.job.coin] \notin nullifiers
      /\ pool' \in Nat
  <2>1. CASE ExecuteOnChain(tx.step, tx.job) /\ UNCHANGED pool
    BY <1>0, <1>2, <2>1, Executed, WorldGrows DEF CountInv
  <2>2. CASE ExecuteOutside(tx.step) /\ UNCHANGED vars
    <3>1. tx.step \in {"fund", "payout", "payIn", "bootPool"}
      BY <2>2 DEF ExecuteOutside
    <3>2. ChainInv' /\ UNCHANGED <<registry, nullifiers, alloc, lamports, melted, cashed>>
      BY <1>0, <2>2, Quiet DEF vars, chain, history
    <3>3. GrowsTo(World, World')
      BY <1>0, <3>2, QuietGrows, WorldGrows
    <3>4. Done(World', tx.step, tx.job)
      BY <3>1 DEF Done
    <3>5. pool' \in Nat
      BY <2>2, PoolStays
    <3>6. QED BY <3>1, <3>2, <3>3, <3>4, <3>5
  <2>3. QED BY <1>1, <2>1, <2>2
<1> DEFINE told == {k \in Clients : client[k].sent = "sent" /\ client[k].todo # <<>> /\ Tx(k) = tx}
<1>4. ASSUME NEW k \in Clients
      PROVE  /\ client'[k] \in ClientType
             /\ client'[k].run = client[k].run /\ client'[k].todo = client[k].todo
             /\ client'[k].job = client[k].job
             /\ client'[k].sent = IF k \in told THEN "landed" ELSE client[k].sent
             /\ client'[k].stale =
                   (client[k].stale \/ (client[k].run \notin {0, tx.run} /\ chain' # chain))
  <2> DEFINE t == client[k].todo # <<>> /\ Tx(k) = tx
  <2>1. client[k] \in ClientType /\ client'[k] = Learns(k, tx.run, t) /\ t \in BOOLEAN
    BY <1>0, <1>1
  <2>2. k \in told <=> client[k].sent = "sent" /\ t
    OBVIOUS
  <2> HIDE DEF t, told
  <2>3. QED BY <2>1, <2>2, LearnFields
<1>5. client' \in [Clients -> ClientType]
  BY <1>1, <1>4
<1>6. ASSUME NEW k \in told
      PROVE  /\ k \in Clients /\ client[k].sent = "sent" /\ client[k].run = tx.run
             /\ Head(client[k].todo) = tx.step /\ client[k].job = tx.job
  BY DEF Tx
<1>7. told \in SUBSET Clients
  OBVIOUS
<1>8. ASSUME NEW k \in Clients, k \notin told, client[k].run = tx.run
      PROVE  tx.step = "tryVault"
  <2>1. tx = [run |-> tx.run, step |-> tx.step, job |-> tx.job]
    BY <1>2 DEF TxType
  <2>2. client[k].sent = "sent" => client[k].todo # <<>>
    BY <1>0, WaitingRuns
  <2>3. Awaited(tx, client[k])
    BY <1>2
  <2>4. QED BY <1>8, <2>1, <2>2, <2>3 DEF Awaited, Tx
<1> HIDE DEF told
<1>9. \A j, k \in told : j = k
  BY <1>0, <1>2, <1>6 DEF RunsInv
<1>10. ASSUME NEW k \in told, NEW t \in network', t.run = client[k].run
       PROVE  t.step = "tryVault"
  <2>1. t \in TxType /\ Awaited(t, client[k]) /\ t # tx
    BY <1>0, <1>1, <1>6 DEF NetworkInv
  <2>2. /\ t = [run |-> t.run, step |-> t.step, job |-> t.job]
        /\ tx = [run |-> tx.run, step |-> tx.step, job |-> tx.job]
    BY <1>2, <2>1 DEF TxType
  <2>3. QED BY <1>6, <1>10, <2>1, <2>2 DEF Awaited
<1>11. \A k \in told : /\ client[k].sent = "sent"
                       /\ Done(World', Head(client[k].todo), client[k].job)
                       /\ Head(client[k].todo) \in {"refresh", "withdraw"} =>
                             Nullifier[client[k].job.coin] \notin nullifiers
                       /\ \A t \in network' : t.run = client[k].run => t.step = "tryVault"
  BY <1>3, <1>6, <1>10
<1>12. \A k \in Clients \ told : client[k].run = tx.run /\ tx.run # 0 => KnownKept(World, World')
  BY <1>3, <1>8
<1>13. network' \subseteq network /\ reports' = reports /\ runs' = runs /\ others' \in 0..MaxOthers
  BY <1>0, <1>1 DEF CountInv
<1>14. QED BY <1>2, <1>3, <1>4, <1>5, <1>7, <1>9, <1>11, <1>12, <1>13, LearnInv

-----------------------------------------------------------------------------
(***************************************************************************)
(* The chains on which the clients start                                   *)
(***************************************************************************)
LEMMA StartChain == DevnetInit => ChainInv
<1> SUFFICES ASSUME DevnetInit PROVE ChainInv
  OBVIOUS
<1>1. PICK made \in BOOLEAN :
         /\ registry = IF made THEN <<PreparedEntry>> ELSE <<>>
         /\ alloc = [a \in PDAs |->
               IF ~made \/ a \in Vaults THEN 0
               ELSE IF a = Registry THEN RegistrySize ELSE NullifierSize]
         /\ lamports = [a \in Accounts |->
               IF a = Outside THEN Supply
               ELSE IF made THEN CASE a = Registry -> Rent(RegistrySize)
                                   [] a = NullifierTree -> Rent(NullifierSize)
                                   [] OTHER -> Rent(0) + NoJob.denom
               ELSE 0]
         /\ signed = IF made THEN {<<PreparedCoin, PreparedKey>>} ELSE {}
         /\ received = [d \in Denoms |-> IF made THEN CASE Vault(d) = Registry -> Rent(RegistrySize)
                                   [] Vault(d) = NullifierTree -> Rent(NullifierSize)
                                   [] OTHER -> Rent(0) + NoJob.denom ELSE 0]
  BY DEF DevnetInit
<1>2. /\ nullifiers = {} /\ melted = {} /\ cashed = [d \in Denoms |-> {}]
      /\ credits = [d \in Denoms |-> 0]
  BY DEF DevnetInit
<1>3. /\ RegistrySize \in 0..BOOTSTRAP_MAX_SIZE /\ NullifierSize \in 0..BOOTSTRAP_MAX_SIZE
      /\ RegistrySize > 0 /\ NullifierSize > 0 /\ RegistryBytes(1) <= RegistrySize
      /\ 0 \in 0..BOOTSTRAP_MAX_SIZE
  BY DevnetAssumption, SizesAssumption DEF RegistryBytes
<1>4. /\ Rent(RegistrySize) \in Nat /\ Rent(NullifierSize) \in Nat /\ Rent(0) \in Nat
      /\ Rent(RegistrySize) > 0 /\ Rent(NullifierSize) > 0 /\ Supply \in Nat
      /\ NoJob.denom \in Nat
  <2>1. /\ Rent(RegistrySize) \in Nat \ {0} /\ Rent(NullifierSize) \in Nat \ {0}
        /\ Rent(0) \in Nat \ {0}
    <3>1. \A s \in 0..BOOTSTRAP_MAX_SIZE : Rent(s) \in Nat \ {0}
      BY SizesAssumption
    <3>2. QED BY <1>3, <3>1, Zenon
  <2>2. Supply \in Nat
    BY BoundsAssumption
  <2>3. NoJob.denom \in Nat
    BY NoJobTyped, DenomsAssumption
  <2>4. QED BY <2>1, <2>2, <2>3
<1> DEFINE n == Rent(0) + NoJob.denom
<1>5. n \in Nat
  BY <1>4
<1>6. /\ \A d \in Denoms : Vault(d) # Registry /\ Vault(d) # NullifierTree /\ Vault(d) # Outside
      /\ Registry \notin Vaults /\ NullifierTree \notin Vaults
      /\ Registry # Outside /\ NullifierTree # Outside /\ Registry # NullifierTree
      /\ Registry \in PDAs /\ NullifierTree \in PDAs
      /\ \A d \in Denoms : Vault(d) \in PDAs /\ Vault(d) \in Vaults
      /\ PDAs \subseteq Accounts
  BY AccountsDistinct DEF DataAccounts
<1>7. /\ \A d \in Denoms : alloc[Vault(d)] = 0 /\ lamports[Vault(d)] = received[d]
      /\ alloc[Registry] = IF made THEN RegistrySize ELSE 0
      /\ alloc[NullifierTree] = IF made THEN NullifierSize ELSE 0
      /\ lamports[Registry] = IF made THEN Rent(RegistrySize) ELSE 0
      /\ lamports[NullifierTree] = IF made THEN Rent(NullifierSize) ELSE 0
  BY <1>1, <1>6
<1>8. PreparedEntry \in KeysetEntry
  BY DevnetAssumption, NoJobTyped DEF PreparedEntry, KeysetEntry
<1>9. registry \in Seq(KeysetEntry) /\ (~made => registry = <<>>) /\ (made => Len(registry) = 1)
  BY <1>1, <1>8
<1>10. TypeOK
  <2>1. alloc \in [PDAs -> 0..BOOTSTRAP_MAX_SIZE]
    BY <1>1, <1>3
  <2>2. lamports \in [Accounts -> Nat]
    BY <1>1, <1>4, <1>5
  <2>3. received \in [Denoms -> Nat]
    BY <1>1, <1>4, <1>5
  <2>4. signed \in SUBSET (Coins \X JointKeys)
    BY <1>1, DevnetAssumption
  <2>5. QED BY <1>2, <1>9, <2>1, <2>2, <2>3, <2>4 DEF TypeOK
<1>11. IsFiniteSet(nullifiers) /\ Cardinality({}) = 0
  BY <1>2, FS_EmptySet
<1>12. IdsUnique
  BY <1>1 DEF IdsUnique
<1>13. StorageSound
  <2>1. registry # <<>> => RegistryBytes(Len(registry)) <= alloc[Registry]
    BY <1>3, <1>7, <1>9
  <2>2. \A a \in DataAccounts : alloc[a] > 0 => lamports[a] >= Rent(alloc[a])
    BY <1>3, <1>4, <1>7 DEF DataAccounts
  <2>3. QED BY <1>2, <1>7, <2>1, <2>2 DEF StorageSound
<1>14. OneUse
  BY <1>2 DEF OneUse
<1>15. ValueConserved
  <2>1. ASSUME NEW d \in Denoms PROVE lamports[Vault(d)] + d * Cardinality(cashed[d]) = received[d]
    <3>1. cashed[d] = {} /\ d \in Nat /\ received[d] \in Nat
      BY <1>2, <1>10, DenomsAssumption DEF TypeOK
    <3>2. d * Cardinality(cashed[d]) = 0
      BY <1>11, <3>1
    <3>3. QED BY <1>7, <3>1, <3>2
  <2>2. QED BY <2>1 DEF ValueConserved
<1>16. QED BY <1>10, <1>11, <1>12, <1>13, <1>14, <1>15 DEF ChainInv, IInv

LEMMA StartDInv == DevnetInit => DInv
<1> SUFFICES ASSUME DevnetInit PROVE DInv
  OBVIOUS
<1>1. ChainInv
  BY StartChain
<1>2. /\ client = [k \in Clients |-> Idle] /\ network = {} /\ reports = {}
      /\ pool = 0 /\ runs = 0 /\ others = 0
  BY DEF DevnetInit
<1>3. Idle \in ClientType /\ Shape(Idle) /\ Facts(World, Idle) /\ ~Claims(Idle) /\ Idle.run = 0
  BY IdleShape DEF Shape, Idle
<1>4. \A k \in Clients : client[k] = Idle
  BY <1>2
<1>5. ClientInv
  BY <1>2, <1>3, <1>4 DEF ClientInv
<1>6. NetworkInv /\ ReportInv
  BY <1>2 DEF NetworkInv, ReportInv
<1>7. RunsInv
  BY <1>2, <1>3, <1>4 DEF RunsInv
<1>8. ClaimInv
  BY <1>2, <1>3, <1>4 DEF ClaimInv
<1>9. CountInv
  BY <1>2, DevnetAssumption DEF CountInv
<1>10. QED BY <1>1, <1>5, <1>6, <1>7, <1>8, <1>9 DEF DInv

-----------------------------------------------------------------------------
(***************************************************************************)
(* The theorems                                                            *)
(***************************************************************************)
LEMMA StepDInv ==
    ASSUME DInv, NEW k \in Clients, Step(k)
    PROVE  DInv'
<1>1. CASE ReadRegistry(k)
  BY <1>1, ReadRegistryInv
<1>2. CASE ReadNullifiers(k)
  BY <1>2, ReadNullifiersInv
<1>3. CASE ReadVault(k)
  BY <1>3, ReadVaultInv
<1>4. CASE ReadSize(k)
  BY <1>4, ReadSizeInv
<1>5. CASE Query(k)
  BY <1>5, QueryInv
<1>6. CASE SkipBootstrap(k)
  BY <1>6, SkipBootstrapInv
<1>7. CASE RunCommittee(k)
  BY <1>7, RunCommitteeInv
<1>8. CASE IssueCoin(k)
  BY <1>8, IssueCoinInv
<1>9. CASE SwapCoin(k)
  BY <1>9, SwapCoinInv
<1>10. CASE Submit(k)
  BY <1>10, SubmitInv
<1>11. CASE Confirmed(k)
  BY <1>11, ConfirmedInv
<1>12. CASE PoolExists(k)
  BY <1>12, PoolExistsInv
<1>13. CASE Fail(k)
  BY <1>13, FailInv
<1>14. QED
  BY <1>1, <1>2, <1>3, <1>4, <1>5, <1>6, <1>7, <1>8, <1>9, <1>10, <1>11, <1>12, <1>13 DEF Step

LEMMA NextDInv == DInv /\ [DevnetNext]_devnetVars => DInv'
<1> SUFFICES ASSUME DInv, [DevnetNext]_devnetVars PROVE DInv'
  OBVIOUS
<1>1. ASSUME NEW k \in Clients, Command(k) PROVE DInv'
  BY <1>1, CommandInv
<1>2. ASSUME NEW k \in Clients, Step(k) PROVE DInv'
  BY <1>2, StepDInv
<1>3. ASSUME NEW tx \in network, Land(tx) PROVE DInv'
  BY <1>3, LandInv
<1>4. ASSUME NEW tx \in network, Drop(tx) PROVE DInv'
  BY <1>4, DropInv
<1>5. CASE Others
  BY <1>5, OthersInv
<1>6. CASE UNCHANGED devnetVars
  <2>1. UNCHANGED vars /\ UNCHANGED <<client, network, reports, pool, runs, others>>
    BY <1>6 DEF devnetVars, clients
  <2>2. ChainInv' /\ World' = World
    BY <2>1, Quiet DEF DInv
  <2>3. ClientInv' /\ NetworkInv' /\ RunsInv' /\ ReportInv' /\ ClaimInv' /\ CountInv'
    BY <2>1, <2>2 DEF DInv, ClientInv, NetworkInv, RunsInv, ReportInv, ClaimInv, CountInv
  <2>4. QED BY <2>2, <2>3 DEF DInv
<1>7. QED BY <1>1, <1>2, <1>3, <1>4, <1>5, <1>6 DEF DevnetNext

LEMMA DevnetInvariant == DevnetSpec => []DInv
<1>1. DInv /\ [DevnetNext]_devnetVars => DInv'
  BY NextDInv
<1>2. QED BY <1>1, StartDInv, PTL DEF DevnetSpec

\* Types, and: a client waits for a transaction only at a step that sends one,
\* and one that runs nothing has nothing left to do.
THEOREM DevnetTypeCorrect == DevnetSpec => []DevnetTypeOK
<1>1. DInv => DevnetTypeOK
  <2> SUFFICES ASSUME DInv PROVE DevnetTypeOK
    OBVIOUS
  <2>1. TypeOK
    BY DEF DInv, ChainInv, IInv
  <2>2. ASSUME NEW k \in Clients
        PROVE  /\ client[k].run \in 0..runs
               /\ client[k].job \in Job
               /\ client[k].sent \in {"no", "sent", "landed"}
               /\ client[k].sent # "no" => Tx(k).step \in TxSteps
               /\ (client[k].run = 0) = (client[k].todo = <<>>)
    <3>1. Shape(client[k]) /\ client[k] \in ClientType /\ client[k].run <= runs
      BY DEF DInv, ClientInv, RunsInv
    <3>2. client[k].run \in 0..runs
      BY <3>1, DevnetAssumption DEF DInv, CountInv, ClientType
    <3>3. client[k].run # 0 => client[k].todo # <<>>
      BY <3>1 DEF Shape, Program
    <3>4. client[k].job \in Job /\ client[k].sent \in {"no", "sent", "landed"}
      BY <3>1 DEF ClientType
    <3>5. QED BY <3>1, <3>2, <3>3, <3>4 DEF Shape, Tx
  <2>3. \A tx \in network : tx.step \in TxSteps /\ tx.job \in Job
    BY DEF DInv, NetworkInv, TxType
  <2>4. ASSUME NEW r \in reports PROVE r.run \in 1..runs /\ r.job \in Job /\ r.result \in Results
    <3>1. r \in ReportType /\ r.run <= runs /\ runs \in Nat
      BY DevnetAssumption DEF DInv, ReportInv, RunsInv, CountInv
    <3>2. r.run \in Nat \ {0} /\ r.job \in Job /\ r.result \in Results
      BY <3>1 DEF ReportType
    <3>3. QED BY <3>1, <3>2
  <2>5. pool \in Nat /\ runs \in 0..MaxRuns /\ others \in 0..MaxOthers
    BY DEF DInv, CountInv
  <2>6. QED BY <2>1, <2>2, <2>3, <2>4, <2>5 DEF DevnetTypeOK
<1>2. QED BY <1>1, DevnetInvariant, PTL

\* What a spend tells its user is so, and only one command is ever told OK for
\* a coin: refresh_full, withdraw, the demos and the GUI's withdrawal, with any
\* number of them at once, transactions landing late or not at all, and
\* commands run again after an error.
THEOREM DevnetSpendReportsTrue == DevnetSpec => []SpendReportsTrue
<1>1. DInv => SpendReportsTrue
  <2> SUFFICES ASSUME DInv PROVE SpendReportsTrue
    OBVIOUS
  <2>1. \A r \in reports : ReportTrue(World, r)
    BY DEF DInv, ReportInv
  <2>2. \A r \in Spends : r \in reports /\ IsSpend(r)
    BY DEF Spends, IsSpend
  <2>3. \A r \in Spends : IF r.job.cmd \in CashCommands
                          THEN Nullifier[r.job.coin] \in cashed[r.job.denom]
                          ELSE Nullifier[r.job.coin] \in melted
    BY <2>1, <2>2, WorldFields DEF ReportTrue, IsSpend
  <2>4. \A r, s \in Spends : r.job.coin = s.job.coin => r = s
    BY <2>2 DEF DInv, ClaimInv
  <2>5. \A r \in reports :
           r.result \in {"double-spend", "spent"} => Nullifier[r.job.coin] \in nullifiers
    BY <2>1, WorldFields DEF ReportTrue
  <2>6. QED BY <2>3, <2>4, <2>5 DEF SpendReportsTrue
<1>2. QED BY <1>1, DevnetInvariant, PTL

\* What bootstrap_singletons, register_keyset and the resize commands were to
\* see to is there once they have said OK, and stays: no singleton was passed
\* over, the account has the size asked for, the key is registered, also when
\* another run did it and whatever others send to the program's addresses.
THEOREM DevnetSetupReportsTrue == DevnetSpec => []SetupReportsTrue
<1>1. DInv => SetupReportsTrue
  <2> SUFFICES ASSUME DInv PROVE SetupReportsTrue
    OBVIOUS
  <2>1. \A r \in reports : ReportTrue(World, r)
    BY DEF DInv, ReportInv
  <2>2. ASSUME NEW r \in reports, r.result = "ok"
        PROVE  /\ r.job.cmd = "bootstrap-singletons" => \A a \in DataAccounts : lamports[a] > 0
               /\ r.job.cmd = "resize-registry" => alloc[Registry] >= r.job.size
               /\ r.job.cmd = "resize-nullifier-tree" => alloc[NullifierTree] >= r.job.size
               /\ r.job.cmd = "register-keyset" =>
                     \E i \in DOMAIN registry : registry[i].joint_pk = r.job.key
    BY <2>1, <2>2, WorldFields DEF ReportTrue, DataAccounts
  <2>3. QED BY <2>2 DEF SetupReportsTrue
<1>2. QED BY <1>1, DevnetInvariant, PTL

\* The pre-flight checks of a spend agree with the program's as long as nobody
\* else changes the chain, and the top-up of a resize is enough whatever others
\* have done since it was computed.
THEOREM DevnetPreflightSound == DevnetSpec => []PreflightSound
<1>1. DInv => PreflightSound
  <2> SUFFICES ASSUME DInv PROVE PreflightSound
    OBVIOUS
  <2>1. ASSUME NEW k \in Clients, client[k].sent = "sent"
        PROVE  /\ Tx(k).step = Head(client[k].todo) /\ client[k].job \in Job
               /\ Prepared(World, Head(client[k].todo), client[k].job)
               /\ ~client[k].stale => Known(World, Head(client[k].todo), client[k].job)
    <3>1. client[k].todo # <<>>
      BY <2>1, WaitingRuns
    <3>2. Facts(World, client[k]) /\ client[k].run # 0 /\ client[k].job \in Job
      BY <2>1, <3>1, Running DEF DInv, ClientInv
    <3>3. QED BY <2>1, <3>2 DEF Facts, Tx
  <2>2. ASSUME NEW k \in Clients, client[k].sent = "sent",
               Tx(k).step \in {"refresh", "withdraw"}, ~client[k].stale,
               <<client[k].job.coin, client[k].job.key>> \in signed
        PROVE  /\ VerifyCoinForSpend(client[k].job.denom, client[k].job.coin,
                                     <<client[k].job.coin, client[k].job.key>>)
               /\ Nullifier[client[k].job.coin] \notin nullifiers
               /\ Tx(k).step = "withdraw" =>
                     lamports[Vault(client[k].job.denom)] >= client[k].job.denom
    <3>1. /\ client[k].job.key \in World.keys[client[k].job.denom]
          /\ Nullifier[client[k].job.coin] \notin World.spent
          /\ Tx(k).step = "withdraw" =>
                World.held[Vault(client[k].job.denom)] >= client[k].job.denom
          /\ client[k].job.denom \in Denoms
      BY <2>1, <2>2, JobFields DEF Known
    <3>2. client[k].job.key \in KeyForDenom(client[k].job.denom)
      BY <3>1, WorldFields
    <3>3. VerifyCoinForSpend(client[k].job.denom, client[k].job.coin,
                             <<client[k].job.coin, client[k].job.key>>)
      BY <2>2, <3>2 DEF VerifyCoinForSpend, KeyForDenom, VerifyEd25519Precompile
    <3>4. QED BY <3>1, <3>3, WorldFields
  <2>3. ASSUME NEW k \in Clients, client[k].sent = "sent", Tx(k).step \in DOMAIN ResizeSteps
        PROVE  lamports[ResizeSteps[Tx(k).step]] + client[k].job.topup >= Rent(client[k].job.size)
    <3>1. Tx(k).step \in {"resizeRegistry", "resizeNullifiers"}
      BY <2>3 DEF ResizeSteps
    <3>2. /\ Tx(k).step = "resizeRegistry" => ResizeSteps[Tx(k).step] = Registry
          /\ Tx(k).step = "resizeNullifiers" => ResizeSteps[Tx(k).step] = NullifierTree
      BY DEF ResizeSteps
    <3>3. QED BY <2>1, <2>3, <3>1, <3>2, WorldFields DEF Prepared
  <2>4. QED BY <2>2, <2>3 DEF PreflightSound
<1>2. QED BY <1>1, DevnetInvariant, PTL
=============================================================================
