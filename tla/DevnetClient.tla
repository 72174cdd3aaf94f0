---------------------------- MODULE DevnetClient ----------------------------
(***************************************************************************)
(* The commands of `tardus devnet` (crates/tardus-cli) and the withdrawal  *)
(* of the wallet GUI, against the program of TardusProgram.  A command is  *)
(* a list of steps, each one RPC call: a read of an account and what the   *)
(* command makes of it, or a transaction that is sent and waited for.      *)
(* Several clients run at once, a read may be stale when it is used, and a *)
(* transaction whose confirmation does not come may land later all the     *)
(* same.  Accounts other than the program's are Outside; the sponsor pool, *)
(* whose own rules are in SponsorPool, is one balance here.                *)
(***************************************************************************)
EXTENDS TardusProgram

CONSTANTS
    Clients,        \* processes that can run a command at the same time
    None,           \* no coin, no key
    RegistrySize,   \* REGISTRY_SIZE
    NullifierSize,  \* NULLIFIER_SIZE
    ClientRent(_),  \* Rent::default() of the SDK; the program asks the chain (Rent)
    Payers,         \* of "sponsor", "ephemeral", "pool": who pays for a spend
    DemoPayers,     \* the same, in a demo
    PayerLamports,  \* EPHEMERAL_PAYER_LAMPORTS
    PoolRent,       \* rent-exempt minimum of the pool account
    Epochs,         \* epochs given to register_keyset
    DevnetInits,    \* chains on which the clients start: {"bare", "prepared"}
    PreparedKey,    \* the key registered on a prepared chain
    PreparedCoin,   \* a coin signed under it
    MaxRuns,        \* bound on the number of commands run
    MaxOthers       \* bound on the transactions of others

VARIABLES
    client,   \* client[k]: the command k runs and where it is
    network,  \* transactions sent, neither executed nor expired
    reports,  \* what the commands that ended have told their users
    pool,     \* lamports of the sponsor pool, 0 if there is none
    runs,     \* number of commands started
    others    \* number of transactions of others

clients == <<client, network, reports, pool, runs, others>>
devnetVars == <<vars, clients>>

\* The subcommands of `tardus devnet` that touch the chain; "none" when idle.
CommandNames ==
    {"none", "bootstrap-singletons", "bootstrap-vault", "register-keyset", "refresh", "withdraw",
     "private-tx-demo", "alice-pays-bob", "bob-withdraws", "resize-registry",
     "resize-nullifier-tree", "query-nullifier", "sponsor-bootstrap", "sponsor-deposit",
     "sponsor-payout"}

\* What a command works on; key and topup are found by its reads.
Job == [cmd : CommandNames, coin : Coins \cup {None}, denom : Denoms, key : JointKeys \cup {None},
        size : Sizes \cup {0}, topup : Nat, epoch : Nat]

NoJob == [cmd |-> "none", coin |-> None, denom |-> CHOOSE d \in Denoms : TRUE,
          key |-> None, size |-> 0, topup |-> 0, epoch |-> 0]

Idle == [run |-> 0, todo |-> <<>>, job |-> NoJob, sent |-> "no", stale |-> FALSE]

\* keyset_id is 0x02 || joint_pk: one per key.
KeysetId(key) == key

\* Anybody can register any key, a bootstrap asks for sizes the program allows,
\* and the rent of a size asked for is a number.
ASSUME DevnetAssumption ==
    /\ Denoms # {} /\ Epochs \subseteq Nat
    /\ \A key \in JointKeys : KeysetId(key) \in KeysetIds
    /\ PreparedKey \in JointKeys /\ PreparedCoin \in Coins
    /\ RegistrySize \in RegistryBytes(1)..BOOTSTRAP_MAX_SIZE
    /\ NullifierSize \in 1..BOOTSTRAP_MAX_SIZE
    /\ \A s \in Sizes \cup {0} : Rent(s) \in Nat
    /\ Payers \cup DemoPayers \subseteq {"sponsor", "ephemeral", "pool"}
    /\ PayerLamports \in Nat /\ PoolRent \in Nat
    /\ MaxRuns \in Nat /\ MaxOthers \in Nat

\* The cluster charges no more rent than the SDK the client is built with says.
ASSUME ClientRentAssumption ==
    \A s \in Sizes \cup {0} : ClientRent(s) \in Nat /\ ClientRent(s) >= Rent(s)

PreparedEntry ==
    [keyset_id |-> KeysetId(PreparedKey), denom |-> NoJob.denom, joint_pk |-> PreparedKey,
     epoch |-> 1, status |-> "Active"]

\* A prepared chain has the two singletons, one keyset and a vault.
DevnetInit ==
    /\ \E start \in DevnetInits :
          LET made == start = "prepared"
              held(a) == CASE a = Registry -> Rent(RegistrySize)
                           [] a = NullifierTree -> Rent(NullifierSize)
                           [] OTHER -> Rent(0) + NoJob.denom
          IN  /\ registry = IF made THEN <<PreparedEntry>> ELSE <<>>
              /\ alloc = [a \in PDAs |->
                    IF ~made \/ a \in Vaults THEN 0
                    ELSE IF a = Registry THEN RegistrySize ELSE NullifierSize]
              /\ lamports = [a \in Accounts |->
                    IF a = Outside THEN Supply ELSE IF made THEN held(a) ELSE 0]
              /\ signed = IF made THEN {<<PreparedCoin, PreparedKey>>} ELSE {}
              /\ received = [d \in Denoms |-> IF made THEN held(Vault(d)) ELSE 0]
    /\ nullifiers = {}
    /\ melted = {}
    /\ cashed = [d \in Denoms |-> {}]
    /\ credits = [d \in Denoms |-> 0]
    /\ client = [k \in Clients |-> Idle]
    /\ network = {} /\ reports = {}
    /\ pool = 0 /\ runs = 0 /\ others = 0

-----------------------------------------------------------------------------
(***************************************************************************)
(* Programs of the commands                                                *)
(***************************************************************************)

\* The payer of a spend is funded before anything is read.
PayerSteps(payer) ==
    CASE payer = "sponsor" -> <<>>
      [] payer = "ephemeral" -> <<"fund">>
      [] payer = "pool" -> <<"payout">>

\* refresh_full
RefreshSteps(payer) == PayerSteps(payer) \o <<"registry", "nullifiers", "refresh">>

\* withdraw, and withdraw_on_devnet of the GUI
WithdrawSteps(payer) == PayerSteps(payer) \o <<"registry", "nullifiers", "vault", "withdraw">>

\* bootstrap_singletons
BootstrapSteps == <<"bootRegistry", "bootNullifiers">>

\* private_tx_demo
PrivateTxSteps == <<"committee", "register", "issue">> \o RefreshSteps("sponsor")

\* alice_pays_bob_on_devnet
AlicePaysBobSteps(payer) ==
    <<"committee", "register", "issue", "swap">> \o RefreshSteps(payer)

\* alice_pays_bob_and_bob_withdraws; tryVault is bootstrap_vault with its
\* result thrown away.
BobWithdrawsSteps(payer) ==
    <<"committee", "tryVault", "fundVault", "register", "issue">>
        \o WithdrawSteps(payer)

\* Clients are alike: any idle one will do.
Begin(k, steps, job) ==
    /\ client[k] = Idle
    /\ k = CHOOSE j \in Clients : client[j] = Idle
    /\ runs < MaxRuns
    /\ runs' = runs + 1
    /\ client' = [client EXCEPT ![k] =
            [Idle EXCEPT !.run = runs + 1, !.todo = steps, !.job = job]]
    /\ UNCHANGED <<vars, network, reports, pool, others>>

Spend(c, d) == [NoJob EXCEPT !.coin = c, !.denom = d]

\* The user of client k runs a command.
Command(k) ==
    \/ Begin(k, BootstrapSteps, [NoJob EXCEPT !.cmd = "bootstrap-singletons"])
    \/ \E d \in Denoms :
          \/ Begin(k, <<"bootVault">>, [NoJob EXCEPT !.cmd = "bootstrap-vault", !.denom = d])
          \/ \E key \in JointKeys, e \in Epochs :
                Begin(k, <<"register">>, [NoJob EXCEPT !.cmd = "register-keyset",
                                          !.denom = d, !.key = key, !.epoch = e])
          \/ \E c \in Coins, payer \in Payers :
                /\ \E key \in JointKeys : <<c, key>> \in signed
                /\ \/ Begin(k, RefreshSteps(payer), [Spend(c, d) EXCEPT !.cmd = "refresh"])
                   \/ Begin(k, WithdrawSteps(payer), [Spend(c, d) EXCEPT !.cmd = "withdraw"])
          \/ Begin(k, PrivateTxSteps, [Spend(None, d) EXCEPT !.cmd = "private-tx-demo"])
          \/ \E payer \in DemoPayers \ {"sponsor"} :
                Begin(k, AlicePaysBobSteps(payer),
                      [Spend(None, d) EXCEPT !.cmd = "alice-pays-bob"])
          \/ \E payer \in DemoPayers :
                Begin(k, BobWithdrawsSteps(payer),
                      [Spend(None, d) EXCEPT !.cmd = "bob-withdraws"])
    \/ \E s \in Sizes :
          \/ Begin(k, <<"sizeRegistry", "resizeRegistry">>,
                   [NoJob EXCEPT !.cmd = "resize-registry", !.size = s])
          \/ Begin(k, <<"sizeNullifiers", "resizeNullifiers">>,
                   [NoJob EXCEPT !.cmd = "resize-nullifier-tree", !.size = s])
    \/ \E c \in Coins : Begin(k, <<"query">>, [NoJob EXCEPT !.cmd = "query-nullifier", !.coin = c])
    \/ Begin(k, <<"bootPool">>, [NoJob EXCEPT !.cmd = "sponsor-bootstrap"])
    \/ Begin(k, <<"payIn">>, [NoJob EXCEPT !.cmd = "sponsor-deposit"])
    \/ Begin(k, <<"payout">>, [NoJob EXCEPT !.cmd = "sponsor-payout"])

-----------------------------------------------------------------------------
(***************************************************************************)
(* Steps                                                                   *)
(***************************************************************************)
At(k, step) ==
    /\ client[k].todo # <<>>
    /\ Head(client[k].todo) = step
    /\ client[k].sent = "no"

\* Faulty: the wait of the command outlives it.
ReportWaiting(k, result) ==
    /\ client' = [client EXCEPT ![k].todo = <<>>]
    /\ reports' = reports \cup
            {[run |-> client[k].run, job |-> client[k].job, result |-> result]}

\* The command ends and tells its user the result.
Report(k, result) ==
    /\ client' = [client EXCEPT ![k] = Idle]
    /\ reports' = reports \cup
            {[run |-> client[k].run, job |-> client[k].job, result |-> result]}

\* The step is done, with job what is known after it; after the last one the
\* command ends well.
Proceed(k, job) ==
    IF Len(client[k].todo) = 1
    THEN /\ client' = [client EXCEPT ![k] = Idle]
         /\ reports' = reports \cup {[run |-> client[k].run, job |-> job, result |-> "ok"]}
    ELSE /\ client' = [client EXCEPT ![k].todo = Tail(@), ![k].job = job,
                                     ![k].sent = "no"]
         /\ UNCHANGED reports

Offline == UNCHANGED <<vars, network, pool, runs, others>>

\* Faulty: the first Active keyset of the denomination.
KeyForDenomFirst(d) ==
    {registry[i].joint_pk : i \in {j \in ActiveFor(d) : \A m \in ActiveFor(d) : j <= m}}

\* find_active_for_denom on the registry just read.
KeyForDenom(d) == {registry[i].joint_pk : i \in FindActiveForDenom(d)}

\* The registry is read and the newest Active keyset of the denomination is
\* taken; what the client knows is fresh from here on.
ReadRegistry(k) ==
    /\ At(k, "registry")
    /\ lamports[Registry] > 0
    /\ \E key \in KeyForDenom(client[k].job.denom) :
          /\ client' = [client EXCEPT ![k].todo = Tail(@), ![k].job.key = key,
                                      ![k].stale = FALSE]
    /\ UNCHANGED reports
    /\ Offline

SpentOnChain(c) == Nullifier[c] \in nullifiers

\* Faulty: a coin that is spent counts as done.
ReadNullifiersDone(k) ==
    /\ At(k, "nullifiers")
    /\ lamports[NullifierTree] > 0
    /\ IF SpentOnChain(client[k].job.coin)
       THEN Report(k, "ok")
       ELSE Proceed(k, client[k].job)
    /\ Offline

\* Pre-flight: the nullifier of the coin is looked up.
ReadNullifiers(k) ==
    /\ At(k, "nullifiers")
    /\ lamports[NullifierTree] > 0
    /\ IF SpentOnChain(client[k].job.coin)
       THEN Report(k, "double-spend")
       ELSE Proceed(k, client[k].job)
    /\ Offline

\* Pre-flight: the vault has the lamports.  What the rent rule makes of the
\* rest is not looked at.
ReadVault(k) ==
    /\ At(k, "vault")
    /\ lamports[Vault(client[k].job.denom)] >= client[k].job.denom
    /\ Proceed(k, client[k].job)
    /\ Offline

\* query_nullifier
Query(k) ==
    /\ At(k, "query")
    /\ lamports[NullifierTree] > 0
    /\ Report(k, IF SpentOnChain(client[k].job.coin) THEN "spent" ELSE "unspent")
    /\ Offline

SizeSteps == [sizeRegistry |-> Registry, sizeNullifiers |-> NullifierTree]
ResizeSteps == [resizeRegistry |-> Registry, resizeNullifiers |-> NullifierTree]
BootSteps == [bootRegistry |-> Registry, bootNullifiers |-> NullifierTree]

\* The lamports missing for what the client takes for the rent of the new size.
Topup(size, held) == SaturatingSub(ClientRent(size), held)

\* resize_registry, resize_nullifier_tree: balance and size are read.
ReadSize(k) ==
    /\ \E step \in DOMAIN SizeSteps :
          /\ At(k, step)
          /\ lamports[SizeSteps[step]] > 0
          /\ Proceed(k, [client[k].job EXCEPT
                    !.topup = Topup(client[k].job.size, lamports[SizeSteps[step]])])
    /\ Offline

\* The account the step would create.
Created(k) ==
    CASE Head(client[k].todo) \in DOMAIN BootSteps -> BootSteps[Head(client[k].todo)]
      [] OTHER -> Vault(client[k].job.denom)

\* Faulty: the first account that is there ends the command.
SkipBootstrapReturn(k) ==
    /\ \E step \in DOMAIN BootSteps \cup {"bootVault", "tryVault"} : At(k, step)
    /\ lamports[Created(k)] > 0
    /\ IF Head(client[k].todo) = "tryVault" THEN Proceed(k, client[k].job) ELSE Report(k, "ok")
    /\ Offline

\* An account get_account finds is not created again; one that has only been
\* sent lamports is found too.
SkipBootstrap(k) ==
    /\ \E step \in DOMAIN BootSteps \cup {"bootVault", "tryVault"} : At(k, step)
    /\ lamports[Created(k)] > 0
    /\ Proceed(k, client[k].job)
    /\ Offline

\* Keys and coins no one has used are as good as the random ones.
FreshKeys ==
    JointKeys \ ({registry[i].joint_pk : i \in DOMAIN registry}
                 \cup {client[k].job.key : k \in Clients} \cup {s[2] : s \in signed})
FreshCoins == Coins \ ({client[k].job.coin : k \in Clients} \cup {s[1] : s \in signed})

\* Three daemons are started, answer /health, and are led through start,
\* contribute and finalize; if one fails or they disagree on the joint key the
\* demo ends (Fail).  A demo registers under epoch 1.
RunCommittee(k) ==
    /\ At(k, "committee")
    /\ \E key \in FreshKeys : Proceed(k, [client[k].job EXCEPT !.key = key, !.epoch = 1])
    /\ Offline

\* issue_coin: the committee of the demo signs a new coin under its own key.
\* Its way through the demo's relay to Bob touches nothing shared: when that
\* goes wrong the demo ends before its next step (Fail).
IssueCoin(k) ==
    /\ At(k, "issue")
    /\ \E c \in FreshCoins :
          /\ MintSign(c, client[k].job.key)
          /\ Proceed(k, [client[k].job EXCEPT !.coin = c])
    /\ UNCHANGED <<network, pool, runs, others>>

\* refresh_coin: Bob is given a new coin for the one he has not melted yet.
SwapCoin(k) ==
    /\ At(k, "swap")
    /\ \E c \in FreshCoins : MintSign(c, client[k].job.key)
    /\ Proceed(k, client[k].job)
    /\ UNCHANGED <<network, pool, runs, others>>

-----------------------------------------------------------------------------
(***************************************************************************)
(* Transactions                                                            *)
(***************************************************************************)
TxSteps == DOMAIN BootSteps \cup DOMAIN ResizeSteps
    \cup {"bootVault", "tryVault", "fundVault", "register", "refresh", "withdraw",
          "fund", "payout", "payIn", "bootPool"}

Tx(k) == [run |-> client[k].run, step |-> Head(client[k].todo), job |-> client[k].job]

\* send_and_confirm_transaction up to the send; a step that creates an account
\* has found that it does not exist.
Submit(k) ==
    /\ \E step \in TxSteps : At(k, step)
    /\ Head(client[k].todo) \in DOMAIN BootSteps \cup {"bootVault", "tryVault"} =>
            lamports[Created(k)] = 0
    /\ network' = network \cup {Tx(k)}
    /\ client' = [client EXCEPT ![k].sent = "sent"]
    /\ UNCHANGED <<vars, reports, pool, runs, others>>

\* send_and_confirm_transaction sees its transaction confirmed.
Confirmed(k) ==
    /\ client[k].sent = "landed"
    /\ Proceed(k, client[k].job)
    /\ Offline

\* sponsor_bootstrap takes the program's "already exists" for success.
PoolExists(k) ==
    /\ client[k].sent = "sent"
    /\ Head(client[k].todo) = "bootPool"
    /\ pool > 0
    /\ network' = network \ {Tx(k)}
    /\ Proceed(k, client[k].job)
    /\ UNCHANGED <<vars, pool, runs, others>>

\* An RPC or HTTP call fails, what was read is refused, the transaction is
\* rejected, or its confirmation does not come in time: the command ends, and
\* a transaction it has sent may still land.  Only the demo's bootstrap_vault
\* may fail without ending it.
Fail(k) ==
    /\ client[k].todo # <<>>
    /\ IF Head(client[k].todo) = "tryVault"
       THEN Proceed(k, client[k].job)
       ELSE Report(k, "error")
    /\ Offline

\* The transaction of a resize: the transfer of the top-up, if there is one,
\* then ResizeAccount.
Resize(a, size, topup) ==
    /\ size # 0 /\ size <= BOOTSTRAP_MAX_SIZE
    /\ alloc[a] > 0
    /\ size > alloc[a]
    /\ lamports[Outside] >= topup
    /\ lamports[a] + topup >= Rent(size)
    /\ size - alloc[a] <= MaxDataIncrease
    /\ lamports' = Move(lamports, Outside, a, topup)
    /\ alloc' = [alloc EXCEPT ![a] = size]
    /\ UNCHANGED <<registry, nullifiers, signed, history>>

\* Lamports move between accounts that are not the program's own, the sponsor
\* pool among them.
OutsideOnly == UNCHANGED vars

\* The steps that end in a transaction of the program, with what it does.
ExecuteOnChain(step, job) ==
    \/ /\ step \in DOMAIN BootSteps
       /\ Bootstrap(BootSteps[step], IF step = "bootRegistry" THEN RegistrySize ELSE NullifierSize)
    \/ /\ step \in {"bootVault", "tryVault"}
       /\ Bootstrap(Vault(job.denom), 0)
    \/ /\ step \in DOMAIN ResizeSteps
       /\ Resize(ResizeSteps[step], job.size, job.topup)
    \/ /\ step = "register"
       /\ RegisterKeyset([keyset_id |-> KeysetId(job.key), denom |-> job.denom,
                          joint_pk |-> job.key, epoch |-> job.epoch])
    \/ /\ step = "fundVault"
       /\ Transfer(Vault(job.denom), job.denom)
    \/ /\ step = "refresh"
       /\ <<job.coin, job.key>> \in signed
       /\ Refresh(job.coin, job.denom, <<job.coin, job.key>>)
    \/ /\ step = "withdraw"
       /\ <<job.coin, job.key>> \in signed
       /\ Withdraw(job.coin, job.denom, Outside, <<job.coin, job.key>>)

\* The transactions around the sponsor pool: a payer is funded by a wallet or
\* by the pool, the pool is created, paid into, paid out of.
ExecuteOutside(step) ==
    \/ step = "fund" /\ UNCHANGED pool
    \/ /\ step = "payout"
       /\ pool = PayerLamports \/ pool >= PayerLamports + PoolRent
       /\ pool' = pool - PayerLamports
    \/ step = "payIn" /\ pool > 0 /\ pool' = pool + PayerLamports
    \/ step = "bootPool" /\ pool = 0 /\ pool' = PoolRent

\* What client k knows after a transaction: the one it waits for has landed,
\* and what it has read may be out of date if another one changed the chain.
Learns(k, run, confirmed) ==
    [client[k] EXCEPT
        !.sent = IF @ = "sent" /\ confirmed THEN "landed" ELSE @,
        !.stale = @ \/ (client[k].run \notin {0, run} /\ chain' # chain)]

\* The network executes a transaction, while its sender waits or after that.
Land(tx) ==
    /\ \/ ExecuteOnChain(tx.step, tx.job) /\ UNCHANGED pool
       \/ ExecuteOutside(tx.step) /\ OutsideOnly
    /\ network' = network \ {tx}
    /\ client' = [k \in Clients |-> Learns(k, tx.run, client[k].todo # <<>> /\ Tx(k) = tx)]
    /\ UNCHANGED <<reports, runs, others>>

\* It fails, or its blockhash expires.
Drop(tx) ==
    /\ network' = network \ {tx}
    /\ UNCHANGED <<vars, client, reports, pool, runs, others>>

\* Transactions of others: keysets come and go, and lamports are sent to an
\* address of the program, be there an account or not.
Others ==
    /\ others < MaxOthers
    /\ others' = others + 1
    /\ \/ \E o \in Offers : RegisterKeyset(o)
       \/ \E id \in KeysetIds : Revoke(id)
       \/ \E a \in PDAs, n \in Amounts : Transfer(a, n)
    /\ client' = [k \in Clients |-> Learns(k, 0, FALSE)]
    /\ UNCHANGED <<network, reports, pool, runs>>

\* The command of client k goes on.
Step(k) ==
    \/ ReadRegistry(k) \/ ReadNullifiers(k) \/ ReadVault(k) \/ ReadSize(k) \/ Query(k)
    \/ SkipBootstrap(k) \/ RunCommittee(k) \/ IssueCoin(k) \/ SwapCoin(k)
    \/ Submit(k) \/ Confirmed(k) \/ PoolExists(k) \/ Fail(k)

DevnetNext ==
    \/ \E k \in Clients : Command(k) \/ Step(k)
    \/ \E tx \in network : Land(tx) \/ Drop(tx)
    \/ Others

\* Nothing bounds how long a command takes: the demos' HTTP clients have no time
\* limit, and a confirmation is waited for as long as its blockhash is valid.
DevnetSpec == DevnetInit /\ [][DevnetNext]_devnetVars

-----------------------------------------------------------------------------
(***************************************************************************)
(* Properties                                                              *)
(***************************************************************************)
Results == {"ok", "error", "double-spend", "spent", "unspent"}

\* Besides the types: a client waits for a transaction only at a step that
\* sends one, and one that runs nothing has nothing left to do (main returns
\* once a command has ended).
DevnetTypeOK ==
    /\ TypeOK
    /\ \A k \in Clients :
          /\ client[k].run \in 0..runs
          /\ client[k].job \in Job
          /\ client[k].sent \in {"no", "sent", "landed"}
          /\ client[k].sent # "no" => Tx(k).step \in TxSteps
          /\ (client[k].run = 0) = (client[k].todo = <<>>)
    /\ \A tx \in network : tx.step \in TxSteps /\ tx.job \in Job
    /\ \A r \in reports : r.run \in 1..runs /\ r.job \in Job /\ r.result \in Results
    /\ pool \in Nat /\ runs \in 0..MaxRuns /\ others \in 0..MaxOthers

MeltCommands == {"refresh", "private-tx-demo", "alice-pays-bob"}
CashCommands == {"withdraw", "bob-withdraws"}
Spends == {r \in reports : r.result = "ok" /\ r.job.cmd \in MeltCommands \cup CashCommands}

\* What a spend tells its user is so.  OK means that the coin was melted, or
\* paid out of the vault, and no other command was told OK for the same coin,
\* however holders race, confirmations get lost and commands are run again;
\* a coin called spent is on the chain (refresh_full, withdraw,
\* query_nullifier, withdraw_on_devnet).
SpendReportsTrue ==
    /\ \A r \in Spends :
          IF r.job.cmd \in CashCommands
          THEN Nullifier[r.job.coin] \in cashed[r.job.denom]
          ELSE Nullifier[r.job.coin] \in melted
    /\ \A r, s \in Spends : r.job.coin = s.job.coin => r = s
    /\ \A r \in reports :
          r.result \in {"double-spend", "spent"} => Nullifier[r.job.coin] \in nullifiers

\* After bootstrap_singletons, register_keyset and the resize commands have
\* said OK, what they were to see to is there and stays, also when another run
\* had done it, or ran at the same time: no singleton was passed over, the
\* account has the size asked for, the key is registered.
SetupReportsTrue ==
    \A r \in reports :
        r.result = "ok" =>
            /\ r.job.cmd = "bootstrap-singletons" => \A a \in DataAccounts : lamports[a] > 0
            /\ r.job.cmd = "resize-registry" => alloc[Registry] >= r.job.size
            /\ r.job.cmd = "resize-nullifier-tree" => alloc[NullifierTree] >= r.job.size
            /\ r.job.cmd = "register-keyset" =>
                  \E i \in DOMAIN registry : registry[i].joint_pk = r.job.key

\* The pre-flight checks agree with the program's: if nobody changed the chain
\* since they were made, the program does not refuse the spend for its key, its
\* nullifier or the balance of the vault, provided the coin is signed under
\* the key found.  The top-up of a resize is enough whatever happened since.
PreflightSound ==
    \A k \in Clients :
        LET c == client[k]
        IN  c.sent = "sent" /\ Tx(k) \in network =>
                /\ Tx(k).step \in {"refresh", "withdraw"} /\ ~c.stale
                      /\ <<c.job.coin, c.job.key>> \in signed =>
                        /\ VerifyCoinForSpend(c.job.denom, c.job.coin, <<c.job.coin, c.job.key>>)
                        /\ Nullifier[c.job.coin] \notin nullifiers
                        /\ Tx(k).step = "withdraw" => lamports[Vault(c.job.denom)] >= c.job.denom
                /\ Tx(k).step \in DOMAIN ResizeSteps =>
                        lamports[ResizeSteps[Tx(k).step]] + c.job.topup >= Rent(c.job.size)
=============================================================================
