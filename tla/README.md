# TLA+ specification of TARDUS

TARDUS is a bearer-coin system on Solana. A committee of validators holds a
threshold signing key per keyset; a wallet has coins blindly signed by the
committee, passes them on through a relay, refreshes them, and cashes them in
with an on-chain program that keeps one lamport vault per denomination and a
set of nullifiers of used coins. This directory holds TLA+ modules translated
from the Rust code under `crates/`, the TLC configurations that check them and
TLAPS proofs of their main properties.

## 1. Inventory

| component | state | operations | hard behaviours |
|---|---|---|---|
| **on-chain program** (`tardus-program`) | `KeysetRegistry` account, `NullifierSet` account, one vault account per denomination, their sizes and lamports | `RegisterKeyset`, `Revoke`, `Deposit`, `Refresh`, `Withdraw`, `Bootstrap`, `ResizeAccount` | instructions of anybody in any order; account allocation and growth between spends; the registry changes between the signing and the spending of a coin; rent |
| **sponsor pool** (`tardus-program`) | pool account: lamports, last payout slot, two u64 counters | `SponsorDeposit`, `SponsorPayout`, `Bootstrap`, `ResizeAccount` | slot boundaries, saturation, the account vanishes when it is emptied |
| **validator: signing** (`tardus-validator` `api.rs`, `sign_sessions.rs`, `refresh_sessions.rs`) | loaded share, sign sessions, refresh sessions (a nonce each) | `/sign/round1`, `/sign/round3`, `/refresh/round1`, `/refresh/round5`, prune loops | concurrent requests on one session, an RPC in the middle of a handler, share swaps, crashes, clients that do not return |
| **validator: ceremonies and storage** (`api.rs`, `dkg_sessions.rs`, `reshare_sessions.rs`, `storage.rs`, `main.rs`; `tardus-mint` `dkg.rs`, `rotation.rs`) | ceremonies in flight, share record in memory, share files | start, contribute and finalize of DKG and reshare, `/admin/reload-share`, boot | state read under one lock and used under another, crash between system calls, two writers |
| **validator: transparency log** | hash chain in an append-only file, id of the last entry | open, append (from most handlers), verify | crash in the middle of a line, a handler dropped between write and update, restart |
| validator: observability, TLS, HSM store | counters, tokens | read-only endpoints, PKCS#11 | none of its own |
| mint cryptography (`tardus-mint`), core (`tardus-core`) | none | DKG, VSS, threshold signing, blind Schnorr | shares of different epochs do not add up |
| refresh protocol (`tardus-refresh`) | user and mint state of six rounds | cut and choose, reveal, signing | the committee changes between the rounds |
| **relay** (`tardus-relay`) | inboxes of sealed messages | deposit, list, remove, prune | capacity, expiry, delivery |
| **wallet** (`tardus-wallet`), client library (`tardus-client`) | encrypted coin database, keyset file | issue, pay, receive, refresh, add-coin, keyset commands | a crash or failure between a remote effect and the local save, two flows over one file |
| **wallet GUI** (`tardus-wallet-gui`) | mode, busy flag, shown coins and keysets, channels to the runtime thread | the same flows in a background runtime, withdraw, lock and unlock | stale copies, events that arrive late, the busy flag cleared by the wrong event |
| **command line tools** (`tardus-cli`) | none that outlives a command | devnet commands and demos: reads, pre-flight checks, transactions | stale reads, lost confirmations, repeated runs, several clients |

How they interact: the wallet calls every validator of a committee over HTTP
and aggregates their answers; a validator reads the nullifier account of the
program through the Solana RPC before it signs a refresh; operators carry DKG
and reshare contributions between validators by HTTP; wallets exchange coins
through the relay; everybody sends transactions to the program. The validators
share no state with each other and never look at deposits.

What makes each part correct: the program uses no coin twice and pays a vault's
lamports only for valid coins; the pool keeps its rate limit and its rent; a
validator uses no nonce twice and signs no refresh of a coin that is still
spendable; a share record says what is in it and survives crashes; shares made in
one ceremony fit together; a wallet loses no coin it has taken from the relay, and a
coin it has marked as spent is one it gave away and stays marked; a command reports as
done only what is done.

## 2. Modules

| module | models |
|---|---|
| `SolanaRuntime` | what the program relies on of the Solana runtime: rent exemption, transfers, saturating u64 arithmetic (external to the repository) |
| `BearerLedger` | abstract specification: a pot of lamports per denomination, nullifiers that are melted or cashed once |
| `TardusProgram` | the on-chain program; `ImplementsLedger` is its refinement of `BearerLedger` |
| `SponsorPool` | the sponsor pool |
| `ValidatorSessions` | the signing endpoints of one validator |
| `ShareLifecycle` | the ceremonies, the loaded share record and the share files of one validator |
| `TransparencyLog` | the log file of a validator and its logger, as operators on a record |
| `Committee` | several validators, their operators, and wallets that have them sign; contains `TransparencyLog` |
| `RelayInbox` | the relay |
| `WalletFlows` | the flows of both wallets over one wallet file, one keyset file and `RelayInbox` |
| `WalletGui` | the GUI and its channels on top of `WalletFlows`; the composed specification |
| `DevnetClient` | the devnet commands and the GUI's withdrawal, composed with `TardusProgram` |
| `MCTardusProgram`, `MCSponsorPool`, `MCShareLifecycle`, `MCCommittee`, `MCWallet`, `MCDevnet` | values and symmetries for TLC |
| `TardusProgramProofs`, `SponsorPoolProofs`, `ValidatorSessionsProofs`, `ShareLifecycleProofs`, `CommitteeProofs`, `WalletProofs`, `DevnetProofs` | theorems and proofs about the module in their name (`WalletProofs`: about `WalletGui`; `DevnetProofs`: about `DevnetClient`) |

### TardusProgram

`registry` and `nullifiers` are what `load_registry` and `load_nullifiers`
return, `alloc` the sizes of the accounts and `lamports` their balances
(`Outside` stands for all other accounts). One action per instruction handler;
an action is a transaction that succeeds, since a failing one leaves no trace.
Coins, nullifiers and keys are model values; the 82 bytes of a registry entry
and the 32 of a leaf are kept, because storing fails when the account is too
small. An `ed25519` instruction is the pair of coin and key it verified, drawn
from `signed`, the signatures the committee has produced. The `authorization`
field of `RegisterKeyset` and `Revoke` is read by no handler and so appears in
no action. `melted`, `cashed`, `received` and `credits` record history for the
properties; no guard of a handler reads them, except that the bound
`MaxCredits` limits the number of Deposits.

### SponsorPool

The pool record with its saturating counters, the slot clock, and the removal of
an account that is left without lamports: its data, and with it
`last_payout_slot`, is gone. `life` numbers the incarnations of the account.

### ValidatorSessions

A request is a task; it is split wherever its handler awaits (a lock, a session
map, the RPC): round 1 samples a nonce and then inserts the session; round 3
reads the share and then takes the session; round 5 passes the nullifier guard,
reads the share, takes the session. A nonce (or the kappa nonces of a refresh,
of which one is used) is a number; a partial signature is the record of the
nonce, challenge, coin and share that went into it, kept in `answers`. An
unacceptable request (`good = FALSE`, or a candidate index beyond kappa)
consumes its session without an answer, as `take` does. `Crash` loses the
sessions; `SwapShare` is the last step of a finalize or reload.

### ShareLifecycle

A share is abstracted to the set of ceremonies it is a sum of: the DKG it comes
from (`base`) and the reshares added (`deltas`). `TakeFinalisable` removes
the ceremony before the contributions are looked at. A reshare then
reads the old share and, under another lock, the metadata. `write_share_record`
is three steps over an inode model of the directory: open (which truncates a
temporary file that is there), write, rename. `Crash` can come between any two
of them and loads the last readable file in directory order, which is arbitrary.
`overlapped` records whether two tasks were ever at work together.

### Committee and TransparencyLog

A deal is the polynomial a validator draws when it starts a ceremony, numbered in
the order of drawing; a share is a bag of deals, with the DKG deals it is based on
kept apart because they make the joint key. Partial signatures add up exactly if
all were made with the same bag, under the key asked for: that is what Lagrange
interpolation over shares of one polynomial amounts to, with the threshold equal to
the size of the committee, as the coordinators in `issue.rs` and `refresh.rs` use it.
A handler is one step here; its interleavings are in `ValidatorSessions` and
`ShareLifecycle`. Operators carry contributions in any order, twice, late or not at
all, and label them right; a contribution that goes to the wrong ceremony, an
eviction, a crash and a troubled append are faults, and `MaxFaults` is their common
budget. A validator that crashed may start the same ceremony again, and then deals
anew. A wallet operation (`IssueCoin`, `RefreshCoin`) goes through round 1 at every
validator and then collects a partial signature from each; the share used is the
one loaded at that moment. One operation is under way at a time, and the sessions of
an operation that ended are forgotten. In the cut-and-choose of a refresh the user is
honest, so that `mint_refresh_verify_reveal` passes.

The log of a validator is a sequence of lines with their ids, a flag for a missing
last newline, and the logger's `last_event_id`. An append ends in one of five ways:
done, refused before anything is written, half a line, a line without its newline,
or a line that is written while the handler is dropped before it updates
`last_event_id` (the client hung up). A line appended behind a torn one is glued to
it. `Opened` is what the daemon does at boot.

### RelayInbox, WalletFlows and WalletGui

`RelayInbox` keeps a set of messages per recipient, numbered in the order of their
deposits; `Oldest` is the next one a `receive` looks at. The in-memory inbox counts
expired messages towards its capacity until the prune loop takes them, the SQLite one
does not (`Persistent`); a restart empties the former. The time to live is the sender's:
it ends, it outlasts the relay (`"stays"`), or the deadline overflows. The in-memory inbox
then panics with its mutex locked (`DepositPanics`), and no request or prune gets past the
`poisoned` mutex until a restart; the SQLite one stores whatever the cast makes of the
deadline (`Deadlines`).

`WalletFlows` has one task per running flow: a command line process or a task of the
GUI's runtime. A flow is split at every request and system call: open (which takes a
copy of the file), mint, post, poll, per message take and delete, reopen, truncation of
the temporary file, writing of it, rename. It can fail at each of them (`Fail`), and die with its
process (`CrashCli`, `CrashGui`). Both wallets use the same temporary path, so a
rename may publish what another flow wrote, or has only truncated (`Torn`, a file from
which no coin can be read), and a flow may write into a file that has been renamed under
it (`drift`: its open file is the temporary one, has become the wallet file, or has been
replaced). `issue` records the denomination it was told with `--denom` before that of the
keyset, and `add-coin` nothing but what it was told (`told`). Where the two differ, the model does
too: the command line's refresh reopens the file after the network operation and
looks the denomination up by label, the GUI's saves the copy it has; the command
line's audited pay records the coin as spent after the POST, the GUI's pay records
nothing; the GUI's withdrawal leaves the coin Active. `fate` records for the
properties what became of coins, `raced` whether two flows ever had the file open at
the same time. Which flow has it open is told by its step (`Holds`), not by its copy,
since the copy of an empty file is empty. The run starts from any file whose coins
are numbered in order (`StartAssumption`).

`WalletGui` adds the egui side: `mode`, `busy`, the coins and keysets shown, the
commands sent to the runtime thread and the events not yet handled; `Summary` is the
coins an event carries to be shown. A button is an
action guarded by `~busy`. `HandleEvent` handles one event per step. Locking clears
the shown state but stops nothing, so that a flow's event can arrive in the locked
state or in the next session. The two clicks of a removal are one.

Peers are honest: the payload of a message has the right denomination. The
read-modify-write of the keyset file is one step. A label that the command line makes
up for an unlabelled coin finds nothing in a later lookup. The option to refresh a
coin given in hex, and explicit session ids, are left out: they change no wallet state.

### DevnetClient

A command is a list of steps, each one RPC call: a read of an account with the check
made on it, or a transaction. A transaction is put on `network` (`Submit`) and later
executes with the actions of `TardusProgram` (`Land`) or never (`Drop`); the client
sees it confirmed, or gives up at any time (`Fail`), in which case it may still land.
`Others` are transactions of third parties: registrations, revocations and transfers of
lamports to any account of the program, also before it is created. The client computes
the top-up of a resize from `Rent::default()`, the program from the sysvar: `ClientRent`
and `Rent`, of which the former is assumed not to be smaller (`ClientRentAssumption`).
The existence check and the sending of a
bootstrap are one step; the race that matters is between sending and landing. The
sponsor pool is one balance here and its rate limit a `Drop`. The demos start daemons,
run a DKG and issue a coin under a key of their own; a failure of the demo's relay is
the `Fail` of the next step. They always register under epoch 1. `info` and `capacity`
only print.

## 3. Runs

| run | configuration | states | result |
|---|---|---|---|
| `program` | `Program.cfg` | 493,154 | `TypeOK`, `StorageSound`, `OneUse`, `ValueConserved`, `VaultPaysForValidCoin`, `RegistryIsALog`, `ImplementsLedger` hold |
| `sponsor_pool` | `SponsorPool.cfg` | 148,253 | `TypeOK`, `PayoutsSpaced`, `PoolSolvent` hold |
| `sessions` | `Sessions.cfg` | 160,044 | `TypeOK`, `NonceUsedOnce`, `RefreshAfterMelt`, `SessionsKept`, `NoncesForgotten` hold |
| `shares` | `Shares.cfg` | 973,383 | `TypeOK`, `SerialRecordsCoherent`, `StoredShareReadable`, `MemoryIsStored`, `ShareStillLoaded`, `FilesNamedRight`, `NoRollback` hold |
| `wallet` | `Wallet.cfg` | 412,194 | `TypeOK`, `ReceivedKept`, `RefreshAtomic`, `BusyCovers`, `FileMonotone`, `BusyEnds`, `InboxDrains` hold |
| `devnet` | `Devnet.cfg` | 892,564 | `DevnetTypeOK`, `SpendReportsTrue`, `SetupReportsTrue`, `PreflightSound` hold |
| `committee` | `Committee.cfg` | 783,892 | `TypeOK`, `CeremonyAgrees`, `CoinsVerify`, `ChainVerifies` hold |
| `deposits_backed` | `DepositsBacked.cfg` | | `DepositsBacked` violated |
| `existing_coins` | `ExistingCoins.cfg` | | `ExistingCoinsRemainValid` violated |
| `refresh_once` | `RefreshOnce.cfg` | | `RefreshOncePerCoin` violated |
| `lost_reshare` | `LostReshare.cfg` | | `RecordsCoherent` violated |
| `spent_coins` | `SpentCoins.cfg` | | `SpentHasLeft` violated |

### What the wallet, devnet and committee runs show

* `ReceivedKept`: `receive` deletes a message before the coin is saved. A coin so
  deleted is in the file or in a running task unless the task failed or died or two
  flows overlapped: exactly these are the windows in which it can be lost, and the
  property does not close them.
* `RefreshAtomic`, `FileMonotone`: a refresh shows up in the file as one change even
  when flows overlap, unless the coin it made had been posted and came back as a message
  or by `add-coin` (`fate["imported"]`); without overlap no save loses a coin or revives a spent one.
  With overlap both happen, as the GUI saves the copy it took before the network
  operation; the premise `~raced` is needed. `FileMonotone` also says that a crash in the
  middle of a save leaves a file that can be read: it starts with coins, and keeps them.
* `InboxDrains`: a full inbox becomes free again unless the mutex is poisoned or a
  message of it was sent with a time to live that does not end.
* `BusyCovers`: the busy flag keeps the GUI's commands apart, also across lock and
  unlock, unless the listing of keysets failed (`stray`): its Error event clears the
  flag of whatever is under way.
* `SpendReportsTrue`, `SetupReportsTrue`: what a command reports as done is done and
  at most one command is told so for a coin, although a command that reported an error
  may have spent it. Of `bootstrap-singletons` only this much is true: it has passed over
  no singleton that `get_account` does not find (see below). `PreflightSound`: a spend is refused only if the chain changed
  since the checks, the coin is not signed under the key found, the rest in the vault
  would be below the rent minimum, or the nullifier account is full; the checks look at
  neither of the last two. The payer is funded before the checks, and what it was given
  stays behind when they fail.
* `CeremonyAgrees`: validators that finish a ceremony in which nobody dealt twice hold
  the same deals of it. The premise is needed: after a restart a validator may deal
  anew under the same id, and nobody compares what the peers received.
* `CoinsVerify`: a refreshed coin always verifies, since `user_refresh_round6` checks
  it. An issued coin does only if no share changed among its partial signatures:
  `issue_coin` does not verify, although the list above it (`issue.rs` 75) ends with
  "8. Construct + verify [`Coin`]."
* `ChainVerifies`: refused appends and restarts leave the chain whole. A torn line or
  an abandoned append (`hurt`) breaks it for good, since `open` goes on behind it.

### Bounds

* `program`: two coins suffice for every property that relates two spends. Of
  the four keyset offers one is superseded by another key, one ties in epoch
  (the later entry wins), one reuses an id. The sizes give a nullifier account
  for one leaf that must be resized before the second spend, a registry of two
  entries (also the capacity), and a size above the maximum. The supply is just
  enough for both accounts at full size and a vault to pay from. The deployed
  values (256 entries, 64 KiB, 10 KiB per step) differ only in magnitude.
* `sponsor_pool`: the real distance of five slots over eleven slots allows three
  payouts at the exact limit; `U64Max = 3` makes the counters saturate.
* `sessions`: two requests at a time on one sign and one refresh id, with two
  challenges and two values of kappa, so that two answers for one nonce would
  differ; two nonces, one crash, a time to live of one tick.
* `shares`: two ceremony ids per kind, a committee of two (so one contribution
  is expected and a second one is one too many), four ceremonies, two tasks, one
  crash. Tasks and ceremony ids are interchangeable, hence the symmetry set; it
  is used with safety properties only. The run may stop when the ceremonies are
  used up, hence no deadlock check.

* `wallet`: two GUI tasks and one command line task over a file with an Active and a
  Spent coin of one label and different denominations; three stimuli (clicks,
  commands, deposits, a crash), so that any three overlap; four coins, three messages,
  inboxes of two. The flows themselves run to their end. No deadlock check: the user may
  stop. The relay is the in-memory one, which is the one that panics. Three saves at the
  same time, the SQLite inbox and more of everything are left to the proofs.
* `devnet`: two commands and one foreign transaction or transfer, on a bare chain and on a
  prepared one with a keyset, a vault for one payment and a signed coin. The nullifier account
  has room for two leaves, the registry for two entries. Clients are alike, and the
  first idle one takes the next command. No deadlock check: the commands are used up.
* `committee`: two validators (one with a log), one DKG id and two reshare ids, four
  deals, two wallet operations, one fault. The run starts both before any DKG and
  after one. Reshare ids and operations are interchangeable, and logs once hurt
  are not told apart (`View`), which is sound because `ChainVerifies` says nothing of
  them and no guard reads a log. No deadlock check: deals are used up.

`MaxCredits`, `MaxSlot`, `MaxPayouts`, `MaxNonces`, `MaxLives`, `MaxRuns`,
`MaxCrashes`, `MaxStimuli`, `MaxCoins`, `MaxPosts`, `MaxPending`, `MaxStray`,
`MaxOthers`, `MaxDeals` and `MaxFaults` bound what the code does not bound.

### Fairness

* `NoncesForgotten`: time passes, and the two prune loops, which `main` spawns and
  which never return, keep taking their step.
* `BusyEnds`: the GUI's tasks and commands get on (a request to a validator times out
  after 15 s, one to the relay after 30 s, and failing is getting on; the confirmation of
  a withdrawal is waited for until its blockhash is invalid, so here the cluster is
  assumed to make progress), and the GUI handles events (a frame at least every 100 ms).
* `InboxDrains`: time passes, so a time to live that ends does end, and
  the relay's prune loop runs as long as the mutex is not poisoned (its action is
  disabled then, so that the fairness asks nothing).
* `DevnetSpec` has none: the demos' HTTP clients have no time limit, and nothing in the
  code bounds how long a command takes.

Nothing is assumed of users, of the command line processes, of transactions that are
on their way, or of crashes.

### What the violated properties show

* `DepositsBacked`: `deposit` compares the amount with the balance of the whole
  vault. Two Deposit instructions succeed after one transfer, although the
  comment at `sbf_processor.rs` 240-241 says that the check verifies the movement.
* `ExistingCoinsRemainValid`: only the newest Active keyset of a denomination is
  consulted. After a revocation, or once a newer keyset is registered under
  another key, the coins of the old one are refused, unlike
  `spec/sections/08-failure-modes.tex` says of the recovery from F5.
* `RefreshOncePerCoin`: the guard asks whether the nullifier is on chain, where
  it stays, and not for which session it was put there (`state.rs` 30-35).
  `RefreshAfterMelt` is what the guard does ensure.
* `RecordsCoherent`: two overlapping reshare finalizes read the same old share;
  the record of the later one has counted both epochs but holds one sum
  (`api.rs` 1088-1090). `SerialRecordsCoherent` shows that overlap is the only cause.
* `SpentHasLeft`: the command line's audited pay does not look at the status of the
  relay's answer (`wallet.rs` 753), so a coin the relay refused is Spent although it is
  on no chain and with nobody. `coin_store.rs` 27-28 and 120 say that Spent means spent on
  chain; the property asks even less than that.

The models also reach states that other lines of the repository rule out. No run of its own
asks for them; the property named is what does hold:

* A payout of the pool's whole balance removes the account; after another `Bootstrap` the
  rate limit "across all callers" (`instruction.rs` 92-94) has been forgotten.
  `PayoutsSpaced` is per incarnation of the account.
* Two writers of one share record share a temporary path: one renames what the other has
  just truncated, and a crash leaves an unreadable record, which `storage.rs` 83-86 says the
  temporary file avoids. `StoredShareReadable` is about one writer at a time. The wallet
  file has the same weakness (`wallet_db.rs` 79-87 and `spec/sections/06-wallet.tex` 25-27);
  `FileMonotone` is about flows that do not overlap.
* `issue_coin` hands out a coin without verifying it, unlike its list of steps says
  (`issue.rs` 75). `CoinsVerify` excludes issued coins whose parts did not fit.
* Half a line stays in the transparency log after a crash, and `open` goes on behind it; the
  chain can then not be "verified by any third party" (`transparency_log.rs` 4-6).
  `ChainVerifies` is about logs that were not hurt so.
* The GUI's save of a copy it read before its network calls (`runtime.rs` 1119) revives a
  coin marked as spent meanwhile (`spec/sections/06-wallet.tex` 200).
* The command line refreshes the first Active coin of a label and records the denomination
  of the first coin of that label (`wallet.rs` 1032-1037), though its comment speaks of "the
  original entry"; `issue` and `add-coin` record what they are told. So no property says
  that recorded denominations are right.
* A deposit whose `ttl_secs` overflows the deadline panics with the in-memory inbox locked
  (`inbox.rs` 144) and ends pruning, which `spec/sections/09-relay.tex` 28-29 promises;
  `inbox.rs` 105-107 takes such a panic to be impossible. `InboxDrains` excludes it.
* Lamports sent to the address of a singleton make `get_account` find it (`devnet.rs` 309):
  `bootstrap-singletons` succeeds with nothing allocated, and the program would refuse to
  create the account (`sbf_processor.rs` 493).

`spec/sections/03-protocol-mint.tex` 196 wants old shares kept for two
epochs "to preserve in-flight signatures"; the code replaces the share at once,
and a session started before is finished with the new share.

## 4. Proofs

All theorems hold for every value of the constants that satisfies the named
assumptions of the modules (natural-number bounds, a positive rent for every
size, an injective `Nullifier`, `None` outside the other sets).

* `TardusProgramProofs`. The inductive invariant `IInv` is `TypeOK`, finiteness
  of `nullifiers`, uniqueness of keyset ids, `StorageSound`, `OneUse` and
  `ValueConserved`. `StorageSound` is what makes `OneUse` inductive: a nullifier
  account that holds leaves has bytes, hence lamports, hence `Bootstrap` refuses
  it, so no leaf is forgotten. `OneUse` in turn makes the counting of
  `ValueConserved` go up by exactly one per withdrawal, and finiteness is needed
  for that cardinality. Theorems: `ProgramTypeCorrect`, `ProgramStorageSound`,
  `ProgramOneUse`, `ProgramValueConserved`, `ProgramRegistryIsALog`,
  `ProgramVaultPaysForValidCoin`, and the refinement `ProgramImplementsLedger`,
  in which `Withdraw` is `Cash`, `Refresh` is `Melt`, `Bootstrap` and
  `Transfer` into a vault are `Fund`, and everything else stutters.
* `SponsorPoolProofs`: `PoolTypeCorrect`, `PoolPayoutsSpaced` and
  `PoolIsSolvent` (inductive together with `TypeOK`). For the second, the
  strengthening says that the last payout of the present incarnation is the one
  in `last_payout_slot`, which is positive because no program runs in slot 0, and
  that slots of payouts do not decrease.
* `ValidatorSessionsProofs`: `SessionsTypeCorrect`, `SessionsNonceUsedOnce`,
  `SessionsRefreshAfterMelt`, `SessionsAreKept`. The strengthening says that
  every nonce is in one place at a time (about to be inserted by one task, in one
  session, or in an answer) and that all were sampled, and that a task past the
  guard carries a finalized coin.

* `ShareLifecycleProofs`: `SharesTypeCorrect`, `SharesFilesNamedRight`,
  `SharesStillLoaded`, `SharesSerialRecordsCoherent`, `SharesStoredReadable`,
  `SharesMemoryIsStored` and the action property `SharesNoRollback`. The invariant has
  four layers. `Shape`: a ceremony's run is in one session or with one task. `Entered`:
  a run is in no record before its task leaves the metadata step, so that the epoch of
  a record counts runs already used and stays within the bound of `TypeOK`. `Inodes`: an
  inode belongs to one keyset for ever, which is why a writer that renames what another
  one wrote still publishes a record of the right keyset. `Serial`, under `~overlapped`:
  what the only task at work has in hand agrees with memory, temporary file and files.
* `CommitteeProofs`: `CommitteeTypeCorrect`, `CommitteeCeremonyAgrees`,
  `CommitteeCoinsVerify` and `CommitteeChainVerifies`. `Counts` bounds how often a deal
  can be in a share by the ceremonies its validator finished; `Agree` says that of a
  ceremony dealt once a record holds every deal or none; `SignedWell` that the
  partial signatures of an undisturbed operation were made with the shares that are
  loaded; `Chains` that a log without a damaged append is a chain the logger
  continues. The bound `MaxDeals` has to allow one deal per validator
  (`CommitteeAssumption`), else the start after a finished DKG does not exist.
* `WalletProofs`: `WalletTypeCorrect`, `WalletReceivedKept`, `WalletRefreshAtomic`,
  `WalletBusyCovers` and the action property `WalletFileMonotone`.
  The invariant is `Base /\ Alone /\ OneCommand`. `Base`
  requires of every store, be it the file, the temporary file or a flow's copy, what
  the properties require of the file, since any of them may become the file; and says
  what a flow knows at each step. `Alone` (unless `raced`): the copy of the one flow that
  has the file open extends the file. `OneCommand` (unless `stray`): a command, a
  running flow and a waiting result exclude each other, and each needs the busy flag.
* `DevnetProofs`: `DevnetTypeCorrect`, `DevnetSpendReportsTrue`,
  `DevnetSetupReportsTrue` and `DevnetPreflightSound`. The invariant `DInv` contains that of
  `TardusProgramProofs`. Every command is a `Program`, a list of steps in which certain
  steps come right after others, so that the step a client is at says what it has
  done (`Prepared`), what it has learned (`Done`, once its transaction landed) and, if
  nobody else changed the chain since, what is still so (`Known`). What it relies on
  is never taken back (`Grows`, one lemma per instruction). A transaction on its way
  belongs to a command that has ended, to the one waiting for it, or is the vault the
  demo does not wait for (`NetworkInv`), and creating that vault late invalidates nothing
  the demo has read. A run has one client and then one report (`RunsInv`), and a coin is
  claimed once (`ClaimInv`): a new claim's nullifier was not on the chain, those of
  all earlier claims are. `DevnetAssumption` says that the bootstrap sizes are ones the
  program accepts, with room for an entry, and that every key has a keyset id. What a
  set-up command relies on holds under transfers by anybody: `SetupReportsTrue` is proved
  with third parties that fund any account at any time.

What the proofs showed about the models: `Holds` used to be told by the copy a flow
has, which missed overlaps on an empty file; a coin that comes back through the relay had
to be counted as imported; the committee's bound on deals needed its assumption; and the resize commands' top-up is
enough although it is computed from a balance that may be out of date, because balances of
the data accounts never shrink, and from a rent of the client's own, because
`ClientRentAssumption` says that it is not less than the cluster's.

Only model-checked: liveness (`NoncesForgotten`, `BusyEnds`, `InboxDrains`), which needs fairness and `ENABLED` and is out of the prover's reach.
Every invariant and every action property of the passing runs is proved.

## 5. Not modelled

* Curve arithmetic, hashing and encryption, abstracted to what they distinguish.
  SHA-256 is taken to be injective on the coins of a model and signatures to be
  unforgeable (`signed`, `Valid`). A user who cheats in the cut-and-choose succeeds with
  a probability, which TLC cannot express.
* HTTP and TLS, argument parsing, metrics and read-only endpoints, among them
  `/transparency/log`, which reads the last id under the lock and the file after it.
* The HSM share store (`pkcs11_store.rs`): the handlers do not call it.
* The rendering of the GUI, its preferences file, the balance and invoice tabs; the
  commands `info`, `capacity`, `status`, `list`, `mnemonic`, `invoice`, `coin` and `demo`,
  which change no shared state.
* A request whose client hangs up is, in `ValidatorSessions` and `ShareLifecycle`, a task
  that never continues; only what it does to the log is modelled explicitly.

## 6. Plan

1. Abstract specifications for two more components and their refinements: a relay
   mailbox for `RelayInbox` as `WalletFlows` uses it, and a nonce dispenser for
   `ValidatorSessions`.
2. The sponsor pool inside `DevnetClient` as `SponsorPool` itself instead of one balance.
3. `ShareLifecycle` with a committee of several validators, that is, the interleavings of
   one with the ceremonies of `Committee`.
