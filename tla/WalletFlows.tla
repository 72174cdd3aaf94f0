---------------------------- MODULE WalletFlows ----------------------------
(***************************************************************************)
(* What the wallet does with its files: the flows of the command line      *)
(* wallet (tardus-wallet bin/wallet.rs) and of the GUI's background        *)
(* runtime (tardus-wallet-gui runtime.rs) over one wallet file, one keyset *)
(* file and one relay.  A flow is a task: it opens a copy of the file,     *)
(* talks to validators or to the relay, and saves the copy it has.         *)
(* Nothing locks the file, so tasks interleave at every request and system *)
(* call, fail at each of them, and die with their process.                 *)
(*                                                                         *)
(* A coin is its number in the order of minting; its key pair, signature   *)
(* and nullifier stand or fall with it.                                    *)
(***************************************************************************)
EXTENDS RelayInbox, Sequences

CONSTANTS
    GuiTasks,   \* flows of the GUI process that can be at work together
    CliTasks,   \* flows started from the command line
    Names,      \* names of keysets in the keyset file
    Denoms,     \* denominations
    UserLabels, \* labels chosen on the command line
    StartFile,  \* the coins of an earlier session
    StartKeysets, \* the keysets of an earlier session
    MaxCoins    \* bound on the coins minted

Tasks == GuiTasks \cup CliTasks
Coins == 1..MaxCoins

\* The wallet's own inbox, and that of whoever it pays.
Me == "me"
Peer == "peer"

\* A payload that is no coin.
Junk == 0

ASSUME WalletAssumption ==
    /\ GuiTasks \cap CliTasks = {}
    /\ Denoms \subseteq Nat \ {0}
    /\ Recipients = {Me, Peer}
    /\ Coins \cup {Junk} \subseteq Bodies
    /\ Coins \cap Oversized = {}
    /\ MaxCoins \in Nat

\* Labels: chosen by the user, <prefix>-<message id> of a receive, pay-to-<key>
\* of a payment, refreshed-<label> of a GUI refresh (again times over).
\* unlabeled-<key> is what the GUI shows of a coin that has no label.
Label(tag, id) == [tag |-> tag, id |-> id, again |-> 0]
NoLabel == Label("none", 0)
Refreshed(label) == [label EXCEPT !.again = @ + 1]
Labels == [tag : {"none", "user", "relay", "pay-to"}, id : Nat, again : Nat]

\* StoredCoin and CoinStatus (InFlight is never assigned by the wallet).
StoredCoin(coin, denom, status, label) ==
    [coin |-> coin, denom |-> denom, status |-> status, label |-> label]

\* The contents of a file that was truncated, or written over by a shorter
\* one: no coin can be read from it.  Every file a flow saves has a coin.
Torn == <<>>

\* An earlier session has left coins numbered in the order of the file.
ASSUME StartAssumption ==
    /\ StartFile \in Seq([coin : Coins, denom : Denoms, status : {"Active", "Spent"}, label : Labels])
    /\ StartFile # Torn
    /\ \A i \in DOMAIN StartFile : StartFile[i].coin = i
    /\ StartKeysets \in [Names -> Denoms \cup {0}] /\ Names # {}
    /\ UserLabels \subseteq Labels

\* What may have become of a coin, for the properties.
Fates == {"printed",    \* the command line printed it
          "imported",   \* add-coin or a receive put it into a store
          "melted",     \* a refresh used it up
          "delivered",  \* the relay took it for the peer
          "refused",    \* the relay answered the POST with an error
          "deleted",    \* the wallet deleted its message
          "dropped"}    \* a task that held it died or could not save it

\* denom: denomination of the keyset a flow is signed by; told: what the
\* command line was told to record as the denomination, 0 if nothing.
Idle == [op |-> "none", at |-> "idle", name |-> "", label |-> NoLabel, denom |-> 0, told |-> 0,
         coin |-> 0, new |-> 0, copy |-> <<>>, queue |-> {}, added |-> FALSE]

VARIABLES
    file,     \* coins of the wallet file, in order
    tmp,      \* {} or {the contents of wallet.tmp next to it}
    drift,    \* drift[t]: which file the wallet.tmp that t opened is by now
    keysets,  \* keysets[n]: denomination of the keyset stored as n, 0 if none
    task,     \* task[t]: what flow t is about to do, and what it holds
    events,   \* UiEvents on their way to the GUI
    minted,   \* per coin: denomination of the keyset that signed it, and the
              \* coin whose refresh made it (0 if none)
    fate,     \* fate[f]: the coins that had this fate
    raced     \* whether two tasks ever held a copy of the file together

files == <<file, tmp, drift, keysets>>
flows == <<files, task, events, minted, fate, raced>>

NoKeysets == [n \in Names |-> 0]

FlowsInit ==
    /\ InboxInit
    /\ file = StartFile
    /\ tmp = {}
    /\ drift = [t \in Tasks |-> "tmp"]
    /\ keysets = StartKeysets
    /\ task = [t \in Tasks |-> Idle]
    /\ events = <<>>
    /\ minted = [i \in 1..Len(StartFile) |-> [denom |-> StartFile[i].denom, parent |-> 0]]
    /\ fate = [f \in Fates |->
                  IF f = "melted" THEN {i \in 1..Len(StartFile) : StartFile[i].status = "Spent"}
                  ELSE {}]
    /\ raced = FALSE

-----------------------------------------------------------------------------
(***************************************************************************)
(* The coin store (tardus-client coin_store.rs)                            *)
(***************************************************************************)

CoinsOf(store) == {store[i].coin : i \in DOMAIN store}

\* CoinStore::add of a coin that is not in the store yet.
Add(store, entry) == Append(store, entry)

\* Faulty: mark_in_flight is called.
MarkInFlight(store, c) ==
    [i \in DOMAIN store |-> IF store[i].coin = c THEN [store[i] EXCEPT !.status = "InFlight"]
                            ELSE store[i]]

\* Faulty: the entry of a used coin is left alone.
MarkNothing(store, c) == store

\* CoinStore::mark_spent of a coin of the store.
MarkSpent(store, c) ==
    [i \in DOMAIN store |-> IF store[i].coin = c THEN [store[i] EXCEPT !.status = "Spent"]
                            ELSE store[i]]

Labelled(store, label) == {i \in DOMAIN store : store[i].label = label}
ActiveLabelled(store, label) == {i \in Labelled(store, label) : store[i].status = "Active"}

\* Iterator::find: the first of the positions.
First(S) == CHOOSE i \in S : \A j \in S : i <= j

\* summarize_store: the rows of the GUI's coin pickers, the active coins at
\* their places in the store.
Summary(store) ==
    LET shown(e) == [label |-> IF e.label = NoLabel THEN Label("unlabeled", e.coin) ELSE e.label,
                     denom |-> e.denom]
    IN  [i \in {j \in DOMAIN store : store[j].status = "Active"} |-> shown(store[i])]

-----------------------------------------------------------------------------
(***************************************************************************)
(* Tasks                                                                   *)
(***************************************************************************)

At(t, step) == task[t].at = step
Op(t) == task[t].op
IsGui(t) == t \in GuiTasks

\* Task t has opened the file and will save what it has.
Holds(t) == task[t].at \in {"poll", "take", "write", "fill", "rename"} \/ (IsGui(t) /\ Op(t) = "refresh" /\ At(t, "mint"))

Event(kind, coins, sets) == [kind |-> kind, coins |-> coins, keysets |-> sets]

\* What the GUI is told, if t is one of its tasks.
Tell(t, kind, coins) ==
    events' = IF IsGui(t) THEN Append(events, Event(kind, coins, NoKeysets)) ELSE events

\* The task goes on at step, with other fields of its record changed by f.
GoOn(t, step, f) ==
    /\ task' = [task EXCEPT ![t] = [f EXCEPT !.at = step]]
    /\ UNCHANGED events

\* The task ends, and reports kind.
Finish(t, kind, coins) ==
    /\ task' = [task EXCEPT ![t] = Idle]
    /\ Tell(t, kind, coins)

Racing(t) == raced' = (raced \/ \E u \in Tasks \ {t} : Holds(u))

Begin(t, start) == task[t] = Idle /\ task' = [task EXCEPT ![t] = start]

Start(op, step, name, label, denom) ==
    [Idle EXCEPT !.op = op, !.at = step, !.name = name, !.label = label, !.denom = denom]

-----------------------------------------------------------------------------
(***************************************************************************)
(* Commands of the command line wallet                                     *)
(***************************************************************************)

Cli(t, start) ==
    /\ t \in CliTasks
    /\ Begin(t, start)
    /\ UNCHANGED <<files, events, minted, fate, raced, relay>>

\* refresh --coin-label.
CliRefresh(t, name, label) == Cli(t, Start("refresh", "open", name, label, 0))

\* receive.
CliReceive(t) == Cli(t, Start("receive", "open", "", NoLabel, 0))

\* pay, with or without --wallet-file, for an invoice of denomination d.
CliPay(t, name, d, audit) ==
    Cli(t, Start(IF audit THEN "audited pay" ELSE "pay", "open", name, NoLabel, d))

\* issue without --wallet-file.
CliPrint(t, name) == Cli(t, Start("print", "open", name, NoLabel, 0))

\* issue with --wallet-file, with --denom d or without it (d = 0).
CliIssue(t, name, label, d) ==
    Cli(t, [Start("issue", "open", name, label, 0) EXCEPT !.told = d])

\* wallet add-coin --denom d, of a coin an earlier command printed.
CliAddCoin(t, c, label, d) ==
    /\ c \in fate["printed"]
    /\ Cli(t, [Start("add", "reopen", "", label, 0) EXCEPT !.new = c, !.told = d])

\* keyset add and keyset remove (d = 0): one read-modify-write of the file.
CliKeyset(name, d) ==
    /\ keysets' = [keysets EXCEPT ![name] = d]
    /\ UNCHANGED <<file, tmp, drift, task, events, minted, fate, raced, relay>>

-----------------------------------------------------------------------------
(***************************************************************************)
(* Opening                                                                 *)
(***************************************************************************)

\* The coin a refresh is of: the first active one with the label.  The GUI
\* keeps its copy of the file and checks the keyset's denomination; the
\* command line opens the file again later and does not look at it.
OpenRefresh(t) ==
    LET f == task[t]
        found == file[First(ActiveLabelled(file, f.label))]
    IN  /\ Op(t) = "refresh" /\ At(t, "open")
        /\ ActiveLabelled(file, f.label) # {}
        /\ keysets[f.name] # 0
        /\ IsGui(t) => keysets[f.name] = found.denom
        /\ GoOn(t, "mint", [f EXCEPT !.coin = found.coin, !.denom = keysets[f.name],
                                     !.copy = IF IsGui(t) THEN file ELSE <<>>])
        /\ IF IsGui(t) THEN Racing(t) ELSE UNCHANGED raced
        /\ UNCHANGED <<files, minted, fate, relay>>

OpenReceive(t) ==
    /\ Op(t) = "receive" /\ At(t, "open")
    /\ file # Torn
    /\ GoOn(t, "poll", [task[t] EXCEPT !.copy = file])
    /\ Racing(t)
    /\ UNCHANGED <<files, minted, fate, relay>>

\* The keyset of a payment has the invoice's denomination; that of issue is
\* whatever is stored.
OpenKeyset(t) ==
    LET d == keysets[task[t].name]
    IN  /\ Op(t) \in {"pay", "audited pay", "issue", "print"} /\ At(t, "open")
        /\ d # 0
        /\ Op(t) \in {"pay", "audited pay"} => d = task[t].denom
        /\ GoOn(t, "mint", [task[t] EXCEPT !.denom = d])
        /\ UNCHANGED <<files, minted, fate, raced, relay>>

\* withdraw_on_devnet reads the coin and lets go of the file.
OpenWithdraw(t) ==
    /\ Op(t) = "withdraw" /\ At(t, "open")
    /\ ActiveLabelled(file, task[t].label) # {}
    /\ GoOn(t, "submit", task[t])
    /\ UNCHANGED <<files, minted, fate, raced, relay>>

-----------------------------------------------------------------------------
(***************************************************************************)
(* Validators                                                              *)
(***************************************************************************)

NextCoin == Len(minted) + 1

MintCoin(d, p) ==
    /\ Len(minted) < MaxCoins
    /\ minted' = Append(minted, [denom |-> d, parent |-> p])

\* GUI refresh, step 6: the old coin is marked and the new one added, in the
\* copy that was opened before the validators were called.
RefreshedCopy(t) ==
    Add(MarkSpent(task[t].copy, task[t].coin),
        StoredCoin(NextCoin, task[t].denom, "Active", Refreshed(task[t].label)))

\* refresh_coin succeeds: only for a coin of the keyset that is asked.
MintRefreshed(t) ==
    LET f == task[t]
    IN  /\ Op(t) = "refresh" /\ At(t, "mint")
        /\ minted[f.coin].denom = f.denom
        /\ MintCoin(f.denom, f.coin)
        /\ fate' = [fate EXCEPT !["melted"] = @ \cup {f.coin},
                                !["printed"] = IF IsGui(t) THEN @ ELSE @ \cup {NextCoin}]
        /\ IF IsGui(t) THEN GoOn(t, "write", [f EXCEPT !.new = NextCoin, !.copy = RefreshedCopy(t)])
                       ELSE GoOn(t, "reopen", [f EXCEPT !.new = NextCoin])
        /\ UNCHANGED <<files, raced, relay>>

\* Where a task goes with the coin it minted.
AfterMint(t) == IF Op(t) = "issue" THEN "reopen" ELSE "post"

\* issue_coin succeeds.
MintIssued(t) ==
    LET f == task[t]
    IN  /\ Op(t) \in {"pay", "audited pay", "issue", "print"} /\ At(t, "mint")
        /\ MintCoin(f.denom, 0)
        /\ IF Op(t) = "print" THEN Finish(t, "printed", <<>>)
                              ELSE GoOn(t, AfterMint(t), [f EXCEPT !.new = NextCoin])
        /\ fate' = [fate EXCEPT !["printed"] =
                       IF Op(t) \in {"issue", "print"} THEN @ \cup {NextCoin} ELSE @]
        /\ UNCHANGED <<files, raced, relay>>

\* The transaction of a withdrawal is confirmed; the wallet file is not
\* touched.
SubmitWithdraw(t) ==
    /\ Op(t) = "withdraw" /\ At(t, "submit")
    /\ Finish(t, "withdrawn", <<>>)
    /\ UNCHANGED <<files, minted, fate, raced, relay>>

-----------------------------------------------------------------------------
(***************************************************************************)
(* The relay                                                               *)
(***************************************************************************)

\* The POST is answered: the flow goes on whatever the answer's status.
AfterPost(t) ==
    IF Op(t) = "audited pay" THEN GoOn(t, "reopen", task[t]) ELSE Finish(t, "paid", <<>>)

\* The GUI posts with a fixed time to live, pay with its --ttl-secs.
PostTtls(t) == IF IsGui(t) THEN {"ends"} ELSE Ttls

Post(t) ==
    LET c == task[t].new
    IN  /\ At(t, "post")
        /\ \/ /\ \E ttl \in PostTtls(t) : Deposit(Peer, c, ttl)
              /\ fate' = [fate EXCEPT !["delivered"] = @ \cup {c}]
           \/ /\ Refuses(Peer, c)
              /\ fate' = [fate EXCEPT !["refused"] = @ \cup {c}]
              /\ UNCHANGED relay
        /\ AfterPost(t)
        /\ UNCHANGED <<files, minted, raced>>

\* The relay took the message, and its answer is lost.
PostUnanswered(t) ==
    /\ At(t, "post")
    /\ \E ttl \in PostTtls(t) : Deposit(Peer, task[t].new, ttl)
    /\ fate' = [fate EXCEPT !["delivered"] = @ \cup {task[t].new}]
    /\ Finish(t, "error", <<>>)
    /\ UNCHANGED <<files, minted, raced>>

\* The relay panics over the request, and the connection is closed.
PostPanics(t) ==
    /\ At(t, "post")
    /\ \E ttl \in PostTtls(t) : DepositPanics(Peer, task[t].new, ttl)
    /\ UNCHANGED fate
    /\ Finish(t, "error", <<>>)
    /\ UNCHANGED <<files, minted, raced>>

\* GET /inbox.
Poll(t) ==
    /\ Op(t) = "receive" /\ At(t, "poll")
    /\ ~poisoned
    /\ IF Listed(Me) = {} THEN Finish(t, "received", <<>>)
                            ELSE GoOn(t, "take", [task[t] EXCEPT !.queue = Listed(Me)])
    /\ UNCHANGED <<files, minted, fate, raced, relay>>

\* Faulty: the wallet is saved only when a coin other than the last was added.
AfterLastOneAdded(t, f) ==
    IF f.queue # {} THEN GoOn(t, "take", f)
    ELSE IF task[t].added THEN GoOn(t, "write", f)
    ELSE Finish(t, "received", <<>>)

\* The loop over the messages ends, in a save if anything was added.
AfterMessage(t, f) ==
    IF f.queue # {} THEN GoOn(t, "take", f)
    ELSE IF f.added THEN GoOn(t, "write", f)
    ELSE Finish(t, "received", <<>>)

\* The next of the messages that were listed.
Oldest(queue) == CHOOSE m \in queue : \A n \in queue : m.id <= n.id

\* It is a coin that is not in the copy.
Fresh(t) ==
    LET body == Oldest(task[t].queue).body
    IN  body \in Coins /\ body \notin CoinsOf(task[t].copy)

\* A message that is no coin, or one the copy holds already, is passed over
\* and stays on the relay.
Skip(t) ==
    /\ At(t, "take") /\ ~Fresh(t)
    /\ AfterMessage(t, [task[t] EXCEPT !.queue = @ \ {Oldest(@)}])
    /\ UNCHANGED <<files, minted, fate, raced, relay>>

\* A coin is added to the copy, then deleted from the relay: unless it is to
\* be kept there, or the DELETE fails.
Take(t) ==
    LET f == task[t]
        m == Oldest(f.queue)
        entry == StoredCoin(m.body, minted[m.body].denom, "Active", Label("relay", m.id))
    IN  /\ At(t, "take") /\ Fresh(t)
        /\ \/ /\ Remove(Me, m.id)
              /\ fate' = [fate EXCEPT !["deleted"] = @ \cup {m.body}, !["imported"] = @ \cup {m.body}]
           \/ /\ UNCHANGED relay
              /\ fate' = [fate EXCEPT !["imported"] = @ \cup {m.body}]
        /\ AfterMessage(t, [f EXCEPT !.queue = @ \ {m}, !.copy = Add(@, entry), !.added = TRUE])
        /\ UNCHANGED <<files, minted, raced>>

-----------------------------------------------------------------------------
(***************************************************************************)
(* Saving (wallet_db.rs)                                                   *)
(***************************************************************************)

\* What the command line records as the denomination of a refreshed coin:
\* that of the first coin with the label, whatever its status.
DenomByLabel(store, label) ==
    LET found == Labelled(store, label)
    IN  IF found = {} THEN 0 ELSE store[First(found)].denom

\* The entry a command line flow adds to the store it has opened: issue
\* prefers --denom to the denomination of the keyset, add-coin has nothing but
\* its --denom.
NewEntry(t, store) ==
    LET f == task[t]
    IN  CASE Op(t) = "refresh" ->
                 StoredCoin(f.new, DenomByLabel(store, f.label), "Active", f.label)
          [] Op(t) = "audited pay" -> StoredCoin(f.new, f.denom, "Spent", Label("pay-to", 0))
          [] Op(t) = "issue" -> StoredCoin(f.new, IF f.told # 0 THEN f.told ELSE f.denom,
                                           "Active", f.label)
          [] Op(t) = "add" -> StoredCoin(f.new, f.told, "Active", f.label)

\* Faulty: a flow that only adds a coin starts from an empty store.
ReopenedEmpty(t) == IF Op(t) = "refresh" THEN MarkSpent(file, task[t].coin) ELSE <<>>

\* The store a command line flow opens (again); a refresh marks the old coin.
Reopened(t) == IF Op(t) = "refresh" THEN MarkSpent(file, task[t].coin) ELSE file

\* A command line flow adds its coin to the file; a refresh fails if the old
\* coin is gone.
Reopen(t) ==
    LET f == task[t]
    IN  /\ At(t, "reopen")
        /\ file # Torn
        /\ f.new \notin CoinsOf(file)
        /\ Op(t) = "refresh" => f.coin \in CoinsOf(file)
        /\ GoOn(t, "write", [f EXCEPT !.copy = Add(Reopened(t), NewEntry(t, Reopened(t)))])
        /\ Racing(t)
        /\ fate' = IF Op(t) = "add" THEN [fate EXCEPT !["imported"] = @ \cup {f.new}] ELSE fate
        /\ UNCHANGED <<files, minted, relay>>

\* WalletDb::save: the copy is written to the .tmp file, which then takes the
\* place of the wallet file.  std::fs::write opens the .tmp file and truncates
\* it,
TruncateTmp(t) ==
    /\ At(t, "write")
    /\ tmp' = {Torn}
    /\ drift' = [drift EXCEPT ![t] = "tmp"]
    /\ GoOn(t, "fill", task[t])
    /\ UNCHANGED <<file, keysets, minted, fate, raced, relay>>

\* What a file has after store is written over old contents: the end of longer
\* contents is still there, and spoils the file.
Overwritten(old, store) == IF old = Torn THEN {store} ELSE {store, Torn}

\* then writes to the file it has opened, wherever another flow's rename has
\* put it meanwhile ("gone": a second rename has replaced it).
WriteTmp(t) ==
    LET copy == task[t].copy
    IN  /\ At(t, "fill")
        /\ \/ /\ drift[t] = "tmp"
              /\ \E old \in tmp : \E s \in Overwritten(old, copy) : tmp' = {s}
              /\ UNCHANGED file
           \/ /\ drift[t] # "tmp"
              /\ file' \in IF drift[t] = "file" THEN Overwritten(file, copy) ELSE {file}
              /\ UNCHANGED tmp
        /\ GoOn(t, "rename", task[t])
        /\ UNCHANGED <<drift, keysets, minted, fate, raced, relay>>

\* The event a GUI flow ends in.
Outcome(t) == IF Op(t) = "refresh" THEN "refreshed" ELSE "received"

Rename(t) ==
    /\ At(t, "rename")
    /\ \E store \in tmp : file' = store
    /\ tmp' = {}
    /\ drift' = [u \in Tasks |-> IF drift[u] = "tmp" /\ At(u, "fill") THEN "file"
                               ELSE IF At(u, "fill") THEN "gone" ELSE "tmp"]
    /\ Finish(t, Outcome(t), IF Op(t) = "refresh" THEN Summary(task[t].copy) ELSE <<>>)
    /\ UNCHANGED <<keysets, minted, fate, raced, relay>>

-----------------------------------------------------------------------------
(***************************************************************************)
(* Failures                                                                *)
(***************************************************************************)

\* Coins that only t's copy has.
Unsaved(t) == CoinsOf(task[t].copy) \ CoinsOf(file)

\* Any step but the loop over the messages can fail: a file or a coin that
\* cannot be read, a keyset that does not fit, a request that times out, a
\* disk that is full.  The task ends in an error.
Fail(t) ==
    /\ task[t] # Idle
    /\ ~At(t, "take")
    /\ fate' = [fate EXCEPT !["dropped"] = @ \cup Unsaved(t)]
    /\ Finish(t, "error", <<>>)
    /\ UNCHANGED <<files, minted, raced, relay>>

\* The processes of the tasks T are killed.
Killed(T) ==
    /\ task' = [t \in Tasks |-> IF t \in T THEN Idle ELSE task[t]]
    /\ fate' = [fate EXCEPT !["dropped"] = @ \cup UNION {Unsaved(t) : t \in T}]

CrashCli(t) ==
    /\ t \in CliTasks
    /\ task[t] # Idle
    /\ Killed({t})
    /\ UNCHANGED <<files, events, minted, raced, relay>>

-----------------------------------------------------------------------------
(***************************************************************************)
(* The rest of the world                                                   *)
(***************************************************************************)

\* Another wallet pays this one with a coin of its own.
PeerPays(d) ==
    /\ MintCoin(d, 0)
    /\ \E ttl \in Ttls : Deposit(Me, NextCoin, ttl)
    /\ UNCHANGED <<files, task, events, fate, raced>>

\* Somebody deposits what is no coin, or a coin this wallet has already.
OthersPost(r) ==
    /\ \E body \in {Junk} \cup (IF r = Me THEN CoinsOf(file) ELSE {}), ttl \in Ttls :
          Deposit(r, body, ttl) \/ DepositPanics(r, body, ttl)
    /\ UNCHANGED flows

\* The peer fetches a message.
PeerFetches ==
    /\ \E m \in inbox[Peer] : Remove(Peer, m.id)
    /\ UNCHANGED flows

\* The steps of task t that are not failures.
Progress(t) ==
    \/ OpenRefresh(t) \/ OpenReceive(t) \/ OpenKeyset(t) \/ OpenWithdraw(t)
    \/ MintRefreshed(t) \/ MintIssued(t) \/ SubmitWithdraw(t)
    \/ Post(t) \/ PostUnanswered(t) \/ PostPanics(t) \/ Poll(t) \/ Skip(t) \/ Take(t)
    \/ Reopen(t) \/ TruncateTmp(t) \/ WriteTmp(t) \/ Rename(t)

CliCommand(t) ==
    \/ CliReceive(t)
    \/ \E n \in Names :
        \/ \E l \in {file[i].label : i \in DOMAIN file} \ {NoLabel} : CliRefresh(t, n, l)
        \/ \E d \in Denoms, audit \in BOOLEAN : CliPay(t, n, d, audit)
        \/ CliPrint(t, n)
        \/ \E l \in UserLabels, d \in Denoms \cup {0} : CliIssue(t, n, l, d)
    \/ \E c \in Coins, l \in UserLabels, d \in Denoms : CliAddCoin(t, c, l, d)
=============================================================================
