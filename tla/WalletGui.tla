----------------------------- MODULE WalletGui -----------------------------
(***************************************************************************)
(* The wallet GUI (tardus-wallet-gui main.rs and the runtime loop of       *)
(* runtime.rs) over the wallet's flows.  A click sends a command to the    *)
(* background runtime, which runs every command as a task of its own; the  *)
(* results come back as events.  The busy flag of the application is all   *)
(* that keeps two commands apart.                                          *)
(***************************************************************************)
EXTENDS WalletFlows

CONSTANTS
    MaxStray,    \* bound on the errors of keyset listings
    MaxCrashes,  \* bound on the crashes of the GUI
    MaxPending,  \* bound on the commands of one kind under way
    MaxStimuli   \* bound on the clicks, command lines and acts of the world

\* Commands that are one read or one read-modify-write of a file.
Commands == [op : {"open", "list", "relist", "remove"}, name : Names, denom : {0}]
              \cup [op : {"add"}, name : Names, denom : Denoms]

Command(op, name, d) == [op |-> op, name |-> name, denom |-> d]
AnyName == CHOOSE n \in Names : TRUE

VARIABLES
    mode,     \* Locked or Unlocked
    busy,     \* App.busy
    coins,    \* App.active_coins
    sets,     \* App.keyset_summary
    pending,  \* one-step commands under way, with their number
    stray,    \* errors of keyset listings that were reported
    crashes,
    stimuli   \* clicks, command lines and acts of the world so far

app == <<mode, busy, coins, sets>>
gui == <<app, pending, stray, crashes>>
vars == <<flows, relay, gui, stimuli>>

Init ==
    /\ FlowsInit
    /\ mode = "Locked"
    /\ busy = FALSE
    /\ coins = <<>>
    /\ sets = NoKeysets
    /\ pending = [c \in Commands |-> 0]
    /\ stray = 0
    /\ crashes = 0
    /\ stimuli = 0

Send(c) == pending[c] < MaxPending /\ pending' = [pending EXCEPT ![c] = @ + 1]
Done(c) == pending[c] > 0 /\ pending' = [pending EXCEPT ![c] = @ - 1]
DoneThen(c, d) ==
    /\ pending[c] > 0
    /\ pending' = [pending EXCEPT ![c] = @ - 1, ![d] = @ + 1]

-----------------------------------------------------------------------------
(***************************************************************************)
(* Clicks                                                                  *)
(***************************************************************************)

\* unlock_async, from the locked screen.
Unlock ==
    /\ mode = "Locked" /\ ~busy
    /\ Send(Command("open", AnyName, 0))
    /\ busy' = TRUE
    /\ UNCHANGED <<flows, relay, mode, coins, sets, stray, crashes>>

\* Faulty: locking forgets that a command is under way.
LockIdle ==
    /\ mode = "Unlocked"
    /\ mode' = "Locked"
    /\ busy' = FALSE
    /\ coins' = <<>>
    /\ sets' = NoKeysets
    /\ UNCHANGED <<flows, relay, pending, stray, crashes>>

\* lock: the shown state is wiped; busy stays as it is.
Lock ==
    /\ mode = "Unlocked"
    /\ mode' = "Locked"
    /\ coins' = <<>>
    /\ sets' = NoKeysets
    /\ UNCHANGED <<flows, relay, busy, pending, stray, crashes>>

\* A button of the unlocked screen is enabled when no command is under way.
\* The runtime spawns a task for the command.
Click(start) ==
    /\ mode = "Unlocked" /\ ~busy
    /\ busy' = TRUE
    /\ \E t \in GuiTasks : task[t] = Idle
    /\ Begin(CHOOSE t \in GuiTasks : task[t] = Idle, start)
    /\ UNCHANGED <<files, events, minted, fate, raced, relay, mode, coins, sets,
                   pending, stray, crashes>>

\* The row of the coin picker with this label.
Picked(label) == coins[First({i \in DOMAIN coins : coins[i].label = label})]

Picks == {coins[i].label : i \in DOMAIN coins}

\* tab_pay: the invoice's denomination is that of the selected keyset.
ClickPay(name, d) ==
    /\ sets[name] = d
    /\ Click(Start("pay", "open", name, NoLabel, d))

\* tab_receive.
ClickReceive == Click(Start("receive", "open", "", NoLabel, 0))

\* tab_refresh: the denominations of keyset and coin match.
ClickRefresh(name, label) ==
    /\ label \in Picks
    /\ sets[name] = Picked(label).denom
    /\ Click(Start("refresh", "open", name, label, 0))

\* tab_withdraw.
ClickWithdraw(label) ==
    /\ label \in Picks
    /\ Click(Start("withdraw", "open", "", label, 0))

ClickFile(c) ==
    /\ mode = "Unlocked" /\ ~busy
    /\ busy' = TRUE
    /\ Send(c)
    /\ UNCHANGED <<flows, relay, mode, coins, sets, stray, crashes>>

\* tab_keysets: the form, and the second click on Remove.
ClickKeysetAdd(name, d) == ClickFile(Command("add", name, d))
ClickKeysetRemove(name) == sets[name] # 0 /\ ClickFile(Command("remove", name, 0))

-----------------------------------------------------------------------------
(***************************************************************************)
(* One-step commands                                                       *)
(***************************************************************************)

Report(event) == events' = Append(events, event)

\* The command ends in an Error event, or is given up without a word.
CommandFails(c) ==
    /\ Done(c)
    /\ IF c.op = "list"
         THEN /\ stray < MaxStray
              /\ stray' = stray + 1
              /\ Report(Event("error", <<>>, NoKeysets))
         ELSE /\ IF c.op = "relist" THEN UNCHANGED events
                                    ELSE Report(Event("error", <<>>, NoKeysets))
              /\ UNCHANGED stray
    /\ UNCHANGED <<files, task, minted, fate, raced, relay, app, crashes>>

\* open_wallet.
OpenWallet(c) ==
    /\ c.op = "open" /\ Done(c)
    /\ file # Torn
    /\ Report(Event("opened", Summary(file), NoKeysets))
    /\ UNCHANGED <<files, task, minted, fate, raced, relay, app, stray, crashes>>

\* list_keysets.
ListKeysets(c) ==
    /\ c.op \in {"list", "relist"} /\ Done(c)
    /\ Report(Event("listed", <<>>, keysets))
    /\ UNCHANGED <<files, task, minted, fate, raced, relay, app, stray, crashes>>

\* add_keyset; the list is read after the event is sent.
AddKeyset(c) ==
    /\ c.op = "add"
    /\ DoneThen(c, Command("list", c.name, 0))
    /\ keysets' = [keysets EXCEPT ![c.name] = c.denom]
    /\ Report(Event("added", <<>>, NoKeysets))
    /\ UNCHANGED <<file, tmp, drift, task, minted, fate, raced, relay, app, stray, crashes>>

\* remove_keyset of a keyset that is there.
RemoveKeyset(c) ==
    /\ c.op = "remove"
    /\ keysets[c.name] # 0
    /\ DoneThen(c, Command("relist", c.name, 0))
    /\ keysets' = [keysets EXCEPT ![c.name] = 0]
    /\ Report(Event("removed", <<>>, NoKeysets))
    /\ UNCHANGED <<file, tmp, drift, task, minted, fate, raced, relay, app, stray, crashes>>

RunCommand(c) ==
    CommandFails(c) \/ OpenWallet(c) \/ ListKeysets(c) \/ AddKeyset(c) \/ RemoveKeyset(c)

-----------------------------------------------------------------------------
(***************************************************************************)
(* Events                                                                  *)
(***************************************************************************)

\* Faulty: an error is shown and the command stays under way.
EndsBusyUnlessError(event) == event.kind \notin {"listed", "error"}

\* drain_events: every event but a keyset list ends the busy state, and it
\* does so whatever command it is the result of.
EndsBusy(event) == event.kind # "listed"

HandleEvent ==
    /\ events # <<>>
    /\ LET event == Head(events)
       IN  /\ events' = Tail(events)
           /\ busy' = (busy /\ ~EndsBusy(event))
           /\ mode' = IF event.kind = "opened" THEN "Unlocked" ELSE mode
           /\ coins' = IF event.kind \in {"opened", "refreshed"} THEN event.coins ELSE coins
           /\ sets' = IF event.kind \in {"opened", "listed"} THEN event.keysets ELSE sets
           /\ IF event.kind = "opened" THEN Send(Command("list", AnyName, 0))
                                       ELSE UNCHANGED pending
    /\ UNCHANGED <<files, task, minted, fate, raced, relay, stray, crashes>>

\* The GUI process is killed and started again.
CrashGui ==
    /\ crashes < MaxCrashes
    /\ crashes' = crashes + 1
    /\ Killed(GuiTasks)
    /\ events' = <<>>
    /\ pending' = [c \in Commands |-> 0]
    /\ mode' = "Locked"
    /\ busy' = FALSE
    /\ coins' = <<>>
    /\ sets' = NoKeysets
    /\ UNCHANGED <<files, minted, raced, relay, stray>>

-----------------------------------------------------------------------------

User ==
    \/ Unlock
    \/ Lock
    \/ ClickReceive
    \/ \E l \in Picks : ClickWithdraw(l)
    \/ \E n \in Names : ClickKeysetRemove(n)
    \/ \E n \in Names, l \in Picks : ClickRefresh(n, l)
    \/ \E n \in Names, d \in Denoms : ClickPay(n, d) \/ ClickKeysetAdd(n, d)

CommandLine ==
    \/ \E t \in CliTasks : CliCommand(t)
    \/ \E n \in Names, d \in Denoms \cup {0} : CliKeyset(n, d)

World ==
    \/ \E d \in Denoms : PeerPays(d)
    \/ \E r \in Recipients : OthersPost(r)
    \/ PeerFetches
    \/ RelayRestart /\ UNCHANGED flows

\* What comes from outside, a bounded number of times.
Stimulus ==
    /\ stimuli < MaxStimuli
    /\ stimuli' = stimuli + 1
    /\ \/ User
       \/ CrashGui
       \/ (CommandLine \/ World) /\ UNCHANGED gui

TaskStep(t) == (Progress(t) \/ Fail(t)) /\ UNCHANGED <<gui, stimuli>>

CommandStep(c) == RunCommand(c) /\ UNCHANGED stimuli

EventStep == HandleEvent /\ UNCHANGED stimuli

ExpireStep(r) == Expire(r) /\ UNCHANGED <<flows, gui, stimuli>>

PruneStep == Prune /\ UNCHANGED <<flows, gui, stimuli>>

Next ==
    \/ Stimulus
    \/ \E t \in Tasks : TaskStep(t)
    \/ \E t \in CliTasks : CrashCli(t) /\ UNCHANGED <<gui, stimuli>>
    \/ \E c \in Commands : CommandStep(c)
    \/ EventStep
    \/ \E r \in Recipients : ExpireStep(r)
    \/ PruneStep

\* The runtime goes on as long as a task or command is under way: requests
\* end or time out.  The GUI draws a frame every 100 ms; time passes, so that
\* the times to live that end do end, and the relay prunes once a minute until
\* its mutex is poisoned.  Nothing makes the user, the peer or the command line
\* act.
Fairness ==
    /\ WF_vars(\E t \in GuiTasks : TaskStep(t))
    /\ WF_vars(\E c \in Commands : CommandStep(c))
    /\ WF_vars(EventStep)
    /\ WF_vars(\E r \in Recipients : ExpireStep(r))
    /\ WF_vars(PruneStep)

Spec == Init /\ [][Next]_vars /\ Fairness

-----------------------------------------------------------------------------
(***************************************************************************)
(* Properties                                                              *)
(***************************************************************************)

Stored == [coin : Coins, denom : Denoms \cup {0}, status : {"Active", "Spent"},
           label : Labels]

\* Every variable has its type: the store and its copies are sequences of
\* stored coins, and commands and events are the ones of runtime.rs.
TypeOK ==
    /\ inbox \in [Recipients -> SUBSET Message]
    /\ posted \in 0..MaxPosts /\ poisoned \in BOOLEAN
    /\ file \in Seq(Stored) /\ \A s \in tmp : s \in Seq(Stored)
    /\ drift \in [Tasks -> {"tmp", "file", "gone"}]
    /\ keysets \in [Names -> Denoms \cup {0}]
    /\ \A t \in Tasks : task[t].copy \in Seq(Stored) /\ task[t].new \in Coins \cup {0}
    /\ \A i \in DOMAIN minted : minted[i] \in [denom : Denoms, parent : Coins \cup {0}]
    /\ fate \in [Fates -> SUBSET Coins]
    /\ raced \in BOOLEAN
    /\ mode \in {"Locked", "Unlocked"} /\ busy \in BOOLEAN
    /\ pending \in [Commands -> Nat]

\* A coin whose message the wallet deleted from the relay (receive, which
\* deletes before it saves) is in the wallet file or in a task that has yet to
\* save it, unless that task died or failed, or two flows overlapped.
ReceivedKept ==
    raced \/ \A c \in fate["deleted"] :
                c \in CoinsOf(file) \cup fate["dropped"] \cup UNION {CoinsOf(task[t].copy) : t \in Tasks}

\* A refresh reaches the file as one change: where the coin it made is, the
\* coin it used up is marked as spent.  Only add-coin, and a receive of a coin
\* the wallet itself had made, go around this.
\* (runtime.rs: "6. atomic wallet update".)
RefreshAtomic ==
    \A i \in DOMAIN file :
        LET c == file[i].coin
        IN  minted[c].parent # 0 /\ c \notin fate["imported"]
                => \E j \in DOMAIN file :
                        file[j].coin = minted[c].parent /\ file[j].status = "Spent"

\* Said by coin_store.rs ("Coin has been spent on-chain"), in its weakest form:
\* a coin marked Spent has at least left the wallet, used up by a refresh or
\* taken by the relay for the peer.  The coin of a payment the relay refused
\* has not, and is on no chain.
SpentHasLeft ==
    \A i \in DOMAIN file :
        file[i].status = "Spent" => file[i].coin \in fate["melted"] \cup fate["delivered"]

\* As long as no two flows overlap, a save never loses a coin of the file and
\* never makes a spent coin active again.
FileMonotone ==
    [][~raced' => \A i \in DOMAIN file :
                    \E j \in DOMAIN file' :
                        /\ file'[j].coin = file[i].coin
                        /\ file[i].status = "Spent" => file'[j].status = "Spent"]_vars

\* The commands of the GUI under way, and their results not handled yet.
Working == {t \in GuiTasks : task[t] # Idle}
Running == {c \in Commands : c.op \in {"open", "add", "remove"} /\ pending[c] > 0}
Waiting == {i \in DOMAIN events : EndsBusy(events[i])}

\* Unless the listing of keysets failed, the busy flag keeps the GUI's
\* commands apart: at most one is under way or has a result to be handled,
\* and then the flag is set.
BusyCovers ==
    stray = 0 =>
        Cardinality(Working) + Cardinality(Running) + Cardinality(Waiting)
            <= (IF busy THEN 1 ELSE 0)

\* The busy state ends: every command the GUI sent leads to an event.
BusyEnds == busy ~> ~busy

\* As long as the relay's mutex is not poisoned, only a message that outlasts
\* the relay can keep an inbox full: the others expire, and the prune loop
\* evicts them.
InboxDrains ==
    \A r \in Recipients :
        []<>(\/ Counted(r) < MaxPerRecipient
             \/ poisoned
             \/ \E m \in inbox[r] : m.ttl = "stays")
=============================================================================
