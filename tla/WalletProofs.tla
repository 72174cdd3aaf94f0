---------------------------- MODULE WalletProofs ----------------------------
(***************************************************************************)
(* Proofs about WalletGui, for every number of flows, coins, keysets and   *)
(* messages and however often they overlap, fail and crash.  The invariant *)
(* has three layers:                                                       *)
(*   Base  - types; what every store, be it the file, the .tmp file or a   *)
(*           flow's copy, keeps to; what a flow knows at each of its steps; *)
(*   Alone - what holds as long as no two flows have had the file open     *)
(*           together;                                                     *)
(*   OneCommand - what the busy flag of the GUI stands for.                *)
(***************************************************************************)
EXTENDS WalletGui, FiniteSetTheorems, SequenceTheorems, WellFoundedInduction, TLAPS

-----------------------------------------------------------------------------
(***************************************************************************)
(* The invariant                                                           *)
(***************************************************************************)

Prices == Denoms \cup {0}

ShownLabels == [tag : {"none", "user", "relay", "pay-to", "unlabeled"}, id : Nat, again : Nat]

Row == [label : ShownLabels, denom : Prices]

Rows == UNION {[S -> Row] : S \in SUBSET Nat}

Minting == [denom : Denoms, parent : Coins \cup {0}]

Kinds == {"printed", "withdrawn", "paid", "error", "received", "refreshed", "opened", "listed",
          "added", "removed"}

UiEvent == [kind : Kinds, coins : Rows, keysets : [Names -> Prices]]

Flow ==
    [op : {"none", "refresh", "receive", "pay", "audited pay", "issue", "print", "add", "withdraw"},
     at : {"idle", "open", "mint", "submit", "post", "poll", "take", "reopen", "write", "fill", "rename"},
     name : Names \cup {""}, label : ShownLabels, denom : Prices, told : Prices,
     coin : Coins \cup {0}, new : Coins \cup {0}, copy : Seq(Stored), queue : SUBSET Message,
     added : BOOLEAN]

FlowTypes ==
    /\ inbox \in [Recipients -> SUBSET Message] /\ posted \in 0..MaxPosts /\ poisoned \in BOOLEAN
    /\ file \in Seq(Stored) /\ tmp \subseteq Seq(Stored)
    /\ drift \in [Tasks -> {"tmp", "file", "gone"}]
    /\ keysets \in [Names -> Prices]
    /\ task \in [Tasks -> Flow]
    /\ minted \in Seq(Minting) /\ Len(minted) <= MaxCoins
    /\ fate \in [Fates -> SUBSET Coins]
    /\ raced \in BOOLEAN

GuiTypes ==
    /\ events \in Seq(UiEvent)
    /\ mode \in {"Locked", "Unlocked"} /\ busy \in BOOLEAN
    /\ coins \in Rows
    /\ pending \in [Commands -> Nat]
    /\ stray \in Nat

\* Entry i of store s, given the coins M minted and their fates F: it is a
\* minted coin, and a coin a refresh made is beside the spent coin it was made
\* from.
GoodEntry(s, i, M, F) ==
    /\ s[i].coin \in DOMAIN M
    /\ M[s[i].coin].parent # 0 /\ s[i].coin \notin F["imported"] =>
          \E j \in DOMAIN s : s[j].coin = M[s[i].coin].parent /\ s[j].status = "Spent"

Good(s, M, F) == \A i \in DOMAIN s : GoodEntry(s, i, M, F)

\* Messages that are coins are coins that were minted.
KnownBodies(S, M) == \A m \in S : m.body \in Coins => m.body \in DOMAIN M

\* What flow f, of the GUI if g, knows at its step.
Knows(f, g, M) ==
    /\ f.at = "open" => /\ f.op \in {"refresh", "pay", "audited pay", "issue", "print"} => f.name \in Names
                        /\ f.op \in {"issue", "print"} => f.label \in Labels
    /\ f.at = "mint" => /\ f.denom \in Denoms
                        /\ f.op \in {"refresh", "issue", "print"} => f.label \in Labels
                        /\ f.op = "refresh" => f.coin \in DOMAIN M
                        /\ f.op = "refresh" /\ g => f.coin \in CoinsOf(f.copy)
    /\ f.at = "post" => f.op \in {"pay", "audited pay"}
    /\ f.at \in {"post", "reopen"} =>
          /\ f.new \in DOMAIN M
          /\ f.op \in {"pay", "audited pay", "issue"} => M[f.new].parent = 0
    /\ f.at = "reopen" =>
          /\ f.op \in {"refresh", "audited pay", "issue", "add"}
          /\ f.op \in {"refresh", "issue", "add"} => f.label \in Labels
          /\ f.op = "refresh" => M[f.new].parent = f.coin
    /\ f.at \in {"poll", "take"} => f.op = "receive"
    /\ f.at = "take" => f.queue # {}
    /\ KnownBodies(f.queue, M)

\* Flow f, of the GUI if g, has the file open.
Open(f, g) == f.at \in {"poll", "take", "write", "fill", "rename"} \/ (g /\ f.op = "refresh" /\ f.at = "mint")

Base ==
    /\ FlowTypes
    /\ GuiTypes
    /\ Good(file, minted, fate) /\ \A s \in tmp : Good(s, minted, fate)
    /\ \A t \in Tasks : /\ Good(task[t].copy, minted, fate)
                        /\ Knows(task[t], t \in GuiTasks, minted)
                        /\ ~Open(task[t], t \in GuiTasks) => task[t].copy = <<>>
    /\ \A r \in Recipients : KnownBodies(inbox[r], minted)
    /\ fate["printed"] \subseteq DOMAIN minted

\* Store b has every coin of store a, and spent if it was.
Extends(a, b) ==
    \A i \in DOMAIN a : \E j \in DOMAIN b :
        b[j].coin = a[i].coin /\ (a[i].status = "Spent" => b[j].status = "Spent")

\* A flow alone: its copy extends the file, with the coins it added; the .tmp
\* file it has open is where it was, and what it wrote there is still there.
FlowAlone(f, g, fl, tm, dr) ==
    /\ Open(f, g) => Extends(fl, f.copy)
    /\ f.at = "fill" => tm = {Torn} /\ dr = "tmp"
    /\ f.at = "rename" => tm = {f.copy}
    /\ f.added => f.at \in {"take", "write", "fill", "rename"}
    /\ f.at \in {"poll", "take"} /\ ~f.added => CoinsOf(f.copy) \subseteq CoinsOf(fl)

Alone ==
    raced \/ /\ \A t, u \in Tasks : Open(task[t], t \in GuiTasks) /\ Open(task[u], u \in GuiTasks) => t = u
             /\ \A t \in Tasks : FlowAlone(task[t], t \in GuiTasks, file, tmp, drift[t])
             /\ ReceivedKept

\* At most one command of the GUI is under way or has its result waiting, and
\* only while the GUI is busy.
OneCommand ==
    stray = 0 =>
        /\ ~busy => Working = {} /\ Running = {} /\ Waiting = {}
        /\ \A t, u \in Working : t = u
        /\ \A c, d \in Running : c = d /\ pending[c] = 1
        /\ \A i, j \in Waiting : i = j
        /\ Working = {} \/ Running = {}
        /\ Working = {} \/ Waiting = {}
        /\ Running = {} \/ Waiting = {}

IInv == Base /\ Alone /\ OneCommand

-----------------------------------------------------------------------------
(***************************************************************************)
(* Stores                                                                  *)
(***************************************************************************)

\* A set of numbers that is not empty has a least one.
LEMMA LeastNumber == ASSUME NEW T, T \subseteq Nat, T # {} PROVE \E m \in T : \A y \in T : m <= y
<1> DEFINE R == OpToRel(<, Nat)
<1>1. IsWellFoundedOn(R, Nat)
  BY NatLessThanWellFounded
<1>2. \A x, y \in Nat : y < x => <<y, x>> \in R
  BY DEF OpToRel
<1> HIDE DEF R
<1>3. PICK m \in T : \A y \in T : ~(<<y, m>> \in R)
  BY <1>1, WFMin
<1>4. ASSUME NEW y \in T PROVE m <= y
  <2>1. m \in Nat /\ y \in Nat /\ ~(y < m)
    BY <1>2, <1>3
  <2>2. QED BY <2>1
<1>5. QED BY <1>4

LEMMA FirstIn == ASSUME NEW S, S \subseteq Nat, S # {} PROVE First(S) \in S
BY LeastNumber DEF First

LEMMA OldestIn == ASSUME NEW Q, Q \subseteq Message, Q # {} PROVE Oldest(Q) \in Q
<1> DEFINE T == {m.id : m \in Q}
<1>1. T \subseteq Nat /\ T # {}
  BY RelayAssumption DEF Message
<1>2. PICK i \in T : \A y \in T : i <= y
  BY <1>1, LeastNumber
<1>3. \E m \in Q : \A n \in Q : m.id <= n.id
  BY <1>2
<1>4. QED BY <1>3 DEF Oldest

LEMMA StoreDomain ==
    ASSUME NEW s \in Seq(Stored)
    PROVE  /\ DOMAIN s = 1..Len(s) /\ Len(s) \in Nat /\ DOMAIN s \subseteq Nat
           /\ \A i \in DOMAIN s : s[i] \in Stored
OBVIOUS

LEMMA EmptyGood ==
    ASSUME NEW M, NEW F
    PROVE  <<>> \in Seq(Stored) /\ Good(<<>>, M, F) /\ Torn \in Seq(Stored) /\ Good(Torn, M, F)
BY DEF Good, Torn

\* Coins are only minted, fates only come about.
Grows(M, M2, F, F2) ==
    /\ DOMAIN M \subseteq DOMAIN M2 /\ \A c \in DOMAIN M : M2[c] = M[c]
    /\ \A f \in Fates : F[f] \subseteq F2[f]

LEMMA FateNames ==
    {"printed", "imported", "melted", "delivered", "refused", "deleted", "dropped"} = Fates
BY DEF Fates

LEMMA GoodGrows ==
    ASSUME NEW s, NEW M, NEW M2, NEW F, NEW F2,
           Good(s, M, F), Grows(M, M2, F, F2)
    PROVE  Good(s, M2, F2)
<1>1. SUFFICES ASSUME NEW i \in DOMAIN s PROVE GoodEntry(s, i, M2, F2)
  BY DEF Good
<1>2. GoodEntry(s, i, M, F)
  BY DEF Good
<1>3. F["imported"] \subseteq F2["imported"]
  BY DEF Grows, Fates
<1>4. s[i].coin \in DOMAIN M2 /\ M2[s[i].coin] = M[s[i].coin]
  BY <1>2 DEF GoodEntry, Grows
<1>5. QED BY <1>2, <1>3, <1>4 DEF GoodEntry

\* A refresh marks the coin it used up.
LEMMA MarkSpentGood ==
    ASSUME NEW s \in Seq(Stored), NEW c, NEW M, NEW F, Good(s, M, F)
    PROVE  /\ MarkSpent(s, c) \in Seq(Stored)
           /\ Good(MarkSpent(s, c), M, F)
           /\ Extends(s, MarkSpent(s, c))
           /\ CoinsOf(MarkSpent(s, c)) = CoinsOf(s)
           /\ DOMAIN MarkSpent(s, c) = DOMAIN s
           /\ \A i \in DOMAIN s : s[i].coin = c => /\ MarkSpent(s, c)[i].coin = c
                                                  /\ MarkSpent(s, c)[i].status = "Spent"
<1> DEFINE m == MarkSpent(s, c)
<1>1. DOMAIN s = 1..Len(s) /\ Len(s) \in Nat /\ \A i \in DOMAIN s : s[i] \in Stored
  BY StoreDomain
<1>2. DOMAIN m = DOMAIN s
  BY DEF MarkSpent
<1>3. ASSUME NEW i \in DOMAIN s
      PROVE  /\ m[i] \in Stored /\ m[i].coin = s[i].coin
             /\ m[i].status = IF s[i].coin = c THEN "Spent" ELSE s[i].status
  <2>1. m[i] = IF s[i].coin = c THEN [s[i] EXCEPT !.status = "Spent"] ELSE s[i]
    BY DEF MarkSpent
  <2>2. s[i] \in Stored
    BY <1>1
  <2>3. QED BY <2>1, <2>2 DEF Stored
<1>4. m \in Seq(Stored)
  <2>1. m = [i \in 1..Len(s) |-> m[i]]
    BY <1>1 DEF MarkSpent
  <2> HIDE DEF m
  <2>2. QED BY <1>1, <1>3, <2>1
<1> HIDE DEF m
<1>5. ASSUME NEW i \in DOMAIN s PROVE GoodEntry(m, i, M, F)
  <2>1. GoodEntry(s, i, M, F)
    BY DEF Good
  <2>2. m[i].coin = s[i].coin
    BY <1>3
  <2>3. s[i].coin \in DOMAIN M
    BY <2>1 DEF GoodEntry
  <2>4. M[s[i].coin].parent # 0 /\ s[i].coin \notin F["imported"] =>
            \E j \in DOMAIN m : m[j].coin = M[s[i].coin].parent /\ m[j].status = "Spent"
    BY <1>2, <1>3, <2>1 DEF GoodEntry
  <2>5. QED BY <2>2, <2>3, <2>4 DEF GoodEntry
<1>6. Good(m, M, F)
  BY <1>2, <1>5 DEF Good
<1>7. Extends(s, m)
  BY <1>2, <1>3 DEF Extends
<1>8. CoinsOf(m) = CoinsOf(s)
  BY <1>2, <1>3 DEF CoinsOf
<1>9. QED BY <1>2, <1>3, <1>4, <1>6, <1>7, <1>8 DEF m

\* Entry e may be added to store s.
Fitting(s, e, M, F) ==
    /\ e.coin \in DOMAIN M
    /\ M[e.coin].parent # 0 /\ e.coin \notin F["imported"] =>
          \E j \in DOMAIN s : s[j].coin = M[e.coin].parent /\ s[j].status = "Spent"

LEMMA AddGood ==
    ASSUME NEW s \in Seq(Stored), NEW e \in Stored, NEW M, NEW F,
           Good(s, M, F), Fitting(s, e, M, F)
    PROVE  /\ Add(s, e) \in Seq(Stored)
           /\ Good(Add(s, e), M, F)
           /\ Extends(s, Add(s, e))
           /\ CoinsOf(Add(s, e)) = CoinsOf(s) \cup {e.coin}
<1> DEFINE a == Add(s, e)
           n == Len(s) + 1
<1>1. DOMAIN s = 1..Len(s) /\ Len(s) \in Nat
  BY StoreDomain
<1>2. /\ a \in Seq(Stored) /\ DOMAIN a = DOMAIN s \cup {n} /\ n \notin DOMAIN s /\ a[n] = e
      /\ \A i \in DOMAIN s : a[i] = s[i]
  BY <1>1 DEF Add
<1> HIDE DEF a, n
<1>3. ASSUME NEW i \in DOMAIN s PROVE GoodEntry(a, i, M, F)
  <2>1. GoodEntry(s, i, M, F)
    BY DEF Good
  <2>2. a[i] = s[i] /\ \A j \in DOMAIN s : j \in DOMAIN a /\ a[j] = s[j]
    BY <1>2
  <2>3. QED BY <2>1, <2>2 DEF GoodEntry
<1>4. GoodEntry(a, n, M, F)
  <2>1. \A j \in DOMAIN s : j \in DOMAIN a /\ a[j] = s[j] /\ j # n
    BY <1>2
  <2>2. QED BY <1>2, <2>1 DEF GoodEntry, Fitting
<1>5. Good(a, M, F)
  BY <1>2, <1>3, <1>4 DEF Good
<1>6. Extends(s, a)
  BY <1>2 DEF Extends
<1>7. CoinsOf(a) = CoinsOf(s) \cup {e.coin}
  BY <1>2 DEF CoinsOf
<1>8. QED BY <1>2, <1>5, <1>6, <1>7 DEF a

LEMMA ExtendsTransitive ==
    ASSUME NEW a, NEW b, NEW c, Extends(a, b), Extends(b, c)
    PROVE  Extends(a, c)
BY DEF Extends

LEMMA ExtendsReflexive == ASSUME NEW a PROVE Extends(a, a)
BY DEF Extends

LEMMA ExtendsCoins == ASSUME NEW a, NEW b, Extends(a, b) PROVE CoinsOf(a) \subseteq CoinsOf(b)
BY DEF Extends, CoinsOf

LEMMA SummaryRows == ASSUME NEW s \in Seq(Stored) PROVE Summary(s) \in Rows
<1> DEFINE A == {j \in DOMAIN s : s[j].status = "Active"}
           shown(e) == [label |-> IF e.label = NoLabel THEN Label("unlabeled", e.coin) ELSE e.label,
                        denom |-> e.denom]
<1>1. A \subseteq Nat
  BY StoreDomain
<1>2. ASSUME NEW i \in A PROVE shown(s[i]) \in Row
  <2>1. s[i] \in Stored
    BY StoreDomain
  <2>2. s[i].label \in ShownLabels /\ s[i].denom \in Prices /\ s[i].coin \in Nat
    BY <2>1, WalletAssumption DEF Stored, Labels, ShownLabels, Prices, Coins
  <2>3. Label("unlabeled", s[i].coin) \in ShownLabels
    BY <2>2 DEF Label, ShownLabels
  <2>4. QED BY <2>2, <2>3 DEF Row
<1>3. Summary(s) = [i \in A |-> shown(s[i])]
  BY DEF Summary
<1> HIDE DEF A, shown
<1>4. Summary(s) \in [A -> Row]
  BY <1>2, <1>3
<1>5. QED BY <1>1, <1>4 DEF Rows

-----------------------------------------------------------------------------
(***************************************************************************)
(* Base: frames                                                            *)
(***************************************************************************)

LEMMA LabelTypes == NoLabel \in Labels /\ Labels \subseteq ShownLabels
BY DEF NoLabel, Label, Labels, ShownLabels

LEMMA IdleFlow ==
    /\ Idle \in Flow /\ Idle.at = "idle" /\ Idle.copy = <<>> /\ Idle.queue = {} /\ Idle.op = "none"
    /\ Idle.coin = 0 /\ Idle.new = 0 /\ Idle.added = FALSE
<1>1. NoLabel \in ShownLabels /\ <<>> \in Seq(Stored)
  BY LabelTypes
<1>2. QED BY <1>1 DEF Idle, Flow, Prices

LEMMA IdleKnows == ASSUME NEW g, NEW M, NEW F PROVE Knows(Idle, g, M) /\ ~Open(Idle, g)
BY IdleFlow DEF Knows, Open, KnownBodies

LEMMA MintedCoins ==
    ASSUME Base
    PROVE  /\ DOMAIN minted = 1..Len(minted) /\ Len(minted) \in Nat /\ DOMAIN minted \subseteq Coins
           /\ \A c \in DOMAIN minted : minted[c] \in Minting
<1>1. minted \in Seq(Minting) /\ Len(minted) <= MaxCoins
  BY DEF Base, FlowTypes
<1>2. QED BY <1>1, WalletAssumption DEF Coins

\* What a step adds to the coins and their fates.
History ==
    /\ minted' \in Seq(Minting) /\ Len(minted') <= MaxCoins
    /\ fate' \in [Fates -> SUBSET Coins]
    /\ raced' \in BOOLEAN
    /\ Grows(minted, minted', fate, fate')
    /\ fate'["printed"] \subseteq DOMAIN minted'

\* The relay after a step.
RelaySound ==
    /\ inbox' \in [Recipients -> SUBSET Message] /\ posted' \in 0..MaxPosts /\ poisoned' \in BOOLEAN
    /\ \A r \in Recipients : KnownBodies(inbox'[r], minted')

LEMMA KnownGrows ==
    ASSUME NEW S, NEW M, NEW M2, KnownBodies(S, M), DOMAIN M \subseteq DOMAIN M2
    PROVE  KnownBodies(S, M2)
BY DEF KnownBodies

LEMMA KnowsGrows ==
    ASSUME NEW f, NEW g, NEW M, NEW M2, NEW F, NEW F2,
           Knows(f, g, M), Grows(M, M2, F, F2)
    PROVE  Knows(f, g, M2)
<1>1. DOMAIN M \subseteq DOMAIN M2 /\ \A c \in DOMAIN M : M2[c] = M[c]
  BY DEF Grows
<1>2. KnownBodies(f.queue, M2)
  BY <1>1, KnownGrows DEF Knows
<1>3. QED BY <1>1, <1>2 DEF Knows

LEMMA HistoryKept ==
    ASSUME Base, UNCHANGED <<minted, fate>>, raced' \in BOOLEAN
    PROVE  History
BY DEF Base, FlowTypes, History, Grows

LEMMA RelayKept ==
    ASSUME Base, UNCHANGED relay, History
    PROVE  RelaySound
<1>1. inbox' = inbox /\ posted' = posted /\ poisoned' = poisoned /\ DOMAIN minted \subseteq DOMAIN minted'
  BY DEF relay, History, Grows
<1>2. \A r \in Recipients : KnownBodies(inbox[r], minted')
  BY <1>1, KnownGrows DEF Base
<1>3. QED BY <1>1, <1>2 DEF RelaySound, Base, FlowTypes

\* What the files may be after a step of flow t.
Around(t) == {file, Torn, task[t].copy} \cup tmp

FilesSound(t) ==
    /\ file' \in Around(t) /\ tmp' \subseteq Around(t)
    /\ drift' \in [Tasks -> {"tmp", "file", "gone"}]
    /\ keysets' \in [Names -> Prices]

LEMMA FilesKept == ASSUME Base, UNCHANGED files, NEW t PROVE FilesSound(t)
BY DEF Base, FlowTypes, files, FilesSound, Around

\* The stores of a step that changes no more than one flow.
StoresSound(t, g) ==
    /\ task' = [task EXCEPT ![t] = g]
    /\ g \in Flow
    /\ Good(g.copy, minted', fate') /\ Knows(g, t \in GuiTasks, minted')
    /\ ~Open(g, t \in GuiTasks) => g.copy = <<>>
    /\ FilesSound(t)

LEMMA BaseStep ==
    ASSUME Base, History, RelaySound, GuiTypes', NEW t \in Tasks, NEW g, StoresSound(t, g)
    PROVE  Base'
<1>1. Grows(minted, minted', fate, fate')
  BY DEF History
<1>2. file \in Seq(Stored) /\ tmp \subseteq Seq(Stored) /\ task \in [Tasks -> Flow]
  BY DEF Base, FlowTypes
<1>3. task[t].copy \in Seq(Stored)
  BY <1>2 DEF Flow
<1>4. task' \in [Tasks -> Flow] /\ \A u \in Tasks : task'[u] = IF u = t THEN g ELSE task[u]
  BY <1>2 DEF StoresSound
<1>5. file' \in Seq(Stored) /\ tmp' \subseteq Seq(Stored)
  <2>1. Around(t) \subseteq Seq(Stored)
    BY <1>2, <1>3, EmptyGood DEF Around
  <2>2. QED BY <2>1 DEF StoresSound, FilesSound
<1>6. FlowTypes'
  BY <1>4, <1>5 DEF FlowTypes, History, RelaySound, StoresSound, FilesSound
<1>7. ASSUME NEW s, Good(s, minted, fate) PROVE Good(s, minted', fate')
  BY <1>1, <1>7, GoodGrows
<1>8. Good(file', minted', fate') /\ \A s \in tmp' : Good(s, minted', fate')
  <2>1. \A s \in Around(t) : Good(s, minted', fate')
    BY <1>7, EmptyGood DEF Base, Around
  <2>2. QED BY <2>1 DEF StoresSound, FilesSound
<1>9. ASSUME NEW u \in Tasks
      PROVE  /\ Good(task'[u].copy, minted', fate')
             /\ Knows(task'[u], u \in GuiTasks, minted')
             /\ ~Open(task'[u], u \in GuiTasks) => task'[u].copy = <<>>
  <2>1. CASE u = t
    BY <1>4, <2>1 DEF StoresSound
  <2>2. CASE u # t
    <3>1. task'[u] = task[u]
      BY <1>4, <2>2
    <3>2. Good(task[u].copy, minted', fate')
      BY <1>7 DEF Base
    <3>3. Knows(task[u], u \in GuiTasks, minted')
      <4>1. Knows(task[u], u \in GuiTasks, minted)
        BY DEF Base
      <4>2. QED BY <1>1, <4>1, KnowsGrows
    <3>4. ~Open(task[u], u \in GuiTasks) => task[u].copy = <<>>
      BY DEF Base
    <3>5. QED BY <3>1, <3>2, <3>3, <3>4
  <2>3. QED BY <2>1, <2>2
<1>10. QED BY <1>6, <1>8, <1>9 DEF Base, RelaySound, History

\* A step that changes no flow.
LEMMA BaseNoFlow ==
    ASSUME Base, History, RelaySound, GuiTypes', UNCHANGED <<file, tmp, drift, task>>, keysets' \in [Names -> Prices]
    PROVE  Base'
<1>1. Grows(minted, minted', fate, fate')
  BY DEF History
<1>2. FlowTypes'
  BY DEF FlowTypes, Base, History, RelaySound
<1>3. Good(file, minted', fate') /\ \A s \in tmp : Good(s, minted', fate')
  BY <1>1, GoodGrows DEF Base
<1>4. ASSUME NEW u \in Tasks
      PROVE  /\ Good(task[u].copy, minted', fate')
             /\ Knows(task[u], u \in GuiTasks, minted')
             /\ ~Open(task[u], u \in GuiTasks) => task[u].copy = <<>>
  BY <1>1, GoodGrows, KnowsGrows DEF Base
<1>5. QED BY <1>2, <1>3, <1>4 DEF Base, RelaySound, History

LEMMA GuiKept == ASSUME GuiTypes, UNCHANGED <<events, gui>> PROVE GuiTypes'
BY DEF GuiTypes, gui, app

LEMMA NoKeysetsType == NoKeysets \in [Names -> Prices]
BY DEF NoKeysets, Prices

LEMMA EventType ==
    ASSUME NEW k \in Kinds, NEW cs \in Rows, NEW ks \in [Names -> Prices]
    PROVE  Event(k, cs, ks) \in UiEvent /\ Event(k, cs, ks).kind = k
BY DEF Event, UiEvent

LEMMA NoRows == <<>> \in Rows
<1>1. <<>> \in [{} -> Row]
  OBVIOUS
<1>2. QED BY <1>1 DEF Rows

LEMMA TellTypes ==
    ASSUME GuiTypes, UNCHANGED gui, NEW t, NEW k \in Kinds, NEW cs \in Rows, Tell(t, k, cs)
    PROVE  GuiTypes'
<1>1. Event(k, cs, NoKeysets) \in UiEvent
  BY EventType, NoKeysetsType
<1>2. events' \in Seq(UiEvent)
  BY <1>1 DEF Tell, GuiTypes
<1>3. QED BY <1>2 DEF GuiTypes, gui, app

LEMMA FlowFields ==
    ASSUME Base, NEW t \in Tasks
    PROVE  /\ task[t] \in Flow /\ task[t].copy \in Seq(Stored) /\ task[t].queue \in SUBSET Message
           /\ task[t].label \in ShownLabels /\ task[t].denom \in Prices /\ task[t].told \in Prices /\ task[t].added \in BOOLEAN
           /\ task[t].coin \in Coins \cup {0} /\ task[t].new \in Coins \cup {0}
           /\ Good(task[t].copy, minted, fate)
           /\ Knows(task[t], t \in GuiTasks, minted)
           /\ ~Open(task[t], t \in GuiTasks) => task[t].copy = <<>>
BY DEF Base, FlowTypes, Flow

\* A flow ends.
LEMMA EndedSound ==
    ASSUME Base, NEW t \in Tasks, task' = [task EXCEPT ![t] = Idle], FilesSound(t)
    PROVE  StoresSound(t, Idle)
BY IdleFlow, IdleKnows, EmptyGood DEF StoresSound

-----------------------------------------------------------------------------
(***************************************************************************)
(* Base: the steps of a flow                                               *)
(***************************************************************************)

LEMMA BaseOpenRefresh ==
    ASSUME Base, NEW t \in Tasks, OpenRefresh(t), UNCHANGED gui
    PROVE  Base'
<1> DEFINE f == task[t]
           A == ActiveLabelled(file, f.label)
           found == file[First(A)]
           c == IF t \in GuiTasks THEN file ELSE <<>>
           g == [f EXCEPT !.coin = found.coin, !.denom = keysets[f.name], !.copy = c, !.at = "mint"]
<1>1. /\ f.op = "refresh" /\ f.at = "open" /\ A # {} /\ keysets[f.name] # 0
      /\ task' = [task EXCEPT ![t] = g] /\ UNCHANGED events
      /\ UNCHANGED <<files, minted, fate, relay>>
      /\ raced' \in {raced, raced \/ \E u \in Tasks \ {t} : Holds(u)}
  BY DEF OpenRefresh, GoOn, Op, At, IsGui, Racing
<1>2. f \in Flow /\ Knows(f, t \in GuiTasks, minted)
  BY FlowFields
<1>3. file \in Seq(Stored) /\ keysets \in [Names -> Prices] /\ raced \in BOOLEAN
      /\ Good(file, minted, fate) /\ GuiTypes
  BY DEF Base, FlowTypes
<1>4. A \subseteq DOMAIN file /\ A \subseteq Nat
  BY <1>3, StoreDomain DEF ActiveLabelled, Labelled
<1>5. First(A) \in A
  <2> HIDE DEF A
  <2>1. QED BY <1>1, <1>4, FirstIn
<1>6. First(A) \in DOMAIN file /\ found \in Stored /\ found.label = f.label
  BY <1>3, <1>5, StoreDomain DEF ActiveLabelled, Labelled
<1>7. found.coin \in DOMAIN minted /\ found.coin \in CoinsOf(file)
  BY <1>3, <1>6 DEF Good, GoodEntry, CoinsOf
<1> HIDE DEF found
<1>8. found.coin \in Coins /\ f.label \in Labels
  BY <1>6, <1>7, MintedCoins DEF Stored
<1>9. f.name \in Names /\ keysets[f.name] \in Denoms
  BY <1>1, <1>2, <1>3 DEF Knows, Prices
<1>10. c \in Seq(Stored) /\ Good(c, minted, fate)
  BY <1>3, EmptyGood
<1> HIDE DEF c
<1>11. /\ g \in Flow /\ g.at = "mint" /\ g.op = "refresh" /\ g.label = f.label /\ g.coin = found.coin
       /\ g.denom = keysets[f.name] /\ g.copy = c /\ g.queue = f.queue
  BY <1>1, <1>2, <1>8, <1>9, <1>10 DEF Flow, Prices
<1> HIDE DEF g
<1>12. raced' \in BOOLEAN
  BY <1>1, <1>3
<1>13. History /\ minted' = minted /\ fate' = fate
  BY <1>1, <1>12, HistoryKept
<1>14. Good(g.copy, minted', fate')
  BY <1>10, <1>11, <1>13, GoodGrows DEF History
<1>15. Knows(g, t \in GuiTasks, minted')
  BY <1>2, <1>7, <1>8, <1>9, <1>11, <1>13 DEF Knows, c
<1>16. ~Open(g, t \in GuiTasks) => g.copy = <<>>
  BY <1>11 DEF Open, c
<1>17. StoresSound(t, g)
  BY <1>1, <1>3, <1>11, <1>14, <1>15, <1>16, FilesKept DEF StoresSound
<1>18. QED BY <1>1, <1>3, <1>13, <1>17, BaseStep, RelayKept, GuiKept

LEMMA BaseOpenReceive ==
    ASSUME Base, NEW t \in Tasks, OpenReceive(t), UNCHANGED gui
    PROVE  Base'
<1> DEFINE f == task[t]
           g == [f EXCEPT !.copy = file, !.at = "poll"]
<1>1. /\ f.op = "receive" /\ f.at = "open"
      /\ task' = [task EXCEPT ![t] = g] /\ UNCHANGED events
      /\ UNCHANGED <<files, minted, fate, relay>>
      /\ raced' = (raced \/ \E u \in Tasks \ {t} : Holds(u))
  BY DEF OpenReceive, GoOn, Op, At, Racing
<1>2. f \in Flow /\ Knows(f, t \in GuiTasks, minted)
  BY FlowFields
<1>3. file \in Seq(Stored) /\ keysets \in [Names -> Prices] /\ raced \in BOOLEAN
      /\ Good(file, minted, fate) /\ GuiTypes
  BY DEF Base, FlowTypes
<1>4. g \in Flow /\ g.at = "poll" /\ g.op = "receive" /\ g.copy = file /\ g.queue = f.queue
  BY <1>1, <1>2, <1>3 DEF Flow
<1> HIDE DEF g
<1>5. raced' \in BOOLEAN
  BY <1>1, <1>3
<1>6. History /\ minted' = minted /\ fate' = fate
  BY <1>1, <1>5, HistoryKept
<1>7. Good(g.copy, minted', fate')
  BY <1>3, <1>4, <1>6, GoodGrows DEF History
<1>8. Knows(g, t \in GuiTasks, minted') /\ Open(g, t \in GuiTasks)
  BY <1>2, <1>4, <1>6 DEF Knows, Open
<1>9. StoresSound(t, g)
  BY <1>1, <1>3, <1>4, <1>7, <1>8, FilesKept DEF StoresSound
<1>10. QED BY <1>1, <1>3, <1>6, <1>9, BaseStep, RelayKept, GuiKept

LEMMA BaseOpenOther ==
    ASSUME Base, NEW t \in Tasks, OpenKeyset(t) \/ OpenWithdraw(t), UNCHANGED gui
    PROVE  Base'
<1> DEFINE f == task[t]
<1>1. f.at = "open" /\ UNCHANGED <<files, minted, fate, raced, relay, events>>
  BY DEF OpenKeyset, OpenWithdraw, GoOn, At
<1>2. f \in Flow /\ Knows(f, t \in GuiTasks, minted) /\ f.copy = <<>>
  BY <1>1, FlowFields DEF Open
<1>3. keysets \in [Names -> Prices] /\ raced \in BOOLEAN /\ GuiTypes
  BY DEF Base, FlowTypes
<1>4. History
  BY <1>1, <1>3, HistoryKept
<1>5. ASSUME NEW g, task' = [task EXCEPT ![t] = g], g \in Flow, Knows(g, t \in GuiTasks, minted),
             g.copy = <<>>
      PROVE  Base'
  <2>1. StoresSound(t, g)
    BY <1>1, <1>3, <1>5, EmptyGood, FilesKept DEF StoresSound
  <2>2. QED BY <1>1, <1>3, <1>4, <2>1, BaseStep, RelayKept, GuiKept
<1>6. CASE OpenKeyset(t)
  <2> DEFINE d == keysets[f.name]
             g == [f EXCEPT !.denom = d, !.at = "mint"]
  <2>1. /\ f.op \in {"pay", "audited pay", "issue", "print"} /\ d # 0
        /\ task' = [task EXCEPT ![t] = g]
    BY <1>6 DEF OpenKeyset, GoOn, Op
  <2>2. d \in Denoms
    BY <1>1, <1>2, <1>3, <2>1 DEF Knows, Prices
  <2> HIDE DEF d
  <2>3. /\ g \in Flow /\ g.at = "mint" /\ g.op = f.op /\ g.label = f.label /\ g.denom = d
        /\ g.copy = <<>> /\ g.queue = f.queue
    BY <1>2, <2>2 DEF Flow, Prices
  <2> HIDE DEF g
  <2>4. Knows(g, t \in GuiTasks, minted)
    BY <1>1, <1>2, <2>1, <2>2, <2>3 DEF Knows
  <2>5. QED BY <1>5, <2>1, <2>3, <2>4
<1>7. CASE OpenWithdraw(t)
  <2> DEFINE g == [f EXCEPT !.at = "submit"]
  <2>1. task' = [task EXCEPT ![t] = g]
    BY <1>7 DEF OpenWithdraw, GoOn
  <2>2. g \in Flow /\ g.at = "submit" /\ g.op = f.op /\ g.copy = <<>> /\ g.queue = f.queue
    BY <1>2 DEF Flow
  <2> HIDE DEF g
  <2>3. Knows(g, t \in GuiTasks, minted)
    BY <1>2, <2>2 DEF Knows
  <2>4. QED BY <1>5, <2>1, <2>2, <2>3
<1>8. QED BY <1>6, <1>7

\* The validators sign a coin.
LEMMA MintFacts ==
    ASSUME Base, NEW d \in Denoms, NEW p \in Coins \cup {0}, MintCoin(d, p)
    PROVE  /\ minted' \in Seq(Minting) /\ Len(minted') <= MaxCoins
           /\ DOMAIN minted' = DOMAIN minted \cup {NextCoin} /\ NextCoin \notin DOMAIN minted
           /\ minted'[NextCoin] = [denom |-> d, parent |-> p] /\ NextCoin \in Coins
           /\ \A c \in DOMAIN minted : minted'[c] = minted[c]
<1>1. minted \in Seq(Minting) /\ [denom |-> d, parent |-> p] \in Minting
  BY DEF Base, FlowTypes, Minting
<1>2. minted' = Append(minted, [denom |-> d, parent |-> p]) /\ Len(minted) < MaxCoins
  BY DEF MintCoin
<1>3. Len(minted) \in Nat /\ DOMAIN minted = 1..Len(minted) /\ MaxCoins \in Nat
  BY <1>1, WalletAssumption
<1>4. /\ minted' \in Seq(Minting) /\ Len(minted') = Len(minted) + 1
      /\ minted'[Len(minted) + 1] = [denom |-> d, parent |-> p]
      /\ \A c \in 1..Len(minted) : minted'[c] = minted[c]
  BY <1>1, <1>2
<1>5. DOMAIN minted' = 1..(Len(minted) + 1)
  BY <1>4
<1>6. QED BY <1>2, <1>3, <1>4, <1>5 DEF NextCoin, Coins

LEMMA MintHistory ==
    ASSUME Base, NEW d \in Denoms, NEW p \in Coins \cup {0}, MintCoin(d, p), raced' = raced,
           fate' \in [Fates -> SUBSET Coins], \A f \in Fates : fate[f] \subseteq fate'[f],
           fate'["printed"] \subseteq fate["printed"] \cup {NextCoin}
    PROVE  History
BY MintFacts DEF History, Grows, Base, FlowTypes

LEMMA BaseMintRefreshed ==
    ASSUME Base, NEW t \in Tasks, MintRefreshed(t), UNCHANGED gui
    PROVE  Base'
<1> DEFINE f == task[t]
           n == NextCoin
<1>1. /\ f.op = "refresh" /\ f.at = "mint" /\ MintCoin(f.denom, f.coin)
      /\ minted[f.coin].denom = f.denom
      /\ UNCHANGED <<files, raced, relay, events>>
  BY DEF MintRefreshed, Op, At, GoOn
<1>2. /\ f \in Flow /\ Knows(f, t \in GuiTasks, minted) /\ f.copy \in Seq(Stored)
      /\ Good(f.copy, minted, fate) /\ (~Open(f, t \in GuiTasks) => f.copy = <<>>)
  BY FlowFields
<1>3. f.denom \in Denoms /\ f.coin \in DOMAIN minted /\ f.coin \in Coins /\ f.label \in Labels
      /\ (t \in GuiTasks => f.coin \in CoinsOf(f.copy))
  BY <1>1, <1>2, MintedCoins DEF Knows
<1>4. /\ DOMAIN minted' = DOMAIN minted \cup {n} /\ n \notin DOMAIN minted
      /\ minted'[n] = [denom |-> f.denom, parent |-> f.coin] /\ n \in Coins
      /\ \A c \in DOMAIN minted : minted'[c] = minted[c]
  BY <1>1, <1>3, MintFacts
<1>5. fate \in [Fates -> SUBSET Coins] /\ keysets \in [Names -> Prices] /\ raced \in BOOLEAN /\ GuiTypes
  BY DEF Base, FlowTypes
<1>6. fate' = [fate EXCEPT !["melted"] = @ \cup {f.coin},
                           !["printed"] = IF t \in GuiTasks THEN @ ELSE @ \cup {n}]
  BY DEF MintRefreshed, IsGui
<1>7. /\ fate' \in [Fates -> SUBSET Coins]
      /\ \A x \in Fates : fate[x] \subseteq fate'[x]
      /\ fate'["printed"] \subseteq fate["printed"] \cup {n}
  BY <1>3, <1>4, <1>5, <1>6 DEF Fates
<1>8. History
  BY <1>1, <1>3, <1>7, MintHistory
<1> HIDE DEF n
<1>9. CASE t \in GuiTasks
  <2> DEFINE m == MarkSpent(f.copy, f.coin)
             e == StoredCoin(n, f.denom, "Active", Refreshed(f.label))
             g == [f EXCEPT !.new = n, !.copy = Add(m, e), !.at = "write"]
  <2>1. task' = [task EXCEPT ![t] = g]
    BY <1>9 DEF MintRefreshed, IsGui, GoOn, RefreshedCopy, n
  <2>2. Good(f.copy, minted', fate')
    BY <1>2, <1>8, GoodGrows DEF History
  <2>3. /\ m \in Seq(Stored) /\ Good(m, minted', fate')
        /\ DOMAIN m = DOMAIN f.copy
        /\ \A i \in DOMAIN f.copy : f.copy[i].coin = f.coin => m[i].coin = f.coin /\ m[i].status = "Spent"
    BY <1>2, <1>7, <2>2, MarkSpentGood
  <2>4. Refreshed(f.label) \in Labels
    BY <1>3 DEF Refreshed, Labels
  <2>5. e \in Stored /\ e.coin = n /\ e.denom = f.denom /\ e.status = "Active"
    BY <1>3, <1>4, <2>4 DEF StoredCoin, Stored
  <2> HIDE DEF m, e
  <2>6. \E j \in DOMAIN m : m[j].coin = f.coin /\ m[j].status = "Spent"
    BY <1>3, <1>9, <2>3 DEF CoinsOf
  <2>7. Fitting(m, e, minted', fate')
    BY <1>4, <2>5, <2>6 DEF Fitting
  <2>8. Add(m, e) \in Seq(Stored) /\ Good(Add(m, e), minted', fate')
    BY <2>3, <2>5, <2>7, AddGood
  <2>9. /\ g \in Flow /\ g.at = "write" /\ g.op = "refresh" /\ g.queue = f.queue /\ g.copy = Add(m, e)
    BY <1>1, <1>2, <1>4, <2>8 DEF Flow
  <2> HIDE DEF g
  <2>10. KnownBodies(g.queue, minted')
    BY <1>2, <1>4, <2>9, KnownGrows DEF Knows
  <2>11. Knows(g, t \in GuiTasks, minted') /\ Open(g, t \in GuiTasks)
    BY <2>9, <2>10 DEF Knows, Open
  <2>12. StoresSound(t, g)
    BY <1>1, <1>5, <2>1, <2>8, <2>9, <2>11, FilesKept DEF StoresSound
  <2>13. QED BY <1>1, <1>5, <1>8, <2>12, BaseStep, RelayKept, GuiKept
<1>10. CASE t \notin GuiTasks
  <2> DEFINE g == [f EXCEPT !.new = n, !.at = "reopen"]
  <2>1. task' = [task EXCEPT ![t] = g]
    BY <1>10 DEF MintRefreshed, IsGui, GoOn, n
  <2>2. f.copy = <<>>
    BY <1>1, <1>2, <1>10 DEF Open
  <2>3. /\ g \in Flow /\ g.at = "reopen" /\ g.op = "refresh" /\ g.queue = f.queue /\ g.copy = <<>>
        /\ g.new = n /\ g.coin = f.coin /\ g.label = f.label
    BY <1>1, <1>2, <1>4, <2>2 DEF Flow
  <2> HIDE DEF g
  <2>4. KnownBodies(g.queue, minted')
    BY <1>2, <1>4, <2>3, KnownGrows DEF Knows
  <2>5. Knows(g, t \in GuiTasks, minted')
    BY <1>3, <1>4, <1>7, <2>3, <2>4 DEF Knows
  <2>6. StoresSound(t, g)
    BY <1>1, <1>5, <2>1, <2>3, <2>5, EmptyGood, FilesKept DEF StoresSound
  <2>7. QED BY <1>1, <1>5, <1>8, <2>6, BaseStep, RelayKept, GuiKept
<1>11. QED BY <1>9, <1>10

LEMMA BaseMintIssued ==
    ASSUME Base, NEW t \in Tasks, MintIssued(t), UNCHANGED gui
    PROVE  Base'
<1> DEFINE f == task[t]
           n == NextCoin
<1>1. /\ f.op \in {"pay", "audited pay", "issue", "print"} /\ f.at = "mint" /\ MintCoin(f.denom, 0)
      /\ UNCHANGED <<files, raced, relay>>
      /\ fate' = [fate EXCEPT !["printed"] = IF f.op \in {"issue", "print"} THEN @ \cup {n} ELSE @]
  BY DEF MintIssued, Op, At
<1>2. f \in Flow /\ Knows(f, t \in GuiTasks, minted) /\ f.copy = <<>>
  BY <1>1, FlowFields DEF Open
<1>3. f.denom \in Denoms
  BY <1>1, <1>2 DEF Knows
<1>4. /\ DOMAIN minted' = DOMAIN minted \cup {n} /\ n \notin DOMAIN minted
      /\ minted'[n] = [denom |-> f.denom, parent |-> 0] /\ n \in Coins
  BY <1>1, <1>3, MintFacts
<1>5. fate \in [Fates -> SUBSET Coins] /\ keysets \in [Names -> Prices] /\ GuiTypes
  BY DEF Base, FlowTypes
<1>6. fate' \in [Fates -> SUBSET Coins] /\ (\A x \in Fates : fate[x] \subseteq fate'[x])
      /\ fate'["printed"] \subseteq fate["printed"] \cup {n}
  BY <1>1, <1>4, <1>5 DEF Fates
<1>7. History
  BY <1>1, <1>3, <1>6, MintHistory
<1>8. CASE f.op = "print"
  <2>1. task' = [task EXCEPT ![t] = Idle] /\ Tell(t, "printed", <<>>)
    BY <1>8 DEF MintIssued, Op, Finish
  <2>2. GuiTypes' /\ StoresSound(t, Idle)
    BY <1>1, <1>5, <2>1, NoRows, TellTypes, EndedSound, FilesKept DEF Kinds
  <2>3. QED BY <1>1, <1>7, <2>2, BaseStep, RelayKept
<1>9. CASE f.op # "print"
  <2> DEFINE at == AfterMint(t)
             g == [f EXCEPT !.new = n, !.at = at]
  <2>1. task' = [task EXCEPT ![t] = g] /\ UNCHANGED events
    BY <1>9 DEF MintIssued, GoOn, Op
  <2>2. at = IF f.op = "issue" THEN "reopen" ELSE "post"
    BY DEF AfterMint, Op
  <2> HIDE DEF at, n
  <2>3. /\ g \in Flow /\ g.at = at /\ g.op = f.op /\ g.queue = f.queue /\ g.copy = <<>>
        /\ g.new = n /\ g.label = f.label /\ g.denom = f.denom
    BY <1>2, <1>4, <2>2 DEF Flow
  <2> HIDE DEF g
  <2>4. KnownBodies(g.queue, minted')
    BY <1>2, <1>4, <2>3, KnownGrows DEF Knows
  <2>5. Knows(g, t \in GuiTasks, minted')
    <3>1. CASE f.op = "issue"
      <4>1. f.label \in Labels
        BY <1>1, <1>2, <3>1 DEF Knows
      <4>2. QED BY <1>4, <2>2, <2>3, <2>4, <3>1, <4>1 DEF Knows
    <3>2. CASE f.op # "issue"
      <4>1. g.at = "post" /\ g.op \in {"pay", "audited pay"}
        BY <1>1, <1>9, <2>2, <2>3, <3>2
      <4>2. g.new \in DOMAIN minted' /\ minted'[g.new].parent = 0
        BY <1>4, <2>3
      <4>3. QED BY <2>4, <4>1, <4>2 DEF Knows
    <3>3. QED BY <3>1, <3>2
  <2>6. StoresSound(t, g)
    BY <1>1, <1>5, <2>1, <2>3, <2>5, EmptyGood, FilesKept DEF StoresSound
  <2>7. QED BY <1>1, <1>5, <1>7, <2>1, <2>6, BaseStep, RelayKept, GuiKept
<1>10. QED BY <1>8, <1>9

LEMMA FateHistory ==
    ASSUME Base, NEW x \in Fates \ {"printed"}, NEW S \in SUBSET Coins, fate' = [fate EXCEPT ![x] = @ \cup S],
           UNCHANGED <<minted, raced>>
    PROVE  History /\ fate'[x] = fate[x] \cup S
<1>1. fate \in [Fates -> SUBSET Coins]
  BY DEF Base, FlowTypes
<1>2. fate' \in [Fates -> SUBSET Coins] /\ fate'[x] = fate[x] \cup S /\ (\A y \in Fates : fate[y] \subseteq fate'[y])
      /\ fate'["printed"] = fate["printed"]
  BY <1>1 DEF Fates
<1>3. QED BY <1>2 DEF History, Grows, Base, FlowTypes

\* The relay stores a message whose coin, if it is one, is minted.
LEMMA DepositSound ==
    ASSUME Base, History, NEW r \in Recipients, NEW body \in Bodies,
           body \in Coins => body \in DOMAIN minted', NEW ttl \in Ttls, Deposit(r, body, ttl)
    PROVE  RelaySound
<1>0. PICK left \in Deadlines(ttl) :
          inbox' = [inbox EXCEPT ![r] = @ \cup {[id |-> posted + 1, body |-> body, ttl |-> left]}]
  BY DEF Deposit
<1> DEFINE m == [id |-> posted + 1, body |-> body, ttl |-> left]
<1>1. inbox \in [Recipients -> SUBSET Message] /\ posted \in 0..MaxPosts /\ MaxPosts \in Nat
  BY RelayAssumption DEF Base, FlowTypes
<1>2. /\ posted < MaxPosts /\ posted' = posted + 1 /\ inbox' = [inbox EXCEPT ![r] = @ \cup {m}]
      /\ poisoned' \in BOOLEAN
  BY <1>0 DEF Deposit, Base, FlowTypes
<1>3. m \in Message /\ m.body = body /\ posted' \in 0..MaxPosts
  <2>1. left \in {"over", "ends", "stays"}
    BY DEF Deadlines, Ttls
  <2>2. QED BY <1>1, <1>2, <2>1 DEF Message
<1> HIDE DEF m
<1>4. inbox' \in [Recipients -> SUBSET Message]
  BY <1>1, <1>2, <1>3
<1>5. ASSUME NEW q \in Recipients PROVE KnownBodies(inbox'[q], minted')
  <2>1. KnownBodies(inbox[q], minted')
    BY KnownGrows DEF Base, History, Grows
  <2>2. inbox'[q] \subseteq inbox[q] \cup {m}
    BY <1>1, <1>2
  <2>3. QED BY <1>3, <2>1, <2>2 DEF KnownBodies
<1>6. QED BY <1>2, <1>3, <1>4, <1>5 DEF RelaySound

\* The relay forgets messages.
LEMMA ForgotSound ==
    ASSUME Base, History, inbox' \in [Recipients -> SUBSET Message], posted' = posted, poisoned' \in BOOLEAN,
           \A r \in Recipients : \A m \in inbox'[r] : \E n \in inbox[r] : m.body = n.body
    PROVE  RelaySound
<1>1. \A r \in Recipients : KnownBodies(inbox[r], minted')
  BY KnownGrows DEF Base, History, Grows
<1>2. \A r \in Recipients : KnownBodies(inbox'[r], minted')
  BY <1>1 DEF KnownBodies
<1>3. QED BY <1>2 DEF RelaySound, Base, FlowTypes

LEMMA RemoveSound ==
    ASSUME Base, History, NEW r \in Recipients, NEW id, Remove(r, id)
    PROVE  RelaySound
<1>1. inbox \in [Recipients -> SUBSET Message]
  BY DEF Base, FlowTypes
<1>2. inbox' = [inbox EXCEPT ![r] = {m \in @ : m.id # id}] /\ posted' = posted /\ poisoned' \in BOOLEAN
  BY DEF Remove, Base, FlowTypes
<1>3. inbox' \in [Recipients -> SUBSET Message] /\ \A q \in Recipients : inbox'[q] \subseteq inbox[q]
  BY <1>1, <1>2
<1>4. QED BY <1>2, <1>3, ForgotSound

\* The relay panics.
LEMMA PanicSound ==
    ASSUME Base, History, NEW r, NEW body, NEW ttl, DepositPanics(r, body, ttl)
    PROVE  RelaySound
<1>1. inbox' = inbox /\ posted' = posted /\ poisoned' = TRUE
  BY DEF DepositPanics
<1>2. QED BY <1>1, ForgotSound DEF Base, FlowTypes

LEMMA Parties == Me \in Recipients /\ Peer \in Recipients /\ \A c \in Coins : c \in Bodies
BY WalletAssumption

LEMMA BasePost ==
    ASSUME Base, NEW t \in Tasks, Post(t) \/ PostUnanswered(t), UNCHANGED gui
    PROVE  Base'
<1> DEFINE f == task[t]
           c == f.new
<1>1. f.at = "post" /\ UNCHANGED <<files, minted, raced>>
  BY DEF Post, PostUnanswered, At
<1>2. f \in Flow /\ Knows(f, t \in GuiTasks, minted) /\ f.copy = <<>>
  BY <1>1, FlowFields DEF Open
<1>3. c \in DOMAIN minted /\ c \in Coins /\ c \in Bodies /\ {c} \in SUBSET Coins
  BY <1>1, <1>2, MintedCoins, Parties DEF Knows
<1>4. PICK x \in {"delivered", "refused"} :
          /\ fate' = [fate EXCEPT ![x] = @ \cup {c}]
          /\ (\E ttl \in Ttls : Deposit(Peer, c, ttl)) \/ UNCHANGED relay
  BY DEF Post, PostUnanswered, PostTtls, Ttls
<1>5. History /\ c \in fate'[x]
  <2>1. x \in Fates \ {"printed"}
    BY DEF Fates
  <2>2. fate' = [fate EXCEPT ![x] = @ \cup {c}] /\ UNCHANGED <<minted, raced>>
    BY <1>1, <1>4
  <2> HIDE DEF c
  <2>3. History /\ fate'[x] = fate[x] \cup {c}
    BY <1>3, <2>1, <2>2, FateHistory
  <2>4. QED BY <2>3
<1>6. RelaySound
  BY <1>1, <1>3, <1>4, <1>5, DepositSound, RelayKept, Parties
<1>7. keysets \in [Names -> Prices] /\ GuiTypes
  BY DEF Base, FlowTypes
<1>8. CASE PostUnanswered(t) \/ (Post(t) /\ f.op # "audited pay")
  <2>1. task' = [task EXCEPT ![t] = Idle] /\ (Tell(t, "error", <<>>) \/ Tell(t, "paid", <<>>))
    BY <1>8 DEF Post, PostUnanswered, Op, AfterPost, Finish
  <2>2. GuiTypes' /\ StoresSound(t, Idle)
    BY <1>1, <1>7, <2>1, NoRows, TellTypes, EndedSound, FilesKept DEF Kinds
  <2>3. QED BY <1>5, <1>6, <2>2, BaseStep
<1>9. CASE Post(t) /\ f.op = "audited pay"
  <2> DEFINE g == [f EXCEPT !.at = "reopen"]
  <2>1. task' = [task EXCEPT ![t] = g] /\ UNCHANGED events
    BY <1>9 DEF Post, AfterPost, GoOn, Op
  <2>2. /\ g \in Flow /\ g.at = "reopen" /\ g.op = f.op /\ g.queue = f.queue /\ g.copy = <<>>
        /\ g.new = c /\ g.denom = f.denom
    BY <1>2 DEF Flow
  <2> HIDE DEF g
  <2>3. Knows(g, t \in GuiTasks, minted')
    BY <1>1, <1>2, <1>3, <1>4, <1>5, <1>9, <2>2 DEF Knows
  <2>4. StoresSound(t, g)
    BY <1>1, <1>7, <2>1, <2>2, <2>3, EmptyGood, FilesKept DEF StoresSound
  <2>5. QED BY <1>5, <1>6, <1>7, <2>1, <2>4, BaseStep, GuiKept
<1>10. QED BY <1>8, <1>9

LEMMA BasePoll ==
    ASSUME Base, NEW t \in Tasks, Poll(t), UNCHANGED gui
    PROVE  Base'
<1> DEFINE f == task[t]
           g == [f EXCEPT !.queue = Listed(Me), !.at = "take"]
<1>1. f.op = "receive" /\ f.at = "poll" /\ UNCHANGED <<files, minted, fate, raced, relay>>
  BY DEF Poll, Op, At
<1>2. /\ f \in Flow /\ f.copy \in Seq(Stored) /\ Good(f.copy, minted, fate)
  BY FlowFields
<1>3. keysets \in [Names -> Prices] /\ raced \in BOOLEAN /\ GuiTypes /\ inbox \in [Recipients -> SUBSET Message]
      /\ KnownBodies(inbox[Me], minted)
  BY Parties DEF Base, FlowTypes
<1>4. History /\ RelaySound
  BY <1>1, <1>3, HistoryKept, RelayKept
<1>5. CASE Listed(Me) = {}
  <2>1. task' = [task EXCEPT ![t] = Idle] /\ Tell(t, "received", <<>>)
    BY <1>5 DEF Poll, Finish
  <2>2. GuiTypes' /\ StoresSound(t, Idle)
    BY <1>1, <1>3, <2>1, NoRows, TellTypes, EndedSound, FilesKept DEF Kinds
  <2>3. QED BY <1>4, <2>2, BaseStep
<1>6. CASE Listed(Me) # {}
  <2>1. task' = [task EXCEPT ![t] = g] /\ UNCHANGED events
    BY <1>6 DEF Poll, GoOn
  <2>2. Listed(Me) \subseteq inbox[Me] /\ Listed(Me) \in SUBSET Message
    BY <1>3, Parties DEF Listed
  <2>3. g \in Flow /\ g.at = "take" /\ g.op = "receive" /\ g.queue = Listed(Me) /\ g.copy = f.copy
    BY <1>1, <1>2, <2>2 DEF Flow
  <2> HIDE DEF g
  <2>4. Knows(g, t \in GuiTasks, minted') /\ Open(g, t \in GuiTasks)
    BY <1>1, <1>3, <1>6, <2>2, <2>3 DEF Knows, KnownBodies, Open
  <2>5. StoresSound(t, g)
    BY <1>1, <1>2, <1>3, <2>1, <2>3, <2>4, FilesKept DEF StoresSound
  <2>6. QED BY <1>3, <1>4, <2>1, <2>5, BaseStep, GuiKept
<1>7. QED BY <1>5, <1>6

\* A flow ends, whatever it reports.
LEMMA BaseEnded ==
    ASSUME Base, History, RelaySound, NEW t \in Tasks, NEW k \in Kinds, NEW cs \in Rows,
           Finish(t, k, cs), UNCHANGED gui, FilesSound(t)
    PROVE  Base'
<1>1. task' = [task EXCEPT ![t] = Idle] /\ Tell(t, k, cs)
  BY DEF Finish
<1>2. GuiTypes' /\ StoresSound(t, Idle)
  BY <1>1, TellTypes, EndedSound DEF Base
<1>3. QED BY <1>2, BaseStep

LEMMA BaseSubmitWithdraw ==
    ASSUME Base, NEW t \in Tasks, SubmitWithdraw(t), UNCHANGED gui
    PROVE  Base'
<1>1. Finish(t, "withdrawn", <<>>) /\ UNCHANGED <<files, minted, fate, raced, relay>>
  BY DEF SubmitWithdraw
<1>2. History /\ RelaySound
  BY <1>1, HistoryKept, RelayKept DEF Base, FlowTypes
<1>3. QED BY <1>1, <1>2, BaseEnded, FilesKept, NoRows DEF Kinds

LEMMA BasePostPanics ==
    ASSUME Base, NEW t \in Tasks, PostPanics(t), UNCHANGED gui
    PROVE  Base'
<1>1. /\ \E ttl : DepositPanics(Peer, task[t].new, ttl)
      /\ Finish(t, "error", <<>>) /\ UNCHANGED <<files, minted, fate, raced>>
  BY DEF PostPanics
<1>2. History /\ RelaySound
  BY <1>1, HistoryKept, PanicSound DEF Base, FlowTypes
<1>3. QED BY <1>1, <1>2, BaseEnded, FilesKept, NoRows DEF Kinds

\* The loop over the messages goes on, or ends.
LEMMA BaseAfterMessage ==
    ASSUME Base, History, RelaySound, NEW t \in Tasks, NEW g \in Flow, AfterMessage(t, g),
           g.op = "receive", Good(g.copy, minted', fate'), KnownBodies(g.queue, minted'),
           UNCHANGED <<gui, files>>
    PROVE  Base'
<1>1. GuiTypes /\ keysets' \in [Names -> Prices] /\ file' = file /\ tmp' = tmp /\ drift' = drift
  BY DEF Base, FlowTypes, files
<1>2. ASSUME NEW step \in {"take", "write"}, GoOn(t, step, g), step = "take" => g.queue # {}
      PROVE  Base'
  <2> DEFINE h == [g EXCEPT !.at = step]
  <2>1. task' = [task EXCEPT ![t] = h] /\ UNCHANGED events
    BY <1>2 DEF GoOn
  <2>2. h \in Flow /\ h.at = step /\ h.op = "receive" /\ h.queue = g.queue /\ h.copy = g.copy
    BY DEF Flow
  <2> HIDE DEF h
  <2>3. Knows(h, t \in GuiTasks, minted') /\ Open(h, t \in GuiTasks)
    BY <1>2, <2>2 DEF Knows, Open
  <2>4. StoresSound(t, h)
    BY <1>1, <2>1, <2>2, <2>3, FilesKept DEF StoresSound
  <2>5. QED BY <1>1, <2>1, <2>4, BaseStep, GuiKept
<1>3. CASE g.queue # {}
  BY <1>2, <1>3 DEF AfterMessage
<1>4. CASE g.queue = {} /\ g.added
  BY <1>2, <1>4 DEF AfterMessage
<1>5. CASE g.queue = {} /\ ~g.added
  <2>1. Finish(t, "received", <<>>)
    BY <1>5 DEF AfterMessage
  <2>2. QED BY <1>1, <2>1, BaseEnded, FilesKept, NoRows DEF Kinds
<1>6. QED BY <1>3, <1>4, <1>5

LEMMA TakeFlow ==
    ASSUME Base, NEW t \in Tasks, At(t, "take")
    PROVE  /\ task[t].op = "receive" /\ task[t].queue # {} /\ KnownBodies(task[t].queue, minted)
           /\ Oldest(task[t].queue) \in task[t].queue /\ Oldest(task[t].queue) \in Message
<1>1. Knows(task[t], t \in GuiTasks, minted) /\ task[t].queue \in SUBSET Message
  BY FlowFields
<1>2. task[t].op = "receive" /\ task[t].queue # {} /\ KnownBodies(task[t].queue, minted)
  BY <1>1 DEF Knows, At
<1>3. QED BY <1>1, <1>2, OldestIn

LEMMA BaseSkip ==
    ASSUME Base, NEW t \in Tasks, Skip(t), UNCHANGED gui
    PROVE  Base'
<1> DEFINE f == task[t]
           q == f.queue \ {Oldest(f.queue)}
           g == [f EXCEPT !.queue = q]
<1>1. At(t, "take") /\ AfterMessage(t, g) /\ UNCHANGED <<files, minted, fate, raced, relay>>
  BY DEF Skip
<1>2. f \in Flow /\ f.op = "receive" /\ KnownBodies(f.queue, minted) /\ Good(f.copy, minted, fate)
  BY <1>1, TakeFlow, FlowFields
<1>3. q \subseteq f.queue
  OBVIOUS
<1> HIDE DEF q
<1>4. g \in Flow /\ g.op = "receive" /\ g.queue = q /\ g.copy = f.copy
  BY <1>2, <1>3 DEF Flow
<1> HIDE DEF g
<1>5. KnownBodies(g.queue, minted)
  BY <1>2, <1>3, <1>4 DEF KnownBodies
<1>6. History /\ RelaySound
  BY <1>1, HistoryKept, RelayKept DEF Base, FlowTypes
<1>7. QED BY <1>1, <1>2, <1>4, <1>5, <1>6, BaseAfterMessage

\* What a receive adds to its copy.
LEMMA TakenEntry ==
    ASSUME Base, NEW t \in Tasks, At(t, "take"), Fresh(t)
    PROVE  LET m == Oldest(task[t].queue)
               e == StoredCoin(m.body, minted[m.body].denom, "Active", Label("relay", m.id))
           IN  /\ m.body \in DOMAIN minted /\ m.body \in Coins /\ m.body \notin CoinsOf(task[t].copy)
               /\ e \in Stored /\ e.coin = m.body /\ e.denom = minted[m.body].denom /\ e.status = "Active"
<1> DEFINE m == Oldest(task[t].queue)
           c == m.body
           l == Label("relay", m.id)
           e == StoredCoin(c, minted[c].denom, "Active", l)
<1>1. m \in task[t].queue /\ m \in Message /\ KnownBodies(task[t].queue, minted)
  BY TakeFlow
<1>2. c \in Coins /\ c \notin CoinsOf(task[t].copy)
  BY DEF Fresh
<1>3. c \in DOMAIN minted
  BY <1>1, <1>2 DEF KnownBodies
<1>4. m.id \in Nat
  BY <1>1, RelayAssumption DEF Message
<1>5. l \in Labels
  BY <1>4 DEF Label, Labels
<1>6. minted[c].denom \in Denoms
  BY <1>3, MintedCoins DEF Minting
<1> HIDE DEF m, l, c
<1>7. e \in Stored /\ e.coin = c /\ e.denom = minted[c].denom /\ e.status = "Active"
  BY <1>2, <1>5, <1>6 DEF StoredCoin, Stored
<1>8. QED BY <1>2, <1>3, <1>7 DEF m, c, l

LEMMA BaseTake ==
    ASSUME Base, NEW t \in Tasks, Take(t), UNCHANGED gui
    PROVE  Base'
<1> DEFINE f == task[t]
           m == Oldest(f.queue)
           e == StoredCoin(m.body, minted[m.body].denom, "Active", Label("relay", m.id))
           q == f.queue \ {m}
           cp == Add(f.copy, e)
           g == [f EXCEPT !.queue = q, !.copy = cp, !.added = TRUE]
<1>1. /\ At(t, "take") /\ Fresh(t) /\ AfterMessage(t, g) /\ UNCHANGED <<files, minted, raced>>
      /\ Remove(Me, m.id) \/ UNCHANGED relay
      /\ \/ fate' = [fate EXCEPT !["deleted"] = @ \cup {m.body}, !["imported"] = @ \cup {m.body}]
         \/ fate' = [fate EXCEPT !["imported"] = @ \cup {m.body}]
  BY DEF Take
<1>2. f \in Flow /\ f.op = "receive" /\ KnownBodies(f.queue, minted) /\ Good(f.copy, minted, fate)
      /\ f.copy \in Seq(Stored)
  BY <1>1, TakeFlow, FlowFields
<1>3. /\ m.body \in DOMAIN minted /\ m.body \in Coins
      /\ e \in Stored /\ e.coin = m.body /\ e.denom = minted[m.body].denom /\ e.status = "Active"
  BY <1>1, TakenEntry
<1> HIDE DEF m, e
<1>4. History /\ m.body \in fate'["imported"]
  <2>1. fate \in [Fates -> SUBSET Coins] /\ raced \in BOOLEAN /\ fate["printed"] \subseteq DOMAIN minted
        /\ minted \in Seq(Minting) /\ Len(minted) <= MaxCoins
    BY DEF Base, FlowTypes
  <2>2. /\ fate' \in [Fates -> SUBSET Coins] /\ m.body \in fate'["imported"]
        /\ \A y \in Fates : fate[y] \subseteq fate'[y]
        /\ fate'["printed"] = fate["printed"]
    BY <1>1, <1>3, <2>1 DEF Fates
  <2>3. QED BY <1>1, <2>1, <2>2 DEF History, Grows
<1>5. RelaySound
  BY <1>1, <1>4, RelayKept, RemoveSound, Parties
<1>6. Good(f.copy, minted', fate')
  BY <1>2, <1>4, GoodGrows DEF History
<1>7. Fitting(f.copy, e, minted', fate')
  BY <1>1, <1>3, <1>4 DEF Fitting
<1>8. cp \in Seq(Stored) /\ Good(cp, minted', fate')
  BY <1>2, <1>3, <1>6, <1>7, AddGood
<1>9. q \subseteq f.queue
  OBVIOUS
<1> HIDE DEF q, cp
<1>10. g \in Flow /\ g.op = "receive" /\ g.queue = q /\ g.copy = cp
  BY <1>2, <1>8, <1>9 DEF Flow
<1> HIDE DEF g
<1>11. KnownBodies(g.queue, minted')
  BY <1>1, <1>2, <1>9, <1>10 DEF KnownBodies
<1>12. QED BY <1>1, <1>4, <1>5, <1>8, <1>10, <1>11, BaseAfterMessage

\* A save goes on with the next system call.
LEMMA BaseSaving ==
    ASSUME Base, NEW t \in Tasks, NEW step \in {"fill", "rename"}, GoOn(t, step, task[t]), FilesSound(t),
           UNCHANGED <<minted, fate, raced, relay>>, task[t].at \in {"write", "fill"}, UNCHANGED gui
    PROVE  Base'
<1> DEFINE f == task[t]
           g == [f EXCEPT !.at = step]
<1>1. task' = [task EXCEPT ![t] = g] /\ UNCHANGED events
  BY DEF GoOn
<1>2. f \in Flow /\ Knows(f, t \in GuiTasks, minted) /\ Good(f.copy, minted, fate)
  BY FlowFields
<1>3. g \in Flow /\ g.at = step /\ g.copy = f.copy /\ g.queue = f.queue
  BY <1>2 DEF Flow
<1> HIDE DEF g
<1>4. Knows(g, t \in GuiTasks, minted') /\ Open(g, t \in GuiTasks)
  BY <1>2, <1>3 DEF Knows, Open
<1>5. History /\ RelaySound /\ GuiTypes
  BY HistoryKept, RelayKept DEF Base, FlowTypes
<1>6. StoresSound(t, g)
  BY <1>1, <1>2, <1>3, <1>4 DEF StoresSound
<1>7. QED BY <1>1, <1>5, <1>6, BaseStep, GuiKept

LEMMA BaseTruncateTmp ==
    ASSUME Base, NEW t \in Tasks, TruncateTmp(t), UNCHANGED gui
    PROVE  Base'
<1>1. /\ task[t].at = "write" /\ tmp' = {Torn} /\ drift' = [drift EXCEPT ![t] = "tmp"]
      /\ GoOn(t, "fill", task[t]) /\ UNCHANGED <<file, keysets>> /\ UNCHANGED <<minted, fate, raced, relay>>
  BY DEF TruncateTmp, At
<1>2. FilesSound(t)
  BY <1>1 DEF FilesSound, Around, Base, FlowTypes
<1>3. QED BY <1>1, <1>2, BaseSaving

LEMMA BaseWriteTmp ==
    ASSUME Base, NEW t \in Tasks, WriteTmp(t), UNCHANGED gui
    PROVE  Base'
<1> DEFINE c == task[t].copy
<1>1. /\ task[t].at = "fill" /\ GoOn(t, "rename", task[t])
      /\ UNCHANGED <<drift, keysets>> /\ UNCHANGED <<minted, fate, raced, relay>>
      /\ \/ file' = file /\ \E old \in tmp : \E s \in Overwritten(old, c) : tmp' = {s}
         \/ file' \in Overwritten(file, c) /\ tmp' = tmp
         \/ file' = file /\ tmp' = tmp
  BY DEF WriteTmp, At
<1>2. \A old : Overwritten(old, c) \subseteq Around(t)
  BY DEF Overwritten, Around
<1>3. file' \in Around(t) /\ tmp' \subseteq Around(t)
  BY <1>1, <1>2 DEF Around
<1>4. FilesSound(t)
  BY <1>1, <1>3 DEF FilesSound, Base, FlowTypes
<1>5. QED BY <1>1, <1>4, BaseSaving

LEMMA BaseRename ==
    ASSUME Base, NEW t \in Tasks, Rename(t), UNCHANGED gui
    PROVE  Base'
<1> DEFINE cs == IF Op(t) = "refresh" THEN Summary(task[t].copy) ELSE <<>>
<1>1. /\ file' \in tmp /\ tmp' = {} /\ Finish(t, Outcome(t), cs)
      /\ drift' = [u \in Tasks |-> IF drift[u] = "tmp" /\ At(u, "fill") THEN "file"
                                   ELSE IF At(u, "fill") THEN "gone" ELSE "tmp"]
      /\ UNCHANGED <<keysets, minted, fate, raced, relay>>
  BY DEF Rename
<1>2. Outcome(t) \in Kinds
  BY DEF Outcome, Kinds
<1>3. cs \in Rows
  BY FlowFields, SummaryRows, NoRows
<1>4. History /\ RelaySound
  BY <1>1, HistoryKept, RelayKept DEF Base, FlowTypes
<1> HIDE DEF cs
<1>5. FilesSound(t)
  BY <1>1 DEF FilesSound, Around, Base, FlowTypes
<1>6. QED BY <1>1, <1>2, <1>3, <1>4, <1>5, BaseEnded

\* Coins of a flow's copy that are not in the file.
LEMMA UnsavedCoins == ASSUME Base, NEW t \in Tasks PROVE Unsaved(t) \in SUBSET Coins
<1>1. task[t].copy \in Seq(Stored)
  BY FlowFields
<1>2. \A i \in DOMAIN task[t].copy : task[t].copy[i].coin \in Coins
  BY <1>1, StoreDomain DEF Stored
<1>3. QED BY <1>2 DEF Unsaved, CoinsOf

LEMMA BaseFail ==
    ASSUME Base, NEW t \in Tasks, Fail(t), UNCHANGED gui
    PROVE  Base'
<1>1. /\ fate' = [fate EXCEPT !["dropped"] = @ \cup Unsaved(t)] /\ Finish(t, "error", <<>>)
      /\ UNCHANGED <<files, minted, raced, relay>>
  BY DEF Fail
<1>2. History
  BY <1>1, UnsavedCoins, FateHistory DEF Fates
<1>3. QED BY <1>1, <1>2, RelayKept, BaseEnded, FilesKept, NoRows DEF Kinds

\* The processes of several flows are killed.
LEMMA BaseKilled ==
    ASSUME Base, NEW T \in SUBSET Tasks, Killed(T), GuiTypes', UNCHANGED <<files, minted, raced, relay>>
    PROVE  Base'
<1>1. UNION {Unsaved(t) : t \in T} \in SUBSET Coins
  BY UnsavedCoins
<1>2. History
  BY <1>1, FateHistory DEF Killed, Fates
<1>3. RelaySound
  BY <1>2, RelayKept
<1>4. Grows(minted, minted', fate, fate')
  BY <1>2 DEF History
<1>5. task' \in [Tasks -> Flow] /\ \A u \in Tasks : task'[u] = IF u \in T THEN Idle ELSE task[u]
  BY IdleFlow DEF Killed, Base, FlowTypes
<1>6. FlowTypes'
  BY <1>2, <1>3, <1>5 DEF FlowTypes, Base, History, RelaySound, files
<1>7. Good(file', minted', fate') /\ \A s \in tmp' : Good(s, minted', fate')
  BY <1>4, GoodGrows DEF Base, files
<1>8. ASSUME NEW u \in Tasks
      PROVE  /\ Good(task'[u].copy, minted', fate')
             /\ Knows(task'[u], u \in GuiTasks, minted')
             /\ ~Open(task'[u], u \in GuiTasks) => task'[u].copy = <<>>
  <2>1. CASE u \in T
    BY <1>5, <2>1, IdleFlow, IdleKnows, EmptyGood
  <2>2. CASE u \notin T
    <3>1. task'[u] = task[u]
      BY <1>5, <2>2
    <3>2. Good(task[u].copy, minted', fate') /\ Knows(task[u], u \in GuiTasks, minted')
      BY <1>4, FlowFields, GoodGrows, KnowsGrows
    <3>3. QED BY <3>1, <3>2, FlowFields
  <2>3. QED BY <2>1, <2>2
<1>9. QED BY <1>2, <1>3, <1>6, <1>7, <1>8 DEF Base, History, RelaySound

\* A flow that has opened the file (again) adds its coin to it.
LEMMA ReopenHistory ==
    ASSUME Base, NEW t \in Tasks, Reopen(t)
    PROVE  /\ History /\ minted' = minted
           /\ task[t].op = "add" => task[t].new \in fate'["imported"]
<1> DEFINE c == task[t].new
<1>1. /\ At(t, "reopen") /\ UNCHANGED <<files, minted, relay>>
      /\ fate' = IF Op(t) = "add" THEN [fate EXCEPT !["imported"] = @ \cup {c}] ELSE fate
      /\ raced' = (raced \/ \E u \in Tasks \ {t} : Holds(u))
  BY DEF Reopen, Racing
<1>2. c \in DOMAIN minted /\ c \in Coins
  BY <1>1, FlowFields, MintedCoins DEF Knows, At
<1>3. fate \in [Fates -> SUBSET Coins] /\ raced \in BOOLEAN /\ fate["printed"] \subseteq DOMAIN minted
      /\ minted \in Seq(Minting) /\ Len(minted) <= MaxCoins
  BY DEF Base, FlowTypes
<1> HIDE DEF c
<1>4. /\ fate' \in [Fates -> SUBSET Coins] /\ (Op(t) = "add" => c \in fate'["imported"])
      /\ \A y \in Fates : fate[y] \subseteq fate'[y]
      /\ fate'["printed"] = fate["printed"]
  BY <1>1, <1>2, <1>3 DEF Fates
<1>5. raced' \in BOOLEAN
  BY <1>1, <1>3
<1>6. QED BY <1>1, <1>3, <1>4, <1>5 DEF History, Grows, Op, c

LEMMA ReopenedStore ==
    ASSUME Base, NEW t \in Tasks, Reopen(t)
    PROVE  /\ Reopened(t) \in Seq(Stored) /\ Good(Reopened(t), minted', fate')
           /\ Extends(file, Reopened(t)) /\ CoinsOf(Reopened(t)) = CoinsOf(file)
           /\ DOMAIN Reopened(t) = DOMAIN file
           /\ task[t].op = "refresh" =>
                 \E j \in DOMAIN Reopened(t) : /\ Reopened(t)[j].coin = task[t].coin
                                               /\ Reopened(t)[j].status = "Spent"
<1> DEFINE f == task[t]
<1>1. At(t, "reopen") /\ (f.op = "refresh" => f.coin \in CoinsOf(file))
  BY DEF Reopen, Op
<1>2. file \in Seq(Stored) /\ Good(file, minted, fate)
  BY DEF Base, FlowTypes
<1>3. Good(file, minted', fate')
  BY <1>2, ReopenHistory, GoodGrows DEF History
<1>4. CASE f.op = "refresh"
  <2>1. Reopened(t) = MarkSpent(file, f.coin)
    BY <1>4 DEF Reopened, Op
  <2>2. /\ MarkSpent(file, f.coin) \in Seq(Stored) /\ Good(MarkSpent(file, f.coin), minted', fate')
        /\ Extends(file, MarkSpent(file, f.coin)) /\ CoinsOf(MarkSpent(file, f.coin)) = CoinsOf(file)
        /\ DOMAIN MarkSpent(file, f.coin) = DOMAIN file
        /\ \A i \in DOMAIN file : file[i].coin = f.coin => /\ MarkSpent(file, f.coin)[i].coin = f.coin
                                                           /\ MarkSpent(file, f.coin)[i].status = "Spent"
    BY <1>2, <1>3, MarkSpentGood
  <2>3. PICK j \in DOMAIN file : file[j].coin = f.coin
    BY <1>1, <1>4 DEF CoinsOf
  <2>4. QED BY <2>1, <2>2, <2>3
<1>5. CASE f.op # "refresh"
  BY <1>2, <1>3, <1>5, ExtendsReflexive DEF Reopened, Op
<1>6. QED BY <1>4, <1>5

LEMMA ReopenedEntry ==
    ASSUME Base, NEW t \in Tasks, Reopen(t)
    PROVE  /\ NewEntry(t, Reopened(t)) \in Stored /\ NewEntry(t, Reopened(t)).coin = task[t].new
           /\ Fitting(Reopened(t), NewEntry(t, Reopened(t)), minted', fate')
<1> DEFINE f == task[t]
           s == Reopened(t)
           e == NewEntry(t, s)
<1>1. f.at = "reopen" /\ Knows(f, t \in GuiTasks, minted) /\ f.denom \in Prices /\ f.told \in Prices
  BY FlowFields DEF Reopen, At
<1>2. /\ f.op \in {"refresh", "audited pay", "issue", "add"} /\ f.new \in DOMAIN minted
      /\ f.op \in {"audited pay", "issue"} => minted[f.new].parent = 0
      /\ f.op \in {"refresh", "issue", "add"} => f.label \in Labels
      /\ f.op = "refresh" => minted[f.new].parent = f.coin
  BY <1>1 DEF Knows
<1>3. f.new \in Coins
  BY <1>2, MintedCoins
<1>4. /\ s \in Seq(Stored)
      /\ f.op = "refresh" => \E j \in DOMAIN s : s[j].coin = f.coin /\ s[j].status = "Spent"
  BY ReopenedStore
<1>5. minted' = minted /\ (f.op = "add" => f.new \in fate'["imported"])
  BY ReopenHistory
<1> HIDE DEF s
<1>6. DenomByLabel(s, f.label) \in Prices
  <2> DEFINE L == Labelled(s, f.label)
  <2>1. L \subseteq Nat /\ L \subseteq DOMAIN s
    BY <1>4, StoreDomain DEF Labelled
  <2>2. DenomByLabel(s, f.label) = IF L = {} THEN 0 ELSE s[First(L)].denom
    BY DEF DenomByLabel
  <2> HIDE DEF L
  <2>3. CASE L = {}
    BY <2>2, <2>3 DEF Prices
  <2>4. CASE L # {}
    <3>1. First(L) \in DOMAIN s
      BY <2>1, <2>4, FirstIn
    <3>2. s[First(L)] \in Stored
      BY <1>4, <3>1, StoreDomain
    <3>3. QED BY <2>2, <2>4, <3>2 DEF Stored, Prices
  <2>5. QED BY <2>3, <2>4
<1>7. PICK d \in Prices, st \in {"Active", "Spent"}, l \in Labels : e = StoredCoin(f.new, d, st, l)
  <2>1. Label("pay-to", 0) \in Labels
    BY DEF Label, Labels
  <2>2. CASE f.op = "refresh"
    BY <1>2, <1>6, <2>2 DEF NewEntry, Op
  <2>3. CASE f.op = "audited pay"
    BY <1>1, <2>1, <2>3 DEF NewEntry, Op
  <2>4. CASE f.op = "issue"
    BY <1>1, <1>2, <2>4 DEF NewEntry, Op
  <2>5. CASE f.op = "add"
    BY <1>1, <1>2, <2>5 DEF NewEntry, Op
  <2>6. QED BY <1>2, <2>2, <2>3, <2>4, <2>5
<1>8. e \in Stored /\ e.coin = f.new
  BY <1>3, <1>7 DEF StoredCoin, Stored, Prices
<1> HIDE DEF e
<1>9. Fitting(s, e, minted', fate')
  BY <1>2, <1>4, <1>5, <1>8 DEF Fitting
<1>10. QED BY <1>8, <1>9 DEF s, e

LEMMA ReopenedCopy ==
    ASSUME Base, NEW t \in Tasks, Reopen(t)
    PROVE  LET c == Add(Reopened(t), NewEntry(t, Reopened(t)))
           IN  /\ c \in Seq(Stored) /\ Good(c, minted', fate') /\ Extends(file, c)
               /\ CoinsOf(c) = CoinsOf(file) \cup {task[t].new}
<1> DEFINE s == Reopened(t)
           e == NewEntry(t, s)
<1>1. s \in Seq(Stored) /\ Good(s, minted', fate') /\ Extends(file, s) /\ CoinsOf(s) = CoinsOf(file)
  BY ReopenedStore
<1>2. e \in Stored /\ e.coin = task[t].new /\ Fitting(s, e, minted', fate')
  BY ReopenedEntry
<1> HIDE DEF s, e
<1>3. /\ Add(s, e) \in Seq(Stored) /\ Good(Add(s, e), minted', fate')
      /\ Extends(s, Add(s, e)) /\ CoinsOf(Add(s, e)) = CoinsOf(s) \cup {e.coin}
  BY <1>1, <1>2, AddGood
<1>4. Extends(file, Add(s, e))
  BY <1>1, <1>3, ExtendsTransitive
<1>5. QED BY <1>1, <1>2, <1>3, <1>4 DEF s, e

LEMMA BaseReopen ==
    ASSUME Base, NEW t \in Tasks, Reopen(t), UNCHANGED gui
    PROVE  Base'
<1> DEFINE f == task[t]
           c == Add(Reopened(t), NewEntry(t, Reopened(t)))
           g == [f EXCEPT !.copy = c, !.at = "write"]
<1>1. task' = [task EXCEPT ![t] = g] /\ UNCHANGED events /\ UNCHANGED <<files, minted, relay>>
  BY DEF Reopen, GoOn
<1>2. f \in Flow /\ Knows(f, t \in GuiTasks, minted)
  BY FlowFields
<1>3. c \in Seq(Stored) /\ Good(c, minted', fate')
  BY ReopenedCopy
<1> HIDE DEF c
<1>4. g \in Flow /\ g.at = "write" /\ g.copy = c /\ g.queue = f.queue
  BY <1>2, <1>3 DEF Flow
<1> HIDE DEF g
<1>5. Knows(g, t \in GuiTasks, minted') /\ Open(g, t \in GuiTasks)
  BY <1>1, <1>2, <1>4 DEF Knows, Open
<1>6. History /\ RelaySound /\ GuiTypes /\ keysets \in [Names -> Prices]
  BY <1>1, ReopenHistory, RelayKept DEF Base, FlowTypes
<1>7. StoresSound(t, g)
  BY <1>1, <1>3, <1>4, <1>5, <1>6, FilesKept DEF StoresSound
<1>8. QED BY <1>1, <1>6, <1>7, BaseStep, GuiKept

\* A flow of any kind takes a step.
LEMMA BaseProgress ==
    ASSUME Base, NEW t \in Tasks, Progress(t) \/ Fail(t), UNCHANGED gui
    PROVE  Base'
BY BaseOpenRefresh, BaseOpenReceive, BaseOpenOther, BaseMintRefreshed, BaseMintIssued, BaseSubmitWithdraw,
   BasePost, BasePostPanics, BasePoll, BaseSkip, BaseTake, BaseReopen, BaseTruncateTmp, BaseWriteTmp, BaseRename,
   BaseFail DEF Progress

-----------------------------------------------------------------------------
(***************************************************************************)
(* Base: the user, the world, the commands of one step                     *)
(***************************************************************************)

\* A flow is begun.
LEMMA BaseBegun ==
    ASSUME Base, NEW t \in Tasks, NEW g \in Flow, task' = [task EXCEPT ![t] = g], g.copy = <<>>,
           Knows(g, t \in GuiTasks, minted), UNCHANGED <<files, minted, fate, raced, relay>>, GuiTypes'
    PROVE  Base'
<1>1. History /\ RelaySound /\ keysets \in [Names -> Prices]
  BY HistoryKept, RelayKept DEF Base, FlowTypes
<1>2. StoresSound(t, g)
  BY <1>1, EmptyGood, FilesKept DEF StoresSound
<1>3. QED BY <1>1, <1>2, BaseStep

LEMMA StartKnows ==
    ASSUME NEW op \in {"refresh", "receive", "pay", "audited pay", "issue", "print", "withdraw"},
           NEW name \in Names \cup {""}, NEW label \in ShownLabels, NEW d \in Prices,
           op \in {"refresh", "pay", "audited pay", "issue", "print"} => name \in Names,
           op \in {"issue", "print"} => label \in Labels,
           NEW b, NEW M
    PROVE  Knows(Start(op, "open", name, label, d), b, M)
<1> DEFINE g == Start(op, "open", name, label, d)
<1>1. g.op = op /\ g.at = "open" /\ g.name = name /\ g.label = label /\ g.queue = {}
  BY DEF Start, Idle
<1> HIDE DEF g
<1>2. Knows(g, b, M)
  BY <1>1 DEF Knows, KnownBodies
<1>3. QED BY <1>2 DEF g

LEMMA BaseCli ==
    ASSUME Base, NEW t \in CliTasks, NEW g \in Flow, Cli(t, g), g.copy = <<>>,
           Knows(g, t \in GuiTasks, minted), UNCHANGED gui
    PROVE  Base'
<1>1. t \in Tasks
  BY DEF Tasks
<1>2. /\ task' = [task EXCEPT ![t] = g] /\ UNCHANGED <<files, minted, fate, raced, relay>> /\ UNCHANGED events
  BY DEF Cli, Begin
<1>3. GuiTypes'
  BY <1>2, GuiKept DEF Base
<1>4. QED BY <1>1, <1>2, <1>3, BaseBegun

LEMMA FileLabels ==
    ASSUME Base, NEW l \in {file[i].label : i \in DOMAIN file}
    PROVE  l \in Labels
<1>1. file \in Seq(Stored)
  BY DEF Base, FlowTypes
<1>2. \A i \in DOMAIN file : file[i] \in Stored
  BY <1>1, StoreDomain
<1>3. QED BY <1>2 DEF Stored

LEMMA BaseCliCommand ==
    ASSUME Base, NEW t \in CliTasks, CliCommand(t), UNCHANGED gui
    PROVE  Base'
<1>1. 0 \in Prices /\ Denoms \subseteq Prices /\ NoLabel \in Labels /\ Labels \subseteq ShownLabels
      /\ UserLabels \subseteq Labels
  BY LabelTypes, StartAssumption DEF Prices
<1>2. ASSUME NEW op \in {"refresh", "receive", "pay", "audited pay", "issue", "print", "withdraw"},
             NEW name \in Names \cup {""}, NEW label \in Labels, NEW d \in Prices,
             op \in {"refresh", "pay", "audited pay", "issue", "print"} => name \in Names,
             Cli(t, Start(op, "open", name, label, d))
      PROVE  Base'
  <2> DEFINE g == Start(op, "open", name, label, d)
  <2>1. label \in ShownLabels
    BY <1>1
  <2>2. g \in Flow /\ g.copy = <<>>
    BY <2>1, IdleFlow DEF Start, Flow, Idle
  <2>3. Knows(g, t \in GuiTasks, minted)
    BY <1>2, <2>1, StartKnows
  <2>4. Cli(t, g)
    BY <1>2
  <2> HIDE DEF g
  <2>5. QED BY <2>2, <2>3, <2>4, BaseCli
<1>3. CASE CliReceive(t)
  BY <1>1, <1>2, <1>3 DEF CliReceive
<1>4. CASE \E n \in Names : \E l \in {file[i].label : i \in DOMAIN file} \ {NoLabel} : CliRefresh(t, n, l)
  <2>1. PICK n \in Names, l \in {file[i].label : i \in DOMAIN file} : CliRefresh(t, n, l)
    BY <1>4
  <2>2. l \in Labels
    BY FileLabels
  <2>3. QED BY <1>1, <1>2, <2>1, <2>2 DEF CliRefresh
<1>5. CASE \E n \in Names : \E d \in Denoms, audit \in BOOLEAN : CliPay(t, n, d, audit)
  <2>1. PICK n \in Names, d \in Denoms, audit \in BOOLEAN : CliPay(t, n, d, audit)
    BY <1>5
  <2>2. Cli(t, Start("audited pay", "open", n, NoLabel, d)) \/ Cli(t, Start("pay", "open", n, NoLabel, d))
    BY <2>1 DEF CliPay
  <2>3. QED BY <1>1, <1>2, <2>2
<1>6. CASE \E n \in Names : CliPrint(t, n)
  BY <1>1, <1>2, <1>6 DEF CliPrint
<1>7. CASE \E n \in Names : \E l \in UserLabels, d \in Denoms \cup {0} : CliIssue(t, n, l, d)
  <2>1. PICK n \in Names, l \in UserLabels, d \in Prices : CliIssue(t, n, l, d)
    BY <1>7 DEF Prices
  <2> DEFINE s == Start("issue", "open", n, l, 0)
             g == [s EXCEPT !.told = d]
  <2>2. Cli(t, g) /\ l \in Labels /\ l \in ShownLabels
    BY <1>1, <2>1 DEF CliIssue
  <2>3. s \in Flow /\ s.copy = <<>> /\ s.op = "issue" /\ s.at = "open" /\ s.label = l /\ s.name = n /\ s.queue = {}
    BY <1>1, <2>2, IdleFlow DEF Start, Flow, Idle
  <2> HIDE DEF s
  <2>4. g \in Flow /\ g.copy = <<>> /\ g.op = "issue" /\ g.at = "open" /\ g.label = l /\ g.name = n /\ g.queue = {}
    BY <2>3 DEF Flow
  <2> HIDE DEF g
  <2>5. Knows(g, t \in GuiTasks, minted)
    BY <2>2, <2>4 DEF Knows, KnownBodies
  <2>6. QED BY <2>2, <2>4, <2>5, BaseCli
<1>8. CASE \E c \in Coins, l \in UserLabels, d \in Denoms : CliAddCoin(t, c, l, d)
  <2>1. PICK c \in Coins, l \in UserLabels, d \in Prices : CliAddCoin(t, c, l, d)
    BY <1>1, <1>8
  <2> DEFINE s == Start("add", "reopen", "", l, 0)
             g == [s EXCEPT !.new = c, !.told = d]
  <2>2. c \in fate["printed"] /\ Cli(t, g)
    BY <2>1 DEF CliAddCoin
  <2>3. c \in DOMAIN minted /\ l \in Labels /\ l \in ShownLabels
    BY <1>1, <2>2 DEF Base
  <2>4. /\ s \in Flow /\ s.op = "add" /\ s.at = "reopen" /\ s.label = l /\ s.copy = <<>> /\ s.queue = {}
    BY <1>1, <2>3, IdleFlow DEF Start, Flow, Idle
  <2> HIDE DEF s
  <2>5. /\ g \in Flow /\ g.op = "add" /\ g.at = "reopen" /\ g.label = l /\ g.copy = <<>> /\ g.queue = {}
        /\ g.new = c
    BY <2>4 DEF Flow
  <2> HIDE DEF g
  <2>6. Knows(g, t \in GuiTasks, minted)
    BY <2>3, <2>5 DEF Knows, KnownBodies
  <2>7. QED BY <2>2, <2>5, <2>6, BaseCli
<1>9. QED BY <1>3, <1>4, <1>5, <1>6, <1>7, <1>8 DEF CliCommand

\* A button starts a flow of the GUI.
LEMMA BaseClick ==
    ASSUME Base, NEW op \in {"refresh", "receive", "pay", "withdraw"}, NEW name \in Names \cup {""},
           NEW label \in ShownLabels, NEW d \in Prices, op \in {"refresh", "pay"} => name \in Names,
           Click(Start(op, "open", name, label, d))
    PROVE  Base'
<1> DEFINE g == Start(op, "open", name, label, d)
           t == CHOOSE x \in GuiTasks : task[x] = Idle
<1>1. /\ \E x \in GuiTasks : task[x] = Idle
      /\ task' = [task EXCEPT ![t] = g] /\ busy' = TRUE
      /\ UNCHANGED <<files, events, minted, fate, raced, relay, mode, coins, sets, pending, stray, crashes>>
  BY DEF Click, Begin
<1>2. t \in Tasks
  BY <1>1 DEF Tasks
<1>3. g \in Flow /\ g.copy = <<>>
  BY IdleFlow DEF Start, Flow, Idle
<1>4. Knows(g, t \in GuiTasks, minted)
  BY StartKnows
<1>5. GuiTypes'
  BY <1>1 DEF Base, GuiTypes
<1> HIDE DEF g, t
<1>6. QED BY <1>1, <1>2, <1>3, <1>4, <1>5, BaseBegun

\* A step that touches no flow, no file and not the relay.
LEMMA BaseGuiOnly ==
    ASSUME Base, UNCHANGED <<file, tmp, drift, task, minted, fate, raced, relay>>, keysets' \in [Names -> Prices], GuiTypes'
    PROVE  Base'
<1>1. History /\ RelaySound
  BY HistoryKept, RelayKept DEF Base, FlowTypes
<1>2. QED BY <1>1, BaseNoFlow

LEMMA CommandTypes ==
    /\ AnyName \in Names
    /\ \A op \in {"open", "list", "relist", "remove"}, n \in Names : Command(op, n, 0) \in Commands
    /\ \A n \in Names, d \in Denoms : Command("add", n, d) \in Commands
    /\ \A c \in Commands : c.name \in Names /\ c.denom \in Prices
    /\ \A op, n, d : Command(op, n, d).op = op
BY StartAssumption DEF AnyName, Command, Commands, Prices

LEMMA PendingTypes ==
    ASSUME GuiTypes, NEW c \in Commands,
           \/ Send(c) \/ Done(c)
           \/ \E d \in Commands : c # d /\ DoneThen(c, d)
    PROVE  pending' \in [Commands -> Nat]
<1>1. pending \in [Commands -> Nat]
  BY DEF GuiTypes
<1>2. CASE Send(c)
  BY <1>1, <1>2 DEF Send
<1>3. CASE Done(c)
  BY <1>1, <1>3 DEF Done
<1>4. ASSUME NEW d \in Commands, c # d, DoneThen(c, d) PROVE pending' \in [Commands -> Nat]
  <2> DEFINE p == [pending EXCEPT ![c] = @ - 1]
  <2>1. pending[c] > 0 /\ pending' = [p EXCEPT ![d] = @ + 1]
    BY <1>1, <1>4 DEF DoneThen
  <2>2. p \in [Commands -> Nat]
    BY <1>1, <2>1
  <2> HIDE DEF p
  <2>3. QED BY <2>1, <2>2
<1>5. QED BY <1>2, <1>3, <1>4

LEMMA BaseUser ==
    ASSUME Base, User
    PROVE  Base'
<1>1. GuiTypes /\ keysets \in [Names -> Prices] /\ coins \in Rows
  BY DEF Base, FlowTypes, GuiTypes
<1>2. 0 \in Prices /\ Denoms \subseteq Prices /\ NoLabel \in ShownLabels
  BY LabelTypes DEF Prices
<1>3. Picks \subseteq ShownLabels
  <2>1. PICK S \in SUBSET Nat : coins \in [S -> Row]
    BY <1>1 DEF Rows
  <2>2. \A i \in DOMAIN coins : coins[i].label \in ShownLabels
    BY <2>1 DEF Row
  <2>3. QED BY <2>2 DEF Picks
<1>4. CASE Unlock
  <2>1. UNCHANGED <<file, tmp, drift, task, minted, fate, raced, relay>> /\ keysets' = keysets
    BY <1>4 DEF Unlock, flows, files
  <2>2. pending' \in [Commands -> Nat]
    BY <1>1, <1>4, CommandTypes, PendingTypes DEF Unlock
  <2>3. GuiTypes'
    BY <1>1, <1>4, <2>2 DEF Unlock, GuiTypes, flows
  <2>4. QED BY <1>1, <2>1, <2>3, BaseGuiOnly
<1>5. CASE Lock
  <2>1. UNCHANGED <<file, tmp, drift, task, minted, fate, raced, relay>> /\ keysets' = keysets
    BY <1>5 DEF Lock, flows, files
  <2>2. GuiTypes'
    BY <1>1, <1>5, NoRows DEF Lock, GuiTypes, flows
  <2>3. QED BY <1>1, <2>1, <2>2, BaseGuiOnly
<1>6. CASE ClickReceive
  BY <1>2, <1>6, BaseClick DEF ClickReceive
<1>7. CASE \E l \in Picks : ClickWithdraw(l)
  BY <1>2, <1>3, <1>7, BaseClick DEF ClickWithdraw
<1>8. CASE \E n \in Names, l \in Picks : ClickRefresh(n, l)
  BY <1>2, <1>3, <1>8, BaseClick DEF ClickRefresh
<1>9. CASE \E n \in Names, d \in Denoms : ClickPay(n, d)
  <2>1. PICK n \in Names, d \in Denoms : ClickPay(n, d)
    BY <1>9
  <2>2. Click(Start("pay", "open", n, NoLabel, d)) /\ d \in Prices
    BY <1>2, <2>1 DEF ClickPay
  <2>3. QED BY <1>2, <2>2, BaseClick
<1>10. ASSUME NEW c \in Commands, ClickFile(c) PROVE Base'
  <2>1. UNCHANGED <<file, tmp, drift, task, minted, fate, raced, relay>> /\ keysets' = keysets
    BY <1>10 DEF ClickFile, flows, files
  <2>2. pending' \in [Commands -> Nat]
    BY <1>1, <1>10, PendingTypes DEF ClickFile
  <2>3. GuiTypes'
    BY <1>1, <1>10, <2>2 DEF ClickFile, GuiTypes, flows
  <2>4. QED BY <1>1, <2>1, <2>3, BaseGuiOnly
<1>11. CASE \E n \in Names, d \in Denoms : ClickKeysetAdd(n, d)
  BY <1>10, <1>11, CommandTypes DEF ClickKeysetAdd
<1>12. CASE \E n \in Names : ClickKeysetRemove(n)
  BY <1>10, <1>12, CommandTypes DEF ClickKeysetRemove
<1>13. QED BY <1>4, <1>5, <1>6, <1>7, <1>8, <1>9, <1>11, <1>12 DEF User

LEMMA ReportTypes ==
    ASSUME GuiTypes, NEW k \in Kinds, NEW cs \in Rows, NEW ks \in [Names -> Prices], Report(Event(k, cs, ks))
    PROVE  events' \in Seq(UiEvent)
<1>1. Event(k, cs, ks) \in UiEvent
  BY EventType
<1>2. QED BY <1>1 DEF Report, GuiTypes

LEMMA BaseCommand ==
    ASSUME Base, NEW c \in Commands, RunCommand(c)
    PROVE  Base'
<1>1. GuiTypes /\ keysets \in [Names -> Prices] /\ file \in Seq(Stored)
  BY DEF Base, FlowTypes
<1>2. ASSUME events' \in Seq(UiEvent), pending' \in [Commands -> Nat], stray' \in Nat, UNCHANGED app,
             UNCHANGED <<file, tmp, drift, task, minted, fate, raced, relay>>, keysets' \in [Names -> Prices]
      PROVE  Base'
  <2>1. GuiTypes'
    BY <1>1, <1>2 DEF GuiTypes, app
  <2>2. QED BY <1>2, <2>1, BaseGuiOnly
<1>3. CASE CommandFails(c)
  <2>1. pending' \in [Commands -> Nat]
    BY <1>1, <1>3, PendingTypes DEF CommandFails
  <2>2. events' = events \/ Report(Event("error", <<>>, NoKeysets))
    BY <1>3 DEF CommandFails
  <2>3. events' \in Seq(UiEvent)
    BY <1>1, <2>2, ReportTypes, NoRows, NoKeysetsType DEF GuiTypes, Kinds
  <2>4. stray' \in Nat
    BY <1>1, <1>3 DEF CommandFails, GuiTypes
  <2>5. UNCHANGED app /\ UNCHANGED <<file, tmp, drift, task, minted, fate, raced, relay>> /\ keysets' = keysets
    BY <1>3 DEF CommandFails, files
  <2>6. QED BY <1>1, <1>2, <2>1, <2>3, <2>4, <2>5
<1>4. CASE OpenWallet(c)
  <2>1. pending' \in [Commands -> Nat]
    BY <1>1, <1>4, PendingTypes DEF OpenWallet
  <2>2. Report(Event("opened", Summary(file), NoKeysets)) /\ Summary(file) \in Rows
    BY <1>1, <1>4, SummaryRows DEF OpenWallet
  <2>3. events' \in Seq(UiEvent)
    BY <1>1, <2>2, ReportTypes, NoKeysetsType DEF Kinds
  <2>4. UNCHANGED <<app, stray>> /\ UNCHANGED <<file, tmp, drift, task, minted, fate, raced, relay>> /\ keysets' = keysets
    BY <1>4 DEF OpenWallet, files
  <2>5. QED BY <1>1, <1>2, <2>1, <2>3, <2>4 DEF GuiTypes
<1>5. CASE ListKeysets(c)
  <2>1. pending' \in [Commands -> Nat]
    BY <1>1, <1>5, PendingTypes DEF ListKeysets
  <2>2. Report(Event("listed", <<>>, keysets))
    BY <1>5 DEF ListKeysets
  <2>3. events' \in Seq(UiEvent)
    BY <1>1, <2>2, ReportTypes, NoRows DEF Kinds
  <2>4. UNCHANGED <<app, stray>> /\ UNCHANGED <<file, tmp, drift, task, minted, fate, raced, relay>> /\ keysets' = keysets
    BY <1>5 DEF ListKeysets, files
  <2>5. QED BY <1>1, <1>2, <2>1, <2>3, <2>4 DEF GuiTypes
<1>6. CASE AddKeyset(c)
  <2> DEFINE d == Command("list", c.name, 0)
  <2>1. c.op = "add" /\ DoneThen(c, d) /\ Report(Event("added", <<>>, NoKeysets))
        /\ keysets' = [keysets EXCEPT ![c.name] = c.denom]
        /\ UNCHANGED <<app, stray>> /\ UNCHANGED <<file, tmp, drift, task, minted, fate, raced, relay>>
    BY <1>6 DEF AddKeyset
  <2>2. d \in Commands /\ d.op = "list" /\ c.name \in Names /\ c.denom \in Prices
    BY CommandTypes
  <2> HIDE DEF d
  <2>3. pending' \in [Commands -> Nat]
    BY <1>1, <2>1, <2>2, PendingTypes
  <2>4. events' \in Seq(UiEvent)
    BY <1>1, <2>1, ReportTypes, NoRows, NoKeysetsType DEF Kinds
  <2>5. keysets' \in [Names -> Prices]
    BY <1>1, <2>1, <2>2
  <2>6. QED BY <1>1, <1>2, <2>1, <2>3, <2>4, <2>5 DEF GuiTypes
<1>7. CASE RemoveKeyset(c)
  <2> DEFINE d == Command("relist", c.name, 0)
  <2>1. c.op = "remove" /\ DoneThen(c, d) /\ Report(Event("removed", <<>>, NoKeysets))
        /\ keysets' = [keysets EXCEPT ![c.name] = 0]
        /\ UNCHANGED <<app, stray>> /\ UNCHANGED <<file, tmp, drift, task, minted, fate, raced, relay>>
    BY <1>7 DEF RemoveKeyset
  <2>2. d \in Commands /\ d.op = "relist" /\ c.name \in Names
    BY CommandTypes
  <2> HIDE DEF d
  <2>3. pending' \in [Commands -> Nat]
    BY <1>1, <2>1, <2>2, PendingTypes
  <2>4. events' \in Seq(UiEvent)
    BY <1>1, <2>1, ReportTypes, NoRows, NoKeysetsType DEF Kinds
  <2>5. keysets' \in [Names -> Prices]
    BY <1>1, <2>1, <2>2 DEF Prices
  <2>6. QED BY <1>1, <1>2, <2>1, <2>3, <2>4, <2>5 DEF GuiTypes
<1>8. QED BY <1>3, <1>4, <1>5, <1>6, <1>7 DEF RunCommand

LEMMA HeadTail ==
    ASSUME events \in Seq(UiEvent), events # <<>>
    PROVE  /\ Head(events) \in UiEvent /\ Tail(events) \in Seq(UiEvent)
           /\ Len(events) \in Nat \ {0} /\ DOMAIN events = 1..Len(events) /\ Head(events) = events[1]
           /\ Len(Tail(events)) = Len(events) - 1
           /\ \A i \in 1..(Len(events) - 1) : Tail(events)[i] = events[i + 1]
OBVIOUS

LEMMA BaseHandleEvent ==
    ASSUME Base, HandleEvent
    PROVE  Base'
<1> DEFINE e == Head(events)
<1>1. /\ events # <<>> /\ events' = Tail(events) /\ busy' = (busy /\ ~EndsBusy(e))
      /\ mode' = IF e.kind = "opened" THEN "Unlocked" ELSE mode
      /\ coins' = IF e.kind \in {"opened", "refreshed"} THEN e.coins ELSE coins
      /\ Send(Command("list", AnyName, 0)) \/ UNCHANGED pending
      /\ UNCHANGED <<files, task, minted, fate, raced, relay, stray>>
  BY DEF HandleEvent
<1>2. GuiTypes /\ keysets \in [Names -> Prices]
  BY DEF Base, FlowTypes
<1>3. e \in UiEvent /\ Tail(events) \in Seq(UiEvent)
  BY <1>1, <1>2, HeadTail DEF GuiTypes
<1> HIDE DEF e
<1>4. e.coins \in Rows
  BY <1>3 DEF UiEvent
<1>5. Command("list", AnyName, 0) \in Commands
  BY CommandTypes
<1>6. pending' \in [Commands -> Nat]
  BY <1>1, <1>2, <1>5, PendingTypes DEF GuiTypes
<1>7. busy' \in BOOLEAN /\ mode' \in {"Locked", "Unlocked"} /\ coins' \in Rows
  BY <1>1, <1>2, <1>4 DEF GuiTypes
<1>8. GuiTypes'
  BY <1>1, <1>2, <1>3, <1>6, <1>7 DEF GuiTypes
<1>9. QED BY <1>1, <1>2, <1>8, BaseGuiOnly DEF files

LEMMA BaseCrashes ==
    ASSUME Base, CrashGui \/ \E t \in CliTasks : CrashCli(t) /\ UNCHANGED gui
    PROVE  Base'
<1>1. CASE CrashGui
  <2>1. /\ Killed(GuiTasks) /\ events' = <<>> /\ pending' = [c \in Commands |-> 0] /\ mode' = "Locked"
        /\ busy' = FALSE /\ coins' = <<>> /\ UNCHANGED <<files, minted, raced, relay, stray>>
    BY <1>1 DEF CrashGui
  <2>2. GuiTypes'
    <3>1. events' \in Seq(UiEvent) /\ pending' \in [Commands -> Nat]
      BY <2>1
    <3>2. coins' \in Rows
      BY <2>1, NoRows
    <3>3. stray' \in Nat
      BY <2>1 DEF GuiTypes, Base
    <3>4. QED BY <2>1, <3>1, <3>2, <3>3 DEF GuiTypes
  <2>3. GuiTasks \in SUBSET Tasks
    BY DEF Tasks
  <2>4. QED BY <2>1, <2>2, <2>3, BaseKilled
<1>2. ASSUME NEW t \in CliTasks, CrashCli(t), UNCHANGED gui PROVE Base'
  <2>1. Killed({t}) /\ UNCHANGED <<files, events, minted, raced, relay>>
    BY <1>2 DEF CrashCli
  <2>2. GuiTypes'
    BY <1>2, <2>1, GuiKept DEF Base
  <2>3. {t} \in SUBSET Tasks
    BY DEF Tasks
  <2>4. QED BY <2>1, <2>2, <2>3, BaseKilled
<1>3. QED BY <1>1, <1>2

\* Only the relay and what was minted change.
LEMMA BaseRelayOnly ==
    ASSUME Base, History, RelaySound, UNCHANGED <<files, task, events, gui>>
    PROVE  Base'
<1>1. GuiTypes' /\ keysets' \in [Names -> Prices]
  BY GuiKept DEF Base, FlowTypes, files
<1>2. QED BY <1>1, BaseNoFlow DEF files

LEMMA FileCoins == ASSUME Base PROVE CoinsOf(file) \subseteq DOMAIN minted /\ CoinsOf(file) \subseteq Coins
<1>1. CoinsOf(file) \subseteq DOMAIN minted
  BY DEF Base, Good, GoodEntry, CoinsOf
<1>2. QED BY <1>1, MintedCoins

LEMMA BaseWorld ==
    ASSUME Base, World, UNCHANGED gui
    PROVE  Base'
<1>1. CASE \E d \in Denoms : PeerPays(d)
  <2>1. PICK d \in Denoms : PeerPays(d)
    BY <1>1
  <2>2. PICK ttl \in Ttls :
            MintCoin(d, 0) /\ Deposit(Me, NextCoin, ttl) /\ UNCHANGED <<files, task, events, fate, raced>>
    BY <2>1 DEF PeerPays
  <2>3. NextCoin \in Coins /\ NextCoin \in DOMAIN minted'
    BY <2>2, MintFacts
  <2>4. History
    BY <2>2, MintHistory DEF Base, FlowTypes
  <2>5. RelaySound
    BY <2>2, <2>3, <2>4, DepositSound, Parties
  <2>6. QED BY <2>2, <2>4, <2>5, BaseRelayOnly
<1>2. ASSUME UNCHANGED flows
      PROVE  History /\ minted' = minted /\ UNCHANGED <<files, task, events>>
  BY <1>2, HistoryKept DEF flows, Base, FlowTypes
<1>3. CASE \E r \in Recipients : OthersPost(r)
  <2>1. PICK r \in Recipients : OthersPost(r)
    BY <1>3
  <2>2. PICK body \in {Junk} \cup (IF r = Me THEN CoinsOf(file) ELSE {}), ttl \in Ttls :
            Deposit(r, body, ttl) \/ DepositPanics(r, body, ttl)
    BY <2>1 DEF OthersPost
  <2>3. body \in {Junk} \cup CoinsOf(file)
    BY <2>2
  <2>4. History /\ minted' = minted /\ UNCHANGED <<files, task, events>>
    BY <1>2, <2>1 DEF OthersPost
  <2>5. body \in Bodies /\ (body \in Coins => body \in DOMAIN minted')
    <3>1. Junk \in Bodies /\ Junk \notin Coins
      BY WalletAssumption DEF Junk, Coins
    <3>2. QED BY <2>3, <2>4, <3>1, FileCoins, Parties
  <2>6. RelaySound
    BY <2>2, <2>4, <2>5, DepositSound, PanicSound
  <2>7. QED BY <2>4, <2>6, BaseRelayOnly
<1>4. CASE PeerFetches
  <2>1. PICK m \in inbox[Peer] : Remove(Peer, m.id)
    BY <1>4 DEF PeerFetches
  <2>2. History /\ UNCHANGED <<files, task, events>>
    BY <1>2, <1>4 DEF PeerFetches
  <2>3. RelaySound
    BY <2>1, <2>2, RemoveSound, Parties
  <2>4. QED BY <2>2, <2>3, BaseRelayOnly
<1>5. CASE RelayRestart /\ UNCHANGED flows
  <2>1. History /\ UNCHANGED <<files, task, events>>
    BY <1>2, <1>5
  <2>2. inbox' = [r \in Recipients |-> {}] /\ posted' = posted /\ poisoned' = FALSE
    BY <1>5 DEF RelayRestart
  <2>3. RelaySound
    BY <2>1, <2>2, ForgotSound
  <2>4. QED BY <2>1, <2>3, BaseRelayOnly
<1>6. QED BY <1>1, <1>3, <1>4, <1>5 DEF World

LEMMA BaseTime ==
    ASSUME Base, Prune \/ \E r \in Recipients : Expire(r), UNCHANGED <<flows, gui>>
    PROVE  Base'
<1>1. History /\ UNCHANGED <<files, task, events>>
  BY HistoryKept DEF flows, Base, FlowTypes
<1>2. inbox \in [Recipients -> SUBSET Message] /\ poisoned \in BOOLEAN
  BY DEF Base, FlowTypes
<1>3. CASE Prune
  <2>1. inbox' = [r \in Recipients |-> Listed(r)] /\ posted' = posted /\ poisoned' = poisoned
    BY <1>3 DEF Prune
  <2>2. \A r \in Recipients : Listed(r) \subseteq inbox[r]
    BY DEF Listed
  <2>3. inbox' \in [Recipients -> SUBSET Message] /\ \A r \in Recipients : inbox'[r] \subseteq inbox[r]
    BY <1>2, <2>1, <2>2
  <2>4. RelaySound
    BY <1>1, <1>2, <2>1, <2>3, ForgotSound
  <2>5. QED BY <1>1, <2>4, BaseRelayOnly
<1>4. ASSUME NEW r \in Recipients, Expire(r) PROVE Base'
  <2>1. PICK m \in inbox[r] :
            /\ inbox' = [inbox EXCEPT ![r] = (@ \ {m}) \cup {[m EXCEPT !.ttl = "over"]}]
            /\ posted' = posted /\ poisoned' = poisoned
    BY <1>4 DEF Expire
  <2> DEFINE n == [m EXCEPT !.ttl = "over"]
  <2>2. m \in inbox[r] /\ m \in Message
    BY <1>2
  <2>3. n \in Message /\ n.body = m.body
    BY <2>2 DEF Message
  <2>4. inbox' = [inbox EXCEPT ![r] = (@ \ {m}) \cup {n}]
    BY <2>1
  <2> HIDE DEF n
  <2>5. inbox' \in [Recipients -> SUBSET Message]
    BY <1>2, <2>3, <2>4
  <2>6. \A q \in Recipients : \A x \in inbox'[q] : \E y \in inbox[q] : x.body = y.body
    BY <1>2, <2>2, <2>3, <2>4
  <2>7. RelaySound
    BY <1>1, <1>2, <2>1, <2>5, <2>6, ForgotSound
  <2>8. QED BY <1>1, <2>7, BaseRelayOnly
<1>5. QED BY <1>3, <1>4

LEMMA BaseCliKeyset ==
    ASSUME Base, NEW n \in Names, NEW d \in Prices, CliKeyset(n, d), UNCHANGED gui
    PROVE  Base'
<1>1. keysets' = [keysets EXCEPT ![n] = d] /\ UNCHANGED <<file, tmp, drift, task, events, minted, fate, raced, relay>>
  BY DEF CliKeyset
<1>2. keysets' \in [Names -> Prices] /\ GuiTypes'
  BY <1>1, GuiKept DEF Base, FlowTypes
<1>3. QED BY <1>1, <1>2, BaseGuiOnly

LEMMA BaseStutter == ASSUME Base, UNCHANGED vars PROVE Base'
<1>1. UNCHANGED <<file, tmp, drift, task, minted, fate, raced, relay>> /\ keysets' = keysets /\ UNCHANGED <<events, gui>>
  BY DEF vars, flows, files
<1>2. QED BY <1>1, BaseGuiOnly, GuiKept DEF Base, FlowTypes

LEMMA BaseNext == ASSUME Base, [Next]_vars PROVE Base'
<1>1. ASSUME Stimulus PROVE Base'
  BY <1>1, BaseUser, BaseCrashes, BaseCliCommand, BaseCliKeyset, BaseWorld DEF Stimulus, CommandLine, Prices
<1>2. ASSUME NEW t \in Tasks, TaskStep(t) PROVE Base'
  BY <1>2, BaseProgress DEF TaskStep
<1>3. ASSUME NEW t \in CliTasks, CrashCli(t), UNCHANGED gui PROVE Base'
  BY <1>3, BaseCrashes
<1>4. ASSUME NEW c \in Commands, CommandStep(c) PROVE Base'
  BY <1>4, BaseCommand DEF CommandStep
<1>5. ASSUME EventStep PROVE Base'
  BY <1>5, BaseHandleEvent DEF EventStep
<1>6. ASSUME NEW r \in Recipients, ExpireStep(r) PROVE Base'
  BY <1>6, BaseTime DEF ExpireStep
<1>7. ASSUME PruneStep PROVE Base'
  BY <1>7, BaseTime DEF PruneStep
<1>8. QED BY <1>1, <1>2, <1>3, <1>4, <1>5, <1>6, <1>7, BaseStutter DEF Next

-----------------------------------------------------------------------------
(***************************************************************************)
(* Alone                                                                   *)
(***************************************************************************)

\* A coin that is deleted from the relay is somewhere.
LEMMA KeptStep ==
    ASSUME task \in [Tasks -> Flow], NEW t \in Tasks, NEW g, task' = [task EXCEPT ![t] = g],
           ~raced, ReceivedKept,
           fate'["deleted"] \subseteq fate["deleted"] \cup CoinsOf(g.copy),
           fate["dropped"] \subseteq fate'["dropped"], CoinsOf(file) \subseteq CoinsOf(file'),
           CoinsOf(task[t].copy) \subseteq CoinsOf(g.copy) \cup CoinsOf(file') \cup fate'["dropped"]
    PROVE  ReceivedKept'
<1> DEFINE held == UNION {CoinsOf(task[u].copy) : u \in Tasks}
           left == UNION {CoinsOf(task'[u].copy) : u \in Tasks}
<1>1. \A u \in Tasks : task'[u] = IF u = t THEN g ELSE task[u]
  OBVIOUS
<1>2. CoinsOf(g.copy) \subseteq left
  <2>1. task'[t] = g
    BY <1>1
  <2>2. QED BY <2>1
<1>3. held \subseteq left \cup CoinsOf(file') \cup fate'["dropped"]
  <2>1. SUFFICES ASSUME NEW u \in Tasks, NEW c \in CoinsOf(task[u].copy)
                 PROVE  c \in left \cup CoinsOf(file') \cup fate'["dropped"]
    OBVIOUS
  <2>2. CASE u = t
    BY <1>2, <2>2
  <2>3. CASE u # t
    <3>1. c \in CoinsOf(task'[u].copy)
      BY <1>1, <2>3
    <3>2. QED BY <3>1
  <2>4. QED BY <2>2, <2>3
<1>4. \A c \in fate["deleted"] : c \in CoinsOf(file) \cup fate["dropped"] \cup held
  BY DEF ReceivedKept
<1> HIDE DEF held, left
<1>5. \A c \in fate'["deleted"] : c \in CoinsOf(file') \cup fate'["dropped"] \cup left
  BY <1>2, <1>3, <1>4
<1>6. QED BY <1>5 DEF ReceivedKept, left

\* A step of one flow, seen by a wallet where flows have not overlapped.
LoneStep(t, g) ==
    /\ Open(g, t \in GuiTasks) => \A u \in Tasks \ {t} : ~Open(task[u], u \in GuiTasks)
    /\ FlowAlone(g, t \in GuiTasks, file', tmp', drift'[t])
    /\ file' = file \/ (Open(task[t], t \in GuiTasks) /\ Extends(file, file'))
    /\ UNCHANGED <<tmp, drift>> \/ Open(task[t], t \in GuiTasks)
    /\ fate'["deleted"] \subseteq fate["deleted"] \cup CoinsOf(g.copy)
    /\ fate["dropped"] \subseteq fate'["dropped"]
    /\ CoinsOf(task[t].copy) \subseteq CoinsOf(g.copy) \cup CoinsOf(file') \cup fate'["dropped"]

LEMMA AloneStep ==
    ASSUME Base, Alone, NEW t \in Tasks, NEW g, task' = [task EXCEPT ![t] = g], raced => raced',
           ~raced /\ ~raced' => LoneStep(t, g)
    PROVE  Alone'
<1>1. SUFFICES ASSUME ~raced' PROVE Alone'
  BY DEF Alone
<1>2. ~raced /\ LoneStep(t, g)
  BY <1>1
<1>3. /\ \A u, v \in Tasks : Open(task[u], u \in GuiTasks) /\ Open(task[v], v \in GuiTasks) => u = v
      /\ \A u \in Tasks : FlowAlone(task[u], u \in GuiTasks, file, tmp, drift[u])
      /\ ReceivedKept
  BY <1>2 DEF Alone
<1>4. task \in [Tasks -> Flow]
  BY DEF Base, FlowTypes
<1>5. \A u \in Tasks : task'[u] = IF u = t THEN g ELSE task[u]
  BY <1>4
<1>6. \A u, v \in Tasks : Open(task'[u], u \in GuiTasks) /\ Open(task'[v], v \in GuiTasks) => u = v
  BY <1>2, <1>3, <1>5 DEF LoneStep
<1>7. ASSUME NEW u \in Tasks PROVE FlowAlone(task'[u], u \in GuiTasks, file', tmp', drift'[u])
  <2>1. CASE u = t
    BY <1>2, <1>5, <2>1 DEF LoneStep
  <2>2. CASE u # t
    <3>1. task'[u] = task[u]
      BY <1>5, <2>2
    <3>2. FlowAlone(task[u], u \in GuiTasks, file, tmp, drift[u])
      BY <1>3
    <3>3. CASE ~Open(task[t], t \in GuiTasks)
      <4>1. file' = file /\ tmp' = tmp /\ drift' = drift
        BY <1>2, <3>3 DEF LoneStep
      <4>2. QED BY <3>1, <3>2, <4>1
    <3>4. CASE Open(task[t], t \in GuiTasks)
      <4>1. ~Open(task[u], u \in GuiTasks)
        BY <1>3, <2>2, <3>4
      <4>2. task[u].at \notin {"poll", "take", "fill", "rename"}
        BY <4>1 DEF Open
      <4>3. FlowAlone(task[u], u \in GuiTasks, file', tmp', drift'[u])
        BY <3>2, <4>1, <4>2 DEF FlowAlone
      <4>4. QED BY <3>1, <4>3
    <3>5. QED BY <3>3, <3>4
  <2>3. QED BY <2>1, <2>2
<1>8. CoinsOf(file) \subseteq CoinsOf(file')
  BY <1>2, ExtendsCoins DEF LoneStep
<1>9. ReceivedKept'
  BY <1>2, <1>3, <1>4, <1>8, KeptStep DEF LoneStep
<1>10. QED BY <1>6, <1>7, <1>9 DEF Alone

\* A step that leaves flows, wallet file and fates alone.
LEMMA AloneKept ==
    ASSUME Alone, UNCHANGED <<file, tmp, drift, task, fate, raced>>
    PROVE  Alone'
BY DEF Alone, ReceivedKept

LEMMA IdleAlone == ASSUME NEW g, NEW fl, NEW tm, NEW dr PROVE FlowAlone(Idle, g, fl, tm, dr) /\ CoinsOf(Idle.copy) = {}
BY IdleFlow DEF FlowAlone, Open, CoinsOf

\* A flow that ends loses nothing that only it had.
LEMMA AloneEnded ==
    ASSUME Base, Alone, NEW t \in Tasks, task' = [task EXCEPT ![t] = Idle], raced' = raced,
           ~raced => /\ file' = file \/ (Open(task[t], t \in GuiTasks) /\ Extends(file, file'))
                     /\ UNCHANGED <<tmp, drift>> \/ Open(task[t], t \in GuiTasks)
                     /\ CoinsOf(task[t].copy) \subseteq CoinsOf(file') \cup fate'["dropped"],
           fate'["deleted"] = fate["deleted"], fate["dropped"] \subseteq fate'["dropped"]
    PROVE  Alone'
<1>1. ~Open(Idle, t \in GuiTasks)
  BY IdleKnows
<1>2. FlowAlone(Idle, t \in GuiTasks, file', tmp', drift'[t]) /\ CoinsOf(Idle.copy) = {}
  BY IdleAlone
<1>3. ~raced /\ ~raced' => LoneStep(t, Idle)
  BY <1>1, <1>2 DEF LoneStep
<1>4. QED BY <1>3, AloneStep

\* A flow that does not have the file open goes on without it.
LEMMA AloneClosed ==
    ASSUME Base, Alone, NEW t \in Tasks, NEW g, task' = [task EXCEPT ![t] = g],
           ~Open(task[t], t \in GuiTasks), ~Open(g, t \in GuiTasks), ~g.added, g.copy = <<>>,
           UNCHANGED <<file, tmp, drift, raced>>, fate'["deleted"] = fate["deleted"],
           fate["dropped"] \subseteq fate'["dropped"]
    PROVE  Alone'
<1>1. task[t].copy = <<>>
  BY FlowFields
<1>2. CoinsOf(<<>>) = {}
  BY DEF CoinsOf
<1>3. g.at \notin {"poll", "take", "fill", "rename"}
  BY DEF Open
<1>4. ~raced => FlowAlone(g, t \in GuiTasks, file', tmp', drift'[t])
  BY <1>3 DEF FlowAlone
<1>5. ~raced /\ ~raced' => LoneStep(t, g)
  BY <1>1, <1>2, <1>4 DEF LoneStep
<1>6. QED BY <1>5, AloneStep

LEMMA AloneOpen ==
    ASSUME Base, Alone, NEW t \in Tasks,
           OpenRefresh(t) \/ OpenReceive(t) \/ OpenKeyset(t) \/ OpenWithdraw(t)
    PROVE  Alone'
<1> DEFINE f == task[t]
<1>1. f.at = "open" /\ UNCHANGED <<files, minted, fate>>
  BY DEF OpenRefresh, OpenReceive, OpenKeyset, OpenWithdraw, At
<1>2. f \in Flow /\ ~Open(f, t \in GuiTasks) /\ f.copy = <<>>
  BY <1>1, FlowFields DEF Open
<1>3. ~raced => ~f.added
  BY <1>1 DEF Alone, FlowAlone
<1>4. file' = file /\ tmp' = tmp /\ drift' = drift /\ fate' = fate
  BY <1>1 DEF files
\* The file is opened.
<1>5. ASSUME NEW g, task' = [task EXCEPT ![t] = g], raced' = (raced \/ \E u \in Tasks \ {t} : Holds(u)),
             g.at \in {"mint", "poll"}, g.copy = file, g.added = f.added
      PROVE  Alone'
  <2>1. ~raced' => \A u \in Tasks \ {t} : ~Open(task[u], u \in GuiTasks)
    BY <1>5 DEF Holds, Open, At, Op, IsGui
  <2>2. Extends(file, file)
    BY ExtendsReflexive
  <2>3. ~raced => FlowAlone(g, t \in GuiTasks, file, tmp, drift[t])
    BY <1>3, <1>5, <2>2 DEF FlowAlone
  <2>4. CoinsOf(f.copy) = {}
    BY <1>2 DEF CoinsOf
  <2>5. ~raced /\ ~raced' => LoneStep(t, g)
    BY <1>4, <2>1, <2>3, <2>4 DEF LoneStep
  <2>6. QED BY <1>5, <2>5, AloneStep
\* It is not.
<1>6. ASSUME NEW g, task' = [task EXCEPT ![t] = g], raced' = raced, ~Open(g, t \in GuiTasks), g.copy = <<>>,
             g.added = f.added
      PROVE  Alone'
  <2>1. CASE raced
    BY <1>6, <2>1 DEF Alone
  <2>2. CASE ~raced
    BY <1>2, <1>3, <1>4, <1>6, <2>2, AloneClosed
  <2>3. QED BY <2>1, <2>2
<1>7. CASE OpenRefresh(t)
  <2> DEFINE found == file[First(ActiveLabelled(file, f.label))]
             c == IF t \in GuiTasks THEN file ELSE <<>>
             g == [f EXCEPT !.coin = found.coin, !.denom = keysets[f.name], !.copy = c, !.at = "mint"]
  <2>1. task' = [task EXCEPT ![t] = g] /\ f.op = "refresh"
    BY <1>7 DEF OpenRefresh, GoOn, Op, IsGui
  <2>2. IF t \in GuiTasks THEN raced' = (raced \/ \E u \in Tasks \ {t} : Holds(u)) ELSE raced' = raced
    BY <1>7 DEF OpenRefresh, IsGui, Racing
  <2> HIDE DEF c, found
  <2>4. /\ g.at = "mint" /\ g.copy = c /\ g.added = f.added /\ g.op = "refresh" /\ g.label = f.label
    BY <1>2, <2>1 DEF Flow
  <2> HIDE DEF g
  <2>5. CASE t \in GuiTasks
    BY <1>5, <2>1, <2>2, <2>4, <2>5 DEF c
  <2>6. CASE t \notin GuiTasks
    <3>1. ~Open(g, t \in GuiTasks) /\ g.copy = <<>>
      BY <2>4, <2>6 DEF Open, c
    <3>2. QED BY <1>6, <2>1, <2>2, <2>4, <2>6, <3>1
  <2>7. QED BY <2>5, <2>6
<1>8. CASE OpenReceive(t)
  <2> DEFINE g == [f EXCEPT !.copy = file, !.at = "poll"]
  <2>1. /\ f.op = "receive" /\ task' = [task EXCEPT ![t] = g]
        /\ raced' = (raced \/ \E u \in Tasks \ {t} : Holds(u))
    BY <1>8 DEF OpenReceive, GoOn, Op, Racing
  <2>2. g.at = "poll" /\ g.copy = file /\ g.added = f.added /\ g.op = "receive"
    BY <1>2, <2>1 DEF Flow
  <2> HIDE DEF g
  <2>3. QED BY <1>5, <2>1, <2>2
<1>9. CASE OpenKeyset(t)
  <2> DEFINE g == [f EXCEPT !.denom = keysets[f.name], !.at = "mint"]
  <2>1. /\ f.op \in {"pay", "audited pay", "issue", "print"} /\ task' = [task EXCEPT ![t] = g] /\ raced' = raced
    BY <1>9 DEF OpenKeyset, GoOn, Op
  <2>2. g.at = "mint" /\ g.copy = <<>> /\ g.added = f.added /\ g.op = f.op
    BY <1>2 DEF Flow
  <2> HIDE DEF g
  <2>3. ~Open(g, t \in GuiTasks)
    BY <2>1, <2>2 DEF Open
  <2>4. QED BY <1>6, <2>1, <2>2, <2>3
<1>10. CASE OpenWithdraw(t)
  <2> DEFINE g == [f EXCEPT !.at = "submit"]
  <2>1. f.op = "withdraw" /\ task' = [task EXCEPT ![t] = g] /\ raced' = raced
    BY <1>10 DEF OpenWithdraw, GoOn, Op
  <2>2. g.at = "submit" /\ g.copy = <<>> /\ g.added = f.added /\ g.op = f.op
    BY <1>2 DEF Flow
  <2> HIDE DEF g
  <2>3. ~Open(g, t \in GuiTasks)
    BY <2>1, <2>2 DEF Open
  <2>4. QED BY <1>6, <2>1, <2>2, <2>3
<1>11. QED BY <1>7, <1>8, <1>9, <1>10

LEMMA FateDomain == ASSUME Base PROVE fate \in [Fates -> SUBSET Coins] /\ raced \in BOOLEAN
BY DEF Base, FlowTypes

LEMMA AloneMintRefreshed ==
    ASSUME Base, Alone, NEW t \in Tasks, MintRefreshed(t)
    PROVE  Alone'
<1> DEFINE f == task[t]
           n == NextCoin
<1>1. /\ f.op = "refresh" /\ f.at = "mint" /\ MintCoin(f.denom, f.coin)
      /\ UNCHANGED <<files, raced, relay, events>>
      /\ fate' = [fate EXCEPT !["melted"] = @ \cup {f.coin},
                              !["printed"] = IF t \in GuiTasks THEN @ ELSE @ \cup {n}]
  BY DEF MintRefreshed, Op, At, GoOn, IsGui
<1>2. fate'["deleted"] = fate["deleted"] /\ fate'["dropped"] = fate["dropped"]
  BY <1>1, FateDomain DEF Fates
<1>3. file' = file /\ tmp' = tmp /\ drift' = drift /\ raced' = raced
  BY <1>1 DEF files
<1>4. f \in Flow /\ f.copy \in Seq(Stored) /\ Good(f.copy, minted, fate)
      /\ Knows(f, t \in GuiTasks, minted)
  BY FlowFields
<1>5. ~raced => /\ FlowAlone(f, t \in GuiTasks, file, tmp, drift[t])
                /\ \A u \in Tasks : Open(f, t \in GuiTasks) /\ Open(task[u], u \in GuiTasks) => t = u
  BY DEF Alone
<1>6. CASE t \in GuiTasks
  <2> DEFINE m == MarkSpent(f.copy, f.coin)
             e == StoredCoin(n, f.denom, "Active", Refreshed(f.label))
             g == [f EXCEPT !.new = n, !.copy = Add(m, e), !.at = "write"]
  <2>1. task' = [task EXCEPT ![t] = g]
    BY <1>6 DEF MintRefreshed, IsGui, GoOn, RefreshedCopy
  <2>2. m \in Seq(Stored) /\ DOMAIN m = DOMAIN f.copy /\ Extends(f.copy, m)
    BY <1>4, MarkSpentGood
  <2> HIDE DEF m, e, n
  <2>3. Extends(m, Add(m, e))
    <3>1. DOMAIN m = 1..Len(m) /\ Len(m) \in Nat
      BY <2>2, StoreDomain
    <3>2. DOMAIN m \subseteq DOMAIN Add(m, e) /\ \A i \in DOMAIN m : Add(m, e)[i] = m[i]
      BY <2>2, <3>1 DEF Add
    <3>3. QED BY <3>2 DEF Extends
  <2>4. Extends(f.copy, Add(m, e))
    BY <2>2, <2>3, ExtendsTransitive
  <2>5. g.at = "write" /\ g.copy = Add(m, e) /\ g.added = f.added /\ g.op = f.op
    BY <1>4 DEF Flow
  <2> HIDE DEF g
  <2>6. Open(f, t \in GuiTasks)
    BY <1>1, <1>6 DEF Open
  <2>7. ~raced => FlowAlone(g, t \in GuiTasks, file, tmp, drift[t])
    <3>1. ~raced => Extends(file, g.copy)
      BY <1>5, <2>4, <2>5, <2>6, ExtendsTransitive DEF FlowAlone
    <3>2. QED BY <2>5, <3>1 DEF FlowAlone
  <2>8. CoinsOf(f.copy) \subseteq CoinsOf(g.copy)
    BY <2>4, <2>5, ExtendsCoins
  <2>9. ~raced /\ ~raced' => LoneStep(t, g)
    BY <1>2, <1>3, <1>5, <2>6, <2>7, <2>8 DEF LoneStep
  <2>10. QED BY <1>3, <2>1, <2>9, AloneStep
<1>7. CASE t \notin GuiTasks
  <2> DEFINE g == [f EXCEPT !.new = n, !.at = "reopen"]
  <2>1. task' = [task EXCEPT ![t] = g]
    BY <1>7 DEF MintRefreshed, IsGui, GoOn
  <2>2. ~Open(f, t \in GuiTasks) /\ f.copy = <<>>
    BY <1>1, <1>7, FlowFields DEF Open
  <2> HIDE DEF n
  <2>3. g.at = "reopen" /\ g.copy = <<>> /\ g.added = f.added /\ g.op = f.op /\ g.label = f.label
    BY <1>4, <2>2 DEF Flow
  <2> HIDE DEF g
  <2>4. ~Open(g, t \in GuiTasks)
    BY <2>3 DEF Open
  <2>5. ~raced => ~g.added
    BY <1>1, <1>5, <2>3 DEF FlowAlone
  <2>6. CASE raced
    BY <1>3, <2>6 DEF Alone
  <2>7. CASE ~raced
    BY <1>2, <1>3, <2>1, <2>2, <2>3, <2>4, <2>5, <2>7, AloneClosed
  <2>8. QED BY <2>6, <2>7
<1>8. QED BY <1>6, <1>7

LEMMA AloneMintIssued ==
    ASSUME Base, Alone, NEW t \in Tasks, MintIssued(t)
    PROVE  Alone'
<1> DEFINE f == task[t]
           n == NextCoin
<1>1. /\ f.op \in {"pay", "audited pay", "issue", "print"} /\ f.at = "mint"
      /\ UNCHANGED <<files, raced, relay>>
      /\ fate' = [fate EXCEPT !["printed"] = IF f.op \in {"issue", "print"} THEN @ \cup {n} ELSE @]
  BY DEF MintIssued, Op, At
<1>2. f \in Flow /\ ~Open(f, t \in GuiTasks) /\ f.copy = <<>>
  BY <1>1, FlowFields DEF Open
<1>3. fate'["deleted"] = fate["deleted"] /\ fate'["dropped"] = fate["dropped"]
  BY <1>1, FateDomain DEF Fates
<1>4. file' = file /\ tmp' = tmp /\ drift' = drift /\ raced' = raced
  BY <1>1 DEF files
<1>5. ~raced => ~f.added
  BY <1>1 DEF Alone, FlowAlone
<1>6. CoinsOf(f.copy) = {}
  BY <1>2 DEF CoinsOf
<1>7. CASE f.op = "print"
  <2>1. task' = [task EXCEPT ![t] = Idle]
    BY <1>7 DEF MintIssued, Op, Finish
  <2>2. QED BY <1>3, <1>4, <1>6, <2>1, AloneEnded
<1>8. CASE f.op # "print"
  <2> DEFINE at == AfterMint(t)
             g == [f EXCEPT !.new = n, !.at = at]
  <2>1. task' = [task EXCEPT ![t] = g]
    BY <1>8 DEF MintIssued, GoOn, Op
  <2>2. at \in {"reopen", "post"}
    BY DEF AfterMint
  <2> HIDE DEF at, n
  <2>3. g.at = at /\ g.op = f.op /\ g.copy = <<>> /\ g.added = f.added
    BY <1>2 DEF Flow
  <2> HIDE DEF g
  <2>4. ~Open(g, t \in GuiTasks)
    BY <2>2, <2>3 DEF Open
  <2>5. CASE raced
    BY <1>4, <2>5 DEF Alone
  <2>6. CASE ~raced
    BY <1>1, <1>2, <1>3, <1>4, <1>5, <2>1, <2>3, <2>4, <2>6, AloneClosed
  <2>7. QED BY <2>5, <2>6
<1>9. QED BY <1>7, <1>8

LEMMA AloneSubmitPost ==
    ASSUME Base, Alone, NEW t \in Tasks, SubmitWithdraw(t) \/ Post(t) \/ PostUnanswered(t) \/ PostPanics(t)
    PROVE  Alone'
<1> DEFINE f == task[t]
<1>1. f.at \in {"submit", "post"} /\ UNCHANGED <<files, raced>>
  BY DEF SubmitWithdraw, Post, PostUnanswered, PostPanics, At
<1>2. f \in Flow /\ ~Open(f, t \in GuiTasks) /\ f.copy = <<>>
  BY <1>1, FlowFields DEF Open
<1>3. fate'["deleted"] = fate["deleted"] /\ fate'["dropped"] = fate["dropped"]
  <2>1. fate' = fate \/ \E x \in {"delivered", "refused"} : fate' = [fate EXCEPT ![x] = @ \cup {f.new}]
    BY DEF SubmitWithdraw, Post, PostUnanswered, PostPanics
  <2>2. QED BY <2>1, FateDomain DEF Fates
<1>4. file' = file /\ tmp' = tmp /\ drift' = drift /\ raced' = raced
  BY <1>1 DEF files
<1>5. CoinsOf(f.copy) = {}
  BY <1>2 DEF CoinsOf
<1>6. CASE ~(Post(t) /\ f.op = "audited pay")
  <2>1. task' = [task EXCEPT ![t] = Idle]
    BY <1>6 DEF SubmitWithdraw, Post, PostUnanswered, PostPanics, AfterPost, Finish, Op
  <2>2. QED BY <1>3, <1>4, <1>5, <2>1, AloneEnded
<1>7. CASE Post(t) /\ f.op = "audited pay"
  <2> DEFINE g == [f EXCEPT !.at = "reopen"]
  <2>1. task' = [task EXCEPT ![t] = g]
    BY <1>7 DEF Post, AfterPost, GoOn, Op
  <2>2. g.at = "reopen" /\ g.op = f.op /\ g.copy = <<>> /\ g.added = f.added
    BY <1>2 DEF Flow
  <2> HIDE DEF g
  <2>3. ~Open(g, t \in GuiTasks)
    BY <2>2 DEF Open
  <2>4. CASE raced
    BY <1>4, <2>4 DEF Alone
  <2>5. CASE ~raced
    <3>1. ~f.added
      BY <1>1, <2>5 DEF Alone, FlowAlone
    <3>2. QED BY <1>2, <1>3, <1>4, <1>7, <2>1, <2>2, <2>3, <2>5, <3>1, AloneClosed
  <2>6. QED BY <2>4, <2>5
<1>8. QED BY <1>6, <1>7

\* A receive goes on with the messages, or ends.
LEMMA AloneReceiving ==
    ASSUME Base, Alone, NEW t \in Tasks, NEW g \in Flow, task[t].at \in {"poll", "take"},
           UNCHANGED <<file, tmp, drift, raced>>, fate["dropped"] \subseteq fate'["dropped"],
           fate'["deleted"] \subseteq fate["deleted"] \cup CoinsOf(g.copy),
           Extends(task[t].copy, g.copy), g.op = "receive",
           task' = [task EXCEPT ![t] = g], g.at \in {"take", "write"},
           ~g.added => CoinsOf(g.copy) \subseteq CoinsOf(task[t].copy) /\ ~task[t].added
    PROVE  Alone'
<1> DEFINE f == task[t]
<1>1. Open(f, t \in GuiTasks)
  BY DEF Open
<1>2. ~raced => /\ FlowAlone(f, t \in GuiTasks, file, tmp, drift[t])
                /\ \A u \in Tasks : Open(f, t \in GuiTasks) /\ Open(task[u], u \in GuiTasks) => t = u
  BY DEF Alone
<1>3. CoinsOf(f.copy) \subseteq CoinsOf(g.copy)
  BY ExtendsCoins
<1>4. ~raced => Extends(file, g.copy)
  BY <1>1, <1>2, ExtendsTransitive DEF FlowAlone
<1>5. ~raced /\ ~g.added => CoinsOf(g.copy) \subseteq CoinsOf(file)
  BY <1>2 DEF FlowAlone
<1>6. ~raced => FlowAlone(g, t \in GuiTasks, file, tmp, drift[t])
  BY <1>4, <1>5 DEF FlowAlone
<1>7. ~raced /\ ~raced' => LoneStep(t, g)
  BY <1>1, <1>2, <1>3, <1>6 DEF LoneStep
<1>8. QED BY <1>7, AloneStep

LEMMA AloneReceived ==
    ASSUME Base, Alone, NEW t \in Tasks, task[t].at \in {"poll", "take"}, ~task[t].added,
           UNCHANGED <<file, tmp, drift, raced, fate>>, task' = [task EXCEPT ![t] = Idle]
    PROVE  Alone'
<1>1. ~raced => CoinsOf(task[t].copy) \subseteq CoinsOf(file)
  BY DEF Alone, FlowAlone
<1>2. QED BY <1>1, AloneEnded

LEMMA AlonePoll ==
    ASSUME Base, Alone, NEW t \in Tasks, Poll(t)
    PROVE  Alone'
<1> DEFINE f == task[t]
           g == [f EXCEPT !.queue = Listed(Me), !.at = "take"]
<1>1. f.op = "receive" /\ f.at = "poll" /\ UNCHANGED <<files, fate, raced>>
  BY DEF Poll, Op, At
<1>2. f \in Flow /\ file' = file /\ tmp' = tmp /\ drift' = drift /\ inbox \in [Recipients -> SUBSET Message]
  BY <1>1, FlowFields DEF files, Base, FlowTypes
<1>3. CASE raced
  BY <1>1, <1>3 DEF Alone
<1>4. CASE ~raced
  <2>1. ~f.added
    BY <1>1, <1>4 DEF Alone, FlowAlone
  <2>2. CASE Listed(Me) = {}
    BY <1>1, <1>2, <2>1, <2>2, AloneReceived DEF Poll, Finish
  <2>3. CASE Listed(Me) # {}
    <3>1. task' = [task EXCEPT ![t] = g]
      BY <2>3 DEF Poll, GoOn
    <3>2. Listed(Me) \in SUBSET Message
      BY <1>2, Parties DEF Listed
    <3>3. g \in Flow /\ g.at = "take" /\ g.op = "receive" /\ g.copy = f.copy /\ g.added = f.added
      BY <1>1, <1>2, <3>2 DEF Flow
    <3> HIDE DEF g
    <3>4. Extends(f.copy, g.copy)
      BY <3>3, ExtendsReflexive
    <3>5. QED BY <1>1, <1>2, <2>1, <3>1, <3>3, <3>4, AloneReceiving
  <2>4. QED BY <2>2, <2>3
<1>5. QED BY <1>3, <1>4

LEMMA AloneSkip ==
    ASSUME Base, Alone, NEW t \in Tasks, Skip(t)
    PROVE  Alone'
<1> DEFINE f == task[t]
           q == f.queue \ {Oldest(f.queue)}
           g == [f EXCEPT !.queue = q]
<1>1. At(t, "take") /\ f.at = "take" /\ AfterMessage(t, g) /\ UNCHANGED <<files, fate, raced>>
  BY DEF Skip, At
<1>2. f \in Flow /\ f.op = "receive" /\ file' = file /\ tmp' = tmp /\ drift' = drift
  BY <1>1, FlowFields, TakeFlow DEF files
<1>3. q \subseteq f.queue
  OBVIOUS
<1> HIDE DEF q
<1>4. g \in Flow /\ g.op = "receive" /\ g.queue = q /\ g.copy = f.copy /\ g.added = f.added
  BY <1>2, <1>3 DEF Flow
<1> HIDE DEF g
<1>5. ASSUME NEW step \in {"take", "write"}, task' = [task EXCEPT ![t] = [g EXCEPT !.at = step]]
      PROVE  Alone'
  <2> DEFINE h == [g EXCEPT !.at = step]
  <2>1. h \in Flow /\ h.op = "receive" /\ h.copy = f.copy /\ h.added = f.added /\ h.at = step
    BY <1>4 DEF Flow
  <2>2. task' = [task EXCEPT ![t] = h]
    BY <1>5
  <2> HIDE DEF h
  <2>3. Extends(f.copy, h.copy)
    BY <2>1, ExtendsReflexive
  <2>4. QED BY <1>1, <1>2, <2>1, <2>2, <2>3, AloneReceiving
<1>6. CASE g.queue # {} \/ g.added
  <2>1. \E step \in {"take", "write"} : task' = [task EXCEPT ![t] = [g EXCEPT !.at = step]]
    BY <1>1, <1>6 DEF AfterMessage, GoOn
  <2>2. QED BY <1>5, <2>1
<1>7. CASE g.queue = {} /\ ~g.added
  <2>1. task' = [task EXCEPT ![t] = Idle]
    BY <1>1, <1>7 DEF AfterMessage, Finish
  <2>2. QED BY <1>1, <1>2, <1>4, <1>7, <2>1, AloneReceived
<1>8. QED BY <1>6, <1>7

LEMMA AloneTake ==
    ASSUME Base, Alone, NEW t \in Tasks, Take(t)
    PROVE  Alone'
<1> DEFINE f == task[t]
           m == Oldest(f.queue)
           e == StoredCoin(m.body, minted[m.body].denom, "Active", Label("relay", m.id))
           q == f.queue \ {m}
           cp == Add(f.copy, e)
           g == [f EXCEPT !.queue = q, !.copy = cp, !.added = TRUE]
<1>1. /\ At(t, "take") /\ f.at = "take" /\ Fresh(t) /\ AfterMessage(t, g) /\ UNCHANGED <<files, minted, raced>>
      /\ \/ fate' = [fate EXCEPT !["deleted"] = @ \cup {m.body}, !["imported"] = @ \cup {m.body}]
         \/ fate' = [fate EXCEPT !["imported"] = @ \cup {m.body}]
  BY DEF Take, At
<1>2. f \in Flow /\ f.op = "receive" /\ f.copy \in Seq(Stored) /\ file' = file /\ tmp' = tmp /\ drift' = drift
  BY <1>1, TakeFlow, FlowFields DEF files
<1>3. e \in Stored /\ e.coin = m.body
  BY <1>1, TakenEntry
<1> HIDE DEF m, e
<1>4. fate'["deleted"] \subseteq fate["deleted"] \cup {m.body} /\ fate'["dropped"] = fate["dropped"]
  BY <1>1, FateDomain DEF Fates
<1>5. cp \in Seq(Stored) /\ Extends(f.copy, cp) /\ m.body \in CoinsOf(cp)
  <2>1. DOMAIN f.copy = 1..Len(f.copy) /\ Len(f.copy) \in Nat
    BY <1>2, StoreDomain
  <2>2. /\ cp \in Seq(Stored) /\ DOMAIN cp = DOMAIN f.copy \cup {Len(f.copy) + 1} /\ cp[Len(f.copy) + 1] = e
        /\ \A i \in DOMAIN f.copy : cp[i] = f.copy[i]
    BY <1>2, <1>3, <2>1 DEF Add
  <2> HIDE DEF cp
  <2>3. QED BY <1>3, <2>2 DEF Extends, CoinsOf
<1>6. q \subseteq f.queue
  OBVIOUS
<1> HIDE DEF q, cp
<1>7. g \in Flow /\ g.op = "receive" /\ g.copy = cp /\ g.added
  BY <1>2, <1>5, <1>6 DEF Flow
<1> HIDE DEF g
<1>8. ASSUME NEW step \in {"take", "write"}, task' = [task EXCEPT ![t] = [g EXCEPT !.at = step]]
      PROVE  Alone'
  <2> DEFINE h == [g EXCEPT !.at = step]
  <2>1. h \in Flow /\ h.op = "receive" /\ h.copy = cp /\ h.added /\ h.at = step
    BY <1>7 DEF Flow
  <2>2. task' = [task EXCEPT ![t] = h]
    BY <1>8
  <2> HIDE DEF h
  <2>3. Extends(f.copy, h.copy) /\ fate'["deleted"] \subseteq fate["deleted"] \cup CoinsOf(h.copy)
    BY <1>4, <1>5, <2>1
  <2>4. QED BY <1>1, <1>2, <1>4, <2>1, <2>2, <2>3, AloneReceiving
<1>9. \E step \in {"take", "write"} : task' = [task EXCEPT ![t] = [g EXCEPT !.at = step]]
  BY <1>1, <1>7 DEF AfterMessage, GoOn
<1>10. QED BY <1>8, <1>9

LEMMA AloneReopen ==
    ASSUME Base, Alone, NEW t \in Tasks, Reopen(t)
    PROVE  Alone'
<1> DEFINE f == task[t]
           c == Add(Reopened(t), NewEntry(t, Reopened(t)))
           g == [f EXCEPT !.copy = c, !.at = "write"]
<1>1. /\ f.at = "reopen" /\ task' = [task EXCEPT ![t] = g] /\ UNCHANGED <<files, minted>>
      /\ raced' = (raced \/ \E u \in Tasks \ {t} : Holds(u))
      /\ fate' = IF Op(t) = "add" THEN [fate EXCEPT !["imported"] = @ \cup {f.new}] ELSE fate
  BY DEF Reopen, GoOn, At, Racing
<1>2. f \in Flow /\ f.copy = <<>> /\ file' = file /\ tmp' = tmp /\ drift' = drift
  BY <1>1, FlowFields DEF Open, files
<1>3. fate'["deleted"] = fate["deleted"] /\ fate'["dropped"] = fate["dropped"]
  BY <1>1, FateDomain DEF Fates
<1>4. Extends(file, c)
  BY ReopenedCopy
<1> HIDE DEF c
<1>5. g.at = "write" /\ g.copy = c
  BY <1>2 DEF Flow
<1> HIDE DEF g
<1>6. ~raced' => \A u \in Tasks \ {t} : ~Open(task[u], u \in GuiTasks)
  BY <1>1 DEF Holds, Open, At, Op, IsGui
<1>7. FlowAlone(g, t \in GuiTasks, file', tmp', drift'[t])
  BY <1>2, <1>4, <1>5 DEF FlowAlone
<1>8. CoinsOf(f.copy) = {}
  BY <1>2 DEF CoinsOf
<1>9. ~raced /\ ~raced' => LoneStep(t, g)
  BY <1>2, <1>3, <1>6, <1>7, <1>8 DEF LoneStep
<1>10. QED BY <1>1, <1>9, AloneStep

\* A save goes on, with the .tmp file that its next step needs.
LEMMA AloneSaving ==
    ASSUME Base, Alone, NEW t \in Tasks, NEW step \in {"fill", "rename"}, GoOn(t, step, task[t]),
           task[t].at \in {"write", "fill"}, UNCHANGED <<fate, raced>>,
           ~raced => /\ file' = file
                     /\ step = "fill" => tmp' = {Torn} /\ drift'[t] = "tmp"
                     /\ step = "rename" => tmp' = {task[t].copy}
    PROVE  Alone'
<1> DEFINE f == task[t]
           g == [f EXCEPT !.at = step]
<1>1. task' = [task EXCEPT ![t] = g]
  BY DEF GoOn
<1>2. f \in Flow /\ Open(f, t \in GuiTasks)
  BY FlowFields DEF Open
<1>3. g.at = step /\ g.copy = f.copy
  BY <1>2 DEF Flow
<1> HIDE DEF g
<1>4. ~raced => /\ FlowAlone(f, t \in GuiTasks, file, tmp, drift[t])
                /\ \A u \in Tasks : Open(f, t \in GuiTasks) /\ Open(task[u], u \in GuiTasks) => t = u
  BY DEF Alone
<1>5. ~raced => Extends(file, f.copy)
  BY <1>2, <1>4 DEF FlowAlone
<1>6. ~raced => FlowAlone(g, t \in GuiTasks, file', tmp', drift'[t])
  BY <1>3, <1>5 DEF FlowAlone
<1>7. ~raced /\ ~raced' => LoneStep(t, g)
  BY <1>2, <1>3, <1>4, <1>6 DEF LoneStep
<1>8. QED BY <1>1, <1>7, AloneStep

LEMMA AloneTruncateTmp ==
    ASSUME Base, Alone, NEW t \in Tasks, TruncateTmp(t)
    PROVE  Alone'
<1>1. /\ task[t].at = "write" /\ tmp' = {Torn} /\ drift' = [drift EXCEPT ![t] = "tmp"]
      /\ GoOn(t, "fill", task[t]) /\ UNCHANGED <<file, fate, raced>>
  BY DEF TruncateTmp, At
<1>2. drift'[t] = "tmp"
  BY <1>1 DEF Base, FlowTypes
<1>3. QED BY <1>1, <1>2, AloneSaving

\* Alone, a flow writes to the .tmp file and nowhere else.
LEMMA WritesTmp ==
    ASSUME Base, Alone, NEW t \in Tasks, WriteTmp(t)
    PROVE  ~raced => file' = file /\ tmp' = {task[t].copy}
<1>1. SUFFICES ASSUME ~raced PROVE file' = file /\ tmp' = {task[t].copy}
  OBVIOUS
<1>2. task[t].at = "fill"
  BY DEF WriteTmp, At
<1>3. tmp = {Torn} /\ drift[t] = "tmp"
  BY <1>1, <1>2 DEF Alone, FlowAlone
<1>4. file' = file /\ \E old \in tmp : \E s \in Overwritten(old, task[t].copy) : tmp' = {s}
  BY <1>3 DEF WriteTmp
<1>5. QED BY <1>3, <1>4 DEF Overwritten

LEMMA AloneWriteTmp ==
    ASSUME Base, Alone, NEW t \in Tasks, WriteTmp(t)
    PROVE  Alone'
<1>1. task[t].at = "fill" /\ GoOn(t, "rename", task[t]) /\ UNCHANGED <<fate, raced>>
  BY DEF WriteTmp, At
<1>2. QED BY <1>1, WritesTmp, AloneSaving

\* What takes the place of the file extends it.
LEMMA RenameExtends ==
    ASSUME Base, Alone, NEW t \in Tasks, Rename(t)
    PROVE  ~raced => Extends(file, file') /\ file' = task[t].copy
<1>1. task[t].at = "rename" /\ file' \in tmp
  BY DEF Rename, At
<1>2. ~raced => FlowAlone(task[t], t \in GuiTasks, file, tmp, drift[t])
  BY DEF Alone
<1>3. QED BY <1>1, <1>2 DEF FlowAlone, Open

LEMMA AloneRename ==
    ASSUME Base, Alone, NEW t \in Tasks, Rename(t)
    PROVE  Alone'
<1>1. task[t].at = "rename" /\ task' = [task EXCEPT ![t] = Idle] /\ UNCHANGED <<fate, raced>>
  BY DEF Rename, At, Finish
<1>2. Open(task[t], t \in GuiTasks)
  BY <1>1 DEF Open
<1>3. QED BY <1>1, <1>2, RenameExtends, AloneEnded

LEMMA AloneFail ==
    ASSUME Base, Alone, NEW t \in Tasks, Fail(t)
    PROVE  Alone'
<1>1. /\ fate' = [fate EXCEPT !["dropped"] = @ \cup Unsaved(t)] /\ task' = [task EXCEPT ![t] = Idle]
      /\ UNCHANGED <<files, raced>>
  BY DEF Fail, Finish
<1>2. fate'["dropped"] = fate["dropped"] \cup Unsaved(t) /\ fate'["deleted"] = fate["deleted"]
  BY <1>1, FateDomain DEF Fates
<1>3. CoinsOf(task[t].copy) \subseteq CoinsOf(file) \cup fate'["dropped"]
  BY <1>2 DEF Unsaved
<1>4. file' = file /\ tmp' = tmp /\ drift' = drift
  BY <1>1 DEF files
<1>5. QED BY <1>1, <1>2, <1>3, <1>4, AloneEnded

LEMMA AloneProgress ==
    ASSUME Base, Alone, NEW t \in Tasks, Progress(t) \/ Fail(t)
    PROVE  Alone'
BY AloneOpen, AloneMintRefreshed, AloneMintIssued, AloneSubmitPost, AlonePoll, AloneSkip, AloneTake,
   AloneReopen, AloneTruncateTmp, AloneWriteTmp, AloneRename, AloneFail DEF Progress

LEMMA AloneKilled ==
    ASSUME Base, Alone, NEW T \in SUBSET Tasks, Killed(T), UNCHANGED <<files, raced>>
    PROVE  Alone'
<1>1. SUFFICES ASSUME ~raced PROVE Alone'
  BY DEF Alone
<1>2. /\ task' = [t \in Tasks |-> IF t \in T THEN Idle ELSE task[t]]
      /\ fate' = [fate EXCEPT !["dropped"] = @ \cup UNION {Unsaved(t) : t \in T}]
      /\ file' = file /\ tmp' = tmp /\ drift' = drift
  BY DEF Killed, files
<1>3. fate'["dropped"] = fate["dropped"] \cup UNION {Unsaved(t) : t \in T} /\ fate'["deleted"] = fate["deleted"]
  BY <1>2, FateDomain DEF Fates
<1>4. \A u \in Tasks : task'[u] = IF u \in T THEN Idle ELSE task[u]
  BY <1>2
<1>5. \A u, v \in Tasks : Open(task'[u], u \in GuiTasks) /\ Open(task'[v], v \in GuiTasks) => u = v
  BY <1>1, <1>4, IdleKnows DEF Alone
<1>6. \A u \in Tasks : FlowAlone(task'[u], u \in GuiTasks, file', tmp', drift'[u])
  BY <1>1, <1>2, <1>4, IdleAlone DEF Alone
<1>7. ASSUME NEW c \in fate'["deleted"]
      PROVE  c \in CoinsOf(file) \cup fate'["dropped"] \cup UNION {CoinsOf(task'[u].copy) : u \in Tasks}
  <2>1. c \in CoinsOf(file) \cup fate["dropped"] \cup UNION {CoinsOf(task[u].copy) : u \in Tasks}
    BY <1>1, <1>3 DEF Alone, ReceivedKept
  <2>2. ASSUME NEW u \in Tasks, c \in CoinsOf(task[u].copy)
        PROVE  c \in CoinsOf(file) \cup fate'["dropped"] \cup UNION {CoinsOf(task'[v].copy) : v \in Tasks}
    <3>1. CASE u \in T
      <4>1. c \in CoinsOf(file) \/ c \in Unsaved(u)
        BY <2>2 DEF Unsaved
      <4>2. QED BY <1>3, <3>1, <4>1
    <3>2. CASE u \notin T
      <4>1. task'[u] = task[u]
        BY <1>4, <3>2
      <4>2. QED BY <2>2, <4>1
    <3>3. QED BY <3>1, <3>2
  <2>3. QED BY <1>3, <2>1, <2>2
<1>8. ReceivedKept'
  BY <1>2, <1>7 DEF ReceivedKept
<1>9. QED BY <1>5, <1>6, <1>8 DEF Alone

\* A flow begins, without the file.
LEMMA AloneBegun ==
    ASSUME Base, Alone, NEW t \in Tasks, NEW g, Begin(t, g), g.at \in {"open", "reopen"}, ~g.added, g.copy = <<>>,
           UNCHANGED <<files, fate, raced>>
    PROVE  Alone'
<1>1. task[t] = Idle /\ task' = [task EXCEPT ![t] = g] /\ file' = file /\ tmp' = tmp /\ drift' = drift
  BY DEF Begin, files
<1>2. ~Open(task[t], t \in GuiTasks) /\ ~Open(g, t \in GuiTasks)
  BY <1>1, IdleKnows DEF Open
<1>3. QED BY <1>1, <1>2, AloneClosed

LEMMA StartFields ==
    ASSUME NEW op, NEW at, NEW name, NEW label, NEW d
    PROVE  /\ Start(op, at, name, label, d).op = op /\ Start(op, at, name, label, d).at = at
           /\ Start(op, at, name, label, d).copy = <<>> /\ ~Start(op, at, name, label, d).added
BY DEF Start, Idle

LEMMA AloneCliCommand ==
    ASSUME Base, Alone, NEW t \in CliTasks, CliCommand(t)
    PROVE  Alone'
<1>1. t \in Tasks
  BY DEF Tasks
<1>2. ASSUME NEW op, NEW name, NEW label, NEW d, Cli(t, Start(op, "open", name, label, d))
      PROVE  Alone'
  <2> DEFINE g == Start(op, "open", name, label, d)
  <2>1. g.at = "open" /\ g.copy = <<>> /\ ~g.added
    BY StartFields
  <2>2. Begin(t, g) /\ UNCHANGED <<files, fate, raced>>
    BY <1>2 DEF Cli
  <2> HIDE DEF g
  <2>3. QED BY <1>1, <2>1, <2>2, AloneBegun
<1>3. CASE CliReceive(t)
  BY <1>2, <1>3 DEF CliReceive
<1>4. CASE \E n \in Names : \E l \in {file[i].label : i \in DOMAIN file} \ {NoLabel} : CliRefresh(t, n, l)
  BY <1>2, <1>4 DEF CliRefresh
<1>5. CASE \E n \in Names : \E d \in Denoms, audit \in BOOLEAN : CliPay(t, n, d, audit)
  BY <1>2, <1>5 DEF CliPay
<1>6. CASE \E n \in Names : CliPrint(t, n)
  BY <1>2, <1>6 DEF CliPrint
<1>7. ASSUME NEW g, Cli(t, g), g.at \in {"open", "reopen"}, g.copy = <<>>, ~g.added PROVE Alone'
  BY <1>1, <1>7, AloneBegun DEF Cli
<1>8. CASE \E n \in Names : \E l \in UserLabels, d \in Denoms \cup {0} : CliIssue(t, n, l, d)
  <2>1. PICK n \in Names, l \in UserLabels, d \in Prices : CliIssue(t, n, l, d)
    BY <1>8 DEF Prices
  <2> DEFINE g == [Start("issue", "open", n, l, 0) EXCEPT !.told = d]
  <2>2. Cli(t, g)
    BY <2>1 DEF CliIssue
  <2>3. g.at = "open" /\ g.copy = <<>> /\ ~g.added
    BY DEF Start, Idle
  <2> HIDE DEF g
  <2>4. QED BY <1>7, <2>2, <2>3
<1>9. CASE \E c \in Coins, l \in UserLabels, d \in Denoms : CliAddCoin(t, c, l, d)
  <2>1. PICK c \in Coins, l \in UserLabels, d \in Denoms : CliAddCoin(t, c, l, d)
    BY <1>9
  <2> DEFINE g == [Start("add", "reopen", "", l, 0) EXCEPT !.new = c, !.told = d]
  <2>2. Cli(t, g)
    BY <2>1 DEF CliAddCoin
  <2>3. g.at = "reopen" /\ g.copy = <<>> /\ ~g.added
    BY DEF Start, Idle
  <2> HIDE DEF g
  <2>4. QED BY <1>7, <2>2, <2>3
<1>10. QED BY <1>3, <1>4, <1>5, <1>6, <1>8, <1>9 DEF CliCommand

LEMMA AloneUser == ASSUME Base, Alone, User PROVE Alone'
<1>1. ASSUME NEW op, NEW name, NEW label, NEW d, Click(Start(op, "open", name, label, d))
      PROVE  Alone'
  <2> DEFINE g == Start(op, "open", name, label, d)
             t == CHOOSE x \in GuiTasks : task[x] = Idle
  <2>1. g.at = "open" /\ g.copy = <<>> /\ ~g.added
    BY StartFields
  <2>2. Begin(t, g) /\ UNCHANGED <<files, fate, raced>> /\ \E x \in GuiTasks : task[x] = Idle
    BY <1>1 DEF Click
  <2>3. t \in Tasks
    BY <2>2 DEF Tasks
  <2> HIDE DEF g, t
  <2>4. QED BY <2>1, <2>2, <2>3, AloneBegun
<1>2. ASSUME UNCHANGED flows PROVE Alone'
  BY <1>2, AloneKept DEF flows, files
<1>3. CASE Unlock \/ Lock
  BY <1>2, <1>3 DEF Unlock, Lock
<1>4. CASE ClickReceive
  BY <1>1, <1>4 DEF ClickReceive
<1>5. CASE \E l \in Picks : ClickWithdraw(l)
  BY <1>1, <1>5 DEF ClickWithdraw
<1>6. CASE \E n \in Names, l \in Picks : ClickRefresh(n, l)
  BY <1>1, <1>6 DEF ClickRefresh
<1>7. CASE \E n \in Names, d \in Denoms : ClickPay(n, d)
  BY <1>1, <1>7 DEF ClickPay
<1>8. CASE (\E n \in Names, d \in Denoms : ClickKeysetAdd(n, d)) \/ \E n \in Names : ClickKeysetRemove(n)
  BY <1>2, <1>8 DEF ClickKeysetAdd, ClickKeysetRemove, ClickFile
<1>9. QED BY <1>3, <1>4, <1>5, <1>6, <1>7, <1>8 DEF User

\* Steps that leave flows, wallet file and fates alone.
LEMMA OtherSteps ==
    ASSUME \/ \E n \in Names, d \in Prices : CliKeyset(n, d)
           \/ World
           \/ \E c \in Commands : RunCommand(c)
           \/ HandleEvent
           \/ UNCHANGED flows
    PROVE  UNCHANGED <<file, tmp, drift, task, fate, raced>>
<1>1. CASE \E n \in Names, d \in Prices : CliKeyset(n, d)
  BY <1>1 DEF CliKeyset
<1>2. CASE World
  BY <1>2 DEF World, PeerPays, OthersPost, PeerFetches, flows, files
<1>3. CASE \E c \in Commands : RunCommand(c)
  BY <1>3 DEF RunCommand, CommandFails, OpenWallet, ListKeysets, AddKeyset, RemoveKeyset, files
<1>4. CASE HandleEvent
  BY <1>4 DEF HandleEvent, files
<1>5. CASE UNCHANGED flows
  BY <1>5 DEF flows, files
<1>6. QED BY <1>1, <1>2, <1>3, <1>4, <1>5

LEMMA AloneNext == ASSUME Base, Alone, [Next]_vars PROVE Alone'
<1>1. ASSUME UNCHANGED <<file, tmp, drift, task, fate, raced>> PROVE Alone'
  BY <1>1, AloneKept
<1>2. ASSUME CrashGui PROVE Alone'
  BY <1>2, AloneKilled DEF CrashGui, Tasks
<1>3. ASSUME Stimulus PROVE Alone'
  BY <1>1, <1>2, <1>3, AloneUser, AloneCliCommand, OtherSteps DEF Stimulus, CommandLine, Prices
<1>4. ASSUME NEW t \in Tasks, TaskStep(t) PROVE Alone'
  BY <1>4, AloneProgress DEF TaskStep
<1>5. ASSUME NEW t \in CliTasks, CrashCli(t) PROVE Alone'
  <2>1. {t} \in SUBSET Tasks /\ Killed({t}) /\ UNCHANGED <<files, raced>>
    BY <1>5 DEF CrashCli, Tasks
  <2>2. QED BY <2>1, AloneKilled
<1>6. ASSUME \/ \E c \in Commands : CommandStep(c)
             \/ EventStep
             \/ \E r \in Recipients : ExpireStep(r)
             \/ PruneStep
             \/ UNCHANGED vars
      PROVE  Alone'
  BY <1>1, <1>6, OtherSteps DEF CommandStep, EventStep, ExpireStep, PruneStep, vars
<1>7. QED BY <1>3, <1>4, <1>5, <1>6 DEF Next

\* As long as no two flows overlap, the file is only ever extended.
LEMMA FileExtends ==
    ASSUME Base, Alone, [Next]_vars
    PROVE  raced \/ Extends(file, file')
<1>1. ASSUME file' = file PROVE Extends(file, file')
  BY <1>1, ExtendsReflexive
<1>2. ASSUME NEW t \in Tasks, Progress(t) \/ Fail(t) PROVE file' = file \/ Rename(t) \/ WriteTmp(t)
  BY <1>2 DEF Progress, OpenRefresh, OpenReceive, OpenKeyset, OpenWithdraw, MintRefreshed, MintIssued,
              SubmitWithdraw, Post, PostUnanswered, PostPanics, Poll, Skip, Take, Reopen, TruncateTmp, Fail, files
<1>3. ASSUME User \/ CrashGui \/ \E t \in CliTasks : CliCommand(t) \/ CrashCli(t) PROVE file' = file
  BY <1>3 DEF User, Unlock, Lock, ClickReceive, ClickWithdraw, ClickRefresh, ClickPay, ClickKeysetAdd,
              ClickKeysetRemove, ClickFile, Click, CrashGui, CliCommand, CliReceive, CliRefresh, CliPay,
              CliPrint, CliIssue, CliAddCoin, Cli, CrashCli, flows, files
<1>4. ASSUME Stimulus PROVE file' = file
  BY <1>3, <1>4, OtherSteps DEF Stimulus, CommandLine, Prices
<1>5. ASSUME NEW t \in Tasks, TaskStep(t) PROVE raced \/ Extends(file, file')
  BY <1>1, <1>2, <1>5, RenameExtends, WritesTmp DEF TaskStep
<1>6. ASSUME \/ \E c \in Commands : CommandStep(c)
             \/ EventStep
             \/ \E r \in Recipients : ExpireStep(r)
             \/ PruneStep
             \/ UNCHANGED vars
      PROVE  file' = file
  BY <1>6, OtherSteps DEF CommandStep, EventStep, ExpireStep, PruneStep, vars
<1>7. QED BY <1>1, <1>3, <1>4, <1>5, <1>6 DEF Next

\* An overlap is never forgotten.
LEMMA RacedStays == ASSUME Base, [Next]_vars PROVE raced => raced'
<1>1. ASSUME NEW t \in Tasks, TaskStep(t) PROVE raced => raced'
  BY <1>1 DEF TaskStep, Progress, OpenRefresh, OpenReceive, OpenKeyset, OpenWithdraw, MintRefreshed, MintIssued,
              SubmitWithdraw, Post, PostUnanswered, PostPanics, Poll, Skip, Take, Reopen, TruncateTmp, WriteTmp,
              Rename, Fail, Racing
<1>2. ASSUME User \/ CrashGui \/ \E t \in CliTasks : CliCommand(t) \/ CrashCli(t) PROVE raced' = raced
  BY <1>2 DEF User, Unlock, Lock, ClickReceive, ClickWithdraw, ClickRefresh, ClickPay, ClickKeysetAdd,
              ClickKeysetRemove, ClickFile, Click, CrashGui, CliCommand, CliReceive, CliRefresh, CliPay,
              CliPrint, CliIssue, CliAddCoin, Cli, CrashCli, flows
<1>3. ASSUME Stimulus PROVE raced' = raced
  BY <1>2, <1>3, OtherSteps DEF Stimulus, CommandLine, Prices
<1>4. ASSUME \/ \E c \in Commands : CommandStep(c)
             \/ EventStep
             \/ \E r \in Recipients : ExpireStep(r)
             \/ PruneStep
             \/ UNCHANGED vars
      PROVE  raced' = raced
  BY <1>4, OtherSteps DEF CommandStep, EventStep, ExpireStep, PruneStep, vars
<1>5. QED BY <1>1, <1>2, <1>3, <1>4 DEF Next
-----------------------------------------------------------------------------
(***************************************************************************)
(* One command                                                             *)
(***************************************************************************)

\* No command comes about.
LEMMA OneKept ==
    ASSUME OneCommand, stray' = 0 => stray = 0, busy' = busy, Working' \subseteq Working, Waiting' \subseteq Waiting,
           Running' \subseteq Running, \A c \in Running' : pending'[c] = pending[c]
    PROVE  OneCommand'
BY DEF OneCommand

\* Flows end or go on, and nothing else changes.
LEMMA OneSameGui ==
    ASSUME OneCommand, UNCHANGED <<busy, pending, events, stray>>, Working' \subseteq Working
    PROVE  OneCommand'
<1>1. Running' = Running /\ Waiting' = Waiting
  BY DEF Running, Waiting, EndsBusy
<1>2. QED BY <1>1, OneKept

LEMMA Appended ==
    ASSUME GuiTypes, NEW e, e \in UiEvent, events' = Append(events, e)
    PROVE  /\ Waiting' \subseteq Waiting \cup {Len(events) + 1}
           /\ e.kind = "listed" => Waiting' \subseteq Waiting
<1>1. events \in Seq(UiEvent)
  BY DEF GuiTypes
<1>2. Len(events) \in Nat /\ DOMAIN events = 1..Len(events)
  BY <1>1
<1>3. /\ DOMAIN events' = DOMAIN events \cup {Len(events) + 1} /\ events'[Len(events) + 1] = e
      /\ \A i \in DOMAIN events : events'[i] = events[i]
  BY <1>1, <1>2
<1>4. QED BY <1>3 DEF Waiting, EndsBusy

\* A command ends, and its result waits.
LEMMA OneReported ==
    ASSUME OneCommand, GuiTypes, NEW e, e \in UiEvent, events' = Append(events, e), busy' = busy,
           stray' = 0 => stray = 0,
           stray = 0 => \/ Working # {} /\ Working' = {} /\ Running' \subseteq Running
                        \/ Running # {} /\ Running' = {} /\ Working' \subseteq Working
    PROVE  OneCommand'
<1>1. SUFFICES ASSUME stray' = 0 PROVE OneCommand'
  BY DEF OneCommand
<1>2. stray = 0 /\ Waiting' \subseteq Waiting \cup {Len(events) + 1}
  BY <1>1, Appended
<1>3. busy /\ Waiting = {} /\ Working' = {} /\ Running' = {}
  BY <1>2 DEF OneCommand
<1>4. Waiting' \subseteq {Len(events) + 1}
  BY <1>2, <1>3
<1>5. QED BY <1>3, <1>4 DEF OneCommand

LEMMA OneTask ==
    ASSUME Base, OneCommand, NEW t \in Tasks, Progress(t) \/ Fail(t), UNCHANGED gui
    PROVE  OneCommand'
<1>1. busy' = busy /\ pending' = pending /\ stray' = stray /\ Running' = Running
  BY DEF gui, app, Running
<1>2. GuiTypes /\ task \in [Tasks -> Flow]
  BY DEF Base, FlowTypes
<1>3. task[t] # Idle
  <2>1. task[t].at # "idle" \/ Fail(t)
    BY DEF Progress, OpenRefresh, OpenReceive, OpenKeyset, OpenWithdraw, MintRefreshed, MintIssued,
           SubmitWithdraw, Post, PostUnanswered, PostPanics, Poll, Skip, Take, Reopen, TruncateTmp, WriteTmp,
           Rename, At
  <2>2. QED BY <2>1, IdleFlow DEF Fail
<1>4. ASSUME NEW g, task' = [task EXCEPT ![t] = g]
      PROVE  Working' \subseteq Working
  <2>1. \A u \in Tasks : u # t => task'[u] = task[u]
    BY <1>2, <1>4
  <2>2. QED BY <1>3, <2>1 DEF Working, Tasks
<1>5. ASSUME NEW k \in Kinds, NEW cs \in Rows, Finish(t, k, cs) PROVE OneCommand'
  <2>1. Working' \subseteq Working
    BY <1>4, <1>5 DEF Finish
  <2>2. CASE t \in GuiTasks
    <3>1. events' = Append(events, Event(k, cs, NoKeysets)) /\ Event(k, cs, NoKeysets) \in UiEvent
      BY <1>5, <2>2, EventType, NoKeysetsType DEF Finish, Tell, IsGui
    <3>2. task'[t] = Idle
      BY <1>2, <1>5 DEF Finish
    <3>3. t \in Working /\ t \notin Working'
      BY <1>3, <2>2, <3>2 DEF Working
    <3>4. stray = 0 => Working' = {}
      BY <2>1, <3>3 DEF OneCommand
    <3>5. QED BY <1>1, <1>2, <3>1, <3>3, <3>4, OneReported
  <2>3. CASE t \notin GuiTasks
    <3>1. events' = events
      BY <1>5, <2>3 DEF Finish, Tell, IsGui
    <3>2. QED BY <1>1, <2>1, <3>1, OneSameGui
  <2>4. QED BY <2>2, <2>3
<1>6. ASSUME NEW step, NEW g, GoOn(t, step, g) PROVE OneCommand'
  BY <1>1, <1>4, <1>6, OneSameGui DEF GoOn
<1>7. <<>> \in Rows /\ {"printed", "withdrawn", "paid", "error", "received", "refreshed"} \subseteq Kinds
  BY NoRows DEF Kinds
<1>8. CASE OpenRefresh(t) \/ OpenReceive(t) \/ OpenKeyset(t) \/ OpenWithdraw(t) \/ Reopen(t)
            \/ TruncateTmp(t) \/ WriteTmp(t)
  BY <1>6, <1>8 DEF OpenRefresh, OpenReceive, OpenKeyset, OpenWithdraw, Reopen, TruncateTmp, WriteTmp
<1>9. CASE MintRefreshed(t) \/ MintIssued(t) \/ SubmitWithdraw(t) \/ Fail(t)
  BY <1>5, <1>6, <1>7, <1>9 DEF MintRefreshed, MintIssued, SubmitWithdraw, Fail
<1>10. CASE Post(t) \/ PostUnanswered(t) \/ PostPanics(t) \/ Poll(t) \/ Skip(t) \/ Take(t)
  BY <1>5, <1>6, <1>7, <1>10 DEF Post, PostUnanswered, PostPanics, AfterPost, Poll, Skip, Take, AfterMessage
<1>11. CASE Rename(t)
  <2> DEFINE cs == IF Op(t) = "refresh" THEN Summary(task[t].copy) ELSE <<>>
  <2>1. Finish(t, Outcome(t), cs)
    BY <1>11 DEF Rename
  <2>2. cs \in Rows /\ Outcome(t) \in Kinds
    BY <1>7, FlowFields, SummaryRows DEF Outcome
  <2> HIDE DEF cs
  <2>3. QED BY <1>5, <2>1, <2>2
<1>12. QED BY <1>8, <1>9, <1>10, <1>11 DEF Progress

\* A command begins when none is under way.
LEMMA OneIdle ==
    ASSUME OneCommand, ~busy, stray = 0
    PROVE  Working = {} /\ Running = {} /\ Waiting = {}
BY DEF OneCommand

LEMMA OneSent ==
    ASSUME GuiTypes, OneCommand, ~busy, busy' = TRUE, NEW c \in Commands, Send(c),
           UNCHANGED <<events, task, stray>>
    PROVE  OneCommand'
<1>1. SUFFICES ASSUME stray = 0 PROVE OneCommand'
  BY DEF OneCommand
<1>2. Working = {} /\ Running = {} /\ Waiting = {}
  BY <1>1, OneIdle
<1>3. Working' = {} /\ Waiting' = {}
  BY <1>2 DEF Working, Waiting, EndsBusy
<1>4. pending \in [Commands -> Nat]
  BY DEF GuiTypes
<1>5. pending' = [pending EXCEPT ![c] = @ + 1]
  BY DEF Send
<1>6. Running' \subseteq {c} /\ \A d \in Running' : pending'[d] = 1
  <2>1. SUFFICES ASSUME NEW d \in Running' PROVE d = c /\ pending'[d] = 1
    OBVIOUS
  <2>2. d \in Commands /\ d.op \in {"open", "add", "remove"} /\ pending'[d] > 0
    BY DEF Running
  <2>3. ~(pending[d] > 0)
    BY <1>2, <2>2 DEF Running
  <2>4. pending[d] = 0
    BY <1>4, <2>2, <2>3
  <2>5. QED BY <1>4, <1>5, <2>2, <2>4
<1>7. QED BY <1>3, <1>6 DEF OneCommand

LEMMA OneUser == ASSUME Base, OneCommand, User PROVE OneCommand'
<1>1. GuiTypes /\ task \in [Tasks -> Flow]
  BY DEF Base, FlowTypes
<1>2. ASSUME NEW g, Click(g) PROVE OneCommand'
  <2> DEFINE t == CHOOSE x \in GuiTasks : task[x] = Idle
  <2>1. ~busy /\ busy' = TRUE /\ task' = [task EXCEPT ![t] = g] /\ UNCHANGED <<events, pending, stray>>
    BY <1>2 DEF Click, Begin
  <2>2. SUFFICES ASSUME stray = 0 PROVE OneCommand'
    BY <2>1 DEF OneCommand
  <2>3. Working = {} /\ Running = {} /\ Waiting = {}
    BY <2>1, <2>2, OneIdle
  <2>4. Running' = {} /\ Waiting' = {}
    BY <2>1, <2>3 DEF Running, Waiting, EndsBusy
  <2> HIDE DEF t
  <2>5. Working' \subseteq {t}
    BY <1>1, <2>1, <2>3 DEF Working, Tasks
  <2>6. QED BY <2>1, <2>4, <2>5 DEF OneCommand
<1>3. CASE Unlock
  BY <1>1, <1>3, CommandTypes, OneSent DEF Unlock, flows
<1>4. CASE Lock
  <2>1. UNCHANGED <<busy, pending, events, stray>> /\ Working' = Working
    BY <1>4 DEF Lock, flows, Working
  <2>2. QED BY <2>1, OneSameGui
<1>5. CASE ClickReceive \/ \E l \in Picks : ClickWithdraw(l)
  BY <1>2, <1>5 DEF ClickReceive, ClickWithdraw
<1>6. CASE \E n \in Names, l \in Picks : ClickRefresh(n, l)
  BY <1>2, <1>6 DEF ClickRefresh
<1>7. CASE \E n \in Names, d \in Denoms : ClickPay(n, d)
  BY <1>2, <1>7 DEF ClickPay
<1>8. ASSUME NEW c \in Commands, ClickFile(c) PROVE OneCommand'
  BY <1>1, <1>8, OneSent DEF ClickFile, flows
<1>9. CASE (\E n \in Names, d \in Denoms : ClickKeysetAdd(n, d)) \/ \E n \in Names : ClickKeysetRemove(n)
  BY <1>8, <1>9, CommandTypes DEF ClickKeysetAdd, ClickKeysetRemove
<1>10. QED BY <1>3, <1>4, <1>5, <1>6, <1>7, <1>9 DEF User

\* A command the GUI waits for is done, and nothing but a listing follows it.
LEMMA DoneRunning ==
    ASSUME GuiTypes, OneCommand, stray = 0, NEW c \in Commands, c.op \in {"open", "add", "remove"},
           Done(c) \/ \E d \in Commands : d.op \in {"list", "relist"} /\ DoneThen(c, d)
    PROVE  Running # {} /\ Running' = {}
<1>1. pending \in [Commands -> Nat] /\ pending[c] > 0
  BY DEF GuiTypes, Done, DoneThen
<1>2. c \in Running
  BY <1>1 DEF Running
<1>3. pending[c] = 1 /\ \A d \in Running : d = c
  BY <1>2 DEF OneCommand
<1>4. \A d \in Commands : d.op \in {"open", "add", "remove"} => pending'[d] = IF d = c THEN 0 ELSE pending[d]
  BY <1>1, <1>3 DEF Done, DoneThen
<1>5. Running' = {}
  BY <1>3, <1>4 DEF Running
<1>6. QED BY <1>2, <1>5

\* A listing of the keysets comes or goes.
LEMMA ListingRunning ==
    ASSUME GuiTypes, NEW c \in Commands, c.op \in {"list", "relist"}, Send(c) \/ Done(c)
    PROVE  Running' = Running /\ \A d \in Running : pending'[d] = pending[d]
<1>1. pending \in [Commands -> Nat]
  BY DEF GuiTypes
<1>2. \A d \in Commands : d.op \in {"open", "add", "remove"} => pending'[d] = pending[d]
  BY <1>1 DEF Send, Done
<1>3. QED BY <1>2 DEF Running

LEMMA OneRun ==
    ASSUME Base, OneCommand, NEW c \in Commands, RunCommand(c)
    PROVE  OneCommand'
<1>1. GuiTypes /\ keysets \in [Names -> Prices] /\ file \in Seq(Stored)
  BY DEF Base, FlowTypes
<1>2. busy' = busy /\ Working' = Working
  BY DEF RunCommand, CommandFails, OpenWallet, ListKeysets, AddKeyset, RemoveKeyset, app, Working
<1>3. ASSUME NEW k \in Kinds, NEW cs \in Rows, NEW ks \in [Names -> Prices], Report(Event(k, cs, ks)),
             c.op \in {"open", "add", "remove"}, stray' = stray,
             Done(c) \/ \E d \in Commands : d.op \in {"list", "relist"} /\ DoneThen(c, d)
      PROVE  OneCommand'
  <2>1. stray = 0 => Running # {} /\ Running' = {}
    BY <1>1, <1>3, DoneRunning
  <2>2. events' = Append(events, Event(k, cs, ks)) /\ Event(k, cs, ks) \in UiEvent
    BY <1>3, EventType DEF Report
  <2>3. QED BY <1>1, <1>2, <1>3, <2>1, <2>2, OneReported
<1>4. "error" \in Kinds /\ "opened" \in Kinds /\ "listed" \in Kinds /\ "added" \in Kinds /\ "removed" \in Kinds
      /\ <<>> \in Rows /\ NoKeysets \in [Names -> Prices] /\ Summary(file) \in Rows
  BY <1>1, NoRows, NoKeysetsType, SummaryRows DEF Kinds
<1>5. c.op \in {"open", "list", "relist", "remove", "add"}
  BY DEF Commands
<1>6. CASE CommandFails(c)
  <2>1. CASE c.op = "list"
    <3>1. stray' = stray + 1 /\ stray \in Nat
      BY <1>1, <1>6, <2>1 DEF CommandFails, GuiTypes
    <3>2. stray' # 0
      BY <3>1
    <3>3. QED BY <3>2 DEF OneCommand
  <2>2. CASE c.op = "relist"
    <3>1. Done(c) /\ events' = events /\ stray' = stray
      BY <1>6, <2>2 DEF CommandFails
    <3>2. Running' = Running /\ \A d \in Running : pending'[d] = pending[d]
      BY <1>1, <2>2, <3>1, ListingRunning
    <3>3. Waiting' = Waiting
      BY <3>1 DEF Waiting, EndsBusy
    <3>4. QED BY <1>2, <3>1, <3>2, <3>3, OneKept
  <2>3. CASE c.op \in {"open", "add", "remove"}
    <3>1. Done(c) /\ Report(Event("error", <<>>, NoKeysets)) /\ stray' = stray
      BY <1>6, <2>3 DEF CommandFails
    <3>2. QED BY <1>3, <1>4, <2>3, <3>1
  <2>4. QED BY <1>5, <2>1, <2>2, <2>3
<1>7. CASE OpenWallet(c)
  BY <1>3, <1>4, <1>7 DEF OpenWallet
<1>8. CASE ListKeysets(c)
  <2>1. /\ c.op \in {"list", "relist"} /\ Done(c) /\ events' = Append(events, Event("listed", <<>>, keysets))
        /\ stray' = stray
    BY <1>8 DEF ListKeysets, Report
  <2>2. Event("listed", <<>>, keysets) \in UiEvent /\ Event("listed", <<>>, keysets).kind = "listed"
    BY <1>1, <1>4, EventType
  <2>3. Waiting' \subseteq Waiting
    BY <1>1, <2>1, <2>2, Appended
  <2>4. Running' = Running /\ \A d \in Running : pending'[d] = pending[d]
    BY <1>1, <2>1, ListingRunning
  <2>5. QED BY <1>2, <2>1, <2>3, <2>4, OneKept
<1>9. CASE AddKeyset(c)
  <2>1. Command("list", c.name, 0) \in Commands /\ Command("list", c.name, 0).op = "list"
    BY CommandTypes
  <2>2. c.op = "add" /\ Report(Event("added", <<>>, NoKeysets)) /\ DoneThen(c, Command("list", c.name, 0))
        /\ stray' = stray
    BY <1>9 DEF AddKeyset
  <2>3. QED BY <1>3, <1>4, <2>1, <2>2
<1>10. CASE RemoveKeyset(c)
  <2>1. Command("relist", c.name, 0) \in Commands /\ Command("relist", c.name, 0).op = "relist"
    BY CommandTypes
  <2>2. c.op = "remove" /\ Report(Event("removed", <<>>, NoKeysets)) /\ DoneThen(c, Command("relist", c.name, 0))
        /\ stray' = stray
    BY <1>10 DEF RemoveKeyset
  <2>3. QED BY <1>3, <1>4, <2>1, <2>2
<1>11. QED BY <1>6, <1>7, <1>8, <1>9, <1>10 DEF RunCommand

LEMMA OneHandle ==
    ASSUME Base, OneCommand, HandleEvent
    PROVE  OneCommand'
<1> DEFINE e == Head(events)
<1>1. /\ events # <<>> /\ events' = Tail(events) /\ busy' = (busy /\ ~EndsBusy(e))
      /\ Send(Command("list", AnyName, 0)) \/ UNCHANGED pending
      /\ UNCHANGED <<task, stray>>
  BY DEF HandleEvent
<1>2. GuiTypes /\ events \in Seq(UiEvent) /\ busy \in BOOLEAN
  BY DEF Base, GuiTypes
<1>3. /\ Len(events) \in Nat \ {0} /\ DOMAIN events = 1..Len(events) /\ e = events[1]
      /\ Tail(events) \in Seq(UiEvent) /\ Len(Tail(events)) = Len(events) - 1
      /\ \A i \in 1..(Len(events) - 1) : Tail(events)[i] = events[i + 1]
  BY <1>1, <1>2, HeadTail
<1>4. ASSUME NEW i \in Waiting' PROVE i \in Nat /\ i + 1 \in Waiting /\ i + 1 # 1
  <2>1. i \in DOMAIN Tail(events) /\ EndsBusy(Tail(events)[i])
    BY <1>1 DEF Waiting, EndsBusy
  <2>2. i \in 1..(Len(events) - 1)
    BY <1>3, <2>1
  <2>3. EndsBusy(events[i + 1]) /\ i + 1 \in 1..Len(events)
    BY <1>3, <2>1, <2>2
  <2>4. QED BY <1>3, <2>2, <2>3 DEF Waiting
<1>5. Working' = Working
  BY <1>1 DEF Working
<1>6. Running' = Running /\ \A d \in Running : pending'[d] = pending[d]
  <2>1. CASE Send(Command("list", AnyName, 0))
    BY <1>2, <2>1, CommandTypes, ListingRunning
  <2>2. CASE UNCHANGED pending
    BY <2>2 DEF Running
  <2>3. QED BY <1>1, <2>1, <2>2
<1> HIDE DEF e
<1>7. SUFFICES ASSUME stray = 0 PROVE OneCommand'
  BY <1>1 DEF OneCommand
<1>8. CASE EndsBusy(e)
  <2>1. 1 \in Waiting
    BY <1>3, <1>8 DEF Waiting
  <2>2. Working = {} /\ Running = {} /\ \A i \in Waiting : i = 1
    BY <1>7, <2>1 DEF OneCommand
  <2>3. Waiting' = {}
    BY <1>4, <2>2
  <2>4. QED BY <1>5, <1>6, <2>2, <2>3 DEF OneCommand
<1>9. CASE ~EndsBusy(e)
  <2>1. busy' = busy
    BY <1>1, <1>2, <1>9
  <2>2. Waiting = {} => Waiting' = {}
    BY <1>4
  <2>3. ASSUME NEW i \in Waiting', NEW j \in Waiting' PROVE i = j
    <3>1. i + 1 = j + 1 /\ i \in Nat /\ j \in Nat
      BY <1>4, <1>7 DEF OneCommand
    <3>2. QED BY <3>1
  <2>4. QED BY <1>1, <1>5, <1>6, <1>7, <2>1, <2>2, <2>3 DEF OneCommand
<1>10. QED BY <1>8, <1>9

LEMMA OneCrash == ASSUME Base, CrashGui PROVE OneCommand'
<1>1. /\ task' = [t \in Tasks |-> IF t \in GuiTasks THEN Idle ELSE task[t]]
      /\ events' = <<>> /\ pending' = [c \in Commands |-> 0]
  BY DEF CrashGui, Killed
<1>2. Working' = {}
  BY <1>1 DEF Working, Tasks
<1>3. Running' = {}
  BY <1>1 DEF Running
<1>4. Waiting' = {}
  BY <1>1 DEF Waiting
<1>5. QED BY <1>2, <1>3, <1>4 DEF OneCommand

\* The command line and the rest of the world do not touch the GUI.
LEMMA OneOther ==
    ASSUME Base, OneCommand, UNCHANGED gui,
           \/ CommandLine
           \/ World
           \/ \E t \in CliTasks : CrashCli(t)
           \/ UNCHANGED flows
    PROVE  OneCommand'
<1>1. task \in [Tasks -> Flow] /\ UNCHANGED <<busy, pending, stray>>
  BY DEF Base, FlowTypes, gui, app
<1>2. ASSUME NEW t \in CliTasks, NEW g, task' = [task EXCEPT ![t] = g] PROVE Working' = Working
  <2>1. t \notin GuiTasks
    BY WalletAssumption
  <2>2. \A u \in GuiTasks : task'[u] = task[u]
    BY <1>1, <1>2, <2>1 DEF Tasks
  <2>3. QED BY <2>2 DEF Working
<1>3. CASE \E t \in CliTasks : CliCommand(t)
  <2>1. PICK t \in CliTasks : \E g : Cli(t, g)
    BY <1>3 DEF CliCommand, CliReceive, CliRefresh, CliPay, CliPrint, CliIssue, CliAddCoin
  <2>2. PICK g : Cli(t, g)
    BY <2>1
  <2>3. task' = [task EXCEPT ![t] = g] /\ events' = events
    BY <2>2 DEF Cli, Begin
  <2>4. QED BY <1>1, <1>2, <2>3, OneSameGui
<1>4. CASE (\E n \in Names, d \in Denoms \cup {0} : CliKeyset(n, d)) \/ World \/ UNCHANGED flows
  <2>1. task' = task /\ events' = events
    BY <1>4 DEF CliKeyset, World, PeerPays, OthersPost, PeerFetches, flows
  <2>2. QED BY <1>1, <2>1, OneSameGui DEF Working
<1>5. CASE \E t \in CliTasks : CrashCli(t)
  <2>1. PICK t \in CliTasks : CrashCli(t)
    BY <1>5
  <2>2. t \notin GuiTasks /\ events' = events
    BY <2>1, WalletAssumption DEF CrashCli
  <2>3. \A u \in GuiTasks : task'[u] = task[u]
    BY <2>1, <2>2 DEF CrashCli, Killed, Tasks
  <2>4. Working' = Working
    BY <2>3 DEF Working
  <2>5. QED BY <1>1, <2>2, <2>4, OneSameGui
<1>6. QED BY <1>3, <1>4, <1>5 DEF CommandLine

LEMMA OneNext == ASSUME Base, OneCommand, [Next]_vars PROVE OneCommand'
<1>1. ASSUME Stimulus PROVE OneCommand'
  BY <1>1, OneUser, OneCrash, OneOther DEF Stimulus
<1>2. ASSUME NEW t \in Tasks, TaskStep(t) PROVE OneCommand'
  BY <1>2, OneTask DEF TaskStep
<1>3. ASSUME NEW t \in CliTasks, CrashCli(t), UNCHANGED gui PROVE OneCommand'
  BY <1>3, OneOther
<1>4. ASSUME NEW c \in Commands, CommandStep(c) PROVE OneCommand'
  BY <1>4, OneRun DEF CommandStep
<1>5. ASSUME EventStep PROVE OneCommand'
  BY <1>5, OneHandle DEF EventStep
<1>6. ASSUME (\E r \in Recipients : ExpireStep(r)) \/ PruneStep \/ UNCHANGED vars PROVE OneCommand'
  BY <1>6, OneOther DEF ExpireStep, PruneStep, vars
<1>7. QED BY <1>1, <1>2, <1>3, <1>4, <1>5, <1>6 DEF Next

-----------------------------------------------------------------------------
(***************************************************************************)
(* The theorems                                                            *)
(***************************************************************************)

LEMMA Elements ==
    ASSUME NEW S, NEW s \in Seq(S)
    PROVE  Len(s) \in Nat /\ DOMAIN s = 1..Len(s) /\ (\A i \in 1..Len(s) : s[i] \in S) /\ s = [i \in 1..Len(s) |-> s[i]]
OBVIOUS

LEMMA StartCoins ==
    /\ Len(StartFile) \in Nat /\ DOMAIN StartFile = 1..Len(StartFile)
    /\ StartFile = [i \in 1..Len(StartFile) |-> StartFile[i]]
    /\ \A i \in 1..Len(StartFile) : /\ StartFile[i].coin = i /\ i \in Coins /\ StartFile[i] \in Stored
                                    /\ StartFile[i].denom \in Denoms
<1> DEFINE S == [coin : Coins, denom : Denoms, status : {"Active", "Spent"}, label : Labels]
<1>1. StartFile \in Seq(S) /\ \A i \in DOMAIN StartFile : StartFile[i].coin = i
  BY StartAssumption
<1>2. \A e \in S : e \in Stored /\ e.coin \in Coins /\ e.denom \in Denoms
  BY DEF Stored
<1> HIDE DEF S
<1>3. /\ Len(StartFile) \in Nat /\ DOMAIN StartFile = 1..Len(StartFile)
      /\ \A i \in 1..Len(StartFile) : StartFile[i] \in S
      /\ StartFile = [i \in 1..Len(StartFile) |-> StartFile[i]]
  BY <1>1, Elements
<1>4. ASSUME NEW i \in 1..Len(StartFile)
      PROVE  /\ StartFile[i].coin = i /\ i \in Coins /\ StartFile[i] \in Stored
             /\ StartFile[i].denom \in Denoms
  BY <1>1, <1>2, <1>3
<1>5. QED BY <1>3, <1>4

LEMMA InitStore ==
    ASSUME Init
    PROVE  /\ file \in Seq(Stored) /\ minted \in Seq(Minting) /\ Len(minted) <= MaxCoins
           /\ Good(file, minted, fate)
<1> DEFINE n == Len(StartFile)
<1>1. /\ file = StartFile /\ minted = [i \in 1..n |-> [denom |-> StartFile[i].denom, parent |-> 0]]
  BY DEF Init, FlowsInit
<1>2. /\ n \in Nat /\ DOMAIN StartFile = 1..n /\ StartFile = [i \in 1..n |-> StartFile[i]]
      /\ \A i \in 1..n : /\ StartFile[i].coin = i /\ i \in Coins /\ StartFile[i] \in Stored
                         /\ StartFile[i].denom \in Denoms
  BY StartCoins
<1>3. StartFile \in Seq(Stored)
  <2>1. [i \in 1..n |-> StartFile[i]] \in Seq(Stored)
    BY <1>2
  <2>2. QED BY <1>2, <2>1
<1>4. \A i \in 1..n : [denom |-> StartFile[i].denom, parent |-> 0] \in Minting
  BY <1>2 DEF Minting
<1>5. minted \in Seq(Minting) /\ DOMAIN minted = 1..n
  BY <1>1, <1>2, <1>4
<1>6. n <= MaxCoins
  <2>1. CASE n = 0
    BY <2>1, WalletAssumption
  <2>2. CASE n # 0
    <3>1. n \in 1..n
      BY <1>2, <2>2
    <3>2. n \in Coins
      BY <1>2, <3>1
    <3>3. QED BY <3>2, WalletAssumption DEF Coins
  <2>3. QED BY <2>1, <2>2
<1>7. Len(minted) = n
  BY <1>2, <1>5
<1>8. ASSUME NEW i \in 1..n PROVE GoodEntry(StartFile, i, minted, fate)
  <2>1. StartFile[i].coin = i /\ minted[i] = [denom |-> StartFile[i].denom, parent |-> 0]
    BY <1>1, <1>2
  <2>2. minted[i].parent = 0
    BY <2>1
  <2>3. QED BY <1>5, <2>1, <2>2 DEF GoodEntry
<1>9. QED BY <1>1, <1>2, <1>3, <1>5, <1>6, <1>7, <1>8 DEF Good

LEMMA InitBase == ASSUME Init PROVE Base
<1>1. /\ inbox = [r \in Recipients |-> {}] /\ posted = 0 /\ poisoned = FALSE /\ tmp = {} /\ keysets = StartKeysets
      /\ drift = [t \in Tasks |-> "tmp"]
      /\ task = [t \in Tasks |-> Idle] /\ events = <<>> /\ raced = FALSE
      /\ fate = [f \in Fates |->
                   IF f = "melted" THEN {i \in 1..Len(StartFile) : StartFile[i].status = "Spent"} ELSE {}]
      /\ mode = "Locked" /\ busy = FALSE /\ coins = <<>> /\ pending = [c \in Commands |-> 0] /\ stray = 0
  BY DEF Init, FlowsInit, InboxInit
<1>2. /\ file \in Seq(Stored) /\ minted \in Seq(Minting) /\ Len(minted) <= MaxCoins
      /\ Good(file, minted, fate)
  BY InitStore
<1>3. 1..Len(StartFile) \subseteq Coins
  BY StartCoins
<1>4. fate \in [Fates -> SUBSET Coins] /\ fate["printed"] = {}
  BY <1>1, <1>3 DEF Fates
<1>5. <<>> \in Seq(Stored) /\ <<>> \in Seq(UiEvent) /\ <<>> \in Rows /\ Good(<<>>, minted, fate)
  BY EmptyGood, NoRows
<1>6. posted \in 0..MaxPosts
  BY <1>1, RelayAssumption
<1>7. inbox \in [Recipients -> SUBSET Message] /\ \A r \in Recipients : KnownBodies(inbox[r], minted)
  BY <1>1 DEF KnownBodies
<1>8. task \in [Tasks -> Flow] /\ keysets \in [Names -> Prices] /\ pending \in [Commands -> Nat]
  BY <1>1, IdleFlow, StartAssumption DEF Prices
<1>9. FlowTypes
  BY <1>1, <1>2, <1>4, <1>5, <1>6, <1>7, <1>8 DEF FlowTypes
<1>10. GuiTypes
  BY <1>1, <1>5, <1>8 DEF GuiTypes
<1>11. ASSUME NEW t \in Tasks
       PROVE  /\ Good(task[t].copy, minted, fate) /\ Knows(task[t], t \in GuiTasks, minted)
              /\ ~Open(task[t], t \in GuiTasks) => task[t].copy = <<>>
  <2>1. task[t] = Idle
    BY <1>1
  <2>2. QED BY <1>5, <2>1, IdleFlow, IdleKnows
<1>12. QED BY <1>1, <1>2, <1>4, <1>5, <1>7, <1>9, <1>10, <1>11 DEF Base

LEMMA InitIInv == ASSUME Init PROVE IInv
<1>1. Base
  BY InitBase
<1>2. /\ task = [t \in Tasks |-> Idle] /\ events = <<>> /\ pending = [c \in Commands |-> 0]
      /\ fate["deleted"] = {}
  BY DEF Init, FlowsInit, Fates
<1>3. Alone
  <2>1. \A t \in Tasks : ~Open(task[t], t \in GuiTasks)
    BY <1>2, IdleKnows
  <2>2. \A t \in Tasks : FlowAlone(task[t], t \in GuiTasks, file, tmp, drift[t])
    BY <1>2, IdleAlone
  <2>3. ReceivedKept
    BY <1>2 DEF ReceivedKept
  <2>4. QED BY <2>1, <2>2, <2>3 DEF Alone
<1>4. OneCommand
  <2>1. Working = {}
    BY <1>2 DEF Working, Tasks
  <2>2. Running = {}
    BY <1>2 DEF Running
  <2>3. Waiting = {}
    BY <1>2 DEF Waiting
  <2>4. QED BY <2>1, <2>2, <2>3 DEF OneCommand
<1>5. QED BY <1>1, <1>3, <1>4 DEF IInv

LEMMA NextIInv == ASSUME IInv, [Next]_vars PROVE IInv'
BY BaseNext, AloneNext, OneNext DEF IInv

\* The invariant holds in every state of every behaviour of the wallet.
THEOREM WalletInvariant == Spec => []IInv
<1>1. Init => IInv
  BY InitIInv
<1>2. IInv /\ [Next]_vars => IInv'
  BY NextIInv
<1>3. QED BY <1>1, <1>2, PTL DEF Spec

\* Every variable keeps its type: what is saved is a sequence of stored coins
\* whatever flows fail, overlap or are killed half-way.
THEOREM WalletTypeCorrect == Spec => []TypeOK
<1>1. IInv => TypeOK
  <2>1. SUFFICES ASSUME IInv PROVE TypeOK
    OBVIOUS
  <2>2. Base /\ FlowTypes /\ GuiTypes
    BY <2>1 DEF IInv, Base
  <2>3. \A t \in Tasks : task[t].copy \in Seq(Stored) /\ task[t].new \in Coins \cup {0}
    BY <2>2, FlowFields
  <2>4. \A i \in DOMAIN minted : minted[i] \in [denom : Denoms, parent : Coins \cup {0}]
    BY <2>2, MintedCoins DEF Minting
  <2>5. QED BY <2>2, <2>3, <2>4 DEF TypeOK, FlowTypes, GuiTypes, Prices
<1>2. QED BY <1>1, WalletInvariant, PTL

\* A coin whose message receive deleted from the relay is in the file, in the
\* copy of a flow, or was dropped by a flow that failed or died - unless flows
\* overlapped.
THEOREM WalletReceivedKept == Spec => []ReceivedKept
<1>1. IInv => ReceivedKept
  BY DEF IInv, Alone, ReceivedKept
<1>2. QED BY <1>1, WalletInvariant, PTL

\* A refresh reaches the wallet file as one change, whatever overlaps with it
\* and wherever it is interrupted.
THEOREM WalletRefreshAtomic == Spec => []RefreshAtomic
<1>1. IInv => RefreshAtomic
  BY DEF IInv, Base, Good, GoodEntry, RefreshAtomic
<1>2. QED BY <1>1, WalletInvariant, PTL

\* The busy flag of the GUI keeps its commands apart, unless a listing of the
\* keysets failed.
THEOREM WalletBusyCovers == Spec => []BusyCovers
<1>1. IInv => BusyCovers
  <2>1. SUFFICES ASSUME IInv, stray = 0
                 PROVE  Cardinality(Working) + Cardinality(Running) + Cardinality(Waiting)
                            <= (IF busy THEN 1 ELSE 0)
    BY DEF BusyCovers
  <2>2. OneCommand /\ stray = 0
    BY <2>1 DEF IInv
  <2>3. ASSUME NEW S, \A x, y \in S : x = y PROVE S = {} \/ \E x : S = {x}
    BY <2>3
  <2>4. ASSUME NEW S, \A x, y \in S : x = y
        PROVE  Cardinality(S) \in {0, 1} /\ (S = {} => Cardinality(S) = 0)
    <3>1. CASE S = {}
      BY <3>1, FS_EmptySet
    <3>2. CASE S # {}
      <4>1. PICK x : S = {x}
        BY <2>3, <2>4, <3>2
      <4>2. QED BY <3>2, <4>1, FS_Singleton
    <3>3. QED BY <3>1, <3>2
  <2>5. /\ Cardinality(Working) \in {0, 1} /\ (Working = {} => Cardinality(Working) = 0)
        /\ Cardinality(Running) \in {0, 1} /\ (Running = {} => Cardinality(Running) = 0)
        /\ Cardinality(Waiting) \in {0, 1} /\ (Waiting = {} => Cardinality(Waiting) = 0)
    BY <2>2, <2>4 DEF OneCommand
  <2>6. QED BY <2>2, <2>5 DEF OneCommand
<1>2. QED BY <1>1, WalletInvariant, PTL

\* As long as no two flows overlap, no step of the wallet loses a coin of the
\* file or makes a spent coin active again.
THEOREM WalletFileMonotone == Spec => FileMonotone
<1> DEFINE Keeps == ~raced' => \A i \in DOMAIN file :
                        \E j \in DOMAIN file' :
                            /\ file'[j].coin = file[i].coin
                            /\ file[i].status = "Spent" => file'[j].status = "Spent"
<1>1. IInv /\ IInv' /\ [Next]_vars => [Keeps]_vars
  <2>1. SUFFICES ASSUME IInv, IInv', [Next]_vars PROVE Keeps
    OBVIOUS
  <2>2. raced => raced'
    BY <2>1, RacedStays DEF IInv
  <2>3. raced \/ Extends(file, file')
    BY <2>1, FileExtends DEF IInv
  <2>4. QED BY <2>2, <2>3 DEF Extends
<1>2. QED BY <1>1, WalletInvariant, PTL DEF Spec, FileMonotone
=============================================================================
